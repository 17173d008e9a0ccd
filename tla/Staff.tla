------------------------------- MODULE Staff -------------------------------
(***************************************************************************)
(* The administrators, their internal roles and what Redis keeps of both   *)
(* (internal-user.service.ts, roleCache.service.ts, adminRoleCache.        *)
(* service.ts), as the guard of their requests sees it (admin.role.        *)
(* guard.ts). Each request that changes something is the super admin's.    *)
(*                                                                         *)
(* A role is put into the cache from within the transaction that changes   *)
(* it, as others see it, so the cache gets what the role was before; and   *)
(* taking a role away leaves the administrator's entry in the cache. When  *)
(* Redis fails nobody is told: a read finds nothing, a write is not made,  *)
(* and the request, or its transaction, goes on.                           *)
(***************************************************************************)
EXTENDS Mishaps, FiniteSets

CONSTANTS Officers,  \* administrators but the super admin
          Titles,    \* roles
          Desks,     \* requests that may be under way at once
          MaxActs    \* bound on the requests

ASSUME StaffAssumption ==
    /\ MaxActs \in Nat /\ "none" \notin Titles
    /\ {"requestsOverlap", "requestDies", "restart", "evicted", "redis"} \subseteq Kinds

VARIABLES
    roles,    \* rows of "roles": isActive, and the permissions as a version
    before,   \* what each role was before its last change
    officer,  \* rows of "admins"
    roleKept, \* Redis: internalRole:
    mapping,  \* Redis: admin:internalRoleId:
    desk,     \* the requests under way
    filler,   \* a getter that has found nothing, with what it has read
    acts

staffVars == <<roles, before, officer, roleKept, mapping, desk, filler, acts, budget>>

\* Never created, and deleted; a deleted one does not come back.
NoRole == [there |-> FALSE, active |-> FALSE, version |-> 0]
GoneRole == [NoRole EXCEPT !.version = 1]
NewRole == [there |-> TRUE, active |-> TRUE, version |-> 1]
RoleRecords == [there : BOOLEAN, active : BOOLEAN, version : Nat]
SomeTitle == Titles \cup {"none"}
FreeDesk == [pc |-> "idle", op |-> "none", r |-> "none", a |-> "none",
             to |-> NoRole, seen |-> NoRole]
NoFill == [of |-> "none", role |-> NoRole, title |-> "none"]

StaffTypeOK ==
    /\ {roles, before, roleKept} \subseteq [Titles -> RoleRecords]
    /\ officer \in [Officers -> [there : BOOLEAN, active : BOOLEAN, title : SomeTitle]]
    /\ mapping \in [Officers -> SomeTitle]
    /\ desk \in [Desks -> [pc : {"idle", "begun", "read", "put", "written"},
                           op : {"none", "create", "change", "delete", "assign", "revoke",
                                 "suspend"},
                           r : SomeTitle, a : Officers \cup {"none"},
                           to : RoleRecords, seen : RoleRecords]]
    /\ filler \in [of : {"none"} \cup Titles \cup Officers, role : RoleRecords,
                   title : SomeTitle]
    /\ acts \in Nat

\* One role and its holder, as after a start.
StaffInit ==
    \E r \in Titles, a \in Officers :
        /\ roles = [t \in Titles |-> IF t = r THEN NewRole ELSE NoRole]
        /\ before = roles /\ roleKept = roles
        /\ officer = [o \in Officers |-> [there |-> o = a, active |-> TRUE,
                                          title |-> IF o = a THEN r ELSE "none"]]
        /\ mapping = [o \in Officers |-> officer[o].title]
        /\ desk = [d \in Desks |-> FreeDesk] /\ filler = NoFill /\ acts = 0
---------------------------------------------------------------------------
(* Roles                                                                   *)

Busy == \E d \in Desks : desk[d].pc # "idle"
\* By a transaction that has changed the row.
LockedRole(r) == \E d \in Desks : desk[d].r = r /\ desk[d].op \in {"create", "change"}
HeldRole(r) == \E a \in Officers : officer[a].there /\ officer[a].title = r

Take(d, op, r, a, to) ==
    /\ desk[d].pc = "idle" /\ acts < MaxActs /\ acts' = acts + 1
    /\ desk' = [desk EXCEPT ![d] = [FreeDesk EXCEPT !.pc = "begun", !.op = op, !.r = r,
                                                    !.a = a, !.to = to]]
    /\ IF Busy \/ filler # NoFill THEN Spend("requestsOverlap") ELSE UNCHANGED budget

CreateRole(d, r) ==
    /\ roles[r] = NoRole /\ ~LockedRole(r) /\ Take(d, "create", r, "none", NewRole)
    /\ UNCHANGED <<roles, before, officer, roleKept, mapping, filler>>

\* Other permissions, or isActive the other way; a role somebody has stays active.
UpdateRole(d, r) ==
    /\ roles[r].there /\ ~LockedRole(r)
    /\ \/ Take(d, "change", r, "none", [roles[r] EXCEPT !.version = @ + 1])
       \/ /\ roles[r].active => ~HeldRole(r)
          /\ Take(d, "change", r, "none", [roles[r] EXCEPT !.active = ~@])
    /\ UNCHANGED <<roles, before, officer, roleKept, mapping, filler>>

\* A holder that came between the check and this would lose the role (the relation is
\* optional); the two are one step here.
DeleteRole(d, r) ==
    /\ roles[r].there /\ ~HeldRole(r) /\ ~LockedRole(r)
    /\ Take(d, "delete", r, "none", GoneRole)
    /\ roles' = [roles EXCEPT ![r] = GoneRole] /\ before' = [before EXCEPT ![r] = roles[r]]
    /\ UNCHANGED <<officer, roleKept, mapping, filler>>

Moves(d, from, to) == desk[d].pc = from /\ desk' = [desk EXCEPT ![d].pc = to]
Leaves(d) == desk' = [desk EXCEPT ![d] = FreeDesk]

\* refreshRoleCache, with a connection of its own: it does not see what the transaction
\* it is called from has written.
RoleRefreshRead(d) ==
    /\ desk[d].pc = "begun" /\ desk[d].op \in {"create", "change", "delete"}
    /\ desk' = [desk EXCEPT ![d].pc = "read", ![d].seen = roles[desk[d].r]]
    /\ UNCHANGED <<roles, before, officer, roleKept, mapping, filler, acts, budget>>

\* Mutation of PutRole: what is there already stays.
PutIfMissing(r, seen) == IF roleKept[r].there THEN roleKept ELSE [roleKept EXCEPT ![r] = seen]

PutRole(r, seen) == [roleKept EXCEPT ![r] = IF seen.there THEN seen ELSE NoRole]

\* The transaction commits all the same when Redis has not taken it.
RoleRefreshPut(d) ==
    /\ desk[d].pc = "read"
    /\ \/ roleKept' = PutRole(desk[d].r, desk[d].seen) /\ UNCHANGED budget
       \/ UNCHANGED roleKept /\ Spend("redis")
    /\ IF desk[d].op = "delete" THEN Leaves(d) ELSE Moves(d, "read", "put")
    /\ UNCHANGED <<roles, before, officer, mapping, filler, acts>>

RoleCommit(d) ==
    LET r == desk[d].r
    IN  /\ desk[d].pc = "put" /\ Leaves(d)
        /\ roles' = [roles EXCEPT ![r] = desk[d].to]
        /\ before' = [before EXCEPT ![r] = roles[r]]
        /\ UNCHANGED <<officer, roleKept, mapping, filler, acts, budget>>
---------------------------------------------------------------------------
(* Administrators                                                          *)

\* getRoleWithFallback, which warms the cache.
KnownRole(r) == IF roleKept[r].there THEN roleKept[r] ELSE roles[r]

\* createInternalUser and updateInternalUser with a role: what the cache says of it is
\* what counts, or the row when Redis fails.
AssignRole(d, a, r) ==
    \E known \in {KnownRole(r), roles[r]} :
        /\ known.there /\ known.active /\ Take(d, "assign", r, a, NoRole)
        /\ roleKept' \in {PutRole(r, known), roleKept}
        /\ UNCHANGED <<roles, before, officer, mapping, filler>>

\* revokeAllInternalAccess, and updateInternalUser without a role.
RevokeRole(d, a) ==
    /\ officer[a].there /\ officer[a].title # "none" /\ Take(d, "revoke", "none", a, NoRole)
    /\ UNCHANGED <<roles, before, officer, roleKept, mapping, filler>>

SetAccountStatus(d, a) ==
    /\ officer[a].there /\ Take(d, "suspend", "none", a, NoRole)
    /\ UNCHANGED <<roles, before, officer, roleKept, mapping, filler>>

\* The row of a role that is gone cannot be referred to.
WriteOfficer(d) ==
    LET a == desk[d].a  r == desk[d].r
    IN  /\ desk[d].pc = "begun"
        /\ \/ /\ desk[d].op = "assign" /\ roles[r].there /\ Moves(d, "begun", "written")
              /\ officer' = [officer EXCEPT ![a].there = TRUE, ![a].title = r]
           \/ /\ desk[d].op = "assign" /\ ~roles[r].there /\ Leaves(d) /\ UNCHANGED officer
           \/ /\ desk[d].op = "revoke" /\ Moves(d, "begun", "written")
              /\ officer' = [officer EXCEPT ![a].title = "none"]
           \/ /\ desk[d].op = "suspend" /\ Moves(d, "begun", "written")
              /\ officer' = [officer EXCEPT ![a].active = ~@]
        /\ UNCHANGED <<roles, before, roleKept, mapping, filler, acts, budget>>

\* cacheAdminRole does nothing without a role.
Mapped(a, r) == IF r = "none" THEN mapping ELSE [mapping EXCEPT ![a] = r]

PutMapping(d) ==
    /\ desk[d].pc = "written" /\ Leaves(d)
    /\ \/ mapping' = Mapped(desk[d].a, desk[d].r) /\ UNCHANGED budget
       \/ UNCHANGED mapping /\ Spend("redis")
    /\ UNCHANGED <<roles, before, officer, roleKept, filler, acts>>
---------------------------------------------------------------------------
(* The guard                                                               *)

\* getAdminInternalRoleId: the entry, or else the row, without which it throws.
KeptTitle(a) == IF mapping[a] # "none" THEN mapping[a] ELSE officer[a].title

\* AdminRolesGuard, of a token that names a role.
RoleConfirmed(a, claimed) == KeptTitle(a) # "none" /\ KeptTitle(a) = claimed

\* A getter finds nothing, though there may be something when Redis fails, reads the
\* row, and puts it later, if Redis takes it.
GuardMisses ==
    /\ filler = NoFill
    /\ \E there \in BOOLEAN :
          /\ \/ \E r \in Titles : /\ roleKept[r].there = there /\ roles[r].there
                                  /\ filler' = [NoFill EXCEPT !.of = r, !.role = roles[r]]
             \/ \E a \in Officers : /\ (mapping[a] # "none") = there
                                    /\ officer[a].title # "none"
                                    /\ filler' = [NoFill EXCEPT !.of = a,
                                                                !.title = officer[a].title]
          /\ IF Busy THEN Spend("requestsOverlap")
             ELSE IF there THEN Spend("redis") ELSE UNCHANGED budget
    /\ UNCHANGED <<roles, before, officer, roleKept, mapping, desk, acts>>

GuardFills ==
    /\ filler # NoFill /\ filler' = NoFill
    /\ \/ /\ filler.of \in Titles /\ UNCHANGED mapping
          /\ roleKept' = PutRole(filler.of, filler.role)
       \/ /\ filler.of \in Officers /\ UNCHANGED roleKept
          /\ mapping' = Mapped(filler.of, filler.title)
       \/ UNCHANGED <<roleKept, mapping>>
    /\ UNCHANGED <<roles, before, officer, desk, acts, budget>>

\* Redis evicts an entry.
StaffEvicted ==
    /\ Spend("evicted")
    /\ \/ \E r \in Titles : /\ roleKept[r].there /\ UNCHANGED mapping
                            /\ roleKept' = [roleKept EXCEPT ![r] = NoRole]
       \/ \E a \in Officers : /\ mapping[a] # "none" /\ UNCHANGED roleKept
                              /\ mapping' = [mapping EXCEPT ![a] = "none"]
    /\ UNCHANGED <<roles, before, officer, desk, filler, acts>>

\* A request ends where it is: its transaction, if it is in one, is rolled back.
StaffError(d) ==
    /\ desk[d].pc # "idle" /\ Spend("requestDies") /\ Leaves(d)
    /\ UNCHANGED <<roles, before, officer, roleKept, mapping, filler, acts>>

\* A start, after the process has died: both caches are loaded, over what is in them,
\* if Redis takes it.
StaffRestart ==
    /\ desk' = [d \in Desks |-> FreeDesk] /\ filler' = NoFill
    /\ \/ /\ Spend("restart")
          /\ roleKept' = [r \in Titles |-> IF roles[r].there THEN roles[r] ELSE roleKept[r]]
          /\ mapping' = [a \in Officers |-> IF officer[a].title # "none"
                                            THEN officer[a].title ELSE mapping[a]]
       \/ Spend("redis") /\ UNCHANGED <<roleKept, mapping>>
    /\ UNCHANGED <<roles, before, officer, acts>>
---------------------------------------------------------------------------
StaffNext ==
    \/ GuardMisses \/ GuardFills \/ StaffEvicted \/ StaffRestart
    \/ \E d \in Desks :
           \/ RoleRefreshRead(d) \/ RoleRefreshPut(d) \/ RoleCommit(d)
           \/ WriteOfficer(d) \/ PutMapping(d) \/ StaffError(d)
           \/ \E r \in Titles : \/ CreateRole(d, r) \/ UpdateRole(d, r) \/ DeleteRole(d, r)
                                \/ \E a \in Officers : AssignRole(d, a, r)
           \/ \E a \in Officers : RevokeRole(d, a) \/ SetAccountStatus(d, a)

\* The administrators' own behaviours.
StaffSpec == StaffInit /\ budget = Budget /\ [][StaffNext]_staffVars
---------------------------------------------------------------------------
(***************************************************************************)
(* Properties                                                              *)
(***************************************************************************)
\* However many changes a role has seen, the cache is one of them behind at the worst,
\* unless requests overlap or Redis does not take what it is told; it is two behind only
\* while a deletion is on its way to the cache, or did not get there.
DeletionUnseen(r) == roles[r] = GoneRole /\ (Busy \/ ~Untouched({"requestDies", "restart"}))
RoleOneBehind ==
    Untouched({"requestsOverlap", "redis"}) =>
        \A r \in Titles : \/ roleKept[r] \in {NoRole, roles[r], before[r]}
                          \/ DeletionUnseen(r)

\* An administrator who has a role and signs in again is let in with it, unless requests
\* have overlapped, one has died before the entry was written, or Redis has not taken it:
\* an entry a revocation has left behind does not stand in the way of the next role.
HolderConfirmed ==
    Untouched({"requestsOverlap", "requestDies", "redis"}) /\ ~Busy =>
        \A a \in Officers : officer[a].title # "none" => RoleConfirmed(a, officer[a].title)

\* The caches follow the rows, as far as they do.
StaffCaches == RoleOneBehind /\ HolderConfirmed
=============================================================================
