----------------------------- MODULE Snapshots -----------------------------
(***************************************************************************)
(* Passes over all users in pages: the weekly snapshot of their balances   *)
(* and the daily percentage.  The weekly one runs in every process with    *)
(* schedulers, with neither queue nor lock, reads a user's wallets and     *)
(* writes the row of the user and the Sunday in one transaction; it pages  *)
(* by offset in the order of the ids.  The daily one pages in no order and *)
(* adds a row each time.  Balances are counted, not valued.                *)
(***************************************************************************)
EXTENDS Mishaps, FiniteSets

CONSTANTS Users,   \* numbers, in the order of their ids
          Batch,   \* BATCH_SIZE
          Sweepers,  \* processes
          Changes  \* of balances during the pass, at most

ASSUME SnapshotsAssumption ==
    /\ Users \subseteq Nat /\ IsFiniteSet(Users) /\ Batch \in Nat \ {0} /\ Changes \in Nat
    /\ {"error", "changed"} \subseteq Kinds

VARIABLES members, \* users there are; none is ever deleted
          worth,   \* how often each one's balance has changed
          weekly,  \* the rows of this Sunday: the balance they show
          daily,   \* rows of percentages, of each user
          sweep,    \* passes under way
          outset   \* balances when the first pass of the week began

snapshotVars == <<members, worth, weekly, daily, sweep, outset>>

NoSnapshot == -1
NoSweep == [kind |-> "none", at |-> "none", offset |-> 0, page |-> {}, seen |-> NoSnapshot]

SnapshotTypeOK ==
    /\ members \subseteq Users
    /\ worth \in [Users -> 0..Changes] /\ weekly \in [Users -> {NoSnapshot} \cup 0..Changes]
    /\ daily \in [Users -> Nat]
    /\ sweep \in [Sweepers -> [kind : {"none", "weekly", "daily"},
                            at : {"none", "paging", "users", "read", "done"},
                            offset : Nat, page : SUBSET Users,
                            seen : {NoSnapshot} \cup 0..Changes]]
    /\ outset \in [Users -> {NoSnapshot} \cup 0..Changes]

SnapshotInit ==
    /\ members \in {M \in SUBSET Users : Cardinality(Users \ M) <= 1}
    /\ worth = [u \in Users |-> 0]
    /\ weekly = [u \in Users |-> NoSnapshot] /\ outset = [u \in Users |-> NoSnapshot]
    /\ daily = [u \in Users |-> 0]
    /\ sweep = [p \in Sweepers |-> NoSweep]

-----------------------------------------------------------------------------
Rank(u) == Cardinality({v \in members : v <= u})
First(S) == CHOOSE u \in S : \A v \in S : u <= v
\* findMany with skip and take: in the order of the ids, or in any.
InOrder(offset) == {{u \in members : Rank(u) > offset /\ Rank(u) <= offset + Batch}}
AnyOrder(offset) ==
    LET size == IF Cardinality(members) <= offset THEN 0
                ELSE IF Cardinality(members) - offset < Batch
                     THEN Cardinality(members) - offset ELSE Batch
    IN  {S \in SUBSET members : Cardinality(S) = size}

StartSweep(p, kind) ==
    /\ sweep[p] = NoSweep
    /\ sweep' = [sweep EXCEPT ![p] = [NoSweep EXCEPT !.kind = kind, !.at = "paging"]]
    /\ outset' = IF kind = "weekly" /\ \A q \in Sweepers : sweep[q].kind # "weekly"
                 THEN [u \in Users |-> IF u \in members THEN worth[u] ELSE NoSnapshot]
                 ELSE outset
    /\ UNCHANGED <<members, worth, weekly, daily, budget>>

NextPage(p) ==
    /\ sweep[p].at = "paging"
    /\ \E page \in IF sweep[p].kind = "weekly" THEN InOrder(sweep[p].offset)
                   ELSE AnyOrder(sweep[p].offset) :
           sweep' = [sweep EXCEPT ![p].page = page,
                                ![p].at = IF page = {} THEN "done" ELSE "users"]
    /\ UNCHANGED <<members, worth, weekly, daily, outset, budget>>

\* One user less to do, and the next page after the last one.
OneMore == Batch + 1
PageStep == Batch
Advanced(p) ==
    LET rest == sweep[p].page \ {First(sweep[p].page)}
    IN  [sweep EXCEPT ![p].page = rest, ![p].seen = NoSnapshot,
             ![p].at = IF rest = {} THEN "paging" ELSE "users",
             ![p].offset = IF rest = {} THEN @ + PageStep ELSE @]

\* calculateUserBalance of the wallets read in the transaction ...
ReadWallets(p) ==
    /\ sweep[p].kind = "weekly" /\ sweep[p].at = "users"
    /\ sweep' = [sweep EXCEPT ![p].at = "read", ![p].seen = worth[First(sweep[p].page)]]
    /\ UNCHANGED <<members, worth, weekly, daily, outset, budget>>

\* ... and the upsert of the row of the user and the Sunday.
SaveSnapshot(p) ==
    /\ sweep[p].at = "read"
    /\ weekly' = [weekly EXCEPT ![First(sweep[p].page)] = sweep[p].seen]
    /\ sweep' = Advanced(p)
    /\ UNCHANGED <<members, worth, daily, outset, budget>>

\* Counted, and the pass goes on.
SkipUser(p) ==
    /\ sweep[p].at \in {"users", "read"} /\ Spend("error")
    /\ sweep' = Advanced(p)
    /\ UNCHANGED <<members, worth, weekly, daily, outset>>

\* The upsert looks for an id no row has: it always creates.
SavePercentage(p) ==
    /\ sweep[p].kind = "daily" /\ sweep[p].at = "users"
    /\ daily' = [daily EXCEPT ![First(sweep[p].page)] = @ + 1]
    /\ sweep' = Advanced(p)
    /\ UNCHANGED <<members, worth, weekly, outset, budget>>

\* Meanwhile: somebody signs up, a balance changes.
NewUser(u) ==
    /\ u \notin members /\ members' = members \cup {u}
    /\ UNCHANGED <<worth, weekly, daily, sweep, outset, budget>>

Change(u) ==
    /\ u \in members /\ worth[u] < Changes /\ Spend("changed")
    /\ worth' = [worth EXCEPT ![u] = @ + 1]
    /\ UNCHANGED <<members, weekly, daily, sweep, outset>>

SnapshotNext ==
    \/ \E p \in Sweepers : \/ \E kind \in {"weekly", "daily"} : StartSweep(p, kind)
                         \/ NextPage(p) \/ ReadWallets(p) \/ SaveSnapshot(p)
                         \/ SkipUser(p) \/ SavePercentage(p)
    \/ \E u \in Users : NewUser(u) \/ Change(u)

-----------------------------------------------------------------------------
\* When a pass is over, everyone who was there has the row of this Sunday, and
\* it shows a balance of this week's passes: whoever signed up meanwhile, and
\* whichever process wrote it last.
EveryoneShown ==
    (Untouched({"error"}) /\ \E p \in Sweepers : sweep[p].kind = "weekly" /\ sweep[p].at = "done")
        => \A u \in Users : outset[u] # NoSnapshot => weekly[u] >= outset[u]
=============================================================================
