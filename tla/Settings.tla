------------------------------ MODULE Settings ------------------------------
(***************************************************************************)
(* The settings that administrators change and every quotation reads from  *)
(* Redis: amount ranges and, next to them, the other terms. The four       *)
(* families share a shape and differ in detail:                            *)
(*   "repayment"  urgent-liquidity-settings.service.ts                     *)
(*   "fees"       auto-stacking-settings.service.ts                        *)
(*   "tiers"      crypto-buffer-rate.service.ts                            *)
(*   "rates"      crypto-currency-rate.service.ts (terms, no ranges)       *)
(* A request checks what it has read, writes, and reads once more for the  *)
(* cache, which has no expiry; readers fill it when it is empty. When      *)
(* Redis fails that is logged only: nothing is found, or put.              *)
(***************************************************************************)
EXTENDS Mishaps, FiniteSets

CONSTANTS Families, Admins, Rows,
          Groups,  \* what ranges are told apart by: a currency, an order type
          Asked,   \* the ranges that administrators ask for
          MaxOps   \* bound on their requests

ASSUME SettingsAssumption ==
    /\ Families \subseteq {"repayment", "fees", "tiers", "rates"}
    /\ IsFiniteSet(Admins) /\ "none" \notin Groups
    /\ Asked \subseteq [from : Nat, to : Nat] /\ MaxOps \in Nat
    /\ {"adminsOverlap", "unchecked", "patched", "newTerms", "lateFill", "error", "cacheLost",
        "crash"} \subseteq Kinds
    /\ \A k \in {"adminsOverlap", "unchecked", "patched", "newTerms", "lateFill"} : Budget[k] > 0

VARIABLES
    family,
    range,   \* the rows: [from, to, group]
    terms,   \* version of the other settings
    cached,  \* what the getters read: the key ":all", or those of each symbol
    admin,   \* requests under way, with what they will write and have read
    reader,  \* a getter that found nothing, with what it has read
    ops

settingsVars == <<family, range, terms, cached, admin, reader, ops, budget>>

NoRow == [from |-> 0, to |-> 0, group |-> "none"]
RangeRows == [from : Nat, to : Nat, group : Groups]
Candidates == {[from |-> r.from, to |-> r.to, group |-> g] : r \in Asked, g \in Groups}
Tables == [Rows -> RangeRows \cup {NoRow}]
Contents == [full : BOOLEAN, range : Tables, terms : 0..MaxOps]

Stored == [full |-> TRUE, range |-> range, terms |-> terms]
Nothing == [full |-> FALSE, range |-> [i \in Rows |-> NoRow], terms |-> 0]
Resting == [pc |-> "idle", new |-> {}, row |-> {}, given |-> {}, read |-> Nothing]

SettingsTypeOK ==
    /\ family \in Families /\ range \in Tables /\ terms \in 0..MaxOps
    /\ cached \in Contents
    /\ \A a \in Admins :
          /\ admin[a].pc \in {"idle", "create", "update", "delete", "terms",
                              "bulkTerms", "patch", "bulkPatch", "commit",
                              "bulkCommit", "read", "put"}
          /\ admin[a].new \subseteq RangeRows /\ admin[a].row \subseteq Rows
          /\ admin[a].given \subseteq {"from", "to", "group"}
          /\ admin[a].read \in Contents
    /\ reader \in [filling : BOOLEAN, read : Contents] /\ ops \in 0..MaxOps

\* Every cache is filled when the application starts.
SettingsInit ==
    /\ family \in Families /\ range = Nothing.range /\ terms = 0
    /\ cached = Stored
    /\ admin = [a \in Admins |-> Resting]
    /\ reader = [filling |-> FALSE, read |-> Nothing] /\ ops = 0

\* Mutation of Overlap: a range around the existing one is let through.
OverlapAtEnds(r, s) == \/ r.from >= s.from /\ r.from <= s.to
                       \/ r.to >= s.from /\ r.to <= s.to

Overlap(r, s) == \/ r.from >= s.from /\ r.from <= s.to
                 \/ r.to >= s.from /\ r.to <= s.to
                 \/ r.from < s.from /\ r.to > s.to

UsedRows == {i \in Rows : range[i] # NoRow}
UnusedRows == Rows \ UsedRows
Free(r, rows) == \A i \in rows : range[i].group = r.group => ~Overlap(r, range[i])
Ordered(r) == IF family = "tiers" THEN r.from <= r.to
              ELSE 0 < r.from /\ r.from < r.to
---------------------------------------------------------------------------
(* What a request checks before it writes                                  *)

Begin(a, pc, new, row, given, notes) ==
    LET busy == \E b \in Admins : admin[b].pc # "idle"
    IN  /\ admin[a].pc = "idle" /\ ops < MaxOps /\ ops' = ops + 1
        /\ admin' = [admin EXCEPT ![a] = [Resting EXCEPT
              !.pc = pc, !.new = new, !.row = row, !.given = given]]
        /\ NoteAll(notes \cup IF busy THEN {"adminsOverlap"} ELSE {})
        /\ UNCHANGED <<family, range, terms, cached, reader>>

Create(a, r, notes) == /\ Ordered(r) /\ UnusedRows # {}
                       /\ Begin(a, "create", {r}, {}, {}, notes)

CreateFee(a) ==
    \E r \in Candidates : /\ family = "fees" /\ Free(r, UsedRows)
                          /\ Create(a, r, {})

\* The currency is looked for as it was typed, and stored in capitals.
CreateRepayment(a) ==
    \E r \in Candidates, typed \in {"upper", "lower"} :
        /\ family = "repayment"
        /\ \/ typed = "upper" /\ Free(r, UsedRows) /\ Create(a, r, {})
           \/ typed = "lower" /\ Create(a, r, {"unchecked"})

\* A tier from nothing is not looked at, zero being falsy.
CreateTier(a) ==
    \E r \in Candidates :
        /\ family = "tiers"
        /\ \/ r.from > 0 /\ Free(r, UsedRows) /\ Create(a, r, {})
           \/ r.from = 0 /\ Create(a, r, {"unchecked"})

Apart(r, s) == r.group = s.group => ~Overlap(r, s)

BulkCreate(a) ==
    \E r, s \in Candidates :
        /\ Cardinality(UnusedRows) > 1
        /\ Ordered(r) /\ Ordered(s) /\ Apart(r, s)
        /\ Free(r, UsedRows) /\ Free(s, UsedRows)
        /\ Begin(a, "create", {r, s}, {}, {}, {})

BulkCreateFees(a) == family = "fees" /\ BulkCreate(a)
BulkCreateRepayments(a) == family = "repayment" /\ BulkCreate(a)

\* A row with the fields that a request gives, its currency perhaps among them.
Updated(row, given, new) ==
    [from |-> IF "from" \in given THEN new.from ELSE row.from,
     to |-> IF "to" \in given THEN new.to ELSE row.to,
     group |-> IF "group" \in given THEN new.group ELSE row.group]

\* Checked against the ranges of the currency it is to have. The order of the ends is
\* looked at only when both are given.
UpdateRange(a) ==
    \E i \in UsedRows, given \in SUBSET {"from", "to", "group"}, asked \in Candidates :
        LET r == Updated(range[i], given, asked)
        IN  /\ family \in {"fees", "repayment"} /\ 0 < asked.from
            /\ {"from", "to"} \subseteq given => r.from < r.to
            /\ Free(r, UsedRows \ {i})
            /\ Begin(a, "update", {r}, {i}, given,
                   IF r.from < r.to THEN {} ELSE {"unchecked"})

DeleteRange(a) == \E i \in UsedRows : Begin(a, "delete", {}, {i}, {}, {})

\* Nothing is checked against the other tiers.
Patch(a, pc, notes) ==
    \E i \in UsedRows, r \in Candidates :
        LET free == Free(r, UsedRows \ {i})
        IN  /\ family = "tiers" /\ r.group = range[i].group /\ Ordered(r)
            /\ Begin(a, pc, {r}, {i}, {},
                     notes \cup IF free THEN {} ELSE {"unchecked"})

PatchTier(a) == Patch(a, "patch", {"patched"})
BulkPatch(a) == Patch(a, "bulkPatch", {})

UpdateTerms(a) == /\ family \in {"fees", "repayment"}
                  /\ Begin(a, "terms", {}, {}, {}, {"newTerms"})
UpdateRate(a) == family = "rates" /\ Begin(a, "terms", {}, {}, {}, {})
BulkUpdateRates(a) == family = "rates" /\ Begin(a, "bulkTerms", {}, {}, {}, {})

\* A missing rate counts as zero, and zero is what is written for it: what is
\* left is a refresh.
InitializeRates(a) == family = "rates" /\ Begin(a, "read", {}, {}, {}, {})
---------------------------------------------------------------------------
(* What it writes                                                          *)

\* What was written is of no use to a request that goes on.
Goes(a, pc) == admin' = [admin EXCEPT ![a] = [Resting EXCEPT !.pc = pc]]

\* The refresh after new terms of "repayment" and "fees" is of a key that nobody
\* reads; after several new rates the cache is emptied; that of a patch is over.
AfterWrite(op) ==
    CASE op \in {"create", "update", "delete", "bulkCommit"} -> "read"
      [] op = "terms" -> IF family = "rates" THEN "read" ELSE "idle"
      [] op = "bulkTerms" -> "put"
      [] op = "commit" -> "idle"

\* Rows of ranges, and of fees, are unique in the database.
OtherRows(i) == {range[k] : k \in UsedRows \ {i}}

WriteNew(a) ==
    LET new == admin[a].new
        able == /\ Cardinality(UnusedRows) >= Cardinality(new)
                /\ family # "tiers" => \A i \in UsedRows : range[i] \notin new
        put == CHOOSE f \in Injection(new, UnusedRows) : TRUE
    IN  /\ admin[a].pc = "create"
        /\ IF able
           THEN /\ range' = [i \in Rows |-> IF \E r \in new : put[r] = i
                                            THEN CHOOSE r \in new : put[r] = i
                                            ELSE range[i]]
                /\ Goes(a, AfterWrite("create"))
           ELSE Goes(a, "idle") /\ UNCHANGED range
        /\ UNCHANGED <<family, terms, cached, reader, ops, budget>>

WriteOld(a) ==
    \E i \in admin[a].row :
        LET new == CHOOSE r \in admin[a].new : TRUE
            merged == Updated(range[i], admin[a].given, new)
        IN  /\ admin[a].pc \in {"update", "delete"}
            /\ IF range[i] = NoRow \/ (admin[a].pc = "update" /\ merged \in OtherRows(i))
               THEN Goes(a, "idle") /\ UNCHANGED range
               ELSE /\ range' = [range EXCEPT ![i] =
                          IF admin[a].pc = "update" THEN merged ELSE NoRow]
                    /\ Goes(a, AfterWrite(admin[a].pc))
            /\ UNCHANGED <<family, terms, cached, reader, ops, budget>>

WriteTerms(a) ==
    /\ admin[a].pc \in {"terms", "bulkTerms"}
    /\ terms' = terms + 1
    /\ Goes(a, AfterWrite(admin[a].pc))
    /\ UNCHANGED <<family, range, cached, reader, ops, budget>>

\* patchCrypto: the cache is refreshed over another connection, before the
\* transaction commits.
PatchRefresh(a) ==
    /\ admin[a].pc \in {"patch", "bulkPatch"}
    /\ \/ cached' = Stored /\ UNCHANGED budget
       \/ UNCHANGED cached /\ Spend("error")
    /\ admin' = [admin EXCEPT ![a].pc = IF @ = "patch" THEN "commit"
                                        ELSE "bulkCommit"]
    /\ UNCHANGED <<family, range, terms, reader, ops>>

PatchCommit(a) ==
    \E i \in admin[a].row :
        /\ admin[a].pc \in {"commit", "bulkCommit"}
        /\ IF range[i] = NoRow THEN UNCHANGED range
           ELSE range' = [range EXCEPT ![i] = CHOOSE r \in admin[a].new : TRUE]
        /\ Goes(a, AfterWrite(admin[a].pc))
        /\ UNCHANGED <<family, terms, cached, reader, ops, budget>>
---------------------------------------------------------------------------
(* The caches                                                              *)

RefreshRead(a) ==
    /\ admin[a].pc = "read"
    /\ admin' = [admin EXCEPT ![a].pc = "put", ![a].read = Stored]
    /\ UNCHANGED <<family, range, terms, cached, reader, ops, budget>>

\* A refresh of ranges keeps the terms that are cached; a request that has read
\* nothing (a bulk update) empties the cache.
RefreshPut(a) ==
    LET read == admin[a].read
        onlyRanges == family \in {"fees", "repayment"}
    IN  /\ admin[a].pc = "put"
        /\ Goes(a, "idle")
        /\ \/ /\ cached' = IF ~onlyRanges THEN read
                           ELSE IF cached.full THEN [cached EXCEPT !.range = read.range]
                           ELSE Stored
              /\ UNCHANGED budget
           \/ /\ Spend("error")
              /\ \/ UNCHANGED cached
                 \/ onlyRanges /\ cached' = Stored
        /\ UNCHANGED <<family, range, terms, reader, ops>>

LookupMisses ==
    /\ ~reader.filling
    /\ IF cached.full THEN Spend("error") ELSE UNCHANGED budget
    /\ reader' = [filling |-> TRUE, read |-> Stored]
    /\ UNCHANGED <<family, range, terms, cached, admin, ops>>

LookupFills ==
    /\ reader.filling /\ reader' = [filling |-> FALSE, read |-> Nothing]
    /\ \/ cached' = reader.read /\ Note(reader.read # Stored, "lateFill")
       \/ UNCHANGED <<cached, budget>>
    /\ UNCHANGED <<family, range, terms, admin, ops>>

CacheLost ==
    /\ cached.full /\ Spend("cacheLost")
    /\ cached' = Nothing
    /\ UNCHANGED <<family, range, terms, admin, reader, ops>>

Restart ==
    /\ \/ Spend("crash") /\ cached' = Stored
       \/ Spend("error") /\ UNCHANGED cached
    /\ admin' = [a \in Admins |-> Resting]
    /\ reader' = [filling |-> FALSE, read |-> Nothing]
    /\ UNCHANGED <<family, range, terms, ops>>

SettingsNext ==
    \/ \E a \in Admins :
         \/ CreateFee(a) \/ CreateRepayment(a) \/ CreateTier(a)
         \/ BulkCreateFees(a) \/ BulkCreateRepayments(a)
         \/ UpdateRange(a) \/ DeleteRange(a) \/ PatchTier(a) \/ BulkPatch(a)
         \/ UpdateTerms(a) \/ UpdateRate(a) \/ BulkUpdateRates(a)
         \/ InitializeRates(a)
         \/ WriteNew(a) \/ WriteOld(a) \/ WriteTerms(a)
         \/ PatchRefresh(a) \/ PatchCommit(a) \/ RefreshRead(a) \/ RefreshPut(a)
    \/ LookupMisses \/ LookupFills \/ CacheLost \/ Restart
---------------------------------------------------------------------------
(***************************************************************************)
(* Properties                                                              *)
(***************************************************************************)
\* An amount is in one range of its group at most, so it does not matter which
\* is found first; and every range has its ends in order. Unless two requests
\* check before either writes, or one of the checks has been got round.
RangesDisjoint ==
    Untouched({"adminsOverlap", "unchecked"}) =>
        \A i \in UsedRows :
            /\ range[i].from <= range[i].to
            /\ \A k \in UsedRows \ {i}, n \in range[i].from..range[i].to :
                  ~ /\ range[i].group = range[k].group
                    /\ range[k].from <= n /\ n <= range[k].to

\* With no request under way, what is cached is what is stored, through deleted
\* rows, emptied caches and restarts: unless two requests refresh at once, a
\* reader puts what it has read before, Redis refuses, a single cryptocurrency
\* was patched, or terms were changed that only a restart makes visible.
CacheCurrent ==
    (\A a \in Admins : admin[a].pc = "idle") /\ ~reader.filling /\ cached.full =>
        /\ Untouched({"adminsOverlap", "lateFill", "error", "patched"}) =>
              cached.range = range
        /\ Untouched({"adminsOverlap", "lateFill", "error", "newTerms"}) =>
              cached.terms = terms
=============================================================================
