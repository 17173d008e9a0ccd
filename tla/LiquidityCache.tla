--------------------------- MODULE LiquidityCache ---------------------------
(***************************************************************************)
(* The Redis copy of CompanyLiquidity: one hash with a field for each      *)
(* currency, and one time to live for all of them, which every write of a  *)
(* field sets anew.  Transactions change the row without it; it is filled  *)
(* by a read that misses, by the release after a failed retry, and for all *)
(* currencies at once every second hour.  Only the age of what it holds is *)
(* kept, in units in which a fill takes no time.                           *)
(***************************************************************************)
EXTENDS Mishaps, FiniteSets

CONSTANTS Currencies, \* fields of the hash
          Ttl,        \* CACHE_TTL_SECONDS, in units
          Readers     \* requests and jobs at once

ASSUME CacheAssumption ==
    /\ Ttl \in Nat \ {0} /\ IsFiniteSet(Currencies) /\ "none" \notin Currencies
    /\ {"refusal", "crash", "error"} \subseteq Kinds

VARIABLES age,     \* how long ago each field's row was read
          expires, \* what is left of the time to live
          fetched  \* a row on its way from the database into the hash

cacheVars == <<age, expires, fetched>>

Absent == -1   \* no such field
Never  == -1   \* the key has no time to live
NoField == "none"

CacheTypeOK ==
    /\ age \in [Currencies -> Nat \cup {Absent}]
    /\ expires \in {Never} \cup 0..Ttl
    /\ fetched \in [Readers -> Currencies \cup {NoField}]

CacheInit ==
    /\ age = [c \in Currencies |-> Absent]
    /\ expires = 0
    /\ fetched = [r \in Readers |-> NoField]

Present(c) == age[c] # Absent
AnyField == \E c \in Currencies : Present(c)

-----------------------------------------------------------------------------
\* A read that asks the database on a hit as well.
LookupAgain(r, c) ==
    /\ fetched[r] = NoField
    /\ fetched' = [fetched EXCEPT ![r] = c]
    /\ UNCHANGED <<age, expires, budget>>

\* getAvailableLiquidity outside of a transaction: a hit is answered from the
\* hash as it is, a miss from the row.
Lookup(r, c) ==
    /\ fetched[r] = NoField /\ ~ Present(c)
    /\ fetched' = [fetched EXCEPT ![r] = c]
    /\ UNCHANGED <<age, expires, budget>>

\* releaseLiquidity outside of a transaction, after a provider has refused a
\* retry, reads the row again whether the hash has it or not.
Refresh(r, c) ==
    /\ fetched[r] = NoField /\ Spend("refusal")
    /\ fetched' = [fetched EXCEPT ![r] = c]
    /\ UNCHANGED <<age, expires>>

\* setCache: HSET of the field, and EXPIRE of the whole key.  A crash between
\* them leaves the key as it was, without a time to live if it is new; hSet
\* keeps its error to itself, and the others live on all the same.
Fill(r) ==
    /\ fetched[r] # NoField
    /\ fetched' = [fetched EXCEPT ![r] = NoField]
    /\ \/ /\ age' = [age EXCEPT ![fetched[r]] = 0] /\ expires' = Ttl
          /\ UNCHANGED budget
       \/ /\ age' = [age EXCEPT ![fetched[r]] = 0]
          /\ expires' = (IF AnyField THEN expires ELSE Never) /\ Spend("crash")
       \/ /\ expires' = (IF AnyField THEN Ttl ELSE expires) /\ Spend("error")
          /\ UNCHANGED age

\* syncAllToCache.
FillAll ==
    /\ age' = [c \in Currencies |-> 0] /\ expires' = Ttl
    /\ UNCHANGED <<fetched, budget>>

Older(c) == IF Present(c) THEN age[c] + 1 ELSE Absent
OldestKept == Ttl * (Cardinality(Currencies) + Budget["refusal"] + Budget["error"])

\* Time passes; Redis drops the key with all of its fields.
CacheTick ==
    /\ \A r \in Readers : fetched[r] = NoField
    /\ AnyField
    /\ \/ /\ expires = 1
          /\ age' = [c \in Currencies |-> Absent] /\ expires' = 0
       \/ /\ expires > 1
          /\ age' = [c \in Currencies |-> Older(c)] /\ expires' = expires - 1
       \/ /\ expires = Never /\ \A c \in Currencies : age[c] < OldestKept
          /\ age' = [c \in Currencies |-> Older(c)] /\ UNCHANGED expires
    /\ UNCHANGED <<fetched, budget>>

CacheNext == \/ \E r \in Readers, c \in Currencies : Lookup(r, c) \/ Refresh(r, c)
             \/ \E r \in Readers : Fill(r)
             \/ FillAll \/ CacheTick

-----------------------------------------------------------------------------
\* A currency read late keeps the others alive with it, so that a value may be
\* older than the time to live, but only once for each other currency, each
\* refused retry and each failed write: unless a key has lost its time to live
\* to a crash.
StaleBounded ==
    Untouched({"crash"}) =>
        \A c \in Currencies :
            age[c] < Ttl * (Cardinality(Currencies) + Spent({"refusal", "error"}))
=============================================================================
