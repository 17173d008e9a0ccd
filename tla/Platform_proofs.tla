-------------------------- MODULE Platform_proofs --------------------------
(***************************************************************************)
(* What the parts of Platform never do, whatever their constants: each     *)
(* part has an inductive invariant of its own, and no part disturbs that   *)
(* of another, since a behaviour is one of one part and the mishaps they   *)
(* share are only counted down.                                            *)
(***************************************************************************)
EXTENDS Platform, People_proofs
---------------------------------------------------------------------------
(* The cache of the liquidity.                                             *)

Delays == {"refusal", "error"}

Pending == {c \in Currencies : \E r \in Readers : fetched[r] = c}
Presents == {c \in Currencies : Present(c)}
Resting0 == \A r \in Readers : fetched[r] = NoField

\* Every currency that is there, every row on its way, and every delay that was spent
\* make room for one more time to live.
Room(n) == Ttl * (n + Spent(Delays))

CacheAges ==
    Untouched({"crash"}) =>
        /\ AnyField => expires \in 1..Ttl
        /\ \A c \in Currencies : Present(c) =>
               age[c] + (IF Pending = {} THEN expires ELSE Ttl)
                   <= Room(Cardinality(Presents \cup Pending))

CacheInv == Budgets /\ CacheTypeOK /\ CacheAges

LEMMA RoomGrows ==
    ASSUME NEW a \in Nat, NEW b \in Nat, a <= b
    PROVE  Ttl * a <= Ttl * b /\ Ttl * (a + 1) = Ttl * a + Ttl /\ Ttl * a \in Nat
<1>1. Ttl \in Nat
  BY CacheAssumption
<1>2. PICK d \in Nat : b = a + d
  <2>1. b - a \in Nat /\ b = a + (b - a)
    OBVIOUS
  <2>. QED  BY <2>1
<1>3. Ttl * b = Ttl * a + Ttl * d
  BY <1>1, <1>2
<1>4. Ttl * d \in Nat /\ Ttl * a \in Nat
  BY <1>1
<1>. QED  BY <1>1, <1>3, <1>4

LEMMA CacheSets ==
    ASSUME CacheInv
    PROVE  /\ IsFiniteSet(Presents) /\ IsFiniteSet(Pending) /\ IsFiniteSet(Presents \cup Pending)
           /\ Cardinality(Presents) \in Nat /\ Cardinality(Presents \cup Pending) \in Nat
           /\ Cardinality(Presents) <= Cardinality(Presents \cup Pending)
           /\ Cardinality(Presents \cup Pending) <= Cardinality(Currencies)
           /\ Cardinality(Currencies) \in Nat
<1>1. /\ Presents \subseteq Presents \cup Pending /\ Presents \cup Pending \subseteq Currencies
      /\ Pending \subseteq Currencies /\ Presents \subseteq Currencies
  BY DEF Presents, Pending
<1>2. IsFiniteSet(Currencies)
  BY CacheAssumption
<1>3. IsFiniteSet(Presents) /\ IsFiniteSet(Pending) /\ IsFiniteSet(Presents \cup Pending)
  BY <1>1, <1>2, FS_Subset
<1>. QED  BY <1>1, <1>2, <1>3, FS_Subset, FS_CardinalityType

LEMMA CacheStarts == ASSUME budget = Budget, CacheInit PROVE CacheInv
<1>1. Budgets
  BY BudgetsInit
<1>2. CacheTypeOK
  BY CacheAssumption DEF CacheInit, CacheTypeOK, Absent, NoField
<1>3. \A c \in Currencies : ~Present(c)
  BY DEF CacheInit, Present
<1>. QED  BY <1>1, <1>2, <1>3 DEF CacheInv, CacheAges, AnyField

\* Before a row is on its way there is room for one more.
LEMMA CacheSaysBounded == ASSUME CacheInv PROVE StaleBounded
<1>. SUFFICES ASSUME Untouched({"crash"}), NEW c \in Currencies
              PROVE  age[c] < Ttl * (Cardinality(Currencies) + Spent(Delays))
  BY DEF StaleBounded, Delays
<1>1. Spent(Delays) \in Nat
  BY CacheAssumption, SpentNatural DEF CacheInv, Delays
<1>. DEFINE n == Cardinality(Currencies)
            p == Cardinality(Presents)
            q == Cardinality(Presents \cup Pending)
<1>2. n \in Nat /\ p \in Nat /\ q \in Nat /\ p <= q /\ q <= n
  BY CacheSets
<1>3. Room(p) <= Room(n) /\ Room(q) <= Room(n) /\ Room(n) \in Nat
  <2>1. p + Spent(Delays) <= n + Spent(Delays) /\ q + Spent(Delays) <= n + Spent(Delays)
        /\ p + Spent(Delays) \in Nat /\ n + Spent(Delays) \in Nat /\ q + Spent(Delays) \in Nat
    BY <1>1, <1>2
  <2>. QED  BY <2>1, RoomGrows DEF Room
<1>4. age[c] \in Nat \cup {Absent} /\ Ttl \in Nat /\ Ttl > 0
  BY CacheAssumption DEF CacheInv, CacheTypeOK
<1>5. CASE ~Present(c)
  BY <1>3, <1>4, <1>5 DEF Present, Absent, Room
<1>6. CASE Present(c)
  <2>1. AnyField /\ expires \in 1..Ttl
    BY <1>6 DEF AnyField, CacheInv, CacheAges
  <2>2. age[c] \in Nat
    BY <1>4, <1>6 DEF Present
  <2>3. \/ age[c] + expires <= Room(q)
        \/ age[c] + Ttl <= Room(q)
    BY <1>6 DEF CacheInv, CacheAges
  <2>4. expires \in Nat /\ expires > 0
    BY <2>1, <1>4
  <2>5. Room(p) \in Nat /\ Room(q) \in Nat
    BY <1>1, <1>2, RoomGrows DEF Room
  <2>. HIDE DEF n, p, q
  <2>6. age[c] < Room(n)
    BY <1>3, <1>4, <2>2, <2>3, <2>4, <2>5
  <2>. QED  BY <2>6 DEF Room, n
<1>. QED  BY <1>5, <1>6

LEMMA RoomPositive ==
    ASSUME NEW b \in Nat, 1 <= b
    PROVE  Ttl <= Ttl * b
<1>1. Ttl * 1 <= Ttl * b /\ Ttl * 1 = Ttl
  BY RoomGrows, CacheAssumption
<1>. QED  BY <1>1

LEMMA RoomWithin ==
    ASSUME NEW x \in Int, NEW a \in Nat, NEW b \in Nat, x <= Ttl * a
    PROVE  /\ a <= b => x <= Ttl * b
           /\ a + 1 <= b => x + Ttl <= Ttl * b
           /\ 1 <= b => Ttl <= Ttl * b
<1>1. Ttl \in Nat
  BY CacheAssumption
<1>2. CASE a <= b
  <2>1. Ttl * a <= Ttl * b /\ Ttl * a \in Nat /\ Ttl * b \in Nat
    BY <1>1, <1>2, RoomGrows
  <2>2. CASE a + 1 <= b
    <3>1. Ttl * (a + 1) <= Ttl * b /\ Ttl * (a + 1) = Ttl * a + Ttl
      BY <2>2, RoomGrows
    <3>. QED  BY <1>1, <2>1, <3>1, RoomPositive
  <2>3. CASE ~(a + 1 <= b)
    BY <1>1, <2>1, <2>3, RoomPositive
  <2>. QED  BY <2>2, <2>3
<1>3. CASE ~(a <= b)
  BY <1>3, RoomPositive
<1>. QED  BY <1>2, <1>3

LEMMA CacheSteps ==
    ASSUME CacheInv, CacheNext
    PROVE  CacheInv' /\ CountsDown
<1>kinds. /\ {"refusal", "crash", "error"} \subseteq Kinds
          /\ Delays \in SUBSET Kinds /\ {"crash"} \in SUBSET Kinds
  BY CacheAssumption DEF Delays
<1>type. /\ Budgets /\ CacheTypeOK /\ Ttl \in Nat /\ Ttl > 0 /\ NoField \notin Currencies
  BY CacheAssumption DEF CacheInv, NoField
<1>. DEFINE p == Cardinality(Presents)
            q == Cardinality(Presents \cup Pending)
            S == Spent(Delays)
<1>sets. /\ IsFiniteSet(Presents) /\ IsFiniteSet(Presents \cup Pending)
         /\ p \in Nat /\ q \in Nat /\ p <= q /\ S \in Nat
  BY <1>kinds, <1>type, CacheSets, SpentNatural
<1>rest. Resting0 <=> Pending = {}
  BY <1>type DEF Resting0, Pending, CacheTypeOK
<1>ages. \A x \in Currencies : age[x] \in Int
  BY <1>type DEF CacheTypeOK, Absent
<1>1. ASSUME NEW r \in Readers, NEW c \in Currencies, Lookup(r, c)
      PROVE  CacheInv' /\ CountsDown
  <2>1. /\ fetched[r] = NoField /\ ~Present(c) /\ UNCHANGED <<age, expires, budget>>
        /\ fetched' = [fetched EXCEPT ![r] = c]
    BY <1>1 DEF Lookup
  <2>2. Budgets' /\ CountsDown
    BY <2>1, <1>type, BudgetSame
  <2>3. CacheTypeOK'
    BY <2>1, <1>type DEF CacheTypeOK
  <2>4. Presents' = Presents /\ Pending' = Pending \cup {c} /\ c \notin Presents
        /\ Spent(Delays)' = Spent(Delays)
    BY <2>1, <1>type DEF Presents, Pending, Present, CacheTypeOK, Spent
  <2>5. CacheAges'
    <3>. DEFINE q1 == Cardinality(Presents \cup (Pending \cup {c}))
    <3>0. Pending \cup {c} # {}
      OBVIOUS
    <3>. SUFFICES ASSUME Untouched({"crash"})
                  PROVE  /\ AnyField => expires \in 1..Ttl
                         /\ \A x \in Currencies : Present(x) => age[x] + Ttl <= Ttl * (q1 + S)
      BY <2>1, <2>4, <3>0 DEF CacheAges, AnyField, Present, Untouched, Room
    <3>1. AnyField => expires \in 1..Ttl
      BY DEF CacheInv, CacheAges
    <3>2. Presents \cup (Pending \cup {c}) = (Presents \cup Pending) \cup {c}
      OBVIOUS
    <3>3. /\ q <= q1 /\ q1 \in Nat
          /\ Pending = {} => q1 = q + 1
      <4>1. Pending = {} => c \notin Presents \cup Pending
        BY <2>4
      <4>. QED  BY <1>sets, <3>2, <4>1, CardinalityPlus
    <3>4. ASSUME NEW x \in Currencies, Present(x)
          PROVE  age[x] + Ttl <= Ttl * (q1 + S)
      <4>1. expires \in Nat
        BY <3>1, <3>4, <1>type DEF AnyField
      <4>2. age[x] + (IF Pending = {} THEN expires ELSE Ttl) <= Ttl * (q + S)
        BY <3>4 DEF CacheInv, CacheAges, Room
      <4>3. Ttl * (q + S) \in Nat /\ age[x] \in Int /\ age[x] + Ttl \in Int
        BY <1>ages, <1>sets, <1>type, RoomGrows, <3>4
      <4>4. CASE Pending = {}
        <5>1. age[x] <= Ttl * (q + S)
          BY <4>1, <4>2, <4>3, <4>4
        <5>2. q + S \in Nat /\ q1 + S \in Nat /\ q + S + 1 <= q1 + S
          BY <1>sets, <3>3, <4>4
        <5>. HIDE DEF q, q1, S
        <5>. QED  BY <4>3, <5>1, <5>2, RoomWithin
      <4>5. CASE Pending # {}
        <5>1. age[x] + Ttl <= Ttl * (q + S)
          BY <4>2, <4>5
        <5>2. q + S \in Nat /\ q1 + S \in Nat /\ q + S <= q1 + S
          BY <1>sets, <3>3
        <5>. HIDE DEF q, q1, S
        <5>. QED  BY <4>3, <5>1, <5>2, RoomWithin
      <4>. QED  BY <4>4, <4>5
    <3>. QED  BY <3>1, <3>4
  <2>. QED  BY <2>2, <2>3, <2>5 DEF CacheInv
<1>2. ASSUME NEW r \in Readers, NEW c \in Currencies, Refresh(r, c)
      PROVE  CacheInv' /\ CountsDown
  <2>1. /\ fetched[r] = NoField /\ Spend("refusal") /\ UNCHANGED <<age, expires>>
        /\ fetched' = [fetched EXCEPT ![r] = c]
    BY <1>2 DEF Refresh
  <2>2. /\ Budgets' /\ CountsDown /\ Spent(Delays)' = S + 1
        /\ Untouched({"crash"})' => Untouched({"crash"})
    <3>1. "refusal" \in Kinds /\ "refusal" \in Delays
      BY <1>kinds DEF Delays
    <3>2. Budgets' /\ CountsDown
      BY <2>1, <3>1, <1>type, BudgetSpent
    <3>. QED  BY <2>1, <3>1, <3>2, <1>kinds, <1>type, SpentUp, UntouchedBack
  <2>3. CacheTypeOK'
    BY <2>1, <1>type DEF CacheTypeOK
  <2>4. Presents' = Presents /\ Pending' = Pending \cup {c}
    BY <2>1, <1>type DEF Presents, Pending, Present, CacheTypeOK
  <2>5. CacheAges'
    <3>. DEFINE q1 == Cardinality(Presents \cup (Pending \cup {c}))
    <3>0. Pending \cup {c} # {}
      OBVIOUS
    <3>. SUFFICES ASSUME Untouched({"crash"})
                  PROVE  /\ AnyField => expires \in 1..Ttl
                         /\ \A x \in Currencies : Present(x) =>
                                age[x] + Ttl <= Ttl * (q1 + (S + 1))
      BY <2>1, <2>2, <2>4, <3>0 DEF CacheAges, AnyField, Present, Room
    <3>1. AnyField => expires \in 1..Ttl
      BY DEF CacheInv, CacheAges
    <3>2. Presents \cup (Pending \cup {c}) = (Presents \cup Pending) \cup {c}
      OBVIOUS
    <3>3. q <= q1 /\ q1 \in Nat
      BY <1>sets, <3>2, CardinalityPlus
    <3>4. ASSUME NEW x \in Currencies, Present(x)
          PROVE  age[x] + Ttl <= Ttl * (q1 + (S + 1))
      <4>1. expires \in Nat
        BY <3>1, <3>4, <1>type DEF AnyField
      <4>2. age[x] + (IF Pending = {} THEN expires ELSE Ttl) <= Ttl * (q + S)
        BY <3>4 DEF CacheInv, CacheAges, Room
      <4>3. Ttl * (q + S) \in Nat /\ age[x] \in Int
        BY <1>ages, <1>sets, <1>type, RoomGrows, <3>4
      <4>4. age[x] <= Ttl * (q + S)
        BY <4>1, <4>2, <4>3, <1>type
      <4>5. q + S \in Nat /\ q1 + (S + 1) \in Nat /\ q + S + 1 <= q1 + (S + 1)
        BY <1>sets, <3>3
      <4>. HIDE DEF q, q1, S
      <4>. QED  BY <4>3, <4>4, <4>5, RoomWithin
    <3>. QED  BY <3>1, <3>4
  <2>. QED  BY <2>2, <2>3, <2>5 DEF CacheInv
<1>3. ASSUME NEW r \in Readers, Fill(r)
      PROVE  CacheInv' /\ CountsDown
  <2>. DEFINE c == fetched[r]
  <2>1. /\ c \in Currencies /\ fetched' = [fetched EXCEPT ![r] = NoField]
    BY <1>3, <1>type DEF Fill, CacheTypeOK
  <2>2. /\ c \in Pending /\ Pending' \subseteq Pending /\ Pending \subseteq Pending' \cup {c}
    BY <2>1, <1>type DEF Pending, CacheTypeOK
  <2>3. CASE age' = [age EXCEPT ![c] = 0] /\ expires' = Ttl /\ UNCHANGED budget
    <3>1. Budgets' /\ CountsDown
      BY <2>3, <1>type, BudgetSame
    <3>2. CacheTypeOK'
      BY <2>1, <2>3, <1>type DEF CacheTypeOK
    <3>3. /\ \A x \in Currencies \ {c} : age'[x] = age[x]
          /\ age'[c] = 0 /\ Presents' = Presents \cup {c} /\ Spent(Delays)' = S
      BY <2>1, <2>3, <1>type DEF CacheTypeOK, Presents, Present, Absent, Spent
    <3>4. Presents' \cup Pending' = Presents \cup Pending
      BY <2>2, <3>3
    <3>5. q >= 1
      <4>1. Presents \cup Pending # {}
        BY <2>2
      <4>. QED  BY <4>1, <1>sets, FS_EmptySet
    <3>6. CacheAges'
      <4>. SUFFICES ASSUME Untouched({"crash"}), NEW x \in Currencies, Present(x)'
                    PROVE  age'[x] + Ttl <= Ttl * (q + S)
        <5>1. expires' = Ttl /\ expires' \in 1..Ttl
          BY <2>3, <1>type
        <5>2. Untouched({"crash"})' => Untouched({"crash"})
          BY <2>3 DEF Untouched
        <5>3. Room(Cardinality(Presents \cup Pending))' = Ttl * (q + S)
          BY <3>3, <3>4 DEF Room
        <5>. QED  BY <5>1, <5>2, <5>3 DEF CacheAges
      <4>1. CASE x = c
        <5>1. q + S \in Nat /\ 1 <= q + S /\ 0 <= Ttl * 0 /\ Ttl * 0 = 0
          BY <3>5, <1>sets, <1>type
        <5>. HIDE DEF q, S
        <5>. QED  BY <3>3, <4>1, <5>1, <1>type, RoomWithin
      <4>2. CASE x # c
        BY <2>2, <3>3, <4>2 DEF CacheInv, CacheAges, Room, Present
      <4>. QED  BY <4>1, <4>2
    <3>. QED  BY <3>1, <3>2, <3>6 DEF CacheInv
  <2>4. CASE /\ age' = [age EXCEPT ![c] = 0]
             /\ expires' = (IF AnyField THEN expires ELSE Never) /\ Spend("crash")
    <3>1. Budgets' /\ CountsDown /\ ~Untouched({"crash"})'
      BY <2>4, <1>kinds, <1>type, BudgetSpent
    <3>2. CacheTypeOK'
      BY <2>1, <2>4, <1>type DEF CacheTypeOK
    <3>. QED  BY <3>1, <3>2 DEF CacheInv, CacheAges
  <2>5. CASE expires' = (IF AnyField THEN Ttl ELSE expires) /\ Spend("error") /\ UNCHANGED age
    <3>1. /\ Budgets' /\ CountsDown /\ Spent(Delays)' = S + 1
          /\ Untouched({"crash"})' => Untouched({"crash"})
      <4>1. "error" \in Kinds /\ "error" \in Delays
        BY <1>kinds DEF Delays
      <4>2. Budgets' /\ CountsDown
        BY <2>5, <4>1, <1>type, BudgetSpent
      <4>. QED  BY <2>5, <4>1, <4>2, <1>kinds, <1>type, SpentUp, UntouchedBack
    <3>2. CacheTypeOK'
      BY <2>1, <2>5, <1>type DEF CacheTypeOK
    <3>3. Presents' = Presents /\ (AnyField' = AnyField) /\ \A x : Present(x)' = Present(x)
      BY <2>5 DEF Presents, Present, AnyField
    <3>4. /\ IsFiniteSet(Presents' \cup Pending') /\ Cardinality(Presents' \cup Pending') \in Nat
          /\ q <= Cardinality(Presents' \cup Pending') + 1
      <4>1. Presents' \cup Pending' \subseteq Presents \cup Pending
        BY <2>2, <3>3
      <4>2. IsFiniteSet(Presents' \cup Pending')
        BY <4>1, <1>sets, FS_Subset
      <4>3. /\ IsFiniteSet((Presents' \cup Pending') \cup {c})
            /\ Cardinality((Presents' \cup Pending') \cup {c}) <= Cardinality(Presents' \cup Pending') + 1
            /\ Cardinality(Presents' \cup Pending') \in Nat
            /\ Cardinality((Presents' \cup Pending') \cup {c}) \in Nat
        <5>. DEFINE W == Presents' \cup Pending'
        <5>. HIDE DEF W
        <5>1. IsFiniteSet(W)
          BY <4>2 DEF W
        <5>2. /\ IsFiniteSet(W \cup {c}) /\ Cardinality(W) \in Nat
              /\ Cardinality(W \cup {c}) \in Nat /\ Cardinality(W \cup {c}) <= Cardinality(W) + 1
          BY <5>1, CardinalityPlus
        <5>. QED  BY <5>2 DEF W
      <4>4. Presents \cup Pending \subseteq (Presents' \cup Pending') \cup {c}
        BY <2>2, <3>3
      <4>5. q <= Cardinality((Presents' \cup Pending') \cup {c})
        BY <4>3, <4>4, FS_Subset
      <4>. QED  BY <1>sets, <4>2, <4>3, <4>5
    <3>5. CacheAges'
      <4>. SUFFICES ASSUME Untouched({"crash"}), NEW x \in Currencies, Present(x)
                    PROVE  age[x] + Ttl <= Ttl * (Cardinality(Presents' \cup Pending') + (S + 1))
        <5>1. AnyField => expires' = Ttl /\ expires' \in 1..Ttl
          BY <2>5, <1>type
        <5>2. Room(Cardinality(Presents \cup Pending))' = Ttl * (Cardinality(Presents' \cup Pending') + (S + 1))
          BY <3>1 DEF Room
        <5>3. age' = age
          BY <2>5
        <5>4. \A x : Present(x) => Present(x) /\ (x \in Currencies => AnyField)
          BY DEF AnyField
        <5>. QED  BY <3>1, <3>3, <5>1, <5>2, <5>3, <5>4 DEF CacheAges
      <4>1. age[x] + Ttl <= Ttl * (q + S)
        BY <2>2 DEF CacheInv, CacheAges, Room
      <4>2. /\ q + S \in Nat /\ Cardinality(Presents' \cup Pending') + (S + 1) \in Nat
            /\ q + S <= Cardinality(Presents' \cup Pending') + (S + 1)
            /\ age[x] + Ttl \in Int
        BY <3>4, <1>sets, <1>ages, <1>type
      <4>. HIDE DEF q, S
      <4>. QED  BY <4>1, <4>2, RoomWithin
    <3>. QED  BY <3>1, <3>2, <3>5 DEF CacheInv
  <2>. QED  BY <1>3, <2>3, <2>4, <2>5 DEF Fill
<1>4. CASE FillAll
  <2>1. /\ age' = [c \in Currencies |-> 0] /\ expires' = Ttl /\ UNCHANGED <<fetched, budget>>
    BY <1>4 DEF FillAll
  <2>2. Budgets' /\ CountsDown
    BY <2>1, <1>type, BudgetSame
  <2>3. CacheTypeOK'
    BY <2>1, <1>type DEF CacheTypeOK
  <2>4. Presents' = Currencies /\ Pending' = Pending /\ Spent(Delays)' = S
    BY <2>1 DEF Presents, Present, Absent, Pending, Spent
  <2>5. CacheAges'
    <3>. SUFFICES ASSUME NEW x \in Currencies
                  PROVE  Ttl <= Ttl * (Cardinality(Currencies) + S)
      <4>1. Presents' \cup Pending' = Currencies
        BY <2>4 DEF Pending
      <4>2. Room(Cardinality(Presents \cup Pending))' = Ttl * (Cardinality(Currencies) + S)
        BY <2>4, <4>1 DEF Room
      <4>3. expires' = Ttl /\ expires' \in 1..Ttl /\ \A x \in Currencies : age'[x] = 0
        BY <2>1, <1>type
      <4>. QED  BY <4>2, <4>3, <1>type DEF CacheAges
    <3>1. IsFiniteSet(Currencies) /\ Currencies # {}
      BY CacheAssumption
    <3>2. Cardinality(Currencies) \in Nat /\ Cardinality(Currencies) >= 1
      BY <3>1, FS_EmptySet, FS_CardinalityType
    <3>3. Cardinality(Currencies) + S \in Nat /\ 1 <= Cardinality(Currencies) + S
          /\ 0 <= Ttl * 0
      BY <3>2, <1>sets, <1>type
    <3>. HIDE DEF S
    <3>. QED  BY <3>3, RoomWithin
  <2>. QED  BY <2>2, <2>3, <2>5 DEF CacheInv
<1>5. CASE CacheTick
  <2>1. /\ Pending = {} /\ AnyField /\ UNCHANGED <<fetched, budget>>
    BY <1>5, <1>rest DEF CacheTick, Resting0
  <2>2. Budgets' /\ CountsDown
    BY <2>1, <1>type, BudgetSame
  <2>3. Pending' = {} /\ Spent(Delays)' = S
    BY <2>1 DEF Pending, Spent
  <2>4. CASE expires = 1 /\ age' = [c \in Currencies |-> Absent] /\ expires' = 0
    <3>1. CacheTypeOK'
      BY <2>1, <2>4, <1>type DEF CacheTypeOK
    <3>2. \A c \in Currencies : ~Present(c)'
      BY <2>4 DEF Present
    <3>. QED  BY <2>2, <3>1, <3>2 DEF CacheInv, CacheAges, AnyField
  <2>5. CASE expires > 1 /\ age' = [c \in Currencies |-> Older(c)] /\ expires' = expires - 1
    <3>1. \A c \in Currencies : /\ age'[c] \in Nat \cup {Absent}
                                /\ Present(c)' = Present(c)
                                /\ Present(c) => age'[c] = age[c] + 1
      BY <2>5, <1>type DEF CacheTypeOK, Older, Present, Absent
    <3>2. CacheTypeOK'
      BY <2>1, <2>5, <3>1, <1>type DEF CacheTypeOK, Never
    <3>3. Presents' = Presents /\ (AnyField' = AnyField)
      BY <3>1 DEF Presents, AnyField
    <3>4. expires \in 1..Ttl
      BY <2>5, <1>type DEF CacheTypeOK, Never
    <3>5. CacheAges'
      <4>. SUFFICES ASSUME Untouched({"crash"}), NEW x \in Currencies, Present(x)
                    PROVE  age'[x] + expires' <= Room(q)
        <5>1. Presents' \cup Pending' = Presents \cup Pending
          BY <2>1, <2>3, <3>3
        <5>2. Room(Cardinality(Presents \cup Pending))' = Room(q)
          BY <2>3, <5>1 DEF Room
        <5>3. Untouched({"crash"})' => Untouched({"crash"})
          BY <2>1 DEF Untouched
        <5>4. expires' \in 1..Ttl
          BY <2>5, <3>4, <1>type
        <5>. QED  BY <2>3, <3>1, <5>2, <5>3, <5>4 DEF CacheAges
      <4>1. age[x] + expires <= Room(q)
        BY <2>1 DEF CacheInv, CacheAges
      <4>2. age'[x] = age[x] + 1 /\ age[x] \in Int
        BY <3>1, <1>ages
      <4>3. Room(q) \in Nat
        BY <1>sets, <1>type, RoomGrows DEF Room
      <4>. HIDE DEF q
      <4>. QED  BY <2>5, <3>4, <4>1, <4>2, <4>3, <1>type
    <3>. QED  BY <2>2, <3>2, <3>5 DEF CacheInv
  <2>6. CASE expires = Never /\ age' = [c \in Currencies |-> Older(c)] /\ UNCHANGED expires
    <3>1. \A c \in Currencies : age'[c] \in Nat \cup {Absent}
      BY <2>6, <1>type DEF CacheTypeOK, Older, Present, Absent
    <3>2. CacheTypeOK'
      BY <2>1, <2>6, <3>1, <1>type DEF CacheTypeOK
    <3>3. ~Untouched({"crash"})
      BY <2>1, <2>6, <1>type DEF CacheInv, CacheAges, Never
    <3>4. ~Untouched({"crash"})'
      BY <2>1, <3>3 DEF Untouched
    <3>. QED  BY <2>2, <3>2, <3>4 DEF CacheInv, CacheAges
  <2>. QED  BY <1>5, <2>4, <2>5, <2>6 DEF CacheTick
<1>. QED  BY <1>1, <1>2, <1>3, <1>4, <1>5 DEF CacheNext

---------------------------------------------------------------------------
(* The schedule.                                                           *)

\* A slot begins where a whole number of periods has passed.
LEMMA SlotFacts ==
    ASSUME NEW t \in Nat
    PROVE  /\ SlotOf(t) \in Int /\ SlotOf(t) <= t /\ t < SlotOf(t) + Period
           /\ (t + 1) % Period = 0 => SlotOf(t + 1) = t + 1 /\ SlotOf(t) + Period = t + 1
           /\ (t + 1) % Period # 0 => SlotOf(t + 1) = SlotOf(t)
<1>1. Period \in Nat /\ Period > 0
  BY ScheduleAssumption
<1>2. t % Period \in 0..(Period - 1)
  BY <1>1
<1>3. t = Period * (t \div Period) + (t % Period) /\ t \div Period \in Int
  BY <1>1
<1>4. (t + 1) % Period \in 0..(Period - 1)
  BY <1>1
<1>5. t + 1 = Period * ((t + 1) \div Period) + ((t + 1) % Period) /\ (t + 1) \div Period \in Int
  BY <1>1
<1>6. CASE (t % Period) + 1 < Period
  <2>1. (t + 1) \div Period = t \div Period
    BY <1>1, <1>2, <1>3, <1>4, <1>5, <1>6
  <2>2. (t + 1) % Period = (t % Period) + 1
    BY <1>1, <1>2, <1>3, <1>4, <1>5, <1>6, <2>1
  <2>. QED  BY <1>1, <1>2, <2>2 DEF SlotOf
<1>7. CASE (t % Period) + 1 = Period
  <2>1. (t + 1) \div Period = (t \div Period) + 1
    BY <1>1, <1>2, <1>3, <1>4, <1>5, <1>7
  <2>2. (t + 1) % Period = 0
    BY <1>1, <1>2, <1>3, <1>4, <1>5, <1>7, <2>1
  <2>. QED  BY <1>1, <1>2, <1>7, <2>2 DEF SlotOf
<1>. QED  BY <1>1, <1>2, <1>6, <1>7

Setbacks == {"refusal", "crash", "stall", "error"}

\* The time a job may be late by, for what has gone wrong so far.
Slack == (1 + Spent(Setbacks)) * Period
Safe(t) == t <= last + Slack

AtWork(r) == runs[r] # NoRun /\ ~runs[r].slow
Alive(r) == runs[r].at = "inside" /\ ~runs[r].slow

RunsShaped ==
    \A r \in RunSlots : /\ runs[r].at = "none" => runs[r] = NoRun
                        /\ runs[r].slow => runs[r].at = "inside"
                        /\ Untouched({"stall"}) => ~runs[r].slow
                        /\ runs[r].from <= now

\* The lock is there as long as the run that has taken it.
LockHeld ==
    style # "plain" /\ Untouched({"stall"}) =>
        /\ \A r, s \in RunSlots : runs[r].at = "inside" /\ runs[s].at = "inside" => r = s
        /\ \A r \in RunSlots : runs[r].at = "inside" => lock > now

\* One job for a slot, and one run of it that is not over.
OneJob ==
    Untouched({"error", "stall"}) =>
        /\ queued # "taken" => done = 0 /\ \A r \in RunSlots : runs[r] = NoRun
        /\ \A r, s \in RunSlots : runs[r] # NoRun /\ runs[s] # NoRun => r = s
        /\ \A r \in RunSlots : runs[r] # NoRun => done = 0
        /\ done <= 1

\* Whether the job of this slot is still to come; if not, it was done, or skipped for a
\* reason that does not come again, or something has gone wrong.
InTime ==
    LET nth == SlotOf(now)
    IN  /\ last <= now /\ dueAt <= last + Period /\ lock <= now + LockTtl
        /\ nth <= last + Slack + Period
        /\ \/ queued = "none" /\ unserved # {}
           \/ queued = "waiting"
           \/ \E r \in RunSlots : AtWork(r)
           \/ Safe(nth)
        /\ unserved # {} => now = nth
        /\ queued = "waiting" => now <= nth + MaxDelay
        /\ (\E r \in RunSlots : AtWork(r)) => now <= nth + MaxDelay \/ Safe(nth)
        /\ lock > now => Safe(nth) \/ \E r \in RunSlots : Alive(r)
        /\ lock > nth + Period =>
               \/ Safe(nth + Period)
               \/ Safe(nth) /\ \E r \in RunSlots : Alive(r)

ScheduleInv == Budgets /\ ScheduleTypeOK /\ RunsShaped /\ LockHeld /\ OneJob /\ InTime

LEMMA SlackFacts ==
    ASSUME Budgets
    PROVE  /\ Period \in Nat /\ Period > 0 /\ Spent(Setbacks) \in Nat
           /\ Slack \in Nat /\ Slack >= Period
           /\ UNCHANGED budget => Slack' = Slack
           /\ \A f \in Setbacks : Spend(f) => Slack' = Slack + Period
<1>1. Period \in Nat /\ Period > 0 /\ Setbacks \in SUBSET Kinds
  BY ScheduleAssumption DEF Setbacks
<1>2. Spent(Setbacks) \in Nat
  BY <1>1, SpentNatural
<1>3. \A n \in Nat : /\ (1 + n) * Period \in Nat /\ (1 + n) * Period >= Period
                     /\ (1 + (n + 1)) * Period = (1 + n) * Period + Period
  <2>. TAKE n \in Nat
  <2>1. n * Period \in Nat
    BY <1>1
  <2>2. (1 + n) * Period = n * Period + Period
    BY <1>1
  <2>3. (1 + (n + 1)) * Period = n * Period + Period + Period
    BY <1>1
  <2>. QED  BY <1>1, <2>1, <2>2, <2>3
<1>4. UNCHANGED budget => Spent(Setbacks)' = Spent(Setbacks)
  BY <1>1, SpentSame
<1>5. \A f \in Setbacks : Spend(f) => Spent(Setbacks)' = Spent(Setbacks) + 1
  BY <1>1, SpentUp
<1>. QED  BY <1>1, <1>2, <1>3, <1>4, <1>5 DEF Slack

LEMMA ScheduleStarts == ASSUME budget = Budget, ScheduleInit PROVE ScheduleInv
<1>1. Budgets
  BY BudgetsInit
<1>2. ScheduleTypeOK
  BY ScheduleAssumption DEF ScheduleInit, ScheduleTypeOK, NoRun, NeverRun, Unlocked
<1>3. RunsShaped /\ LockHeld /\ OneJob
  BY DEF ScheduleInit, RunsShaped, LockHeld, OneJob, NoRun
<1>4. SlotOf(0) = 0
  BY ScheduleAssumption DEF SlotOf
<1>5. InTime
  BY <1>1, <1>4, SlackFacts, ScheduleAssumption DEF ScheduleInit, InTime, NoRun, NeverRun, Unlocked,
    AtWork, Safe
<1>. QED  BY <1>1, <1>2, <1>3, <1>5 DEF ScheduleInv

LEMMA ScheduleSays == ASSUME ScheduleInv PROVE OneInside /\ OncePerSlot /\ GapBounded
<1>1. OncePerSlot
  BY DEF ScheduleInv, OneJob, OncePerSlot
<1>2. OneInside
  <2>. SUFFICES ASSUME style # "plain", Untouched({"stall"})
                PROVE  Cardinality(Inside) <= 1
    BY DEF OneInside
  <2>1. \A r, s \in Inside : r = s
    BY DEF ScheduleInv, LockHeld, Inside
  <2>2. CASE Inside = {}
    BY <2>2, FS_EmptySet
  <2>3. CASE Inside # {}
    <3>1. PICK r \in Inside : TRUE
      BY <2>3
    <3>2. Inside = {r}
      BY <2>1, <3>1
    <3>3. Cardinality({r}) = 1
      BY FS_Singleton
    <3>. QED  BY <3>2, <3>3
  <2>. QED  BY <2>2, <2>3
<1>3. GapBounded
  <2>1. /\ now \in Nat /\ last \in Int /\ MaxDelay \in Nat
    BY ScheduleAssumption DEF ScheduleInv, ScheduleTypeOK
  <2>2. (2 + Spent(Setbacks)) * Period = Slack + Period
    <3>1. Spent(Setbacks) \in Nat /\ Period \in Nat
      BY SlackFacts DEF ScheduleInv
    <3>2. (2 + Spent(Setbacks)) * Period = Spent(Setbacks) * Period + 2 * Period
          /\ (1 + Spent(Setbacks)) * Period = Spent(Setbacks) * Period + Period
          /\ Spent(Setbacks) * Period \in Nat
      BY <3>1
    <3>. QED  BY <3>1, <3>2 DEF Slack
  <2>3. Slack \in Nat /\ Period \in Nat
    BY SlackFacts DEF ScheduleInv
  <2>4. now - last <= Slack + Period + MaxDelay
    BY <2>1, <2>3, SlotFacts DEF ScheduleInv, InTime, Safe
  <2>. QED  BY <2>2, <2>4 DEF GapBounded, Setbacks
<1>. QED  BY <1>1, <1>2, <1>3

\* Something goes wrong in this slot: whatever becomes of it, the next one is in time.
LEMMA InTimeAfterSetback ==
    ASSUME ScheduleInv, UNCHANGED <<now, dueAt, last>>, NEW f \in Setbacks, Spend(f),
           lock' \in {lock, Unlocked}, unserved' \subseteq unserved, queued' \in {queued, "taken"}
    PROVE  InTime'
<1>. DEFINE nth == SlotOf(now)
<1>1. /\ Slack' = Slack + Period /\ Slack \in Nat /\ Period \in Nat /\ LockTtl \in Nat
  BY SlackFacts, ScheduleAssumption DEF ScheduleInv
<1>2. /\ now \in Nat /\ last \in Int /\ nth \in Int /\ lock \in Int /\ dueAt \in Int
  BY SlotFacts DEF ScheduleInv, ScheduleTypeOK
<1>3. SlotOf(now)' = nth
  BY DEF SlotOf
<1>4. nth <= last + Slack + Period
  BY DEF ScheduleInv, InTime
<1>5. Safe(nth)'
  BY <1>1, <1>2, <1>3, <1>4 DEF Safe
<1>6. lock' > nth + Period => Safe(nth + Period)'
  <2>1. SUFFICES ASSUME lock' > nth + Period PROVE nth + Period <= last + (Slack + Period)
    BY <1>1, <1>3 DEF Safe
  <2>2. lock' = lock
    BY <1>1, <1>2, <2>1, SlotFacts DEF Unlocked
  <2>3. Safe(nth + Period) \/ Safe(nth)
    BY <2>1, <2>2 DEF ScheduleInv, InTime
  <2>. QED  BY <1>1, <1>2, <2>3 DEF Safe
<1>7. lock' <= now + LockTtl
  BY <1>1, <1>2 DEF ScheduleInv, InTime, Unlocked
<1>8. nth <= last + Slack' + Period
  BY <1>1, <1>2, <1>4
<1>. HIDE DEF nth
<1>. QED  BY <1>1, <1>2, <1>3, <1>5, <1>6, <1>7, <1>8 DEF ScheduleInv, InTime, nth

\* The job is done.
LEMMA InTimeAfterDone ==
    ASSUME ScheduleInv, UNCHANGED <<now, budget, unserved, queued>>, last' = now,
           dueAt' <= now + Period, lock' \in {lock, Unlocked}
    PROVE  InTime'
<1>. DEFINE nth == SlotOf(now)
<1>1. /\ Slack' = Slack /\ Slack \in Nat /\ Slack >= Period /\ Period \in Nat /\ LockTtl \in Nat
  BY SlackFacts, ScheduleAssumption DEF ScheduleInv
<1>2. /\ now \in Nat /\ nth \in Int /\ lock \in Int /\ nth <= now
  BY SlotFacts DEF ScheduleInv, ScheduleTypeOK
<1>3. SlotOf(now)' = nth
  BY DEF SlotOf
<1>4. Safe(nth)' /\ Safe(nth + Period)'
  BY <1>1, <1>2, <1>3 DEF Safe
<1>5. lock' <= now + LockTtl
  BY <1>1, <1>2 DEF ScheduleInv, InTime, Unlocked
<1>6. nth <= now + Slack + Period
  BY <1>1, <1>2
<1>. HIDE DEF nth
<1>. QED  BY <1>1, <1>2, <1>3, <1>4, <1>5, <1>6 DEF ScheduleInv, InTime, nth

\* Nothing of the sort.
LEMMA InTimeGoesOn ==
    ASSUME ScheduleInv, UNCHANGED <<now, budget, dueAt, last>>,
           unserved' \subseteq unserved,
           queued' = "waiting" => queued = "waiting" \/ unserved # {},
           \/ queued' = "none" /\ unserved' # {}
           \/ queued' = "waiting"
           \/ \E r \in RunSlots : AtWork(r)'
           \/ Safe(SlotOf(now)),
           (\E r \in RunSlots : AtWork(r)') =>
               (\E r \in RunSlots : AtWork(r)) \/ queued = "waiting",
           (\E r \in RunSlots : Alive(r)) => \E r \in RunSlots : Alive(r)',
           \/ lock' = lock
           \/ /\ lock' = now + LockTtl /\ \E r \in RunSlots : Alive(r)'
              /\ \E r \in RunSlots : AtWork(r)
    PROVE  InTime'
<1>. DEFINE nth == SlotOf(now)
<1>1. /\ Slack' = Slack /\ Slack \in Nat /\ Slack >= Period /\ Period \in Nat
      /\ LockTtl \in Nat /\ MaxDelay \in Nat /\ LockTtl + MaxDelay <= Period
  BY SlackFacts, ScheduleAssumption DEF ScheduleInv
<1>2. /\ now \in Nat /\ nth \in Int /\ lock \in Int /\ nth <= now /\ last \in Int
  BY SlotFacts DEF ScheduleInv, ScheduleTypeOK
<1>3. SlotOf(now)' = nth
  BY DEF SlotOf
<1>4. /\ Safe(nth)' <=> Safe(nth)
      /\ Safe(nth + Period)' <=> Safe(nth + Period)
  BY <1>1, <1>3 DEF Safe
<1>5. queued' = "waiting" => now <= nth + MaxDelay
  BY <1>1, <1>2 DEF ScheduleInv, InTime
<1>6. (\E r \in RunSlots : AtWork(r)') => now <= nth + MaxDelay \/ Safe(nth)
  BY DEF ScheduleInv, InTime
<1>7. lock' <= now + LockTtl
  BY <1>1, <1>2 DEF ScheduleInv, InTime
<1>8. lock' > now => Safe(nth) \/ \E r \in RunSlots : Alive(r)'
  BY DEF ScheduleInv, InTime
<1>9. lock' > nth + Period =>
          Safe(nth + Period) \/ (Safe(nth) /\ \E r \in RunSlots : Alive(r)')
  <2>1. CASE lock' = lock
    BY <2>1 DEF ScheduleInv, InTime
  <2>2. CASE /\ lock' = now + LockTtl /\ \E r \in RunSlots : Alive(r)'
             /\ \E r \in RunSlots : AtWork(r)
    <3>1. lock' > nth + Period => Safe(nth)
      BY <1>1, <1>2, <2>2 DEF ScheduleInv, InTime
    <3>. QED  BY <2>2, <3>1
  <2>. QED  BY <2>1, <2>2
<1>10. /\ unserved' # {} => now = nth
       /\ last <= now /\ dueAt <= last + Period /\ nth <= last + Slack + Period
  BY DEF ScheduleInv, InTime
<1>. HIDE DEF nth
<1>. QED  BY <1>1, <1>3, <1>4, <1>5, <1>6, <1>7, <1>8, <1>9, <1>10 DEF InTime, nth

LEMMA ScheduleCounts == ASSUME ScheduleInv, ScheduleNext PROVE Budgets' /\ CountsDown
<1>. Budgets /\ {"refusal", "crash", "stall", "error"} \subseteq Kinds
  BY ScheduleAssumption DEF ScheduleInv
<1>1. CASE UNCHANGED budget
  BY <1>1, BudgetSame
<1>2. ASSUME NEW f \in {"refusal", "crash", "stall", "error"}, Spend(f)
      PROVE  Budgets' /\ CountsDown
  BY <1>2, BudgetSpent
<1>3. UNCHANGED budget \/ \E f \in {"refusal", "crash", "stall", "error"} : Spend(f)
  BY DEF ScheduleNext, Enqueue, RunHere, BeginRun, Claim, OpenPlain, DispatchShards, RetrySweeps,
    RunPlain, Fails, Dies, Stalls, ClockTick
<1>. QED  BY <1>1, <1>2, <1>3

RunKind == [at : {"none", "again", "asked", "inside"}, job : BOOLEAN,
            from : Nat, left : 0..Pages, slow : BOOLEAN]

\* What a run is set to.
LEMMA RunValues ==
    ASSUME now \in Nat, Pages \in Nat
    PROVE  /\ NoRun \in RunKind
           /\ \A x \in {Began(TRUE), Began(FALSE)} :
                  x \in RunKind /\ x.at # "none" /\ ~x.slow /\ x.from <= now
           /\ \A x \in {[NoRun EXCEPT !.at = "again", !.job = TRUE]} :
                  x \in RunKind /\ x.at # "none" /\ ~x.slow /\ x.from <= now
<1>1. NoRun \in RunKind
  BY DEF NoRun, RunKind
<1>2. ASSUME NEW flag \in BOOLEAN, NEW x, x = Began(flag)
      PROVE  x \in RunKind /\ x.at # "none" /\ ~x.slow /\ x.from <= now
  <2>1. x \in RunKind
    BY <1>1, <1>2 DEF Began, RunKind
  <2>2. x.at = "asked" /\ ~x.slow /\ x.from = now
    BY <1>2 DEF Began, NoRun
  <2>. QED  BY <2>1, <2>2
<1>. DEFINE again == [NoRun EXCEPT !.at = "again", !.job = TRUE]
<1>3. again \in RunKind
  BY <1>1 DEF RunKind
<1>4. again.at = "again" /\ ~again.slow /\ again.from = 0
  BY DEF NoRun
<1>. HIDE DEF again
<1>7. \A x \in {Began(TRUE), Began(FALSE)} :
          x \in RunKind /\ x.at # "none" /\ ~x.slow /\ x.from <= now
  BY <1>2
<1>8. \A x \in {again} : x \in RunKind /\ x.at # "none" /\ ~x.slow /\ x.from <= now
  BY <1>3, <1>4
<1>. QED  BY <1>1, <1>7, <1>8 DEF again

\* What a step does to the runs: nothing, or something to one of them.
Same(r, x) == x.from = runs[r].from /\ x.job = runs[r].job /\ x.slow = runs[r].slow

LEMMA RunsMove ==
    ASSUME ScheduleTypeOK
    PROVE  /\ \A r \in RunSlots, n \in 0..Pages :
                  runs' = [runs EXCEPT ![r].at = "inside", ![r].left = n] =>
                      \E x \in RunKind : /\ runs' = [runs EXCEPT ![r] = x]
                                         /\ x.at = "inside" /\ Same(r, x)
           /\ \A r \in RunSlots :
                  runs[r].left > 0 /\ runs' = [runs EXCEPT ![r].left = @ - 1] =>
                      \E x \in RunKind : /\ runs' = [runs EXCEPT ![r] = x]
                                         /\ x.at = runs[r].at /\ Same(r, x)
           /\ \A r \in RunSlots : runs' = [runs EXCEPT ![r].slow = TRUE] =>
                  \E x \in RunKind : /\ runs' = [runs EXCEPT ![r] = x]
                                     /\ x.at = runs[r].at /\ x.slow = TRUE
                                     /\ x.from = runs[r].from
           /\ NoRun \in RunKind /\ Began(TRUE) \in RunKind /\ Began(FALSE) \in RunKind
           /\ [NoRun EXCEPT !.at = "again", !.job = TRUE] \in RunKind
<1>. runs \in [RunSlots -> RunKind] /\ now \in Nat /\ Pages \in Nat
  BY ScheduleAssumption DEF ScheduleTypeOK, RunKind
<1>1. ASSUME NEW r \in RunSlots, NEW n \in 0..Pages,
             runs' = [runs EXCEPT ![r].at = "inside", ![r].left = n]
      PROVE  \E x \in RunKind : /\ runs' = [runs EXCEPT ![r] = x]
                                /\ x.at = "inside" /\ Same(r, x)
  <2>. DEFINE x == [runs[r] EXCEPT !.at = "inside", !.left = n]
  <2>1. runs' = [runs EXCEPT ![r] = x]
    BY <1>1
  <2>2. runs[r] \in RunKind
    OBVIOUS
  <2>3. x \in RunKind /\ x.at = "inside" /\ Same(r, x)
    BY <2>2 DEF RunKind, Same
  <2>. QED  BY <2>1, <2>3
<1>2. ASSUME NEW r \in RunSlots, runs[r].left > 0, runs' = [runs EXCEPT ![r].left = @ - 1]
      PROVE  \E x \in RunKind : /\ runs' = [runs EXCEPT ![r] = x]
                                /\ x.at = runs[r].at /\ Same(r, x)
  <2>. DEFINE x == [runs[r] EXCEPT !.left = runs[r].left - 1]
  <2>1. runs' = [runs EXCEPT ![r] = x]
    BY <1>2
  <2>2. runs[r] \in RunKind
    OBVIOUS
  <2>3. runs[r].left - 1 \in 0..Pages
    BY <1>2, <2>2 DEF RunKind
  <2>4. x \in RunKind /\ x.at = runs[r].at /\ Same(r, x)
    BY <2>2, <2>3 DEF RunKind, Same
  <2>. QED  BY <2>1, <2>4
<1>3. ASSUME NEW r \in RunSlots, runs' = [runs EXCEPT ![r].slow = TRUE]
      PROVE  \E x \in RunKind : /\ runs' = [runs EXCEPT ![r] = x]
                                /\ x.at = runs[r].at /\ x.slow = TRUE
                                /\ x.from = runs[r].from
  <2>. DEFINE x == [runs[r] EXCEPT !.slow = TRUE]
  <2>1. runs' = [runs EXCEPT ![r] = x]
    BY <1>3
  <2>2. runs[r] \in RunKind
    OBVIOUS
  <2>3. x \in RunKind /\ x.at = runs[r].at /\ x.slow = TRUE /\ x.from = runs[r].from
    BY <2>2 DEF RunKind
  <2>. QED  BY <2>1, <2>3
<1>. QED  BY <1>1, <1>2, <1>3, RunValues

LEMMA ScheduleTypes == ASSUME ScheduleInv, ScheduleNext PROVE ScheduleTypeOK'
<1>. USE ScheduleAssumption DEF ScheduleInv, ScheduleTypeOK
<1>1. runs \in [RunSlots -> RunKind] /\ ScheduleTypeOK
  BY DEF RunKind
<1>2. ASSUME runs' \in [RunSlots -> RunKind], style' = style, now' \in 0..Horizon,
             unserved' \subseteq Processes, queued' \in {"none", "waiting", "taken"},
             dueAt' \in Int, lock' \in Int, last' \in Int, done' \in Nat
      PROVE  ScheduleTypeOK'
  BY <1>1, <1>2 DEF RunKind
<1>3. ASSUME NEW r \in RunSlots, NEW x \in RunKind, runs' = [runs EXCEPT ![r] = x]
      PROVE  runs' \in [RunSlots -> RunKind]
  BY <1>1, <1>3
<1>4. NoRun \in RunKind /\ [NoRun EXCEPT !.at = "again", !.job = TRUE] \in RunKind
      /\ Began(TRUE) \in RunKind /\ Began(FALSE) \in RunKind
  BY <1>1, RunsMove
<1>5. ASSUME NEW r \in RunSlots,
             \/ Over(r) \/ Failed(r) \/ UNCHANGED runs
             \/ runs' = [runs EXCEPT ![r] = Began(TRUE)]
             \/ runs' = [runs EXCEPT ![r] = Began(FALSE)]
             \/ \E n \in 0..Pages : runs' = [runs EXCEPT ![r].at = "inside", ![r].left = n]
             \/ runs[r].left > 0 /\ runs' = [runs EXCEPT ![r].left = @ - 1]
             \/ runs' = [runs EXCEPT ![r].slow = TRUE]
      PROVE  runs' \in [RunSlots -> RunKind]
  <2>1. CASE Over(r) \/ Failed(r) \/ UNCHANGED runs
    BY <1>1, <1>3, <1>4, <2>1 DEF Over, Failed
  <2>2. CASE \/ runs' = [runs EXCEPT ![r] = Began(TRUE)]
            \/ runs' = [runs EXCEPT ![r] = Began(FALSE)]
    BY <1>3, <1>4, <2>2
  <2>3. CASE \E n \in 0..Pages : runs' = [runs EXCEPT ![r].at = "inside", ![r].left = n]
    BY <1>1, <1>3, <2>3, RunsMove
  <2>4. CASE runs[r].left > 0 /\ runs' = [runs EXCEPT ![r].left = @ - 1]
    BY <1>1, <1>3, <2>4, RunsMove
  <2>5. CASE runs' = [runs EXCEPT ![r].slow = TRUE]
    BY <1>1, <1>3, <2>5, RunsMove
  <2>. QED  BY <1>5, <2>1, <2>2, <2>3, <2>4, <2>5
<1>6. ASSUME NEW p \in Processes, Enqueue(p) PROVE ScheduleTypeOK'
  BY <1>1, <1>2, <1>6 DEF Enqueue, Deduplicated
<1>7. ASSUME NEW p \in Processes, RunHere(p) PROVE ScheduleTypeOK'
  <2>1. PICK r \in RunSlots : runs' = IF IsDue(now) THEN [runs EXCEPT ![r] = Began(FALSE)]
                                      ELSE runs
    BY <1>7 DEF RunHere
  <2>2. runs' \in [RunSlots -> RunKind]
    BY <1>5, <2>1
  <2>. QED  BY <1>2, <1>7, <2>2 DEF RunHere
<1>8. ASSUME NEW r \in RunSlots, BeginRun(r) PROVE ScheduleTypeOK'
  <2>1. runs' \in [RunSlots -> RunKind]
    BY <1>5, <1>8 DEF BeginRun, Over
  <2>. QED  BY <1>2, <1>8, <2>1 DEF BeginRun
<1>9. ASSUME NEW r \in RunSlots, Claim(r) PROVE ScheduleTypeOK'
  <2>1. runs' \in [RunSlots -> RunKind]
    BY <1>5, <1>9 DEF Claim
  <2>2. lock' \in Int
    BY <1>9 DEF Claim
  <2>. QED  BY <1>2, <1>9, <2>1, <2>2 DEF Claim
<1>10. ASSUME NEW r \in RunSlots, OpenPlain(r) PROVE ScheduleTypeOK'
  <2>1. runs' \in [RunSlots -> RunKind]
    BY <1>5, <1>10 DEF OpenPlain
  <2>. QED  BY <1>2, <1>10, <2>1 DEF OpenPlain
<1>11. ASSUME NEW r \in RunSlots, MarkExecuted(r)
       PROVE  dueAt' \in Int /\ last' \in Int /\ done' \in Nat
  BY <1>11 DEF MarkExecuted, NextExecution
<1>12. ASSUME NEW r \in RunSlots, DispatchShards(r) \/ RunPlain(r) \/ RetrySweeps(r)
       PROVE  ScheduleTypeOK'
  <2>1. runs' \in [RunSlots -> RunKind]
    <3>1. Over(r) \/ (runs[r].left > 0 /\ runs' = [runs EXCEPT ![r].left = @ - 1])
      BY <1>1, <1>12 DEF DispatchShards, RunPlain, RetrySweeps, RunKind
    <3>. QED  BY <1>5, <3>1
  <2>2. dueAt' \in Int /\ last' \in Int /\ done' \in Nat /\ lock' \in Int
    BY <1>11, <1>12 DEF DispatchShards, RunPlain, RetrySweeps, Unlocked
  <2>3. UNCHANGED <<style, now, unserved, queued>>
    BY <1>12 DEF DispatchShards, RunPlain, RetrySweeps
  <2>. QED  BY <1>2, <2>1, <2>2, <2>3
<1>13. ASSUME NEW r \in RunSlots, Fails(r) \/ Dies(r) \/ Stalls(r) PROVE ScheduleTypeOK'
  <2>1. runs' \in [RunSlots -> RunKind]
    BY <1>5, <1>13 DEF Fails, Dies, Stalls
  <2>2. UNCHANGED <<style, now, unserved, queued, dueAt, last, done>> /\ lock' \in Int
    BY <1>13 DEF Fails, Dies, Stalls, Unlocked
  <2>. QED  BY <1>2, <2>1, <2>2
<1>14. CASE ClockTick
  BY <1>1, <1>2, <1>14 DEF ClockTick
<1>. QED  BY <1>6, <1>7, <1>8, <1>9, <1>10, <1>12, <1>13, <1>14 DEF ScheduleNext

\* What a step does to the runs.
LEMMA RunsChange ==
    ASSUME ScheduleInv, ScheduleNext
    PROVE  RunsShaped'
<1>. USE DEF ScheduleInv, ScheduleTypeOK
<1>0. now \in Nat /\ {"stall"} \in SUBSET Kinds /\ Pages \in Nat
  BY ScheduleAssumption
<1>1. Untouched({"stall"})' => Untouched({"stall"})
  BY <1>0, UntouchedBack, ScheduleCounts
<1>2. ASSUME NEW r \in RunSlots, NEW x, runs' = [runs EXCEPT ![r] = x], UNCHANGED now,
             \/ x = NoRun
             \/ x.at # "none" /\ ~x.slow /\ x.from <= now
             \/ x.at = "inside" /\ runs[r].at = "inside" /\ x.slow = runs[r].slow
                /\ x.from = runs[r].from
      PROVE  RunsShaped'
  <2>. SUFFICES ASSUME NEW s \in RunSlots
                PROVE  /\ runs'[s].at = "none" => runs'[s] = NoRun
                       /\ runs'[s].slow => runs'[s].at = "inside"
                       /\ Untouched({"stall"})' => ~runs'[s].slow
                       /\ runs'[s].from <= now'
    BY DEF RunsShaped
  <2>1. CASE s # r
    BY <1>1, <1>2, <2>1 DEF RunsShaped
  <2>2. CASE s = r
    <3>1. runs'[s] = x
      BY <1>2, <2>2
    <3>. QED  BY <1>0, <1>1, <1>2, <2>2, <3>1 DEF RunsShaped, NoRun
  <2>. QED  BY <2>1, <2>2
<1>3. CASE UNCHANGED runs /\ now' >= now
  <2>1. now' \in Nat
    BY <1>0, ScheduleTypes
  <2>. QED  BY <1>0, <1>1, <1>3, <2>1 DEF RunsShaped
<1>4. ASSUME NEW p \in Processes, Enqueue(p) PROVE RunsShaped'
  BY <1>0, <1>3, <1>4 DEF Enqueue
<1>5. ASSUME NEW p \in Processes, RunHere(p) PROVE RunsShaped'
  <2>1. PICK r \in RunSlots : runs' = IF IsDue(now) THEN [runs EXCEPT ![r] = Began(FALSE)]
                                      ELSE runs
    BY <1>5 DEF RunHere
  <2>2. \A x \in {Began(FALSE)} : x.at # "none" /\ ~x.slow /\ x.from <= now
    BY <1>0, RunValues
  <2>3. UNCHANGED now
    BY <1>5 DEF RunHere
  <2>4. CASE IsDue(now)
    <3>. DEFINE x == Began(FALSE)
    <3>1. runs' = [runs EXCEPT ![r] = x]
      BY <2>1, <2>4
    <3>2. x.at # "none" /\ ~x.slow /\ x.from <= now
      BY <2>2
    <3>. HIDE DEF x
    <3>. QED  BY <1>2, <2>3, <3>1, <3>2
  <2>5. CASE ~IsDue(now)
    BY <1>0, <1>3, <2>1, <2>3, <2>5
  <2>. QED  BY <2>4, <2>5
<1>6. ASSUME NEW r \in RunSlots, BeginRun(r) PROVE RunsShaped'
  <2>1. PICK x \in {Began(TRUE), NoRun} : runs' = [runs EXCEPT ![r] = x]
    BY <1>6 DEF BeginRun
  <2>2. x = NoRun \/ (x.at # "none" /\ ~x.slow /\ x.from <= now)
    BY <1>0, <2>1, RunValues
  <2>3. UNCHANGED now
    BY <1>6 DEF BeginRun
  <2>. QED  BY <1>2, <2>1, <2>2, <2>3
<1>7. ASSUME NEW r \in RunSlots, Claim(r) PROVE RunsShaped'
  <2>1. CASE Over(r)
    BY <1>2, <1>7, <2>1 DEF Over, Claim
  <2>2. CASE \E n \in 0..Pages : runs' = [runs EXCEPT ![r].at = "inside", ![r].left = n]
    <3>1. PICK n \in 0..Pages : runs' = [runs EXCEPT ![r].at = "inside", ![r].left = n]
      BY <2>2
    <3>. DEFINE x == [runs[r] EXCEPT !.at = "inside", !.left = n]
    <3>2. runs' = [runs EXCEPT ![r] = x] /\ x.at = "inside"
          /\ x.slow = runs[r].slow /\ x.from = runs[r].from
      BY <3>1
    <3>3. UNCHANGED now /\ ~x.slow /\ x.from <= now
      BY <1>7, <3>2 DEF Claim, RunsShaped
    <3>. HIDE DEF x
    <3>. QED  BY <1>2, <3>2, <3>3
  <2>. QED  BY <1>7, <2>1, <2>2 DEF Claim
<1>8. ASSUME NEW r \in RunSlots, OpenPlain(r) PROVE RunsShaped'
  <2>1. PICK n \in 0..Pages : runs' = [runs EXCEPT ![r].at = "inside", ![r].left = n]
    BY <1>8 DEF OpenPlain
  <2>. DEFINE x == [runs[r] EXCEPT !.at = "inside", !.left = n]
  <2>2. runs' = [runs EXCEPT ![r] = x] /\ x.at = "inside"
        /\ x.slow = runs[r].slow /\ x.from = runs[r].from
    BY <2>1
  <2>3. UNCHANGED now /\ ~x.slow /\ x.from <= now
    BY <1>8, <2>2 DEF OpenPlain, RunsShaped
  <2>. HIDE DEF x
  <2>. QED  BY <1>2, <2>2, <2>3
<1>9. ASSUME NEW r \in RunSlots, runs[r].at = "inside", UNCHANGED now,
             runs' = [runs EXCEPT ![r].left = @ - 1] \/ Over(r)
      PROVE  RunsShaped'
  <2>1. CASE Over(r)
    BY <1>2, <1>9, <2>1 DEF Over
  <2>2. CASE runs' = [runs EXCEPT ![r].left = @ - 1]
    <3>. DEFINE x == [runs[r] EXCEPT !.left = @ - 1]
    <3>1. runs' = [runs EXCEPT ![r] = x] /\ x.at = runs[r].at
          /\ x.slow = runs[r].slow /\ x.from = runs[r].from
      BY <2>2
    <3>. HIDE DEF x
    <3>. QED  BY <1>2, <1>9, <3>1
  <2>. QED  BY <1>9, <2>1, <2>2
<1>10. ASSUME NEW r \in RunSlots, DispatchShards(r) \/ RetrySweeps(r) \/ RunPlain(r)
       PROVE  RunsShaped'
  BY <1>9, <1>10 DEF DispatchShards, RetrySweeps, RunPlain
<1>11. ASSUME NEW r \in RunSlots, Fails(r) \/ Dies(r) PROVE RunsShaped'
  <2>1. PICK x \in {NoRun, [NoRun EXCEPT !.at = "again", !.job = TRUE]} :
            runs' = [runs EXCEPT ![r] = x]
    BY <1>11 DEF Fails, Dies, Failed
  <2>2. x = NoRun \/ (x.at # "none" /\ ~x.slow /\ x.from <= now)
    BY <1>0, <2>1, RunValues
  <2>3. UNCHANGED now
    BY <1>11 DEF Fails, Dies
  <2>. QED  BY <1>2, <2>1, <2>2, <2>3
<1>12. ASSUME NEW r \in RunSlots, Stalls(r) PROVE RunsShaped'
  <2>1. ~Untouched({"stall"})'
    BY <1>0, <1>12, BudgetSpent DEF Stalls
  <2>2. runs' = [runs EXCEPT ![r].slow = TRUE] /\ runs[r].at = "inside" /\ UNCHANGED now
    BY <1>12 DEF Stalls
  <2>. QED  BY <1>0, <2>1, <2>2 DEF RunsShaped, NoRun
<1>13. CASE ClockTick
  BY <1>0, <1>3, <1>13 DEF ClockTick
<1>. QED  BY <1>4, <1>5, <1>6, <1>7, <1>8, <1>10, <1>11, <1>12, <1>13 DEF ScheduleNext

LEMMA LockStays ==
    ASSUME ScheduleInv, ScheduleNext
    PROVE  LockHeld'
<1>. USE DEF ScheduleInv, ScheduleTypeOK
<1>. SUFFICES ASSUME style' # "plain", Untouched({"stall"})' PROVE LockHeld'
  BY DEF LockHeld
<1>0. /\ now \in Nat /\ {"stall"} \in SUBSET Kinds
      /\ LockTtl \in Nat /\ LockTtl > 0
  BY ScheduleAssumption
<1>1. Untouched({"stall"})
  BY <1>0, UntouchedBack, ScheduleCounts
<1>2. UNCHANGED style
  BY DEF ScheduleNext, Enqueue, RunHere, BeginRun, Claim, OpenPlain, DispatchShards, RetrySweeps,
    RunPlain, Fails, Dies, Stalls, ClockTick
<1>3. /\ \A r, s \in RunSlots : runs[r].at = "inside" /\ runs[s].at = "inside" => r = s
      /\ \A r \in RunSlots : runs[r].at = "inside" => lock > now
  BY <1>1, <1>2 DEF LockHeld
<1>4. ASSUME UNCHANGED <<now, lock>>,
             \A s \in RunSlots : runs'[s].at = "inside" => runs[s].at = "inside"
      PROVE  LockHeld'
  BY <1>3, <1>4 DEF LockHeld
<1>5. ASSUME \A s \in RunSlots : runs'[s].at # "inside" PROVE LockHeld'
  BY <1>5 DEF LockHeld
<1>6. ASSUME NEW p \in Processes, Enqueue(p) PROVE LockHeld'
  BY <1>4, <1>6 DEF Enqueue
<1>7. ASSUME NEW p \in Processes, RunHere(p) PROVE LockHeld'
  BY <1>4, <1>7 DEF RunHere, Began, NoRun
<1>8. ASSUME NEW r \in RunSlots, BeginRun(r) PROVE LockHeld'
  BY <1>4, <1>8 DEF BeginRun, Began, NoRun
<1>9. ASSUME NEW r \in RunSlots, Claim(r) PROVE LockHeld'
  <2>1. CASE Over(r) /\ UNCHANGED lock
    BY <1>4, <1>9, <2>1 DEF Claim, Over, NoRun
  <2>2. CASE /\ ~ LockTaken /\ lock' = now + LockTtl
             /\ \E n \in 0..Pages :
                    runs' = [runs EXCEPT ![r].at = "inside", ![r].left = n]
    <3>1. \A s \in RunSlots : runs[s].at # "inside"
      BY <1>3, <2>2 DEF LockTaken, LockLive
    <3>2. \A s \in RunSlots \ {r} : runs'[s].at # "inside"
      BY <2>2, <3>1
    <3>3. lock' > now'
      <4>1. now' = now /\ lock' = now + LockTtl
        BY <1>9, <2>2 DEF Claim
      <4>. QED  BY <1>0, <4>1
    <3>4. \A s \in RunSlots : runs'[s].at = "inside" => s = r
      BY <3>2
    <3>. QED  BY <3>3, <3>4 DEF LockHeld
  <2>. QED  BY <1>9, <2>1, <2>2 DEF Claim
<1>10. ASSUME NEW r \in RunSlots, OpenPlain(r) PROVE LockHeld'
  BY <1>2, <1>10 DEF OpenPlain
<1>11. ASSUME NEW r \in RunSlots, DispatchShards(r) \/ RunPlain(r) PROVE LockHeld'
  BY <1>4, <1>11 DEF DispatchShards, RunPlain, Over, NoRun
<1>12. ASSUME NEW r \in RunSlots, RetrySweeps(r) PROVE LockHeld'
  <2>1. CASE Over(r)
    BY <1>3, <1>5, <1>12, <2>1 DEF RetrySweeps, Over, NoRun
  <2>2. CASE runs' = [runs EXCEPT ![r].left = @ - 1] /\ UNCHANGED lock
    BY <1>4, <1>12, <2>2 DEF RetrySweeps
  <2>. QED  BY <1>12, <2>1, <2>2 DEF RetrySweeps
<1>13. ASSUME NEW r \in RunSlots, Fails(r) PROVE LockHeld'
  BY <1>3, <1>5, <1>13 DEF Fails, Failed, NoRun
<1>14. ASSUME NEW r \in RunSlots, Dies(r) PROVE LockHeld'
  BY <1>4, <1>14 DEF Dies, Failed, NoRun
<1>15. ASSUME NEW r \in RunSlots, Stalls(r) PROVE LockHeld'
  BY <1>4, <1>15 DEF Stalls
<1>16. CASE ClockTick
  BY <1>1, <1>5, <1>16 DEF ClockTick, RunsShaped, NoRun
<1>. QED  BY <1>6, <1>7, <1>8, <1>9, <1>10, <1>11, <1>12, <1>13, <1>14, <1>15, <1>16 DEF
  ScheduleNext

LEMMA JobStays ==
    ASSUME ScheduleInv, ScheduleNext
    PROVE  OneJob'
<1>. USE DEF ScheduleInv, ScheduleTypeOK
<1>. SUFFICES ASSUME Untouched({"error", "stall"})' PROVE OneJob'
  BY DEF OneJob
<1>0. {"error", "stall"} \in SUBSET Kinds /\ {"stall"} \in SUBSET Kinds
  BY ScheduleAssumption
<1>1. /\ Untouched({"error", "stall"}) /\ Untouched({"stall"})
      /\ ~Spend("error") /\ ~Spend("stall")
  <2>1. Untouched({"error", "stall"})
    BY <1>0, UntouchedBack, ScheduleCounts
  <2>2. ~Spend("error") /\ ~Spend("stall")
    BY <1>0, BudgetSpent
  <2>. QED  BY <2>1, <2>2 DEF Untouched
<1>2. /\ queued # "taken" => done = 0 /\ \A r \in RunSlots : runs[r] = NoRun
      /\ \A r, s \in RunSlots : runs[r] # NoRun /\ runs[s] # NoRun => r = s
      /\ \A r \in RunSlots : runs[r] # NoRun => done = 0
      /\ done <= 1
  BY <1>1 DEF OneJob
<1>3. ASSUME NEW r \in RunSlots, runs[r] # NoRun, UNCHANGED <<queued, done>>,
             \A s \in RunSlots \ {r} : runs'[s] = runs[s]
      PROVE  OneJob'
  BY <1>2, <1>3 DEF OneJob
<1>4. ASSUME NEW p \in Processes, Enqueue(p) PROVE OneJob'
  BY <1>2, <1>4 DEF Enqueue, Deduplicated, OneJob
<1>5. ASSUME NEW p \in Processes, RunHere(p) PROVE FALSE
  BY <1>1, <1>5 DEF RunHere
<1>6. ASSUME NEW r \in RunSlots, BeginRun(r) PROVE OneJob'
  <2>1. CASE queued = "waiting" /\ Idlest(r) /\ queued' = "taken"
    <3>1. done = 0 /\ UNCHANGED done /\ \A s \in RunSlots : runs[s] = NoRun
      BY <1>2, <1>6, <2>1 DEF BeginRun
    <3>2. \A s \in RunSlots \ {r} : runs'[s] = NoRun
      BY <1>6, <3>1 DEF BeginRun
    <3>. QED  BY <2>1, <3>1, <3>2 DEF OneJob
  <2>2. CASE runs[r].at = "again" /\ UNCHANGED queued
    <3>1. runs[r] # NoRun /\ UNCHANGED done
      BY <1>6, <2>2 DEF NoRun, BeginRun
    <3>2. \A s \in RunSlots \ {r} : runs'[s] = runs[s]
      BY <1>6 DEF BeginRun
    <3>. QED  BY <1>3, <2>2, <3>1, <3>2
  <2>. QED  BY <1>6, <2>1, <2>2 DEF BeginRun
<1>7. ASSUME NEW r \in RunSlots, Claim(r) PROVE OneJob'
  <2>1. runs[r] # NoRun /\ UNCHANGED <<queued, done>>
    BY <1>7 DEF NoRun, Claim
  <2>2. \A s \in RunSlots \ {r} : runs'[s] = runs[s]
    BY <1>7 DEF Claim, Over
  <2>. QED  BY <1>3, <2>1, <2>2
<1>8. ASSUME NEW r \in RunSlots, OpenPlain(r) \/ Fails(r) \/ Dies(r) PROVE OneJob'
  <2>1. runs[r] # NoRun /\ UNCHANGED <<queued, done>>
    BY <1>8 DEF NoRun, OpenPlain, Fails, Dies
  <2>2. \A s \in RunSlots \ {r} : runs'[s] = runs[s]
    BY <1>8 DEF OpenPlain, Fails, Dies, Failed
  <2>. QED  BY <1>3, <2>1, <2>2
<1>9. ASSUME NEW r \in RunSlots, DispatchShards(r) \/ RetrySweeps(r) \/ RunPlain(r)
      PROVE  OneJob'
  <2>1. runs[r] # NoRun /\ UNCHANGED queued /\ done = 0 /\ queued = "taken"
    <3>1. runs[r] # NoRun /\ UNCHANGED queued
      BY <1>9 DEF NoRun, DispatchShards, RetrySweeps, RunPlain
    <3>. QED  BY <1>2, <3>1
  <2>2. \A s \in RunSlots \ {r} : runs'[s] = NoRun
    BY <1>2, <1>9, <2>1 DEF DispatchShards, RetrySweeps, RunPlain, Over
  <2>3. CASE UNCHANGED done
    BY <2>1, <2>2, <2>3 DEF OneJob
  <2>4. CASE Over(r) /\ done' = done + 1
    <3>1. \A s \in RunSlots : runs'[s] = NoRun
      BY <2>2, <2>4 DEF Over
    <3>2. done' = 1
      BY <2>1, <2>4
    <3>. QED  BY <2>1, <3>1, <3>2 DEF OneJob
  <2>. QED  BY <1>9, <2>3, <2>4 DEF DispatchShards, RetrySweeps, RunPlain, MarkExecuted
<1>10. ASSUME NEW r \in RunSlots, Stalls(r) PROVE FALSE
  BY <1>1, <1>10 DEF Stalls
<1>11. CASE ClockTick
  <2>1. \A s \in RunSlots : runs'[s] = NoRun
    BY <1>1, <1>11 DEF ClockTick, RunsShaped
  <2>2. done' <= 1 /\ (queued' # "taken" => done' = 0)
    BY <1>2, <1>11 DEF ClockTick
  <2>. QED  BY <2>1, <2>2 DEF OneJob
<1>. QED  BY <1>4, <1>5, <1>6, <1>7, <1>8, <1>9, <1>10, <1>11 DEF ScheduleNext

LEMMA InTimeAfterTick == ASSUME ScheduleInv, ClockTick PROVE InTime'
<1>. DEFINE nth == SlotOf(now)
            next == SlotOf(now + 1)
<1>1. /\ Slack' = Slack /\ Slack \in Nat /\ Slack >= Period /\ Period \in Nat /\ Period > 0
      /\ LockTtl \in Nat /\ MaxDelay \in Nat /\ LockTtl + MaxDelay <= Period
      /\ MaxDelay < Period /\ Processes # {}
  BY SlackFacts, ScheduleAssumption DEF ScheduleInv, ClockTick
<1>2. /\ now \in Nat /\ nth \in Int /\ lock \in Int /\ nth <= now /\ now < nth + Period
      /\ last \in Int /\ dueAt \in Int
  BY SlotFacts DEF ScheduleInv, ScheduleTypeOK
<1>3. /\ SlotOf(now)' = next /\ now' = now + 1 /\ UNCHANGED <<dueAt, lock, last>>
      /\ UNCHANGED runs /\ unserved = {} /\ \A r \in RunSlots : ~AtWork(r)
      /\ queued = "waiting" => now < nth + MaxDelay
  BY DEF SlotOf, ClockTick, AtWork
<1>4. \A r \in RunSlots : ~Alive(r) /\ ~Alive(r)' /\ ~AtWork(r)'
  BY <1>3 DEF Alive, AtWork, NoRun
<1>5. \A t : Safe(t)' <=> Safe(t)
  BY <1>1, <1>3 DEF Safe
<1>6. queued = "waiting" \/ Safe(nth)
  BY <1>3 DEF ScheduleInv, InTime
<1>7. /\ last' <= now' /\ dueAt' <= last' + Period /\ lock' <= now' + LockTtl
  BY <1>1, <1>2, <1>3 DEF ScheduleInv, InTime
<1>8. CASE (now + 1) % Period = 0
  <2>1. next = now + 1 /\ nth + Period = now + 1
    BY <1>2, <1>8, SlotFacts
  <2>2. queued' = "none" /\ unserved' = Processes
    BY <1>8, <1>3 DEF ClockTick
  <2>3. Safe(nth)
    BY <1>1, <1>2, <1>3, <1>6, <2>1
  <2>4. next <= last' + Slack' + Period
    BY <1>1, <1>2, <1>3, <2>1, <2>3 DEF Safe
  <2>5. lock' > now' => next <= last' + Slack'
    <3>1. lock > nth + Period => Safe(nth + Period)
      BY <1>4 DEF ScheduleInv, InTime
    <3>. QED  BY <1>1, <1>3, <2>1, <3>1 DEF Safe
  <2>6. ~(lock' > next + Period)
    BY <1>1, <1>2, <1>3, <1>7, <2>1
  <2>. HIDE DEF nth, next
  <2>. QED  BY <1>1, <1>3, <1>4, <1>7, <2>1, <2>2, <2>4, <2>5, <2>6 DEF InTime, Safe
<1>9. CASE (now + 1) % Period # 0
  <2>1. next = nth
    BY <1>2, <1>9, SlotFacts
  <2>2. UNCHANGED <<queued, unserved>>
    BY <1>9, <1>3 DEF ClockTick
  <2>3. queued' = "waiting" => now' <= nth + MaxDelay
    BY <1>1, <1>2, <1>3, <2>2
  <2>4. nth <= last' + Slack' + Period
    BY <1>1, <1>3 DEF ScheduleInv, InTime
  <2>5. lock' > now' => nth <= last' + Slack'
    <3>1. lock > now => Safe(nth)
      BY <1>4 DEF ScheduleInv, InTime
    <3>. QED  BY <1>1, <1>2, <1>3, <3>1 DEF Safe
  <2>6. lock' > nth + Period => nth + Period <= last' + Slack'
    <3>1. lock > nth + Period => Safe(nth + Period)
      BY <1>4 DEF ScheduleInv, InTime
    <3>. QED  BY <1>1, <1>3, <3>1 DEF Safe
  <2>7. queued' = "waiting" \/ nth <= last' + Slack'
    BY <1>1, <1>3, <1>6, <2>2 DEF Safe
  <2>. HIDE DEF nth, next
  <2>. QED  BY <1>3, <1>4, <1>7, <2>1, <2>2, <2>3, <2>4, <2>5, <2>6, <2>7 DEF InTime, Safe
<1>. QED  BY <1>8, <1>9

LEMMA TimeStays ==
    ASSUME ScheduleInv, ScheduleNext
    PROVE  InTime'
<1>. DEFINE nth == SlotOf(now)
<1>1. /\ ScheduleInv /\ Slack \in Nat /\ Slack >= Period /\ Period \in Nat
      /\ now \in Nat /\ nth \in Int /\ nth <= now /\ last \in Int /\ dueAt \in Int
  BY SlackFacts, SlotFacts DEF ScheduleInv, ScheduleTypeOK
<1>2. runs \in [RunSlots -> [at : {"none", "again", "asked", "inside"}, job : BOOLEAN,
                             from : Nat, left : 0..Pages, slow : BOOLEAN]]
  BY DEF ScheduleInv, ScheduleTypeOK
<1>3. \A r \in RunSlots : /\ runs[r].from <= now /\ runs[r].from \in Nat
                          /\ runs[r].slow => runs[r].at = "inside"
  BY <1>2 DEF ScheduleInv, RunsShaped
<1>4. /\ \/ queued = "none" /\ unserved # {}
         \/ queued = "waiting"
         \/ \E r \in RunSlots : AtWork(r)
         \/ Safe(nth)
      /\ dueAt <= last + Period /\ last <= now
      /\ lock > now => Safe(nth) \/ \E r \in RunSlots : Alive(r)
  BY DEF ScheduleInv, InTime
<1>5. /\ "refusal" \in Setbacks /\ "crash" \in Setbacks /\ "stall" \in Setbacks
      /\ "error" \in Setbacks
  BY DEF Setbacks
<1>6. ASSUME NEW p \in Processes, Enqueue(p) PROVE InTime'
  <2>1. UNCHANGED <<now, budget, dueAt, last, lock, runs>> /\ unserved' \subseteq unserved
        /\ unserved # {}
    BY <1>6 DEF Enqueue
  <2>2. \A r \in RunSlots : (AtWork(r)' <=> AtWork(r)) /\ (Alive(r)' <=> Alive(r))
    BY <2>1 DEF AtWork, Alive
  <2>3. queued' = IF queued = "none" THEN "waiting" ELSE queued
    BY <1>6 DEF Enqueue, Deduplicated
  <2>. HIDE DEF nth
  <2>4. queued' = "waiting" \/ (\E r \in RunSlots : AtWork(r)') \/ Safe(SlotOf(now))
    BY <1>4, <2>2, <2>3 DEF nth
  <2>. QED  BY <1>1, <2>1, <2>2, <2>3, <2>4, InTimeGoesOn
<1>7. ASSUME NEW p \in Processes, RunHere(p) PROVE InTime'
  <2>1. Spend("error") /\ UNCHANGED <<now, dueAt, last, lock, queued>>
        /\ unserved' \subseteq unserved
    BY <1>7 DEF RunHere
  <2>. QED  BY <1>1, <1>5, <2>1, InTimeAfterSetback
<1>8. ASSUME NEW r \in RunSlots, BeginRun(r) PROVE InTime'
  <2>1. /\ UNCHANGED <<now, budget, dueAt, last, lock, unserved>>
        /\ queued' \in {"taken", queued} /\ (queued' = queued \/ queued = "waiting")
        /\ runs[r].at # "inside" /\ (queued = "waiting" \/ AtWork(r))
    BY <1>3, <1>8 DEF BeginRun, Idlest, NoRun, AtWork
  <2>2. \A s \in RunSlots : s # r => (AtWork(s)' <=> AtWork(s)) /\ (Alive(s)' <=> Alive(s))
    BY <1>8 DEF BeginRun, AtWork, Alive
  <2>3. ~Alive(r)
    BY <2>1 DEF Alive
  <2>4. AtWork(r)' \/ Safe(nth)
    <3>1. CASE IsDue(now)
      BY <1>2, <1>8, <3>1 DEF BeginRun, AtWork, Began, NoRun
    <3>2. CASE ~IsDue(now)
      BY <1>1, <1>4, <3>2 DEF IsDue, Safe
    <3>. QED  BY <3>1, <3>2
  <2>. HIDE DEF nth
  <2>5. (\E s \in RunSlots : AtWork(s)') \/ Safe(SlotOf(now))
    BY <2>4 DEF nth
  <2>6. (\E s \in RunSlots : AtWork(s)') => (\E s \in RunSlots : AtWork(s)) \/ queued = "waiting"
    BY <2>1, <2>2
  <2>7. (\E s \in RunSlots : Alive(s)) => \E s \in RunSlots : Alive(s)'
    BY <2>2, <2>3
  <2>. QED  BY <1>1, <2>1, <2>5, <2>6, <2>7, InTimeGoesOn
<1>9. ASSUME NEW r \in RunSlots, Claim(r) PROVE InTime'
  <2>1. /\ UNCHANGED <<now, dueAt, last, unserved, queued>>
        /\ runs[r].at = "asked" /\ AtWork(r) /\ ~Alive(r)
    BY <1>3, <1>9 DEF Claim, NoRun, AtWork, Alive
  <2>2. \A s \in RunSlots : s # r => (AtWork(s)' <=> AtWork(s)) /\ (Alive(s)' <=> Alive(s))
    <3>1. \A s \in RunSlots : s # r => runs'[s] = runs[s]
      BY <1>2, <1>9 DEF Claim, Over
    <3>. QED  BY <3>1 DEF AtWork, Alive
  <2>3. \A s \in RunSlots : Alive(s)' => AtWork(s)'
    BY DEF Alive, AtWork, NoRun
  <2>4. (\E s \in RunSlots : Alive(s)) => \E s \in RunSlots : Alive(s)'
    BY <2>1, <2>2
  <2>5. CASE LockTaken /\ Over(r) /\ UNCHANGED <<lock, budget>>
    <3>1. Safe(nth) \/ \E s \in RunSlots : AtWork(s)'
      BY <1>4, <2>3, <2>4, <2>5 DEF LockTaken, LockLive
    <3>. HIDE DEF nth
    <3>2. (\E s \in RunSlots : AtWork(s)') \/ Safe(SlotOf(now))
      BY <3>1 DEF nth
    <3>. QED  BY <1>1, <2>1, <2>4, <2>5, <3>2, InTimeGoesOn
  <2>6. CASE Spend("error") /\ UNCHANGED lock
    BY <1>1, <1>5, <2>1, <2>6, InTimeAfterSetback
  <2>7. CASE /\ lock' = now + LockTtl /\ UNCHANGED budget
             /\ \E n \in 0..Pages :
                    runs' = [runs EXCEPT ![r].at = "inside", ![r].left = n]
    <3>1. Alive(r)'
      <4>1. PICK x \in RunKind : /\ runs' = [runs EXCEPT ![r] = x]
                               /\ x.at = "inside" /\ Same(r, x)
      BY <2>7, RunsMove DEF ScheduleInv
    <4>2. ~x.slow
      BY <1>3, <2>1, <4>1 DEF Same
    <4>. QED  BY <1>2, <4>1, <4>2 DEF Alive
    <3>. HIDE DEF nth
    <3>. QED  BY <1>1, <2>1, <2>3, <2>7, <3>1, InTimeGoesOn
  <2>. QED  BY <1>9, <2>5, <2>6, <2>7 DEF Claim
<1>10. ASSUME NEW r \in RunSlots, OpenPlain(r) PROVE InTime'
  <2>1. /\ UNCHANGED <<now, dueAt, last, unserved, queued, lock, budget>>
        /\ runs[r].at = "asked" /\ AtWork(r)
    BY <1>3, <1>10 DEF OpenPlain, NoRun, AtWork
  <2>2. Alive(r)' /\ AtWork(r)'
    <3>1. PICK x \in RunKind : /\ runs' = [runs EXCEPT ![r] = x]
                               /\ x.at = "inside" /\ Same(r, x)
      BY <1>10, RunsMove DEF OpenPlain, ScheduleInv
    <3>2. ~x.slow
      BY <1>3, <2>1, <3>1 DEF Same
    <3>. QED  BY <1>2, <3>1, <3>2 DEF Alive, AtWork, NoRun
  <2>. QED  BY <1>1, <2>1, <2>2, InTimeGoesOn
<1>11. ASSUME NEW r \in RunSlots, runs[r].at = "inside", runs[r].left > 0,
              runs' = [runs EXCEPT ![r].left = @ - 1],
              UNCHANGED <<now, budget, dueAt, last, lock, unserved, queued>>
       PROVE  InTime'
  <2>1. \A s \in RunSlots : (AtWork(s)' <=> AtWork(s)) /\ (Alive(s)' <=> Alive(s))
    <3>1. PICK x \in RunKind : /\ runs' = [runs EXCEPT ![r] = x]
                               /\ x.at = "inside" /\ Same(r, x)
      BY <1>11, RunsMove DEF ScheduleInv
    <3>2. \A s \in RunSlots : s # r => runs'[s] = runs[s]
      BY <1>2, <3>1
    <3>3. runs'[r] = x
      BY <1>2, <3>1
    <3>4. (AtWork(r)' <=> AtWork(r)) /\ (Alive(r)' <=> Alive(r))
      BY <1>11, <3>1, <3>3 DEF AtWork, Alive, NoRun, Same
    <3>. QED  BY <3>2, <3>4 DEF AtWork, Alive
  <2>2. unserved' \subseteq unserved
    BY <1>11
  <2>. HIDE DEF nth
  <2>3. \/ queued' = "none" /\ unserved' # {}
        \/ queued' = "waiting"
        \/ \E s \in RunSlots : AtWork(s)'
        \/ Safe(SlotOf(now))
    BY <1>4, <1>11, <2>1 DEF nth
  <2>. QED  BY <1>1, <1>11, <2>1, <2>2, <2>3, InTimeGoesOn
<1>12. ASSUME NEW r \in RunSlots, MarkExecuted(r), UNCHANGED <<now, budget, unserved, queued>>,
              lock' \in {lock, Unlocked}
       PROVE  InTime'
  <2>1. last' = now /\ dueAt' <= now + Period
    BY <1>1, <1>3, <1>12 DEF MarkExecuted, NextExecution
  <2>. QED  BY <1>1, <1>12, <2>1, InTimeAfterDone
<1>13. ASSUME NEW r \in RunSlots, DispatchShards(r) \/ RunPlain(r) PROVE InTime'
  <2>1. UNCHANGED <<now, budget, unserved, queued, lock>> /\ runs[r].at = "inside"
    BY <1>13 DEF DispatchShards, RunPlain
  <2>2. \/ MarkExecuted(r)
        \/ /\ runs[r].left > 0 /\ runs' = [runs EXCEPT ![r].left = @ - 1]
           /\ UNCHANGED <<dueAt, last>>
    BY <1>13 DEF DispatchShards, RunPlain
  <2>. QED  BY <1>11, <1>12, <2>1, <2>2
<1>14. ASSUME NEW r \in RunSlots, RetrySweeps(r) PROVE InTime'
  <2>1. CASE last' = now /\ UNCHANGED dueAt /\ lock' = Unlocked
    <3>1. dueAt' <= now + Period
      BY <1>1, <1>4, <2>1
    <3>. QED  BY <1>1, <1>14, <2>1, <3>1, InTimeAfterDone DEF RetrySweeps
  <2>2. UNCHANGED <<now, budget, unserved, queued>> /\ runs[r].at = "inside"
    BY <1>14 DEF RetrySweeps
  <2>3. CASE MarkExecuted(r) /\ lock' = Unlocked
    BY <1>12, <2>2, <2>3
  <2>4. CASE /\ runs[r].left > 1 /\ runs' = [runs EXCEPT ![r].left = @ - 1]
             /\ UNCHANGED <<dueAt, lock, last>>
    <3>1. runs[r].left > 0
      BY <1>2, <2>4
    <3>. QED  BY <1>11, <2>2, <2>4, <3>1
  <2>. QED  BY <1>14, <2>1, <2>3, <2>4 DEF RetrySweeps
<1>15. ASSUME NEW r \in RunSlots, Fails(r) PROVE InTime'
  BY <1>1, <1>5, <1>15, InTimeAfterSetback DEF Fails
<1>16. ASSUME NEW r \in RunSlots, Dies(r) PROVE InTime'
  BY <1>1, <1>5, <1>16, InTimeAfterSetback DEF Dies
<1>17. ASSUME NEW r \in RunSlots, Stalls(r) PROVE InTime'
  BY <1>1, <1>5, <1>17, InTimeAfterSetback DEF Stalls
<1>18. CASE ClockTick
  BY <1>1, <1>18, InTimeAfterTick
<1>. QED  BY <1>6, <1>7, <1>8, <1>9, <1>10, <1>13, <1>14, <1>15, <1>16, <1>17, <1>18 DEF
  ScheduleNext

LEMMA ScheduleSteps == ASSUME ScheduleInv, ScheduleNext PROVE ScheduleInv' /\ CountsDown
BY ScheduleCounts, ScheduleTypes, RunsChange, LockStays, JobStays, TimeStays DEF ScheduleInv

---------------------------------------------------------------------------
(* The snapshots.                                                          *)

SweepKind == [kind : {"none", "weekly", "daily"},
              at : {"none", "paging", "users", "read", "done"},
              offset : Nat, page : SUBSET Users, seen : {NoSnapshot} \cup 0..Changes]

\* A user whom a pass has not reached yet is on its page, or beyond.
Ahead(p, u) ==
    \/ u \in sweep[p].page
    \/ sweep[p].page = {} /\ Rank(u) > sweep[p].offset
    \/ sweep[p].page # {} /\ Rank(u) > sweep[p].offset + Batch

SweepsShaped ==
    \A p \in Sweepers : /\ sweep[p].at \in {"users", "read"} <=> sweep[p].page # {}
                        /\ sweep[p].at = "read" => sweep[p].kind = "weekly"
                        /\ sweep[p].at = "none" <=> sweep[p].kind = "none"

OutsetShown ==
    /\ \A u \in Users : outset[u] # NoSnapshot => u \in members /\ outset[u] <= worth[u]
    /\ \A p \in Sweepers : sweep[p].kind = "weekly" /\ sweep[p].at = "read" =>
           sweep[p].seen >= outset[First(sweep[p].page)]

ShownOrAhead ==
    Untouched({"error"}) => \A p \in Sweepers : sweep[p].kind = "weekly" =>
        \A u \in Users : outset[u] # NoSnapshot =>
            weekly[u] >= outset[u] \/ (sweep[p].at # "done" /\ Ahead(p, u))

SnapshotInv == Budgets /\ SnapshotTypeOK /\ SweepsShaped /\ OutsetShown /\ ShownOrAhead

LEMMA FirstOf ==
    ASSUME NEW S \in SUBSET Nat, S # {}
    PROVE  First(S) \in S
BY LeastOf DEF First

\* A finite set of numbers has a greatest one.
LEMMA MostOf ==
    ASSUME NEW S, IsFiniteSet(S), S # {}, \A v \in S : v \in Nat
    PROVE  \E m \in S : \A v \in S : v <= m
<1>. DEFINE Above(m) == {v \in S : m <= v}
            B == {Above(m) : m \in S}
<1>0. \A x \in S : x \in Nat
  OBVIOUS
<1>1. B \in SUBSET SUBSET S /\ B # {} /\ IsFiniteSet(S)
  OBVIOUS
<1>2. PICK s \in B : \A t \in B : t \subseteq s => t = s
  <2>1. B \in SUBSET SUBSET S /\ IsFiniteSet(S)
    BY <1>1
  <2>2. B # {}
    BY <1>1
  <2>. HIDE DEF B
  <2>. QED  BY <2>1, <2>2, Minimal
<1>3. PICK m \in S : s = Above(m)
  OBVIOUS
<1>4. \A v \in S : v <= m
  <2>. SUFFICES ASSUME NEW v \in S, ~(v <= m) PROVE FALSE
    OBVIOUS
  <2>1. v \in Nat /\ m \in Nat /\ v > m
    BY <1>0
  <2>2. m \notin Above(v) /\ m \in s
    BY <1>3, <2>1
  <2>3. Above(v) \subseteq s
    <3>. SUFFICES ASSUME NEW x \in S, v <= x PROVE m <= x
      BY <1>3
    <3>. QED  BY <1>0, <2>1
  <2>4. Above(v) \in B
    OBVIOUS
  <2>. HIDE DEF B, Above
  <2>. QED  BY <1>2, <2>2, <2>3, <2>4
<1>. QED  BY <1>4

LEMMA RankFacts ==
    ASSUME members \subseteq Users
    PROVE  /\ IsFiniteSet(members) /\ members \subseteq Nat
           /\ \A u : Rank(u) \in Nat
           /\ \A u \in members : Rank(u) >= 1
<1>1. IsFiniteSet(members) /\ members \subseteq Nat
  BY SnapshotsAssumption, FS_Subset
<1>2. ASSUME NEW u PROVE Rank(u) \in Nat /\ (u \in members => Rank(u) >= 1)
  <2>. DEFINE S == {v \in members : v <= u}
  <2>1. IsFiniteSet(S)
    BY <1>1, FS_Subset
  <2>2. Cardinality(S) \in Nat
    BY <2>1, FS_CardinalityType
  <2>3. u \in members => S # {}
    BY <1>1
  <2>4. S # {} => Cardinality(S) # 0
    BY <2>1, FS_EmptySet
  <2>. QED  BY <2>2, <2>3, <2>4 DEF Rank
<1>. QED  BY <1>1, <1>2

\* Whoever signs up makes no rank smaller.
LEMMA RanksGrow ==
    ASSUME members' \subseteq Users, members \subseteq members', NEW u
    PROVE  Rank(u) \in Nat /\ Rank(u)' \in Nat /\ Rank(u) <= Rank(u)'
<1>. DEFINE S == {v \in members : v <= u}
            T == {v \in members' : v <= u}
<1>1. S \subseteq T /\ T \subseteq members'
  OBVIOUS
<1>2. IsFiniteSet(T)
  BY <1>1, SnapshotsAssumption, FS_Subset
<1>3. Cardinality(S) \in Nat /\ Cardinality(T) \in Nat /\ Cardinality(S) <= Cardinality(T)
  BY <1>1, <1>2, FS_Subset, FS_CardinalityType
<1>. QED  BY <1>3 DEF Rank

\* The ranks have no gaps: if somebody is beyond the offset, the page is not empty.
LEMMA PageNotEmpty ==
    ASSUME members \subseteq Users, NEW o \in Nat, NEW u \in members, Rank(u) > o
    PROVE  \E w \in members : Rank(w) > o /\ Rank(w) <= o + Batch
<1>. DEFINE S == {w \in members : Rank(w) > o}
<1>1. /\ IsFiniteSet(members) /\ members \subseteq Nat
      /\ \A v : Rank(v) \in Nat
  BY RankFacts
<1>2. PICK w \in S : \A v \in S : w <= v
  <2>1. S \in SUBSET Nat /\ S # {}
    BY <1>1
  <2>. HIDE DEF S
  <2>. QED  BY <2>1, LeastOf
<1>. DEFINE P == {v \in members : v < w}
            W == {v \in members : v <= w}
<1>0. w \in members /\ Rank(w) > o /\ \A v \in members : v \in Nat
  BY <1>1, <1>2
<1>3. W = P \cup {w} /\ w \notin P /\ IsFiniteSet(P) /\ P \in SUBSET Nat
  <2>1. \A v \in members : v <= w <=> v < w \/ v = w
    BY <1>0
  <2>2. W = P \cup {w}
    BY <1>0, <2>1
  <2>3. w \notin P
    BY <1>0
  <2>4. IsFiniteSet(P)
    BY <1>1, FS_Subset
  <2>. QED  BY <1>1, <2>2, <2>3, <2>4
<1>4. Rank(w) = Cardinality(P) + 1 /\ Cardinality(P) \in Nat
  <2>1. Cardinality(W) = Cardinality(P) + 1 /\ Cardinality(P) \in Nat
    <3>. HIDE DEF P, W
    <3>. QED  BY <1>3, CardinalityPlus
  <2>2. Rank(w) = Cardinality(W)
    BY DEF Rank
  <2>. QED  BY <2>1, <2>2
<1>5. Cardinality(P) <= o
  <2>1. CASE P = {}
    BY <2>1, FS_EmptySet
  <2>2. CASE P # {}
    <3>1. PICK m \in P : \A v \in P : v <= m
      <4>1. \A v \in P : v \in Nat
        BY <1>0
      <4>. HIDE DEF P
      <4>. QED  BY <1>3, <2>2, <4>1, MostOf
    <3>2. P = {v \in members : v <= m}
      <4>1. m \in members /\ m < w
        BY <3>1
      <4>2. \A v \in members : v <= m => v < w
        BY <1>0, <4>1
      <4>3. \A v \in members : v < w => v <= m
        BY <3>1
      <4>. QED  BY <4>2, <4>3
    <3>3. Rank(m) = Cardinality(P)
      BY <3>2 DEF Rank
    <3>4. ~(Rank(m) > o)
      <4>1. m \in members /\ m < w /\ m \in Nat /\ w \in Nat
        BY <1>0, <3>1
      <4>2. m \in S => w <= m
        BY <1>2
      <4>. QED  BY <4>1, <4>2
    <3>. QED  BY <1>1, <1>4, <3>3, <3>4
  <2>. QED  BY <2>1, <2>2
<1>6. Rank(w) > o /\ w \in members
  BY <1>2
<1>7. Batch \in Nat /\ Batch >= 1
  BY SnapshotsAssumption
<1>. QED  BY <1>1, <1>4, <1>5, <1>6, <1>7

LEMMA SnapshotStarts == ASSUME budget = Budget, SnapshotInit PROVE SnapshotInv
<1>1. Budgets
  BY BudgetsInit
<1>2. NoSweep \in SweepKind
  BY DEF NoSweep, SweepKind
<1>3. SnapshotTypeOK
  <2>1. sweep \in [Sweepers -> SweepKind]
    BY <1>2 DEF SnapshotInit
  <2>2. Changes \in Nat
    BY SnapshotsAssumption
  <2>. QED  BY <2>1, <2>2 DEF SnapshotInit, SnapshotTypeOK, SweepKind
<1>4. \A p \in Sweepers : sweep[p].at = "none" /\ sweep[p].kind = "none" /\ sweep[p].page = {}
  BY DEF SnapshotInit, NoSweep
<1>5. \A u \in Users : outset[u] = NoSnapshot
  BY DEF SnapshotInit
<1>. QED  BY <1>1, <1>3, <1>4, <1>5 DEF SnapshotInv, SweepsShaped, OutsetShown, ShownOrAhead

LEMMA SnapshotSays == ASSUME SnapshotInv PROVE EveryoneShown
BY DEF SnapshotInv, ShownOrAhead, EveryoneShown

LEMMA SnapshotCounts == ASSUME SnapshotInv, SnapshotNext PROVE Budgets' /\ CountsDown
<1>. Budgets /\ {"error", "changed"} \subseteq Kinds
  BY SnapshotsAssumption DEF SnapshotInv
<1>1. CASE UNCHANGED budget
  BY <1>1, BudgetSame
<1>2. ASSUME NEW f \in {"error", "changed"}, Spend(f) PROVE Budgets' /\ CountsDown
  BY <1>2, BudgetSpent
<1>3. UNCHANGED budget \/ \E f \in {"error", "changed"} : Spend(f)
  BY DEF SnapshotNext, StartSweep, NextPage, ReadWallets, SaveSnapshot, SkipUser, SavePercentage,
    NewUser, Change
<1>. QED  BY <1>1, <1>2, <1>3

\* One sweep moves, and is still a sweep.
Shifts(p, x) == sweep' = [sweep EXCEPT ![p] = x]

LEMMA SweepMoves ==
    ASSUME SnapshotInv, NEW p \in Sweepers
    PROVE  /\ \A kind \in {"weekly", "daily"} : StartSweep(p, kind) =>
                  \E x \in SweepKind : /\ Shifts(p, x) /\ x.kind = kind /\ x.at = "paging"
                                       /\ x.offset = 0 /\ x.page = {}
           /\ NextPage(p) =>
                  \E x \in SweepKind :
                      /\ Shifts(p, x) /\ x.kind = sweep[p].kind /\ x.offset = sweep[p].offset
                      /\ x.page \subseteq members
                      /\ x.at = IF x.page = {} THEN "done" ELSE "users"
                      /\ sweep[p].kind = "weekly" =>
                             x.page = {u \in members : /\ Rank(u) > sweep[p].offset
                                                       /\ Rank(u) <= sweep[p].offset + Batch}
           /\ ReadWallets(p) =>
                  \E x \in SweepKind :
                      /\ Shifts(p, x) /\ x.kind = "weekly" /\ x.at = "read"
                      /\ x.offset = sweep[p].offset /\ x.page = sweep[p].page
                      /\ x.seen = worth[First(sweep[p].page)]
           /\ sweep[p].at \in {"users", "read"} /\ sweep' = Advanced(p) =>
                  \E x \in SweepKind :
                      /\ Shifts(p, x) /\ x.kind = sweep[p].kind
                      /\ x.page = sweep[p].page \ {First(sweep[p].page)}
                      /\ x.page = {} => /\ x.at = "paging"
                                        /\ x.offset = sweep[p].offset + Batch
                      /\ x.page # {} => x.at = "users" /\ x.offset = sweep[p].offset
<1>. Users \subseteq Nat /\ Batch \in Nat /\ Changes \in Nat
  BY SnapshotsAssumption
<1>1. sweep \in [Sweepers -> SweepKind] /\ worth \in [Users -> 0..Changes] /\ members \subseteq Users
  BY DEF SnapshotInv, SnapshotTypeOK, SweepKind
<1>2. NoSweep \in SweepKind
  BY DEF NoSweep, SweepKind
<1>3. NoSweep.offset = 0 /\ NoSweep.page = {}
  BY DEF NoSweep
<1>4. sweep[p] \in SweepKind
  BY <1>1
<1>5. sweep[p].page # {} => First(sweep[p].page) \in sweep[p].page
  BY <1>4, FirstOf DEF SweepKind
<1>6. ASSUME NEW kind \in {"weekly", "daily"}, StartSweep(p, kind)
      PROVE  \E x \in SweepKind : /\ Shifts(p, x) /\ x.kind = kind /\ x.at = "paging"
                                  /\ x.offset = 0 /\ x.page = {}
  <2>. DEFINE x == [NoSweep EXCEPT !.kind = kind, !.at = "paging"]
  <2>1. Shifts(p, x)
    BY <1>6 DEF StartSweep, Shifts
  <2>2. x \in SweepKind /\ x.kind = kind /\ x.at = "paging" /\ x.offset = 0 /\ x.page = {}
    BY <1>2, <1>3 DEF SweepKind
  <2>. QED  BY <2>1, <2>2
<1>7. ASSUME NextPage(p)
      PROVE  \E x \in SweepKind :
                 /\ Shifts(p, x) /\ x.kind = sweep[p].kind /\ x.offset = sweep[p].offset
                 /\ x.page \subseteq members
                 /\ x.at = IF x.page = {} THEN "done" ELSE "users"
                 /\ sweep[p].kind = "weekly" =>
                        x.page = {u \in members : /\ Rank(u) > sweep[p].offset
                                                  /\ Rank(u) <= sweep[p].offset + Batch}
  <2>1. PICK page \in IF sweep[p].kind = "weekly" THEN InOrder(sweep[p].offset)
                      ELSE AnyOrder(sweep[p].offset) :
            sweep' = [sweep EXCEPT ![p].page = page,
                                   ![p].at = IF page = {} THEN "done" ELSE "users"]
    BY <1>7 DEF NextPage
  <2>2. page \subseteq members
    BY <2>1 DEF InOrder, AnyOrder
  <2>3. sweep[p].kind = "weekly" =>
            page = {u \in members : /\ Rank(u) > sweep[p].offset
                                    /\ Rank(u) <= sweep[p].offset + Batch}
    BY <2>1 DEF InOrder
  <2>. DEFINE at == IF page = {} THEN "done" ELSE "users"
              x == [sweep[p] EXCEPT !.page = page, !.at = at]
  <2>4. Shifts(p, x)
    BY <2>1 DEF Shifts
  <2>5. page \in SUBSET Users /\ at \in {"none", "paging", "users", "read", "done"}
    BY <1>1, <2>2
  <2>. HIDE DEF at
  <2>6. /\ x \in SweepKind /\ x.kind = sweep[p].kind /\ x.offset = sweep[p].offset
        /\ x.page = page /\ x.at = at
    BY <1>4, <2>5 DEF SweepKind
  <2>. HIDE DEF x
  <2>. QED  BY <2>2, <2>3, <2>4, <2>6 DEF at
<1>8. ASSUME ReadWallets(p)
      PROVE  \E x \in SweepKind :
                 /\ Shifts(p, x) /\ x.kind = "weekly" /\ x.at = "read"
                 /\ x.offset = sweep[p].offset /\ x.page = sweep[p].page
                 /\ x.seen = worth[First(sweep[p].page)]
  <2>. DEFINE seen == worth[First(sweep[p].page)]
              x == [sweep[p] EXCEPT !.at = "read", !.seen = seen]
  <2>1. Shifts(p, x)
    BY <1>8 DEF ReadWallets, Shifts
  <2>2. sweep[p].page # {}
    BY <1>8 DEF ReadWallets, SnapshotInv, SweepsShaped
  <2>3. seen \in {NoSnapshot} \cup 0..Changes
    BY <1>1, <1>4, <1>5, <2>2 DEF SweepKind
  <2>4. sweep[p].kind = "weekly"
    BY <1>8 DEF ReadWallets
  <2>. HIDE DEF seen
  <2>5. /\ x \in SweepKind /\ x.kind = "weekly" /\ x.at = "read" /\ x.seen = seen
        /\ x.offset = sweep[p].offset /\ x.page = sweep[p].page
    BY <1>4, <2>3, <2>4 DEF SweepKind
  <2>. HIDE DEF x
  <2>. QED  BY <2>1, <2>5 DEF seen
<1>9. ASSUME sweep[p].at \in {"users", "read"}, sweep' = Advanced(p)
      PROVE  \E x \in SweepKind :
                 /\ Shifts(p, x) /\ x.kind = sweep[p].kind
                 /\ x.page = sweep[p].page \ {First(sweep[p].page)}
                 /\ x.page = {} => x.at = "paging" /\ x.offset = sweep[p].offset + Batch
                 /\ x.page # {} => x.at = "users" /\ x.offset = sweep[p].offset
  <2>. DEFINE rest == sweep[p].page \ {First(sweep[p].page)}
              x == sweep'[p]
  <2>1. Shifts(p, x)
    BY <1>1, <1>9 DEF Advanced, Shifts
  <2>2. x.kind = sweep[p].kind /\ x.page = rest
    BY <1>1, <1>9 DEF Advanced, SweepKind
  <2>3. /\ rest = {} => x.at = "paging" /\ x.offset = sweep[p].offset + Batch
        /\ rest # {} => x.at = "users" /\ x.offset = sweep[p].offset
    <3>1. CASE rest = {}
      BY <1>1, <1>9, <3>1 DEF Advanced, SweepKind, PageStep
    <3>2. CASE rest # {}
      BY <1>1, <1>9, <3>2 DEF Advanced, SweepKind, PageStep
    <3>. QED  BY <3>1, <3>2
  <2>4. x \in SweepKind
    <3>1. CASE rest = {}
      BY <1>1, <1>4, <1>9, <3>1 DEF Advanced, SweepKind, PageStep
    <3>2. CASE rest # {}
      BY <1>1, <1>4, <1>9, <3>2 DEF Advanced, SweepKind, PageStep
    <3>. QED  BY <3>1, <3>2
  <2>. HIDE DEF x
  <2>. QED  BY <2>1, <2>2, <2>3, <2>4
<1>. QED  BY <1>6, <1>7, <1>8, <1>9

\* A step of a pass, as what it does to the sweep and to the rows.
LEMMA SweepSteps ==
    ASSUME SnapshotInv, NEW p \in Sweepers,
           \/ \E kind \in {"weekly", "daily"} : StartSweep(p, kind)
           \/ NextPage(p) \/ ReadWallets(p) \/ SaveSnapshot(p) \/ SkipUser(p)
           \/ SavePercentage(p)
    PROVE  \E x \in SweepKind : Shifts(p, x) /\ sweep' \in [Sweepers -> SweepKind]
<1>1. sweep \in [Sweepers -> SweepKind]
  BY DEF SnapshotInv, SnapshotTypeOK, SweepKind
<1>2. \E x \in SweepKind : Shifts(p, x)
  <2>1. CASE \E kind \in {"weekly", "daily"} : StartSweep(p, kind)
    BY <2>1, SweepMoves
  <2>2. CASE NextPage(p)
    BY <2>2, SweepMoves
  <2>3. CASE ReadWallets(p)
    BY <2>3, SweepMoves
  <2>4. CASE SaveSnapshot(p) \/ SkipUser(p) \/ SavePercentage(p)
    <3>1. sweep[p].at \in {"users", "read"} /\ sweep' = Advanced(p)
      BY <2>4 DEF SaveSnapshot, SkipUser, SavePercentage
    <3>. QED  BY <3>1, SweepMoves
  <2>. QED  BY <2>1, <2>2, <2>3, <2>4
<1>3. \A x \in SweepKind : Shifts(p, x) => sweep' \in [Sweepers -> SweepKind]
  BY <1>1 DEF Shifts
<1>. QED  BY <1>2, <1>3

LEMMA SnapshotTypes == ASSUME SnapshotInv, SnapshotNext PROVE SnapshotTypeOK'
<1>. Users \subseteq Nat /\ Batch \in Nat /\ Changes \in Nat
  BY SnapshotsAssumption
<1>1. /\ sweep \in [Sweepers -> SweepKind] /\ members \subseteq Users
      /\ worth \in [Users -> 0..Changes] /\ weekly \in [Users -> {NoSnapshot} \cup 0..Changes]
      /\ daily \in [Users -> Nat] /\ outset \in [Users -> {NoSnapshot} \cup 0..Changes]
  BY DEF SnapshotInv, SnapshotTypeOK, SweepKind
<1>2. ASSUME /\ sweep' \in [Sweepers -> SweepKind] /\ members' \subseteq Users
             /\ worth' \in [Users -> 0..Changes]
             /\ weekly' \in [Users -> {NoSnapshot} \cup 0..Changes]
             /\ daily' \in [Users -> Nat]
             /\ outset' \in [Users -> {NoSnapshot} \cup 0..Changes]
      PROVE  SnapshotTypeOK'
  BY <1>2 DEF SnapshotTypeOK, SweepKind
<1>3. ASSUME NEW p \in Sweepers, NEW kind \in {"weekly", "daily"}, StartSweep(p, kind)
      PROVE  SnapshotTypeOK'
  <2>1. sweep' \in [Sweepers -> SweepKind]
    BY <1>3, SweepSteps
  <2>2. outset' \in [Users -> {NoSnapshot} \cup 0..Changes]
    BY <1>1, <1>3 DEF StartSweep
  <2>. QED  BY <1>1, <1>2, <1>3, <2>1, <2>2 DEF StartSweep
<1>4. ASSUME NEW p \in Sweepers, NextPage(p) \/ ReadWallets(p) \/ SkipUser(p)
      PROVE  SnapshotTypeOK'
  <2>1. sweep' \in [Sweepers -> SweepKind]
    BY <1>4, SweepSteps
  <2>2. UNCHANGED <<members, worth, weekly, daily, outset>>
    BY <1>4 DEF NextPage, ReadWallets, SkipUser
  <2>. QED  BY <1>1, <1>2, <2>1, <2>2
<1>5. ASSUME NEW p \in Sweepers, SaveSnapshot(p) PROVE SnapshotTypeOK'
  <2>1. sweep' \in [Sweepers -> SweepKind]
    BY <1>5, SweepSteps
  <2>2. sweep[p].seen \in {NoSnapshot} \cup 0..Changes
    BY <1>1 DEF SweepKind
  <2>3. weekly' \in [Users -> {NoSnapshot} \cup 0..Changes]
    BY <1>1, <1>5, <2>2 DEF SaveSnapshot
  <2>. QED  BY <1>1, <1>2, <1>5, <2>1, <2>3 DEF SaveSnapshot
<1>6. ASSUME NEW p \in Sweepers, SavePercentage(p) PROVE SnapshotTypeOK'
  <2>1. sweep' \in [Sweepers -> SweepKind]
    BY <1>6, SweepSteps
  <2>2. daily' \in [Users -> Nat]
    <3>. DEFINE first == First(sweep[p].page)
    <3>1. daily' = [daily EXCEPT ![first] = daily[first] + 1]
      BY <1>6 DEF SavePercentage
    <3>. HIDE DEF first
    <3>2. \A u \in Users : daily[u] \in Nat /\ daily[u] + 1 \in Nat
      BY <1>1
    <3>. QED  BY <1>1, <3>1, <3>2
  <2>. QED  BY <1>1, <1>2, <1>6, <2>1, <2>2 DEF SavePercentage
<1>7. ASSUME NEW u \in Users, NewUser(u) PROVE SnapshotTypeOK'
  BY <1>1, <1>2, <1>7 DEF NewUser
<1>8. ASSUME NEW u \in Users, Change(u) PROVE SnapshotTypeOK'
  <2>1. worth' \in [Users -> 0..Changes]
    BY <1>1, <1>8 DEF Change
  <2>. QED  BY <1>1, <1>2, <1>8, <2>1 DEF Change
<1>. QED  BY <1>3, <1>4, <1>5, <1>6, <1>7, <1>8 DEF SnapshotNext

LEMMA SweepsStay == ASSUME SnapshotInv, SnapshotNext PROVE SweepsShaped'
<1>1. /\ sweep \in [Sweepers -> SweepKind]
      /\ \A p \in Sweepers : /\ sweep[p].at \in {"users", "read"} <=> sweep[p].page # {}
                             /\ sweep[p].at = "read" => sweep[p].kind = "weekly"
                             /\ sweep[p].at = "none" <=> sweep[p].kind = "none"
  BY DEF SnapshotInv, SnapshotTypeOK, SweepKind, SweepsShaped
<1>2. ASSUME NEW p \in Sweepers, NEW x \in SweepKind, Shifts(p, x),
             x.at \in {"users", "read"} <=> x.page # {}, x.at = "read" => x.kind = "weekly",
             x.at # "none" /\ x.kind # "none"
      PROVE  SweepsShaped'
  <2>1. \A q \in Sweepers : sweep'[q] = IF q = p THEN x ELSE sweep[q]
    BY <1>1, <1>2 DEF Shifts
  <2>. QED  BY <1>1, <1>2, <2>1 DEF SweepsShaped
<1>3. ASSUME NEW p \in Sweepers, NEW kind \in {"weekly", "daily"}, StartSweep(p, kind)
      PROVE  SweepsShaped'
  <2>1. PICK x \in SweepKind : /\ Shifts(p, x) /\ x.kind = kind /\ x.at = "paging"
                               /\ x.offset = 0 /\ x.page = {}
    BY <1>3, SweepMoves
  <2>. QED  BY <1>2, <2>1
<1>4. ASSUME NEW p \in Sweepers, NextPage(p) PROVE SweepsShaped'
  <2>1. PICK x \in SweepKind : /\ Shifts(p, x) /\ x.kind = sweep[p].kind
                               /\ x.at = IF x.page = {} THEN "done" ELSE "users"
    BY <1>4, SweepMoves
  <2>2. x.kind # "none"
    BY <1>1, <1>4, <2>1 DEF NextPage
  <2>. QED  BY <1>2, <2>1, <2>2
<1>5. ASSUME NEW p \in Sweepers, ReadWallets(p) PROVE SweepsShaped'
  <2>1. PICK x \in SweepKind : /\ Shifts(p, x) /\ x.kind = "weekly" /\ x.at = "read"
                               /\ x.page = sweep[p].page
    BY <1>5, SweepMoves
  <2>2. x.page # {}
    BY <1>1, <1>5, <2>1 DEF ReadWallets
  <2>. QED  BY <1>2, <2>1, <2>2
<1>6. ASSUME NEW p \in Sweepers, SaveSnapshot(p) \/ SkipUser(p) \/ SavePercentage(p)
      PROVE  SweepsShaped'
  <2>1. sweep[p].at \in {"users", "read"} /\ sweep' = Advanced(p)
    BY <1>6 DEF SaveSnapshot, SkipUser, SavePercentage
  <2>2. PICK x \in SweepKind : /\ Shifts(p, x) /\ x.kind = sweep[p].kind
                               /\ x.page = {} => x.at = "paging"
                               /\ x.page # {} => x.at = "users"
    BY <2>1, SweepMoves
  <2>3. x.kind # "none"
    BY <1>1, <2>1, <2>2
  <2>. QED  BY <1>2, <2>2, <2>3
<1>7. ASSUME NEW u \in Users, NewUser(u) \/ Change(u) PROVE SweepsShaped'
  BY <1>1, <1>7 DEF NewUser, Change, SweepsShaped
<1>. QED  BY <1>3, <1>4, <1>5, <1>6, <1>7 DEF SnapshotNext

LEMMA OutsetStays == ASSUME SnapshotInv, SnapshotNext PROVE OutsetShown'
<1>. Users \subseteq Nat /\ Batch \in Nat /\ Changes \in Nat
  BY SnapshotsAssumption
<1>1. /\ sweep \in [Sweepers -> SweepKind] /\ members \subseteq Users
      /\ worth \in [Users -> 0..Changes] /\ outset \in [Users -> {NoSnapshot} \cup 0..Changes]
      /\ SweepsShaped
  BY DEF SnapshotInv, SnapshotTypeOK, SweepKind
<1>2. /\ \A u \in Users : outset[u] # NoSnapshot => u \in members /\ outset[u] <= worth[u]
      /\ \A p \in Sweepers : sweep[p].kind = "weekly" /\ sweep[p].at = "read" =>
             sweep[p].seen >= outset[First(sweep[p].page)]
  BY DEF SnapshotInv, OutsetShown
<1>3. \A p \in Sweepers : sweep[p].page # {} => First(sweep[p].page) \in Users
  <2>. SUFFICES ASSUME NEW p \in Sweepers, sweep[p].page # {}
                PROVE  First(sweep[p].page) \in Users
    OBVIOUS
  <2>1. sweep[p].page \in SUBSET Users
    BY <1>1 DEF SweepKind
  <2>2. First(sweep[p].page) \in sweep[p].page
    BY <2>1, FirstOf
  <2>. QED  BY <2>1, <2>2
<1>4. ASSUME NEW p \in Sweepers, NEW x \in SweepKind, Shifts(p, x), UNCHANGED <<members, worth, outset>>,
             x.at = "read" => x.seen >= outset[First(x.page)]
      PROVE  OutsetShown'
  <2>1. \A q \in Sweepers : sweep'[q] = IF q = p THEN x ELSE sweep[q]
    BY <1>1, <1>4 DEF Shifts
  <2>. QED  BY <1>2, <1>4, <2>1 DEF OutsetShown
<1>5. ASSUME NEW p \in Sweepers, NEW kind \in {"weekly", "daily"}, StartSweep(p, kind)
      PROVE  OutsetShown'
  <2>1. PICK x \in SweepKind : /\ Shifts(p, x) /\ x.kind = kind /\ x.at = "paging"
                               /\ x.offset = 0 /\ x.page = {}
    BY <1>5, SweepMoves
  <2>2. CASE UNCHANGED outset
    BY <1>4, <1>5, <2>1, <2>2 DEF StartSweep
  <2>3. CASE /\ \A q \in Sweepers : sweep[q].kind # "weekly"
             /\ outset' = [u \in Users |-> IF u \in members THEN worth[u] ELSE NoSnapshot]
    <3>1. \A q \in Sweepers : sweep'[q] = IF q = p THEN x ELSE sweep[q]
      BY <1>1, <2>1 DEF Shifts
    <3>2. \A q \in Sweepers : sweep'[q].at # "read"
      BY <1>1, <2>1, <2>3, <3>1 DEF SweepsShaped
    <3>3. \A u \in Users : outset'[u] # NoSnapshot => u \in members' /\ outset'[u] <= worth'[u]
      BY <1>1, <1>5, <2>3 DEF StartSweep
    <3>. QED  BY <3>2, <3>3 DEF OutsetShown
  <2>. QED  BY <1>5, <2>2, <2>3 DEF StartSweep
<1>6. ASSUME NEW p \in Sweepers, NextPage(p) PROVE OutsetShown'
  <2>1. PICK x \in SweepKind : Shifts(p, x) /\ x.at = IF x.page = {} THEN "done" ELSE "users"
    BY <1>6, SweepMoves
  <2>. QED  BY <1>4, <1>6, <2>1 DEF NextPage
<1>7. ASSUME NEW p \in Sweepers, ReadWallets(p) PROVE OutsetShown'
  <2>1. PICK x \in SweepKind : /\ Shifts(p, x) /\ x.at = "read" /\ x.page = sweep[p].page
                               /\ x.seen = worth[First(sweep[p].page)]
    BY <1>7, SweepMoves
  <2>2. sweep[p].page # {}
    BY <1>1, <1>7 DEF ReadWallets, SweepsShaped
  <2>3. First(x.page) \in Users
    BY <1>3, <2>1, <2>2
  <2>4. x.seen >= outset[First(x.page)]
    <3>1. x.seen = worth[First(x.page)]
      BY <2>1
    <3>. DEFINE u == First(x.page)
    <3>2. worth[u] \in Nat /\ outset[u] \in Int /\ (outset[u] = -1 \/ outset[u] <= worth[u])
      <4>1. \A v \in Users : worth[v] \in Nat /\ outset[v] \in Int
                            /\ (outset[v] = -1 \/ outset[v] <= worth[v])
        <5>. SUFFICES ASSUME NEW v \in Users
                      PROVE  worth[v] \in Nat /\ outset[v] \in Int
                             /\ (outset[v] = -1 \/ outset[v] <= worth[v])
          OBVIOUS
        <5>1. worth[v] \in 0..Changes /\ outset[v] \in {-1} \cup 0..Changes
          BY <1>1 DEF NoSnapshot
        <5>2. outset[v] # -1 => outset[v] <= worth[v]
          BY <1>2 DEF NoSnapshot
        <5>. QED  BY <5>1, <5>2
      <4>. QED  BY <2>3, <4>1
    <3>. HIDE DEF u
    <3>3. x.seen = worth[u]
      BY <3>1 DEF u
    <3>4. x.seen >= outset[u]
      BY <3>2, <3>3
    <3>. QED  BY <3>4 DEF u
  <2>. QED  BY <1>4, <1>7, <2>1, <2>4 DEF ReadWallets
<1>8. ASSUME NEW p \in Sweepers, SaveSnapshot(p) \/ SkipUser(p) \/ SavePercentage(p)
      PROVE  OutsetShown'
  <2>1. sweep[p].at \in {"users", "read"} /\ sweep' = Advanced(p)
        /\ UNCHANGED <<members, worth, outset>>
    BY <1>8 DEF SaveSnapshot, SkipUser, SavePercentage
  <2>2. PICK x \in SweepKind : /\ Shifts(p, x)
                               /\ x.page = {} => x.at = "paging"
                               /\ x.page # {} => x.at = "users"
    BY <2>1, SweepMoves
  <2>. QED  BY <1>4, <2>1, <2>2
<1>9. ASSUME NEW u \in Users, NewUser(u) PROVE OutsetShown'
  BY <1>2, <1>9 DEF NewUser, OutsetShown
<1>10. ASSUME NEW u \in Users, Change(u) PROVE OutsetShown'
  <2>1. \A v \in Users : worth[v] <= worth'[v] /\ worth'[v] \in Int /\ worth[v] \in Int
                         /\ outset[v] \in Int
    BY <1>1, <1>10 DEF Change, NoSnapshot
  <2>2. UNCHANGED <<members, sweep, outset>>
    BY <1>10 DEF Change
  <2>3. \A v \in Users : outset'[v] # NoSnapshot => v \in members' /\ outset'[v] <= worth'[v]
    BY <1>2, <2>1, <2>2
  <2>. QED  BY <1>2, <2>2, <2>3 DEF OutsetShown
<1>. QED  BY <1>5, <1>6, <1>7, <1>8, <1>9, <1>10 DEF SnapshotNext

\* What is ahead of a pass stays so, whoever signs up, until it is shown.
LEMMA ReachedStays == ASSUME SnapshotInv, SnapshotNext PROVE ShownOrAhead'
<1>. Users \subseteq Nat /\ Batch \in Nat /\ Changes \in Nat /\ {"error"} \in SUBSET Kinds
  BY SnapshotsAssumption
<1>. SUFFICES ASSUME Untouched({"error"})' PROVE ShownOrAhead'
  BY DEF ShownOrAhead
<1>0. Untouched({"error"}) /\ ~Spend("error")
  BY UntouchedBack, SnapshotCounts, BudgetSpent DEF SnapshotInv
<1>1. /\ sweep \in [Sweepers -> SweepKind] /\ members \subseteq Users
      /\ worth \in [Users -> 0..Changes] /\ outset \in [Users -> {NoSnapshot} \cup 0..Changes]
      /\ weekly \in [Users -> {NoSnapshot} \cup 0..Changes] /\ SweepsShaped
      /\ \A u : Rank(u) \in Nat
  BY RankFacts DEF SnapshotInv, SnapshotTypeOK, SweepKind
<1>2. \A p \in Sweepers : sweep[p].kind = "weekly" =>
          \A u \in Users : outset[u] # NoSnapshot =>
              weekly[u] >= outset[u] \/ (sweep[p].at # "done" /\ Ahead(p, u))
  BY <1>0 DEF SnapshotInv, ShownOrAhead
<1>3. \A u \in Users : outset[u] # NoSnapshot => u \in members
  BY DEF SnapshotInv, OutsetShown
\* Nobody's rank changes, and what is shown stays so.
<1>4. ASSUME NEW p \in Sweepers, NEW x \in SweepKind, Shifts(p, x), UNCHANGED <<members, outset>>,
             \A u \in Users : outset[u] # NoSnapshot /\ weekly[u] >= outset[u] =>
                 weekly'[u] >= outset[u],
             x.kind = "weekly" =>
                 \A u \in Users : outset[u] # NoSnapshot =>
                     \/ weekly'[u] >= outset[u]
                     \/ /\ x.at # "done"
                        /\ \/ u \in x.page
                           \/ x.page = {} /\ Rank(u) > x.offset
                           \/ x.page # {} /\ Rank(u) > x.offset + Batch
      PROVE  ShownOrAhead'
  <2>1. \A q \in Sweepers : sweep'[q] = IF q = p THEN x ELSE sweep[q]
    BY <1>1, <1>4 DEF Shifts
  <2>2. \A u : Rank(u)' = Rank(u)
    BY <1>4 DEF Rank
  <2>. SUFFICES ASSUME NEW q \in Sweepers, sweep'[q].kind = "weekly",
                       NEW u \in Users, outset[u] # NoSnapshot
                PROVE  weekly'[u] >= outset[u] \/ (sweep'[q].at # "done" /\ Ahead(q, u)')
    BY <1>4 DEF ShownOrAhead
  <2>3. CASE q = p
    BY <1>4, <2>1, <2>2, <2>3 DEF Ahead
  <2>4. CASE q # p
    <3>1. sweep'[q] = sweep[q]
      BY <2>1, <2>4
    <3>2. Ahead(q, u)' <=> Ahead(q, u)
      BY <2>2, <3>1 DEF Ahead
    <3>. QED  BY <1>2, <1>4, <3>1, <3>2
  <2>. QED  BY <2>3, <2>4
<1>5. ASSUME NEW p \in Sweepers, NEW kind \in {"weekly", "daily"}, StartSweep(p, kind)
      PROVE  ShownOrAhead'
  <2>1. PICK x \in SweepKind : /\ Shifts(p, x) /\ x.kind = kind /\ x.at = "paging"
                               /\ x.offset = 0 /\ x.page = {}
    BY <1>5, SweepMoves
  <2>2. UNCHANGED <<members, weekly>>
    BY <1>5 DEF StartSweep
  <2>3. \A u \in members : Rank(u) > 0
    BY <1>1, RankFacts
  <2>4. CASE UNCHANGED outset
    BY <1>3, <1>4, <2>1, <2>2, <2>3, <2>4
  <2>5. CASE /\ \A q \in Sweepers : sweep[q].kind # "weekly"
             /\ outset' = [u \in Users |-> IF u \in members THEN worth[u] ELSE NoSnapshot]
    <3>1. \A q \in Sweepers : sweep'[q] = IF q = p THEN x ELSE sweep[q]
      BY <1>1, <2>1 DEF Shifts
    <3>2. \A u : Rank(u)' = Rank(u)
      BY <2>2 DEF Rank
    <3>3. \A u \in Users : outset'[u] # NoSnapshot => u \in members
      BY <2>5
    <3>. SUFFICES ASSUME NEW q \in Sweepers, sweep'[q].kind = "weekly",
                         NEW u \in Users, outset'[u] # NoSnapshot
                  PROVE  sweep'[q].at # "done" /\ Ahead(q, u)'
      BY DEF ShownOrAhead
    <3>4. q = p /\ sweep'[q] = x
      BY <2>5, <3>1
    <3>. QED  BY <2>1, <2>3, <3>2, <3>3, <3>4 DEF Ahead
  <2>. QED  BY <1>5, <2>4, <2>5 DEF StartSweep
<1>6. ASSUME NEW p \in Sweepers, NextPage(p) PROVE ShownOrAhead'
  <2>1. PICK x \in SweepKind :
            /\ Shifts(p, x) /\ x.kind = sweep[p].kind /\ x.offset = sweep[p].offset
            /\ x.at = IF x.page = {} THEN "done" ELSE "users"
            /\ sweep[p].kind = "weekly" =>
                   x.page = {u \in members : /\ Rank(u) > sweep[p].offset
                                             /\ Rank(u) <= sweep[p].offset + Batch}
    BY <1>6, SweepMoves
  <2>2. UNCHANGED <<members, weekly, outset>> /\ sweep[p].at = "paging"
    BY <1>6 DEF NextPage
  <2>3. sweep[p].page = {} /\ sweep[p].offset \in Nat
    BY <1>1, <2>2 DEF SweepsShaped, SweepKind
  <2>4. ASSUME sweep[p].kind = "weekly", NEW u \in Users, outset[u] # NoSnapshot,
               ~(weekly[u] >= outset[u])
        PROVE  x.at # "done" /\ (u \in x.page \/ (x.page # {} /\ Rank(u) > x.offset + Batch))
    <3>1. u \in members /\ Rank(u) > sweep[p].offset
      BY <1>2, <1>3, <2>3, <2>4 DEF Ahead
    <3>2. \E w \in members : Rank(w) > sweep[p].offset /\ Rank(w) <= sweep[p].offset + Batch
      BY <1>1, <2>3, <3>1, PageNotEmpty
    <3>3. x.page # {}
      BY <2>1, <2>4, <3>2
    <3>. QED  BY <1>1, <2>1, <2>3, <2>4, <3>1, <3>3
  <2>. QED  BY <1>4, <2>1, <2>2, <2>4
<1>7. ASSUME NEW p \in Sweepers, ReadWallets(p) PROVE ShownOrAhead'
  <2>1. PICK x \in SweepKind : /\ Shifts(p, x) /\ x.kind = "weekly" /\ x.at = "read"
                               /\ x.offset = sweep[p].offset /\ x.page = sweep[p].page
    BY <1>7, SweepMoves
  <2>2. UNCHANGED <<members, weekly, outset>> /\ sweep[p].kind = "weekly"
    BY <1>7 DEF ReadWallets
  <2>3. ASSUME NEW u \in Users, outset[u] # NoSnapshot, ~(weekly[u] >= outset[u])
        PROVE  \/ u \in x.page
               \/ x.page = {} /\ Rank(u) > x.offset
               \/ x.page # {} /\ Rank(u) > x.offset + Batch
    BY <1>2, <2>1, <2>2, <2>3 DEF Ahead
  <2>. QED  BY <1>4, <2>1, <2>2, <2>3
<1>8. ASSUME NEW p \in Sweepers, SaveSnapshot(p) \/ SavePercentage(p) PROVE ShownOrAhead'
  <2>. DEFINE first == First(sweep[p].page)
  <2>1. sweep[p].at \in {"users", "read"} /\ sweep' = Advanced(p)
        /\ UNCHANGED <<members, outset>>
    BY <1>8 DEF SaveSnapshot, SavePercentage
  <2>2. PICK x \in SweepKind : /\ Shifts(p, x) /\ x.kind = sweep[p].kind
                               /\ x.page = sweep[p].page \ {first}
                               /\ x.page = {} => /\ x.at = "paging"
                                                 /\ x.offset = sweep[p].offset + Batch
                               /\ x.page # {} => x.at = "users" /\ x.offset = sweep[p].offset
    BY <2>1, SweepMoves
  <2>3. sweep[p].page # {} /\ sweep[p].page \in SUBSET Users
    BY <1>1, <2>1 DEF SweepsShaped, SweepKind
  <2>4. first \in sweep[p].page
    BY <2>3, FirstOf
  <2>5. \A u \in Users : \/ u = first /\ SaveSnapshot(p) /\ weekly'[u] = sweep[p].seen
                         \/ u = first /\ sweep[p].kind = "daily" /\ weekly'[u] = weekly[u]
                         \/ u # first /\ weekly'[u] = weekly[u]
    BY <1>1, <1>8, <2>3, <2>4 DEF SaveSnapshot, SavePercentage
  <2>6. SaveSnapshot(p) => sweep[p].seen >= outset[first]
    BY <1>1 DEF SaveSnapshot, SweepsShaped, SnapshotInv, OutsetShown
  <2>7. \A u \in Users : outset[u] # NoSnapshot /\ weekly[u] >= outset[u] =>
            weekly'[u] >= outset[u]
    BY <2>5, <2>6
  <2>8. ASSUME sweep[p].kind = "weekly", NEW u \in Users, outset[u] # NoSnapshot,
               ~(weekly'[u] >= outset[u])
        PROVE  /\ x.at # "done"
               /\ \/ u \in x.page
                  \/ x.page = {} /\ Rank(u) > x.offset
                  \/ x.page # {} /\ Rank(u) > x.offset + Batch
    <3>1. u # first /\ ~(weekly[u] >= outset[u])
      BY <2>5, <2>6, <2>7, <2>8
    <3>2. u \in sweep[p].page \/ Rank(u) > sweep[p].offset + Batch
      BY <1>2, <2>3, <2>8, <3>1 DEF Ahead
    <3>. QED  BY <2>2, <3>1, <3>2
  <2>. QED  BY <1>4, <2>1, <2>2, <2>7, <2>8
<1>9. ASSUME NEW p \in Sweepers, SkipUser(p) PROVE FALSE
  BY <1>0, <1>9 DEF SkipUser
<1>10. ASSUME NEW u \in Users, NewUser(u) \/ Change(u) PROVE ShownOrAhead'
  <2>1. UNCHANGED <<sweep, weekly, outset>> /\ members' \subseteq Users /\ members \subseteq members'
    BY <1>1, <1>10 DEF NewUser, Change
  <2>2. \A v : Rank(v) \in Nat /\ Rank(v)' \in Nat /\ Rank(v) <= Rank(v)'
    BY <2>1, RanksGrow
  <2>3. ASSUME NEW q \in Sweepers, NEW v \in Users, Ahead(q, v) PROVE Ahead(q, v)'
    <3>1. sweep[q].offset \in Nat
      BY <1>1 DEF SweepKind
    <3>. QED  BY <2>1, <2>2, <2>3, <3>1 DEF Ahead
  <2>. QED  BY <1>2, <2>1, <2>3 DEF ShownOrAhead
<1>. QED  BY <1>5, <1>6, <1>7, <1>8, <1>9, <1>10 DEF SnapshotNext

LEMMA SnapshotSteps == ASSUME SnapshotInv, SnapshotNext PROVE SnapshotInv' /\ CountsDown
BY SnapshotCounts, SnapshotTypes, SweepsStay, OutsetStays, ReachedStays DEF SnapshotInv

---------------------------------------------------------------------------
(* Autostacks.                                                             *)

Inits == {"none", "PENDING", "PROCESSING", "SUBMITTED", "COMPLETED", "FAILED", "CANCELLED"}
StackRows == [status : {"none", "PENDING", "ACTIVE", "ENDED"}, amount : Nat, accrued : Nat]
ChargeRows == [init : Inits, held : {"none", "RESERVED", "RELEASED", "CONSUMED"},
               status : {"PENDING", "COMPLETED", "FAILED"},
               order : {"none", "marked", "placed"}]
StackPayments == [at : {"none", "paid", "declined"},
                  event : {"none", "waiting", "posting", "posted", "done"},
                  init : Inits, held : {"none", "RESERVED", "CONSUMED"}, swap : Nat]
StackSwaps == [round : Executions, row : {"none", "PENDING", "COMPLETED", "FAILED"},
               at : {"open", "completed", "failed", "cancelled", "refused"},
               event : {"none", "waiting", "done"}]
UsdRows == [base : Nat, stacked : Nat, interest : Nat]
StackTotals == [stacked : Nat, accrued : Nat, paid : Nat, internal : Nat]
JobRows == [pc : {"idle", "check", "accrue", "force", "taken", "reserved", "posted", "failed"},
            round : Executions, held : BOOLEAN, first : BOOLEAN,
            swap : Nat, order : {"none", "marked", "placed"}]
StackRequests == [pc : {"idle", "unlock", "cancel"}, amount : Nat, accrued : Nat,
                  early : BOOLEAN, held : {"none", "RESERVED", "RELEASED", "CONSUMED"},
                  order : {"none", "marked", "placed"}, swap : Nat]

PlanOK == /\ source \in Sources /\ stack \in StackRows
          /\ round \in Nat /\ due \in BOOLEAN /\ ripe \in BOOLEAN /\ dates \in Nat
ChargeOK == charge \in [Executions -> ChargeRows]
TradesOK == swaps \in Seq(StackSwaps) /\ payment \in [Executions -> StackPayments]
FundsOK == usd \in UsdRows /\ totals \in StackTotals
HoldsOK == GoodWallet(src) /\ GoodCompany(coSrc)
ActorsOK == job \in [Jobs -> JobRows] /\ request \in [Requests -> StackRequests]

StackTyped == /\ Budgets /\ PlanOK /\ ChargeOK /\ TradesOK /\ FundsOK /\ HoldsOK /\ ActorsOK

LEMMA StackTypedSays == ASSUME StackTyped PROVE StackSafe
<1>1. \A i \in DOMAIN swaps : swaps[i] \in StackSwaps
  BY DEF StackTyped, TradesOK
<1>2. StackTypeOK
  BY <1>1 DEF StackTypeOK, StackTyped, PlanOK, ChargeOK, TradesOK, FundsOK, HoldsOK, ActorsOK,
    Inits, StackRows, ChargeRows, StackPayments, StackSwaps, UsdRows, StackTotals, JobRows,
    StackRequests, GoodWallet, GoodCompany
<1>. QED  BY <1>2 DEF StackSafe, StackTyped, HoldsOK, GoodWallet, GoodCompany

LEMMA ZeroExecution == 0 \in Executions /\ Executions \subseteq Nat
  BY AutostackAssumption DEF Executions

LEMMA NobodyKind == Nobody \in JobRows /\ Nobody.pc = "idle"
  BY ZeroExecution DEF Nobody, JobRows
LEMMA NoPaymentKind == NoPayment \in StackPayments
  BY DEF NoPayment, StackPayments, Inits
LEMMA NoRequestKind == NoRequest \in StackRequests /\ NoRequest.pc = "idle"
  BY DEF NoRequest, StackRequests

LEMMA DivNatural ==
    ASSUME NEW a \in Nat, NEW b \in Nat \ {0} PROVE a \div b \in Nat
  OBVIOUS

\* Products of natural numbers are natural numbers.
LEMMA TimesNatural == ASSUME NEW a \in Nat, NEW b \in Nat PROVE a * b \in Nat
  OBVIOUS

LEMMA SourceTotalNatural == SourceTotal \in Nat /\ SourceTotal >= SourceCost
<1>1. /\ SourceCost \in Nat /\ InstallmentFee \in Nat /\ Installment \in Nat \ {0}
      /\ SourceCost * InstallmentFee \in Nat
  BY AutostackAssumption, TimesNatural
<1>2. SourceCost * InstallmentFee + Installment - 1 \in Nat
  BY <1>1
<1>3. (SourceCost * InstallmentFee + Installment - 1) \div Installment \in Nat
  BY <1>1, <1>2, DivNatural
<1>. QED  BY <1>1, <1>3 DEF SourceTotal

LEMMA InterestNatural == ASSUME NEW a \in Nat PROVE PeriodInterest(a) \in Nat
<1>1. a * PerMille + 500 \in Nat
  BY AutostackAssumption, TimesNatural
<1>. QED  BY <1>1, DivNatural DEF PeriodInterest

LEMMA StackKinds ==
    /\ Cost \in Nat /\ SourceCost \in Nat /\ CardCost \in Nat /\ CardFee \in Nat
    /\ Installment \in Nat \ {0} /\ InstallmentFee \in Nat
  BY AutostackAssumption DEF Cost

LEMMA StackMishaps ==
    /\ {"jobsOverlap", "afterEnd", "reopened", "staleRequest", "early", "lostAnswer",
        "error", "crash", "refusal", "unlock", "cancelStack"} \subseteq Kinds
    /\ \A f \in {"jobsOverlap", "afterEnd", "reopened", "staleRequest", "early"} :
          Budget[f] > 0
  BY AutostackAssumption

LEMMA StackStartsTyped == ASSUME budget = Budget, StackInit PROVE StackTyped
<1>1. PlanOK
  BY DEF StackInit, PlanOK, StackRows
<1>2. ChargeOK
  BY DEF StackInit, ChargeOK, ChargeRows, Inits
<1>3. TradesOK
  BY NoPaymentKind DEF StackInit, TradesOK
<1>4. FundsOK
  BY AutostackAssumption DEF StackInit, FundsOK, UsdRows, StackTotals
<1>5. HoldsOK
  BY AutostackAssumption DEF StackInit, HoldsOK, GoodWallet, GoodCompany, Wallets, CompanyAccounts,
    WalletSolvent, CompanySolvent
<1>6. ActorsOK
  BY NobodyKind, NoRequestKind DEF StackInit, ActorsOK
<1>. QED  BY <1>1, <1>2, <1>3, <1>4, <1>5, <1>6, BudgetsInit DEF StackTyped

\* Rows that are written.
LEMMA SwapWritten ==
    ASSUME NEW S, NEW s \in Seq(S), NEW i, NEW x \in S
    PROVE  /\ [s EXCEPT ![i] = x] \in Seq(S) /\ Len([s EXCEPT ![i] = x]) = Len(s)
           /\ DOMAIN [s EXCEPT ![i] = x] = DOMAIN s
           /\ \A k \in DOMAIN s : [s EXCEPT ![i] = x][k] = IF k = i THEN x ELSE s[k]
<1>1. s \in [1..Len(s) -> S] /\ Len(s) \in Nat /\ DOMAIN s = 1..Len(s)
  OBVIOUS
<1>. DEFINE t == [s EXCEPT ![i] = x]
<1>2. t \in [1..Len(s) -> S] /\ DOMAIN t = 1..Len(s)
      /\ \A k \in DOMAIN s : t[k] = IF k = i THEN x ELSE s[k]
  BY <1>1
<1>. HIDE DEF t
<1>3. t \in Seq(S) /\ Len(t) = Len(s)
  BY <1>1, <1>2
<1>. QED  BY <1>1, <1>2, <1>3 DEF t

LEMMA SwapAdded ==
    ASSUME NEW S, NEW s \in Seq(S), NEW x \in S
    PROVE  /\ Append(s, x) \in Seq(S) /\ Len(Append(s, x)) = Len(s) + 1
           /\ DOMAIN Append(s, x) = DOMAIN s \cup {Len(s) + 1} /\ Len(s) + 1 \in Nat
           /\ Len(s) + 1 \notin DOMAIN s
           /\ \A k \in DOMAIN s : Append(s, x)[k] = s[k]
           /\ Append(s, x)[Len(s) + 1] = x
  OBVIOUS

LEMMA NewSwapKind ==
    ASSUME NEW r \in Executions, NEW at \in {"open", "refused"}
    PROVE  [round |-> r, row |-> "none", at |-> at, event |-> "none"] \in StackSwaps
  BY DEF StackSwaps

\* Jobs that go on, or end.
LEMMA JobSet ==
    ASSUME ActorsOK, NEW j \in Jobs, UNCHANGED request,
           \/ Rest(j)
           \/ SetJob(j, "check") \/ SetJob(j, "accrue") \/ SetJob(j, "force")
           \/ SetJob(j, "reserved") \/ SetJob(j, "posted") \/ SetJob(j, "failed")
    PROVE  ActorsOK'
<1>1. \A r \in JobRows : /\ [r EXCEPT !.pc = "check"] \in JobRows
                         /\ [r EXCEPT !.pc = "accrue"] \in JobRows
                         /\ [r EXCEPT !.pc = "force"] \in JobRows
                         /\ [r EXCEPT !.pc = "reserved"] \in JobRows
                         /\ [r EXCEPT !.pc = "posted"] \in JobRows
                         /\ [r EXCEPT !.pc = "failed"] \in JobRows
  BY DEF JobRows
<1>2. job \in [Jobs -> JobRows] /\ job[j] \in JobRows
  BY DEF ActorsOK
<1>3. \A r \in JobRows : [job EXCEPT ![j] = r] \in [Jobs -> JobRows]
  BY <1>2
<1>4. \A pc : SetJob(j, pc) => job' = [job EXCEPT ![j] = [job[j] EXCEPT !.pc = pc]]
  BY <1>2 DEF SetJob
<1>5. job' \in [Jobs -> JobRows]
  BY <1>1, <1>2, <1>3, <1>4, NobodyKind DEF Rest
<1>. QED  BY <1>5 DEF ActorsOK

LEMMA JobKinds ==
    ASSUME ActorsOK, NEW j \in Jobs
    PROVE  /\ job[j] \in JobRows /\ job[j].round \in Executions /\ job[j].swap \in Nat
           /\ job[j].order \in {"none", "marked", "placed"}
  BY DEF ActorsOK, JobRows

LEMMA ChargeKinds ==
    ASSUME ChargeOK, NEW r \in Executions
    PROVE  /\ charge[r] \in ChargeRows /\ charge[r].init \in Inits
           /\ charge[r].held \in {"none", "RESERVED", "RELEASED", "CONSUMED"}
           /\ charge[r].status \in {"PENDING", "COMPLETED", "FAILED"}
           /\ charge[r].order \in {"none", "marked", "placed"}
  BY DEF ChargeOK, ChargeRows

LEMMA PlanWritten ==
    ASSUME NEW s \in StackRows, NEW p \in {"none", "PENDING", "ACTIVE", "ENDED"}, NEW a \in Nat
    PROVE  /\ [s EXCEPT !.status = p, !.amount = a] \in StackRows
           /\ [s EXCEPT !.status = p, !.amount = a].status = p
           /\ [s EXCEPT !.status = p, !.amount = a].amount = a
           /\ [s EXCEPT !.status = p, !.amount = a].accrued = s.accrued
           /\ [s EXCEPT !.amount = a, !.status = p] = [s EXCEPT !.status = p, !.amount = a]
<1>1. [s EXCEPT !.status = p] \in StackRows
  BY DEF StackRows
<1>2. /\ [s EXCEPT !.status = p].status = p
      /\ [s EXCEPT !.status = p].accrued = s.accrued
  BY DEF StackRows
<1>. DEFINE t == [s EXCEPT !.status = p]
<1>3. /\ [t EXCEPT !.amount = a] \in StackRows /\ [t EXCEPT !.amount = a].status = t.status
      /\ [t EXCEPT !.amount = a].accrued = t.accrued /\ [t EXCEPT !.amount = a].amount = a
  <2>1. t \in StackRows
    BY <1>1
  <2>. HIDE DEF t
  <2>. QED  BY <2>1 DEF StackRows
<1>4. [s EXCEPT !.status = p, !.amount = a] = [t EXCEPT !.amount = a]
  BY DEF StackRows
<1>5. [s EXCEPT !.amount = a, !.status = p] = [t EXCEPT !.amount = a]
  BY DEF StackRows
<1>. QED  BY <1>1, <1>2, <1>3, <1>4, <1>5

LEMMA StackConfirmTyped ==
    ASSUME StackTyped, NEW j \in Jobs, StackConfirm(j) PROVE StackTyped'
<1>1. ActorsOK'
  <2>1. CASE UNCHANGED job
    BY <2>1 DEF StackTyped, StackConfirm, ActorsOK
  <2>2. CASE SetJob(j, "force")
    BY <2>2, JobSet DEF StackTyped, StackConfirm
  <2>. QED  BY <2>1, <2>2 DEF StackConfirm
<1>2. PlanOK'
  <2>3. stack \in StackRows /\ stack' = [stack EXCEPT !.status = "PENDING", !.amount = Installment]
    BY DEF StackTyped, StackConfirm, PlanOK
  <2>1. stack' \in StackRows
    BY StackKinds, <2>3, PlanWritten
  <2>4. \/ due' = TRUE /\ ripe' = TRUE /\ dates' = 1
        \/ due' = due /\ ripe' = ripe /\ dates' = dates
    BY DEF StackConfirm
  <2>5. due \in BOOLEAN /\ ripe \in BOOLEAN /\ dates \in Nat
    BY DEF StackTyped, PlanOK
  <2>2. due' \in BOOLEAN /\ ripe' \in BOOLEAN /\ dates' \in Nat
    <3>1. CASE due' = TRUE /\ ripe' = TRUE /\ dates' = 1
      BY <3>1
    <3>2. CASE due' = due /\ ripe' = ripe /\ dates' = dates
      BY <3>2, <2>5
    <3>. QED  BY <3>1, <3>2, <2>4
  <2>. QED  BY <2>1, <2>2 DEF StackTyped, StackConfirm, PlanOK
<1>3. ChargeOK'
  BY ZeroExecution, ChargeKinds DEF StackTyped, StackConfirm, ChargeOK, SetCharge, ChargeRows, Inits
<1>4. TradesOK' /\ FundsOK' /\ HoldsOK' /\ Budgets'
  BY BudgetSame DEF StackTyped, StackConfirm, trades, wallets, books, TradesOK, FundsOK, HoldsOK
<1>. QED  BY <1>1, <1>2, <1>3, <1>4 DEF StackTyped

LEMMA DateComeTyped == ASSUME StackTyped, DateCome PROVE StackTyped'
<1>1. PlanOK'
  BY DEF StackTyped, DateCome, PlanOK
<1>2. Budgets' /\ ChargeOK' /\ TradesOK' /\ FundsOK' /\ HoldsOK' /\ ActorsOK'
  BY BudgetSame DEF StackTyped, DateCome, trades, wallets, books, ChargeOK, TradesOK, FundsOK,
    HoldsOK, ActorsOK
<1>. QED  BY <1>1, <1>2 DEF StackTyped

LEMMA ChargeStartTyped ==
    ASSUME StackTyped, NEW j \in Jobs, ChargeStart(j) PROVE StackTyped' /\ CountsDown
<1>1. ActorsOK'
  <2>1. SetJob(j, "check") \/ SetJob(j, "accrue")
    BY DEF ChargeStart
  <2>. QED  BY <2>1, JobSet DEF StackTyped, ChargeStart
<1>2. Budgets' /\ CountsDown
  BY BudgetNoted, StackMishaps DEF StackTyped, ChargeStart
<1>3. PlanOK' /\ ChargeOK' /\ TradesOK' /\ FundsOK' /\ HoldsOK'
  BY DEF StackTyped, ChargeStart, plan, trades, wallets, books, PlanOK, ChargeOK, TradesOK, FundsOK,
    HoldsOK
<1>. QED  BY <1>1, <1>2, <1>3 DEF StackTyped

LEMMA AccrueTyped ==
    ASSUME StackTyped, NEW j \in Jobs, Accrue(j) PROVE StackTyped' /\ CountsDown
<1>. DEFINE interest == PeriodInterest(stack.amount)
<1>1. ActorsOK'
  BY JobSet DEF StackTyped, Accrue
<1>2. interest \in Nat
  BY InterestNatural DEF StackTyped, PlanOK, StackRows
<1>3. CASE ripe
  <2>1. /\ stack' = [stack EXCEPT !.accrued = @ + interest]
        /\ usd' = [usd EXCEPT !.interest = @ + interest]
        /\ totals' = [totals EXCEPT !.accrued = @ + interest] /\ ripe' = FALSE
        /\ Note(stack.status = "ENDED", "afterEnd")
    BY <1>3 DEF Accrue
  <2>2. UNCHANGED <<source, round, due, dates, charge, trades, src, coSrc>>
    BY DEF Accrue
  <2>. HIDE DEF interest
  <2>3. PlanOK'
    <3>1. stack \in StackRows /\ stack' = [stack EXCEPT !.accrued = stack.accrued + interest]
      BY <2>1 DEF StackTyped, PlanOK
    <3>2. stack' \in StackRows
      BY <1>2, <3>1 DEF StackRows
    <3>. QED  BY <2>1, <2>2, <3>2 DEF StackTyped, PlanOK
  <2>6. usd' \in UsdRows
    BY <1>2, <2>1, <2>2 DEF StackTyped, FundsOK, UsdRows
  <2>7. totals' \in StackTotals
    BY <1>2, <2>1, <2>2 DEF StackTyped, FundsOK, StackTotals
  <2>4. ChargeOK' /\ TradesOK' /\ HoldsOK'
    BY <2>2 DEF StackTyped, trades, ChargeOK, TradesOK, HoldsOK
  <2>5. Budgets' /\ CountsDown
    BY <2>1, BudgetNoted, StackMishaps DEF StackTyped
  <2>. QED  BY <1>1, <2>3, <2>4, <2>5, <2>6, <2>7 DEF StackTyped, FundsOK
<1>4. CASE ~ripe
  <2>1. UNCHANGED <<source, stack, round, due, ripe, dates, charge, trades, usd, totals, src, coSrc, budget>>
    BY <1>4 DEF Accrue
  <2>2. PlanOK' /\ ChargeOK' /\ TradesOK' /\ FundsOK' /\ HoldsOK' /\ Budgets' /\ CountsDown
    BY <2>1, BudgetSame DEF StackTyped, trades, PlanOK, ChargeOK, TradesOK, FundsOK, HoldsOK
  <2>. QED  BY <1>1, <2>2 DEF StackTyped
<1>5. ripe \in BOOLEAN
  BY DEF StackTyped, PlanOK
<1>. QED  BY <1>3, <1>4, <1>5

LEMMA ChargeTakeTyped ==
    ASSUME StackTyped, NEW j \in Jobs, ChargeTake(j) PROVE StackTyped'
<1>0. round \in Executions
  BY DEF ChargeTake
<1>1. Budgets' /\ PlanOK' /\ TradesOK' /\ FundsOK' /\ HoldsOK'
  BY BudgetSame DEF StackTyped, ChargeTake, plan, trades, wallets, books, PlanOK, TradesOK, FundsOK,
    HoldsOK
<1>2. CASE MayStart(j) /\ ~Initiated(round, j)
  <2>. DEFINE new == [pc |-> "taken", round |-> round, held |-> charge[round].held = "RESERVED",
                      first |-> stack.status = "PENDING", swap |-> 0,
                      order |-> charge[round].order]
  <2>1. /\ charge' = [charge EXCEPT ![round]["init"] = "PROCESSING"]
        /\ job' = [job EXCEPT ![j] = new] /\ UNCHANGED request
    BY <1>2 DEF ChargeTake, SetCharge
  <2>2. new \in JobRows
    BY <1>0, ChargeKinds DEF StackTyped, JobRows
  <2>. HIDE DEF new
  <2>3. ActorsOK'
    BY <2>1, <2>2 DEF StackTyped, ActorsOK
  <2>4. ChargeOK'
    BY <1>0, <2>1 DEF StackTyped, ChargeOK, ChargeRows, Inits
  <2>. QED  BY <1>1, <2>3, <2>4 DEF StackTyped
<1>3. CASE ~(MayStart(j) /\ ~Initiated(round, j))
  <2>1. Rest(j) /\ UNCHANGED <<charge, request>>
    BY <1>3 DEF ChargeTake
  <2>2. ActorsOK' /\ ChargeOK'
    BY <2>1, JobSet DEF StackTyped, ChargeOK
  <2>. QED  BY <1>1, <2>2 DEF StackTyped
<1>. QED  BY <1>2, <1>3

LEMMA CardReserveTyped ==
    ASSUME StackTyped, NEW j \in Jobs, CardReserve(j) PROVE StackTyped'
<1>1. job[j] \in JobRows /\ job[j].round \in Executions /\ job[j].order \in {"none", "marked", "placed"}
  BY JobKinds DEF StackTyped
<1>2. Budgets' /\ PlanOK' /\ TradesOK' /\ FundsOK' /\ GoodWallet(src)'
  BY BudgetSame DEF StackTyped, CardReserve, plan, trades, wallets, PlanOK, TradesOK, FundsOK,
    HoldsOK
<1>3. ActorsOK'
  <2>1. SetJob(j, "reserved") \/ SetJob(j, "failed")
    BY DEF CardReserve
  <2>. QED  BY <2>1, JobSet DEF StackTyped, CardReserve
<1>4. CASE job[j].held \/ CanReserveLiquidity(coSrc, CardCost)
  <2>. DEFINE c == [charge[job[j].round] EXCEPT !.init = "PROCESSING", !.held = "RESERVED",
                                                !.order = job[j].order]
  <2>1. c \in ChargeRows
    <3>1. charge[job[j].round] \in ChargeRows
      BY <1>1, ChargeKinds DEF StackTyped
    <3>. QED  BY <1>1, <3>1 DEF ChargeRows, Inits
  <2>2. charge' = [charge EXCEPT ![job[j].round] = c]
    BY <1>4 DEF CardReserve
  <2>. HIDE DEF c
  <2>3. ChargeOK'
    BY <1>1, <2>1, <2>2 DEF StackTyped, ChargeOK
  <2>4. GoodCompany(coSrc)'
    <3>1. coSrc' = IF job[j].held THEN coSrc ELSE ReserveLiquidity(coSrc, CardCost)
      BY <1>4 DEF CardReserve
    <3>. QED  BY <1>4, <3>1, ReserveLiquidityGood, StackKinds DEF StackTyped, HoldsOK
  <2>. QED  BY <1>2, <1>3, <2>3, <2>4 DEF StackTyped, HoldsOK
<1>5. CASE ~(job[j].held \/ CanReserveLiquidity(coSrc, CardCost))
  <2>1. UNCHANGED <<coSrc, charge>>
    BY <1>5 DEF CardReserve
  <2>. QED  BY <1>2, <1>3, <2>1 DEF StackTyped, HoldsOK, ChargeOK
<1>. QED  BY <1>4, <1>5

LEMMA CardChargeTyped ==
    ASSUME StackTyped, NEW j \in Jobs, CardCharge(j) PROVE StackTyped' /\ CountsDown
<1>. DEFINE r == job[j].round
<1>1. r \in Executions /\ payment[r] \in StackPayments
  BY JobKinds DEF StackTyped, TradesOK
<1>2. PlanOK' /\ ChargeOK' /\ FundsOK' /\ HoldsOK' /\ swaps' = swaps /\ request' = request
  BY DEF StackTyped, CardCharge, plan, wallets, books, PlanOK, FundsOK, HoldsOK, ChargeOK
<1>3. ActorsOK'
  <2>1. SetJob(j, "posted") \/ SetJob(j, "failed")
    BY DEF CardCharge
  <2>. QED  BY <1>2, <2>1, JobSet DEF StackTyped
<1>4. Budgets' /\ CountsDown
  <2>1. UNCHANGED budget \/ Spend("lostAnswer") \/ Spend("refusal")
    BY DEF CardCharge
  <2>. QED  BY <2>1, BudgetSame, BudgetSpent, StackMishaps DEF StackTyped
<1>5. payment' \in [Executions -> StackPayments]
  <2>. DEFINE p == [payment[r] EXCEPT !.at = "paid", !.event = "waiting"]
              q == [payment[r] EXCEPT !.at = "declined"]
  <2>1. p \in StackPayments /\ q \in StackPayments
    BY <1>1 DEF StackPayments
  <2>2. \/ payment' = [payment EXCEPT ![r] = p]
        \/ payment' = [payment EXCEPT ![r] = q] \/ UNCHANGED payment
    BY DEF CardCharge
  <2>. HIDE DEF p, q, r
  <2>. QED  BY <1>1, <2>1, <2>2 DEF StackTyped, TradesOK
<1>. QED  BY <1>2, <1>3, <1>4, <1>5 DEF StackTyped, TradesOK

LEMMA CardRecordTyped ==
    ASSUME StackTyped, NEW j \in Jobs, CardRecord(j) PROVE StackTyped' /\ CountsDown
<1>. DEFINE c == [charge[job[j].round] EXCEPT !.init = "SUBMITTED", !.held = "RESERVED",
                                              !.order = job[j].order]
<1>1. job[j] \in JobRows /\ job[j].round \in Executions /\ job[j].order \in {"none", "marked", "placed"}
  BY JobKinds DEF StackTyped
<1>2. PlanOK' /\ TradesOK' /\ FundsOK' /\ HoldsOK'
  BY DEF StackTyped, CardRecord, plan, trades, wallets, books, PlanOK, FundsOK, HoldsOK, TradesOK
<1>3. ActorsOK'
  <2>1. Rest(j) \/ SetJob(j, "failed")
    BY DEF CardRecord
  <2>. QED  BY <2>1, JobSet DEF StackTyped, CardRecord
<1>4. Budgets' /\ CountsDown
  <2>1. UNCHANGED budget \/ Spend("error")
    BY DEF CardRecord
  <2>. QED  BY <2>1, BudgetSame, BudgetSpent, StackMishaps DEF StackTyped
<1>5. ChargeOK'
  <2>1. c \in ChargeRows
    <3>1. charge[job[j].round] \in ChargeRows
      BY <1>1, ChargeKinds DEF StackTyped
    <3>. QED  BY <1>1, <3>1 DEF ChargeRows, Inits
  <2>2. charge' = [charge EXCEPT ![job[j].round] = c] \/ UNCHANGED charge
    BY DEF CardRecord
  <2>. HIDE DEF c
  <2>. QED  BY <1>1, <2>1, <2>2 DEF StackTyped, ChargeOK
<1>. QED  BY <1>2, <1>3, <1>4, <1>5 DEF StackTyped

LEMMA StackReserveTyped ==
    ASSUME StackTyped, NEW j \in Jobs, StackReserve(j) PROVE StackTyped'
<1>1. job[j] \in JobRows /\ job[j].round \in Executions
  BY JobKinds DEF StackTyped
<1>2. Budgets' /\ PlanOK' /\ TradesOK' /\ FundsOK'
  BY BudgetSame DEF StackTyped, StackReserve, plan, trades, PlanOK, TradesOK, FundsOK
<1>3. ActorsOK'
  <2>1. SetJob(j, "reserved") \/ SetJob(j, "failed")
    BY DEF StackReserve
  <2>. QED  BY <2>1, JobSet DEF StackTyped, StackReserve
<1>. DEFINE able == \/ job[j].held
                    \/ /\ CanReserveBalance(src, SourceTotal)
                       /\ CanReserveLiquidity(coSrc, SourceCost)
<1>4. CASE able
  <2>. DEFINE c == [charge[job[j].round] EXCEPT !.init = "PROCESSING", !.held = "RESERVED"]
  <2>1. c \in ChargeRows
    <3>1. charge[job[j].round] \in ChargeRows
      BY <1>1, ChargeKinds DEF StackTyped
    <3>. QED  BY <1>1, <3>1 DEF ChargeRows, Inits
  <2>2. charge' = [charge EXCEPT ![job[j].round] = c]
    BY <1>4 DEF StackReserve
  <2>. HIDE DEF c
  <2>3. ChargeOK'
    BY <1>1, <2>1, <2>2 DEF StackTyped, ChargeOK
  <2>4. GoodCompany(coSrc)' /\ GoodWallet(src)'
    <3>1. /\ coSrc' = IF job[j].held THEN coSrc ELSE ReserveLiquidity(coSrc, SourceCost)
          /\ src' = IF job[j].held THEN src ELSE ReserveBalance(src, SourceTotal)
      BY <1>4 DEF StackReserve
    <3>. QED  BY <1>4, <3>1, ReserveLiquidityGood, ReserveBalanceGood, StackKinds,
      SourceTotalNatural DEF StackTyped, HoldsOK
  <2>. QED  BY <1>2, <1>3, <2>3, <2>4 DEF StackTyped, HoldsOK
<1>5. CASE ~able
  <2>1. UNCHANGED <<src, coSrc, charge>>
    BY <1>5 DEF StackReserve
  <2>. QED  BY <1>2, <1>3, <2>1 DEF StackTyped, HoldsOK, ChargeOK
<1>. QED  BY <1>4, <1>5

LEMMA StackPostTyped ==
    ASSUME StackTyped, NEW j \in Jobs, StackPost(j) PROVE StackTyped' /\ CountsDown
<1>. DEFINE new(at) == [round |-> job[j].round, row |-> "none", at |-> at, event |-> "none"]
<1>1. job[j] \in JobRows /\ job[j].round \in Executions
  BY JobKinds DEF StackTyped
<1>2. PlanOK' /\ ChargeOK' /\ FundsOK' /\ HoldsOK' /\ payment' = payment /\ request' = request
  BY DEF StackTyped, StackPost, plan, wallets, books, PlanOK, FundsOK, HoldsOK, ChargeOK
<1>3. ActorsOK'
  <2>. DEFINE p == [job[j] EXCEPT !.pc = "posted", !.swap = Len(swaps) + 1]
  <2>1. p \in JobRows
    <3>1. Len(swaps) + 1 \in Nat
      BY DEF StackTyped, TradesOK
    <3>. QED  BY <1>1, <3>1 DEF JobRows
  <2>2. job' = [job EXCEPT ![j] = p] \/ SetJob(j, "failed")
    BY DEF StackPost
  <2>. HIDE DEF p
  <2>3. ASSUME job' = [job EXCEPT ![j] = p] PROVE ActorsOK'
    BY <1>2, <2>1, <2>3 DEF StackTyped, ActorsOK
  <2>. QED  BY <1>2, <2>2, <2>3, JobSet DEF StackTyped
<1>4. Budgets' /\ CountsDown
  <2>1. UNCHANGED budget \/ Spend("lostAnswer") \/ Spend("refusal")
    BY DEF StackPost
  <2>. QED  BY <2>1, BudgetSame, BudgetSpent, StackMishaps DEF StackTyped
<1>5. TradesOK'
  <2>1. \A at \in {"open", "refused"} : new(at) \in StackSwaps
    BY <1>1, NewSwapKind
  <2>2. \/ \E at \in {"open", "refused"} : swaps' = Append(swaps, new(at))
        \/ UNCHANGED swaps
    BY DEF StackPost
  <2>. HIDE DEF new
  <2>. QED  BY <1>2, <2>1, <2>2, SwapAdded DEF StackTyped, TradesOK
<1>. QED  BY <1>2, <1>3, <1>4, <1>5 DEF StackTyped

\* A swap's row is rewritten, if there is such a swap.
LEMMA SwapRowWritten ==
    ASSUME TradesOK, NEW i, NEW x \in {"none", "PENDING", "COMPLETED", "FAILED"},
           swaps' = [swaps EXCEPT ![i].row = x], UNCHANGED payment
    PROVE  /\ TradesOK' /\ DOMAIN swaps' = DOMAIN swaps /\ Len(swaps') = Len(swaps)
           /\ \A k \in DOMAIN swaps :
                 /\ swaps'[k].row = IF k = i THEN x ELSE swaps[k].row
                 /\ swaps'[k].round = swaps[k].round /\ swaps'[k].at = swaps[k].at
                 /\ swaps'[k].event = swaps[k].event
<1>1. swaps \in [1..Len(swaps) -> StackSwaps] /\ Len(swaps) \in Nat /\ DOMAIN swaps = 1..Len(swaps)
  BY DEF TradesOK
<1>2. \A k \in DOMAIN swaps : /\ [swaps[k] EXCEPT !.row = x] \in StackSwaps
                              /\ [swaps[k] EXCEPT !.row = x].row = x
                              /\ [swaps[k] EXCEPT !.row = x].round = swaps[k].round
                              /\ [swaps[k] EXCEPT !.row = x].at = swaps[k].at
                              /\ [swaps[k] EXCEPT !.row = x].event = swaps[k].event
  BY <1>1 DEF StackSwaps
<1>3. \A k \in DOMAIN swaps : swaps'[k] = IF k = i THEN [swaps[k] EXCEPT !.row = x] ELSE swaps[k]
  BY <1>1
<1>4. swaps' \in [1..Len(swaps) -> StackSwaps] /\ DOMAIN swaps' = 1..Len(swaps)
  <2>1. DOMAIN swaps' = 1..Len(swaps) /\ swaps' = [k \in 1..Len(swaps) |-> swaps'[k]]
    BY <1>1
  <2>2. \A k \in 1..Len(swaps) : swaps'[k] \in StackSwaps
    BY <1>1, <1>2, <1>3
  <2>. QED  BY <2>1, <2>2
<1>5. swaps' \in Seq(StackSwaps) /\ Len(swaps') = Len(swaps)
  BY <1>1, <1>4
<1>. QED  BY <1>1, <1>2, <1>3, <1>4, <1>5 DEF TradesOK

LEMMA StackRecordTyped ==
    ASSUME StackTyped, NEW j \in Jobs, StackRecord(j) PROVE StackTyped' /\ CountsDown
<1>1. job[j] \in JobRows /\ job[j].round \in Executions
  BY JobKinds DEF StackTyped
<1>2. PlanOK' /\ FundsOK' /\ HoldsOK' /\ payment' = payment
  BY DEF StackTyped, StackRecord, plan, wallets, books, PlanOK, FundsOK, HoldsOK
<1>3. ActorsOK'
  <2>1. Rest(j) \/ SetJob(j, "failed")
    BY DEF StackRecord
  <2>. QED  BY <2>1, JobSet DEF StackTyped, StackRecord
<1>4. Budgets' /\ CountsDown
  <2>1. UNCHANGED budget \/ Spend("error")
    BY DEF StackRecord
  <2>. QED  BY <2>1, BudgetSame, BudgetSpent, StackMishaps DEF StackTyped
<1>5. ChargeOK'
  <2>. DEFINE c == [charge[job[j].round] EXCEPT !.init = "SUBMITTED"]
  <2>1. c \in ChargeRows
    <3>1. charge[job[j].round] \in ChargeRows
      BY <1>1, ChargeKinds DEF StackTyped
    <3>. QED  BY <1>1, <3>1 DEF ChargeRows, Inits
  <2>2. charge' = [charge EXCEPT ![job[j].round] = c] \/ UNCHANGED charge
    BY DEF StackRecord, SetCharge
  <2>. HIDE DEF c
  <2>. QED  BY <1>1, <2>1, <2>2 DEF StackTyped, ChargeOK
<1>6. TradesOK'
  <2>1. swaps' = [swaps EXCEPT ![job[j].swap].row = "PENDING"] \/ UNCHANGED swaps
    BY DEF StackRecord
  <2>2. CASE UNCHANGED swaps
    BY <1>2, <2>2 DEF StackTyped, TradesOK
  <2>. QED  BY <1>2, <2>1, <2>2, SwapRowWritten DEF StackTyped
<1>. QED  BY <1>2, <1>3, <1>4, <1>5, <1>6 DEF StackTyped

LEMMA StackUndoTyped ==
    ASSUME StackTyped, NEW j \in Jobs, StackUndo(j) PROVE StackTyped'
<1>1. job[j] \in JobRows /\ job[j].round \in Executions
  BY JobKinds DEF StackTyped
<1>2. Budgets' /\ PlanOK' /\ FundsOK' /\ TradesOK' /\ ActorsOK'
  BY BudgetSame, JobSet DEF StackTyped, StackUndo, plan, trades, PlanOK, FundsOK, TradesOK
<1>3. ChargeOK'
  <2>. DEFINE r == job[j].round
              h == IF charge[r].held = "RESERVED" THEN "RELEASED" ELSE charge[r].held
              c == [charge[r] EXCEPT !.init = "FAILED", !.held = h]
  <2>1. charge[r] \in ChargeRows /\ h \in {"none", "RESERVED", "RELEASED", "CONSUMED"}
    BY <1>1, ChargeKinds DEF StackTyped
  <2>2. charge' = [charge EXCEPT ![r] = c]
    BY DEF StackUndo
  <2>. HIDE DEF h
  <2>3. c \in ChargeRows
    BY <2>1 DEF ChargeRows, Inits
  <2>. HIDE DEF c
  <2>. QED  BY <1>1, <2>2, <2>3 DEF StackTyped, ChargeOK
<1>4. GoodCompany(coSrc)'
  BY ReleaseLiquidityGood, StackKinds DEF StackTyped, HoldsOK, StackUndo
<1>5. GoodWallet(src)'
  BY ReleaseBalanceGood, SourceTotalNatural DEF StackTyped, HoldsOK, StackUndo
<1>. QED  BY <1>2, <1>3, <1>4, <1>5 DEF StackTyped, HoldsOK

\* What a settlement does to the plan.
LEMMA GrowTyped ==
    ASSUME Budgets, PlanOK, NEW first \in BOOLEAN, Grow(Installment, first),
           UNCHANGED <<source, dates>>
    PROVE  /\ PlanOK' /\ Budgets' /\ CountsDown
           /\ stack'.status = "ACTIVE" /\ stack'.accrued = stack.accrued
           /\ stack'.amount = IF first THEN Installment ELSE stack.amount + Installment
           /\ round' = round + 1 /\ due' = FALSE /\ ripe' = FALSE
           /\ stack.status = "ENDED" => \A F : "reopened" \in F => ~Untouched(F)'
           /\ (\E j \in Jobs : job[j].pc \in {"accrue", "force"})
                => \A F : "jobsOverlap" \in F => ~Untouched(F)'
<1>. DEFINE a == IF first THEN Installment ELSE stack.amount + Installment
<1>1. stack \in StackRows /\ a \in Nat
  BY StackKinds DEF PlanOK, StackRows
<1>2. stack' = [stack EXCEPT !.amount = a, !.status = "ACTIVE"]
  BY DEF Grow
<1>3. stack'.status = "ACTIVE" /\ stack'.accrued = stack.accrued /\ stack'.amount = a
  <2>. HIDE DEF a
  <2>. QED  BY <1>1, <1>2 DEF StackRows
<1>4. stack' \in StackRows
  <2>. HIDE DEF a
  <2>. QED  BY <1>1, <1>2 DEF StackRows
<1>5. round' = round + 1 /\ due' = FALSE /\ ripe' = FALSE /\ NoteSettled
  BY DEF Grow
<1>6. PlanOK'
  <2>1. due' \in BOOLEAN /\ ripe' \in BOOLEAN
    BY <1>5
  <2>2. round' \in Nat
    BY <1>5 DEF PlanOK
  <2>. QED  BY <1>4, <2>1, <2>2 DEF PlanOK
<1>. DEFINE G == (IF stack.status = "ENDED" THEN {"reopened"} ELSE {})
                 \cup (IF \E j \in Jobs : job[j].pc \in {"accrue", "force"}
                       THEN {"jobsOverlap"} ELSE {})
<1>7. NoteAll(G)
  BY <1>5 DEF NoteSettled
<1>8. /\ stack.status = "ENDED" => "reopened" \in G
      /\ (\E j \in Jobs : job[j].pc \in {"accrue", "force"}) => "jobsOverlap" \in G
  OBVIOUS
<1>9. /\ Budgets' /\ CountsDown
      /\ \A F : \A f \in F : f \in G /\ f \in Kinds /\ Budget[f] > 0 => ~Untouched(F)'
  <2>. HIDE DEF G
  <2>. QED  BY <1>7, BudgetNotedAll
<1>. HIDE DEF G
<1>. QED  BY <1>3, <1>5, <1>6, <1>8, <1>9, StackMishaps

LEMMA StackFromWalletTyped ==
    ASSUME StackTyped, NEW j \in Jobs, StackFromWallet(j) PROVE StackTyped' /\ CountsDown
<1>1. job[j] \in JobRows /\ job[j].round \in Executions /\ job[j].first \in BOOLEAN
  <2>1. job[j] \in JobRows
    BY JobKinds DEF StackTyped
  <2>. QED  BY <2>1 DEF JobRows
<1>2. TradesOK' /\ HoldsOK' /\ UNCHANGED <<source, dates, request>>
  BY DEF StackTyped, StackFromWallet, trades, TradesOK, HoldsOK
<1>. DEFINE able == usd.base >= Installment + InstallmentFee
<1>3. CASE able
  <2>1. /\ usd' = [usd EXCEPT !.base = @ - (Installment + InstallmentFee),
                              !.stacked = @ + Installment]
        /\ totals' = [totals EXCEPT !.stacked = @ + Installment]
        /\ Grow(Installment, job[j].first) /\ Rest(j)
        /\ charge' = [charge EXCEPT ![job[j].round] =
                         [@ EXCEPT !.init = "COMPLETED", !.status = "COMPLETED"]]
    BY <1>3 DEF StackFromWallet
  <2>2. PlanOK' /\ Budgets' /\ CountsDown /\ ActorsOK'
    BY <1>1, <1>2, <2>1, GrowTyped, JobSet DEF StackTyped
  <2>3. totals' \in StackTotals
    BY <2>1, StackKinds DEF StackTyped, FundsOK, StackTotals
  <2>4. usd' \in UsdRows
    <3>1. /\ usd \in UsdRows /\ usd.base - (Installment + InstallmentFee) \in Nat
          /\ usd.stacked + Installment \in Nat
      BY <1>3, StackKinds DEF StackTyped, FundsOK, UsdRows
    <3>. QED  BY <2>1, <3>1 DEF UsdRows
  <2>5. ChargeOK'
    <3>. DEFINE c == [charge[job[j].round] EXCEPT !.init = "COMPLETED", !.status = "COMPLETED"]
    <3>1. c \in ChargeRows
      <4>1. charge[job[j].round] \in ChargeRows
        BY <1>1, ChargeKinds DEF StackTyped
      <4>. QED  BY <1>1, <4>1 DEF ChargeRows, Inits
    <3>2. charge' = [charge EXCEPT ![job[j].round] = c]
      BY <2>1
    <3>. HIDE DEF c
    <3>. QED  BY <1>1, <3>1, <3>2 DEF StackTyped, ChargeOK
  <2>. QED  BY <1>2, <2>2, <2>3, <2>4, <2>5 DEF StackTyped, FundsOK
<1>4. CASE ~able
  <2>1. SetJob(j, "failed") /\ UNCHANGED <<usd, totals, plan, charge, budget>>
    BY <1>4 DEF StackFromWallet
  <2>2. ActorsOK' /\ PlanOK' /\ FundsOK' /\ ChargeOK' /\ Budgets' /\ CountsDown
    BY <1>2, <2>1, JobSet, BudgetSame DEF StackTyped, plan, PlanOK, FundsOK, ChargeOK
  <2>. QED  BY <1>2, <2>2 DEF StackTyped
<1>. QED  BY <1>3, <1>4

\* What a swap or purchase becomes at Quidax, and what an event of it leaves.
LEMMA StackSwapEndsTyped ==
    ASSUME StackTyped, NEW i \in DOMAIN swaps, StackSwapEnds(i) PROVE StackTyped' /\ CountsDown
<1>1. PlanOK' /\ ChargeOK' /\ FundsOK' /\ HoldsOK' /\ ActorsOK' /\ UNCHANGED payment
  BY DEF StackTyped, StackSwapEnds, plan, wallets, books, PlanOK, ChargeOK, FundsOK, HoldsOK,
    ActorsOK
<1>2. PICK end \in {"completed", "failed"} :
          /\ swaps' = [swaps EXCEPT ![i] = [@ EXCEPT !.at = end, !.event = "waiting"]]
          /\ IF end = "failed" THEN Spend("refusal") ELSE UNCHANGED budget
  BY DEF StackSwapEnds
<1>3. Budgets' /\ CountsDown
  BY <1>2, BudgetSame, BudgetSpent, StackMishaps DEF StackTyped
<1>4. TradesOK'
  <2>. DEFINE new == [swaps[i] EXCEPT !.at = end, !.event = "waiting"]
  <2>1. new \in StackSwaps
    <3>1. swaps[i] \in StackSwaps
      BY DEF StackTyped, TradesOK
    <3>. QED  BY <3>1 DEF StackSwaps
  <2>2. swaps' = [swaps EXCEPT ![i] = new]
    BY <1>2
  <2>. HIDE DEF new
  <2>. QED  BY <1>1, <2>1, <2>2, SwapWritten DEF StackTyped, TradesOK
<1>. QED  BY <1>1, <1>3, <1>4 DEF StackTyped

\* An event has been handled.
LEMMA SwapEnded ==
    ASSUME TradesOK, NEW i \in DOMAIN swaps, NEW row \in {"none", "PENDING", "COMPLETED", "FAILED"},
           swaps' = [swaps EXCEPT ![i] = [@ EXCEPT !.event = "done", !.row = row]],
           UNCHANGED payment
    PROVE  /\ TradesOK' /\ DOMAIN swaps' = DOMAIN swaps /\ Len(swaps') = Len(swaps)
           /\ \A k \in DOMAIN swaps :
                 /\ swaps'[k].row = IF k = i THEN row ELSE swaps[k].row
                 /\ swaps'[k].round = swaps[k].round /\ swaps'[k].at = swaps[k].at
                 /\ swaps'[k].event = IF k = i THEN "done" ELSE swaps[k].event
<1>. DEFINE new == [swaps[i] EXCEPT !.event = "done", !.row = row]
<1>1. swaps[i] \in StackSwaps
  BY DEF TradesOK
<1>2. /\ new.event = "done" /\ new.row = row /\ new.round = swaps[i].round /\ new.at = swaps[i].at
  BY <1>1 DEF StackSwaps
<1>3. new \in StackSwaps
  BY <1>1 DEF StackSwaps
<1>4. swaps' = [swaps EXCEPT ![i] = new]
  OBVIOUS
<1>. HIDE DEF new
<1>. QED  BY <1>2, <1>3, <1>4, SwapWritten DEF TradesOK

\* Amounts that a swap's event moves.
LEMMA SwapFundsTyped ==
    ASSUME FundsOK, usd' = [usd EXCEPT !.stacked = @ + Installment],
           totals' = [totals EXCEPT !.stacked = @ + Installment, !.internal = @ + Installment]
    PROVE  FundsOK'
<1>1. usd' \in UsdRows
  BY StackKinds DEF FundsOK, UsdRows
<1>2. totals' \in StackTotals
  <2>1. /\ totals \in StackTotals /\ totals.stacked + Installment \in Nat
        /\ totals.internal + Installment \in Nat
    BY StackKinds DEF FundsOK, StackTotals
  <2>. QED  BY <2>1 DEF StackTotals
<1>. QED  BY <1>1, <1>2 DEF FundsOK

LEMMA SwapKinds ==
    ASSUME StackTyped, NEW i \in DOMAIN swaps
    PROVE  /\ swaps[i] \in StackSwaps /\ swaps[i].round \in Executions
           /\ swaps[i].row \in {"none", "PENDING", "COMPLETED", "FAILED"}
           /\ charge[swaps[i].round] \in ChargeRows
<1>1. swaps[i] \in StackSwaps
  BY DEF StackTyped, TradesOK
<1>2. /\ swaps[i].round \in Executions
      /\ swaps[i].row \in {"none", "PENDING", "COMPLETED", "FAILED"}
  BY <1>1 DEF StackSwaps
<1>. QED  BY <1>1, <1>2, ChargeKinds DEF StackTyped

LEMMA StackWebhookTyped ==
    ASSUME StackTyped, NEW i \in DOMAIN swaps, StackWebhook(i) PROVE StackTyped' /\ CountsDown
<1>. DEFINE r == swaps[i].round
            ended(row) == swaps' = [swaps EXCEPT ![i] = [@ EXCEPT !.event = "done", !.row = row]]
<1>1. r \in Executions /\ charge[r] \in ChargeRows
      /\ swaps[i].row \in {"none", "PENDING", "COMPLETED", "FAILED"}
  BY SwapKinds
<1>2. ActorsOK' /\ UNCHANGED <<source, dates, payment>>
  BY DEF StackTyped, StackWebhook, ActorsOK
<1>3. CASE CanSettle(i) /\ SwapSettles(i) /\ ended("COMPLETED")
  <2>1. PlanOK' /\ Budgets' /\ CountsDown
    <3>1. (stack.status = "PENDING") \in BOOLEAN /\ Grow(Installment, stack.status = "PENDING")
      BY <1>3 DEF SwapSettles
    <3>. QED  BY <1>2, <3>1, GrowTyped DEF StackTyped
  <2>2. TradesOK'
    BY <1>2, <1>3, SwapEnded DEF StackTyped
  <2>3. FundsOK'
    BY <1>3, SwapFundsTyped DEF StackTyped, SwapSettles
  <2>4. GoodWallet(src)'
    BY <1>3, FinalizeBalanceGood, SourceTotalNatural DEF StackTyped, HoldsOK, SwapSettles, CanSettle
  <2>5. GoodCompany(coSrc)'
    <3>. DEFINE c == SubtractInternal(coSrc, SourceCost)
    <3>1. GoodCompany(c)
      BY <1>3, SubtractInternalGood, StackKinds DEF StackTyped, HoldsOK, CanSettle
    <3>2. CanConsumeLiquidity(c, SourceCost)
      BY <1>3, StackKinds DEF CanSettle, CanConsumeLiquidity, SubtractInternal, StackTyped, HoldsOK,
        GoodCompany, CompanyAccounts
    <3>3. coSrc' = ConsumeReservedLiquidity(c, SourceCost)
      BY <1>3 DEF SwapSettles
    <3>. HIDE DEF c
    <3>. QED  BY <3>1, <3>2, <3>3, ConsumeLiquidityGood, StackKinds
  <2>6. ChargeOK'
    <3>. DEFINE c == [charge[r] EXCEPT !.init = "COMPLETED", !.held = "CONSUMED",
                                       !.status = "COMPLETED"]
    <3>1. c \in ChargeRows
      BY <1>1 DEF ChargeRows, Inits
    <3>2. charge' = [charge EXCEPT ![r] = c]
      BY <1>3 DEF SwapSettles
    <3>. HIDE DEF c
    <3>. QED  BY <1>1, <3>1, <3>2 DEF StackTyped, ChargeOK
  <2>. QED  BY <1>2, <2>1, <2>2, <2>3, <2>4, <2>5, <2>6 DEF StackTyped, HoldsOK
<1>4. CASE CanFail(i) /\ SwapFails(i) /\ ended("FAILED")
  <2>1. PlanOK' /\ FundsOK' /\ Budgets' /\ CountsDown
    BY <1>2, <1>4, BudgetSame DEF StackTyped, SwapFails, plan, PlanOK, FundsOK
  <2>2. TradesOK'
    BY <1>2, <1>4, SwapEnded DEF StackTyped
  <2>3. GoodWallet(src)' /\ GoodCompany(coSrc)'
    BY <1>4, ReleaseBalanceGood, ReleaseLiquidityGood, SourceTotalNatural, StackKinds DEF
      StackTyped, HoldsOK, SwapFails, CanFail
  <2>4. ChargeOK'
    <3>. DEFINE c == [charge[r] EXCEPT !.init = "FAILED", !.held = "RELEASED", !.status = "FAILED"]
    <3>1. c \in ChargeRows
      BY <1>1 DEF ChargeRows, Inits
    <3>2. charge' = [charge EXCEPT ![r] = c]
      BY <1>4 DEF SwapFails
    <3>. HIDE DEF c
    <3>. QED  BY <1>1, <3>1, <3>2 DEF StackTyped, ChargeOK
  <2>. QED  BY <1>2, <2>1, <2>2, <2>3, <2>4 DEF StackTyped, HoldsOK
<1>5. CASE ended(swaps[i].row) /\ UNCHANGED <<wallets, books, charge, plan, budget>>
  <2>1. TradesOK'
    BY <1>1, <1>2, <1>5, SwapEnded DEF StackTyped
  <2>2. PlanOK' /\ FundsOK' /\ Budgets' /\ CountsDown /\ HoldsOK' /\ ChargeOK'
    BY <1>2, <1>5, BudgetSame DEF StackTyped, wallets, books, plan, PlanOK, FundsOK, HoldsOK,
      ChargeOK
  <2>. QED  BY <1>2, <2>1, <2>2 DEF StackTyped
<1>6. \/ CanSettle(i) /\ SwapSettles(i) /\ ended("COMPLETED")
      \/ CanFail(i) /\ SwapFails(i) /\ ended("FAILED")
      \/ ended(swaps[i].row) /\ UNCHANGED <<wallets, books, charge, plan, budget>>
  BY DEF StackWebhook
<1>. QED  BY <1>3, <1>4, <1>5, <1>6

\* What Paystack or an order's answer writes of a payment.
LEMMA PaymentEvent ==
    ASSUME TradesOK, NEW r \in Executions,
           NEW e \in {"none", "waiting", "posting", "posted", "done"}, SetEvent(r, e)
    PROVE  payment' \in [Executions -> StackPayments]
<1>1. [payment[r] EXCEPT !.event = e] \in StackPayments
  BY DEF TradesOK, StackPayments
<1>2. payment' = [payment EXCEPT ![r] = [payment[r] EXCEPT !.event = e]]
  BY DEF SetEvent
<1>. QED  BY <1>1, <1>2 DEF TradesOK

LEMMA PaymentKinds ==
    ASSUME TradesOK, NEW r \in Executions
    PROVE  /\ payment[r] \in StackPayments /\ payment[r].init \in Inits
           /\ payment[r].held \in {"none", "RESERVED", "CONSUMED"} /\ payment[r].swap \in Nat
  BY DEF TradesOK, StackPayments

LEMMA CardPaidTyped ==
    ASSUME StackTyped, NEW r \in Executions, CardPaid(r) PROVE StackTyped' /\ CountsDown
<1>1. PlanOK' /\ FundsOK' /\ HoldsOK' /\ ActorsOK' /\ UNCHANGED swaps
  BY DEF StackTyped, CardPaid, plan, wallets, books, PlanOK, FundsOK, HoldsOK, ActorsOK
<1>2. Budgets' /\ CountsDown
  <2>1. Watching(r) \in BOOLEAN /\ Note(Watching(r), "early")
    BY DEF CardPaid, Watching
  <2>. QED  BY <2>1, BudgetNoted, StackMishaps DEF StackTyped
<1>3. charge[r] \in ChargeRows /\ payment[r] \in StackPayments
  BY ChargeKinds, PaymentKinds DEF StackTyped
<1>4. CASE Wanted(r)
  <2>. DEFINE p == [payment[r] EXCEPT !.event = "posting", !.init = charge[r].init,
                                      !.held = charge[r].held]
              c == [charge[r] EXCEPT !.order = "marked"]
  <2>1. charge' = [charge EXCEPT ![r] = c] /\ payment' = [payment EXCEPT ![r] = p]
    BY <1>4 DEF CardPaid, SetCharge
  <2>2. c \in ChargeRows
    BY <1>3 DEF ChargeRows
  <2>3. p \in StackPayments
    <3>1. charge[r].init \in Inits /\ charge[r].held \in {"none", "RESERVED", "CONSUMED"}
      BY <1>3, <1>4 DEF Wanted, ChargeRows
    <3>. QED  BY <1>3, <3>1 DEF StackPayments
  <2>. HIDE DEF p, c
  <2>. QED  BY <1>1, <1>2, <2>1, <2>2, <2>3 DEF StackTyped, TradesOK, ChargeOK
<1>5. CASE ~Wanted(r)
  <2>1. SetEvent(r, "done") /\ UNCHANGED charge
    BY <1>5 DEF CardPaid
  <2>. QED  BY <1>1, <1>2, <2>1, PaymentEvent DEF StackTyped, TradesOK, ChargeOK
<1>. QED  BY <1>4, <1>5

LEMMA RestoredTyped ==
    ASSUME ChargeOK, TradesOK, NEW r \in Executions, NEW o \in {"none", "marked", "placed"},
           Restored(r, o)
    PROVE  /\ ChargeOK' /\ \A k \in Executions \ {r} : charge'[k] = charge[k]
           /\ charge'[r].init = payment[r].init /\ charge'[r].held = payment[r].held
           /\ charge'[r].status = charge[r].status /\ charge'[r].order = o
<1>. DEFINE c == [charge[r] EXCEPT !.init = payment[r].init, !.held = payment[r].held, !.order = o]
<1>1. charge[r] \in ChargeRows /\ payment[r].init \in Inits
      /\ payment[r].held \in {"none", "RESERVED", "RELEASED", "CONSUMED"}
  BY ChargeKinds, PaymentKinds
<1>2. c \in ChargeRows
  BY <1>1 DEF ChargeRows, Inits
<1>3. c.init = payment[r].init /\ c.held = payment[r].held /\ c.status = charge[r].status
      /\ c.order = o
  BY <1>1 DEF ChargeRows
<1>4. charge' = [charge EXCEPT ![r] = c]
  BY DEF Restored
<1>. HIDE DEF c
<1>. QED  BY <1>2, <1>3, <1>4 DEF ChargeOK

LEMMA CardOrderTyped ==
    ASSUME StackTyped, NEW r \in Executions, CardOrder(r) PROVE StackTyped' /\ CountsDown
<1>. DEFINE new == [round |-> r, row |-> "none", at |-> "open", event |-> "none"]
            p == [payment[r] EXCEPT !.event = "posted", !.swap = Len(swaps) + 1]
<1>1. PlanOK' /\ FundsOK' /\ HoldsOK' /\ ActorsOK'
  BY DEF StackTyped, CardOrder, plan, wallets, books, PlanOK, FundsOK, HoldsOK, ActorsOK
<1>2. Budgets' /\ CountsDown
  <2>1. UNCHANGED budget \/ Spend("lostAnswer") \/ Spend("refusal") \/ Spend("error")
    BY DEF CardOrder
  <2>. QED  BY <2>1, BudgetSame, BudgetSpent, StackMishaps DEF StackTyped
<1>3. ChargeOK'
  <2>1. UNCHANGED charge \/ Restored(r, "none")
    BY DEF CardOrder
  <2>. QED  BY <2>1, RestoredTyped DEF StackTyped, ChargeOK
<1>4. swaps' \in Seq(StackSwaps)
  <2>1. UNCHANGED swaps \/ swaps' = Append(swaps, new)
    BY DEF CardOrder
  <2>2. new \in StackSwaps
    BY NewSwapKind
  <2>. HIDE DEF new
  <2>. QED  BY <2>1, <2>2, SwapAdded DEF StackTyped, TradesOK
<1>5. payment' \in [Executions -> StackPayments]
  <2>1. \/ payment' = [payment EXCEPT ![r] = p] \/ SetEvent(r, "waiting")
    BY DEF CardOrder
  <2>2. p \in StackPayments
    <3>1. payment[r] \in StackPayments /\ Len(swaps) + 1 \in Nat
      BY PaymentKinds DEF StackTyped, TradesOK
    <3>. QED  BY <3>1 DEF StackPayments
  <2>. HIDE DEF p
  <2>. QED  BY <2>1, <2>2, PaymentEvent DEF StackTyped, TradesOK
<1>. QED  BY <1>1, <1>2, <1>3, <1>4, <1>5 DEF StackTyped, TradesOK

\* The rows of an execution's purchases, of which the last counts.
RowsOf(r) ==
    swaps' = [i \in DOMAIN swaps |->
                CASE i = payment[r].swap -> [swaps[i] EXCEPT !.row = "PENDING"]
                  [] i # payment[r].swap /\ swaps[i].round = r -> [swaps[i] EXCEPT !.row = "none"]
                  [] OTHER -> swaps[i]]

LEMMA SeqOf ==
    ASSUME NEW S, NEW n \in Nat, NEW t \in [1..n -> S]
    PROVE  t \in Seq(S) /\ Len(t) = n
  OBVIOUS

LEMMA RowsWritten ==
    ASSUME swaps \in Seq(StackSwaps), NEW r, RowsOf(r)
    PROVE  /\ swaps' \in Seq(StackSwaps) /\ DOMAIN swaps' = DOMAIN swaps /\ Len(swaps') = Len(swaps)
           /\ \A k \in DOMAIN swaps :
                 /\ swaps'[k].row = IF k = payment[r].swap THEN "PENDING"
                                    ELSE IF swaps[k].round = r THEN "none" ELSE swaps[k].row
                 /\ swaps'[k].round = swaps[k].round /\ swaps'[k].at = swaps[k].at
                 /\ swaps'[k].event = swaps[k].event
<1>1. swaps \in [1..Len(swaps) -> StackSwaps] /\ Len(swaps) \in Nat /\ DOMAIN swaps = 1..Len(swaps)
  OBVIOUS
<1>2. \A k \in DOMAIN swaps : \A x \in {"none", "PENDING"} :
                              /\ [swaps[k] EXCEPT !.row = x] \in StackSwaps
                              /\ [swaps[k] EXCEPT !.row = x].row = x
                              /\ [swaps[k] EXCEPT !.row = x].round = swaps[k].round
                              /\ [swaps[k] EXCEPT !.row = x].at = swaps[k].at
                              /\ [swaps[k] EXCEPT !.row = x].event = swaps[k].event
  BY <1>1 DEF StackSwaps
<1>3. DOMAIN swaps' = DOMAIN swaps /\ \A k \in DOMAIN swaps :
         swaps'[k] = IF k = payment[r].swap THEN [swaps[k] EXCEPT !.row = "PENDING"]
                     ELSE IF swaps[k].round = r THEN [swaps[k] EXCEPT !.row = "none"]
                     ELSE swaps[k]
  BY <1>1 DEF RowsOf
<1>4. swaps' \in [1..Len(swaps) -> StackSwaps] /\ DOMAIN swaps' = 1..Len(swaps)
  <2>. DEFINE v == [i \in DOMAIN swaps |->
                CASE i = payment[r].swap -> [swaps[i] EXCEPT !.row = "PENDING"]
                  [] i # payment[r].swap /\ swaps[i].round = r -> [swaps[i] EXCEPT !.row = "none"]
                  [] OTHER -> swaps[i]]
  <2>1. DOMAIN swaps' = 1..Len(swaps) /\ swaps' = [k \in 1..Len(swaps) |-> swaps'[k]]
    <3>1. v = [k \in DOMAIN swaps |-> v[k]] /\ DOMAIN v = DOMAIN swaps
      BY Zenon
    <3>2. swaps' = v
      BY DEF RowsOf
    <3>. HIDE DEF v
    <3>. QED  BY <1>1, <3>1, <3>2
  <2>2. \A k \in 1..Len(swaps) : swaps'[k] \in StackSwaps
    <3>. SUFFICES ASSUME NEW k \in 1..Len(swaps) PROVE swaps'[k] \in StackSwaps
      OBVIOUS
    <3>1. /\ swaps[k] \in StackSwaps /\ k \in DOMAIN swaps
          /\ [swaps[k] EXCEPT !.row = "PENDING"] \in StackSwaps
          /\ [swaps[k] EXCEPT !.row = "none"] \in StackSwaps
      BY <1>1, <1>2
    <3>. QED  BY <1>3, <3>1
  <2>. QED  BY <2>1, <2>2
<1>5. swaps' \in Seq(StackSwaps) /\ Len(swaps') = Len(swaps)
  <2>1. \A t \in [1..Len(swaps) -> StackSwaps] : t \in Seq(StackSwaps) /\ Len(t) = Len(swaps)
    BY <1>1, SeqOf
  <2>. QED  BY <1>4, <2>1
<1>6. ASSUME NEW k \in DOMAIN swaps
      PROVE  /\ swaps'[k].row = IF k = payment[r].swap THEN "PENDING"
                                ELSE IF swaps[k].round = r THEN "none" ELSE swaps[k].row
             /\ swaps'[k].round = swaps[k].round /\ swaps'[k].at = swaps[k].at
             /\ swaps'[k].event = swaps[k].event
  <2>1. CASE k = payment[r].swap
    <3>1. swaps'[k] = [swaps[k] EXCEPT !.row = "PENDING"] /\ swaps[k] \in StackSwaps
      BY <1>1, <1>3, <2>1
    <3>2. /\ swaps'[k].row = "PENDING" /\ swaps'[k].round = swaps[k].round
          /\ swaps'[k].at = swaps[k].at /\ swaps'[k].event = swaps[k].event
      BY <3>1 DEF StackSwaps
    <3>. QED  BY <2>1, <3>2
  <2>2. CASE k # payment[r].swap /\ swaps[k].round = r
    BY <1>2, <1>3, <2>2
  <2>3. CASE k # payment[r].swap /\ swaps[k].round # r
    BY <1>3, <2>3
  <2>. QED  BY <2>1, <2>2, <2>3
<1>. QED  BY <1>3, <1>5, <1>6

LEMMA CardOrderedTyped ==
    ASSUME StackTyped, NEW r \in Executions, CardOrdered(r) PROVE StackTyped' /\ CountsDown
<1>1. PlanOK' /\ FundsOK' /\ HoldsOK' /\ ActorsOK'
  BY DEF StackTyped, CardOrdered, plan, wallets, books, PlanOK, FundsOK, HoldsOK, ActorsOK
<1>2. Budgets' /\ CountsDown
  <2>1. Watching(r) \in BOOLEAN /\ (Note(Watching(r), "early") \/ Spend("error"))
    BY DEF CardOrdered, Watching
  <2>. QED  BY <2>1, BudgetNoted, BudgetSpent, StackMishaps DEF StackTyped
<1>3. ChargeOK'
  <2>1. UNCHANGED charge \/ Restored(r, "placed")
    BY DEF CardOrdered
  <2>. QED  BY <2>1, RestoredTyped DEF StackTyped, ChargeOK
<1>4. swaps' \in Seq(StackSwaps)
  <2>1. UNCHANGED swaps \/ RowsOf(r)
    BY DEF CardOrdered, RowsOf
  <2>. QED  BY <2>1, RowsWritten DEF StackTyped, TradesOK
<1>5. payment' \in [Executions -> StackPayments]
  <2>1. SetEvent(r, "done") \/ SetEvent(r, "waiting")
    BY DEF CardOrdered
  <2>. QED  BY <2>1, PaymentEvent DEF StackTyped
<1>. QED  BY <1>1, <1>2, <1>3, <1>4, <1>5 DEF StackTyped, TradesOK

LEMMA CardOrderDoneTyped ==
    ASSUME StackTyped, NEW i \in DOMAIN swaps, CardOrderDone(i) PROVE StackTyped' /\ CountsDown
<1>. DEFINE r == swaps[i].round
            ended(row) == swaps' = [swaps EXCEPT ![i] = [@ EXCEPT !.event = "done", !.row = row]]
<1>1. r \in Executions /\ charge[r] \in ChargeRows
      /\ swaps[i].row \in {"none", "PENDING", "COMPLETED", "FAILED"}
  BY SwapKinds
<1>2. ActorsOK' /\ UNCHANGED <<source, dates, payment, src>>
  BY DEF StackTyped, CardOrderDone, ActorsOK
<1>0. BackedBy(i) \in Nat
  BY StackKinds DEF BackedBy
<1>3. CASE CanFill(i) /\ OrderFills(i) /\ ended("COMPLETED")
  <2>1. PlanOK' /\ Budgets' /\ CountsDown
    <3>1. (stack.status = "PENDING") \in BOOLEAN /\ Grow(Installment, stack.status = "PENDING")
      BY <1>3 DEF OrderFills
    <3>. QED  BY <1>2, <3>1, GrowTyped DEF StackTyped
  <2>2. TradesOK'
    BY <1>2, <1>3, SwapEnded DEF StackTyped
  <2>3. FundsOK'
    BY <1>3, SwapFundsTyped DEF StackTyped, OrderFills
  <2>5. GoodCompany(coSrc)'
    BY <1>0, <1>3, ConsumeLiquidityGood DEF StackTyped, HoldsOK, CanFill, OrderFills
  <2>6. ChargeOK'
    <3>. DEFINE c == [charge[r] EXCEPT !.init = "COMPLETED", !.held = "CONSUMED",
                                       !.status = "COMPLETED"]
                d == [charge[r] EXCEPT !.status = "COMPLETED"]
    <3>1. c \in ChargeRows
      BY <1>1 DEF ChargeRows, Inits
    <3>2. d \in ChargeRows
      BY <1>1 DEF ChargeRows, Inits
    <3>3. charge' = [charge EXCEPT ![r] = c] \/ charge' = [charge EXCEPT ![r] = d]
      BY <1>3 DEF OrderFills
    <3>. HIDE DEF c, d
    <3>. QED  BY <1>1, <3>1, <3>2, <3>3 DEF StackTyped, ChargeOK
  <2>. QED  BY <1>2, <2>1, <2>2, <2>3, <2>5, <2>6 DEF StackTyped, HoldsOK
<1>4. CASE CanReject(i) /\ OrderFails(i) /\ ended("FAILED")
  <2>1. PlanOK' /\ FundsOK' /\ Budgets' /\ CountsDown
    BY <1>2, <1>4, BudgetSame DEF StackTyped, OrderFails, plan, PlanOK, FundsOK
  <2>2. TradesOK'
    BY <1>2, <1>4, SwapEnded DEF StackTyped
  <2>3. GoodCompany(coSrc)'
    BY <1>0, <1>4, ReleaseLiquidityGood DEF StackTyped, HoldsOK, CanReject, OrderFails
  <2>4. ChargeOK'
    <3>. DEFINE h == IF Backed(i) /\ swaps[i].at = "failed" THEN "RELEASED" ELSE charge[r].held
                c == [charge[r] EXCEPT !.held = h, !.status = "FAILED"]
    <3>0. h \in {"none", "RESERVED", "RELEASED", "CONSUMED"}
      BY <1>1 DEF ChargeRows
    <3>2. charge' = [charge EXCEPT ![r] = c]
      BY <1>4 DEF OrderFails
    <3>. HIDE DEF h
    <3>1. c \in ChargeRows
      BY <1>1, <3>0 DEF ChargeRows, Inits
    <3>. HIDE DEF c
    <3>. QED  BY <1>1, <3>1, <3>2 DEF StackTyped, ChargeOK
  <2>. QED  BY <1>2, <2>1, <2>2, <2>3, <2>4 DEF StackTyped, HoldsOK
<1>5. CASE /\ ended(swaps[i].row) /\ Note(swaps[i].row = "none", "early")
           /\ UNCHANGED <<coSrc, charge, usd, totals, plan>>
  <2>1. TradesOK'
    BY <1>1, <1>2, <1>5, SwapEnded DEF StackTyped
  <2>2. Budgets' /\ CountsDown
    BY <1>5, BudgetNoted, StackMishaps DEF StackTyped
  <2>3. PlanOK' /\ FundsOK' /\ HoldsOK' /\ ChargeOK'
    BY <1>2, <1>5 DEF StackTyped, plan, PlanOK, FundsOK, HoldsOK, ChargeOK
  <2>. QED  BY <1>2, <2>1, <2>2, <2>3 DEF StackTyped
<1>6. \/ CanFill(i) /\ OrderFills(i) /\ ended("COMPLETED")
      \/ CanReject(i) /\ OrderFails(i) /\ ended("FAILED")
      \/ /\ ended(swaps[i].row) /\ Note(swaps[i].row = "none", "early")
         /\ UNCHANGED <<coSrc, charge, usd, totals, plan>>
  BY DEF CardOrderDone
<1>. QED  BY <1>3, <1>4, <1>5, <1>6

LEMMA RequestKinds ==
    ASSUME ActorsOK, NEW q \in Requests
    PROVE  /\ request[q] \in StackRequests /\ request[q].amount \in Nat /\ request[q].accrued \in Nat
           /\ request[q].held \in {"none", "RESERVED", "RELEASED", "CONSUMED"}
           /\ request[q].order \in {"none", "marked", "placed"} /\ request[q].swap \in Nat
  BY DEF ActorsOK, StackRequests

LEMMA UnlockStackTyped ==
    ASSUME StackTyped, NEW q \in Requests, UnlockStack(q) PROVE StackTyped' /\ CountsDown
<1>1. PlanOK' /\ ChargeOK' /\ TradesOK' /\ FundsOK' /\ HoldsOK' /\ UNCHANGED job
  BY DEF StackTyped, UnlockStack, plan, trades, wallets, books, PlanOK, ChargeOK, TradesOK, FundsOK,
    HoldsOK
<1>2. Budgets' /\ CountsDown
  BY BudgetSpent, StackMishaps DEF StackTyped, UnlockStack
<1>3. request' \in [Requests -> StackRequests]
  <2>. DEFINE n == [NoRequest EXCEPT !.pc = "unlock", !.amount = stack.amount,
                                     !.accrued = stack.accrued, !.early = ~ripe]
  <2>1. n \in StackRequests
    <3>1. stack.amount \in Nat /\ stack.accrued \in Nat /\ (~ripe) \in BOOLEAN
      BY DEF StackTyped, PlanOK, StackRows
    <3>. QED  BY <3>1, NoRequestKind DEF StackRequests
  <2>2. request' = [request EXCEPT ![q] = n]
    BY DEF UnlockStack
  <2>. HIDE DEF n
  <2>. QED  BY <2>1, <2>2 DEF StackTyped, ActorsOK
<1>. QED  BY <1>1, <1>2, <1>3 DEF StackTyped, ActorsOK

LEMMA NotBelow == ASSUME NEW n \in Int PROVE NotBelowZero(n) \in Nat
  BY DEF NotBelowZero

LEMMA PayOutTyped ==
    ASSUME StackTyped, NEW q \in Requests, PayOut(q) PROVE StackTyped' /\ CountsDown
<1>. DEFINE r == request[q]
            back == IF r.early THEN r.amount - (r.amount * 5) \div 100 ELSE r.amount + r.accrued
<1>1. r.amount \in Nat /\ r.accrued \in Nat
  BY RequestKinds DEF StackTyped
<1>2. back \in Nat
  BY <1>1
<1>3. ChargeOK' /\ TradesOK' /\ HoldsOK' /\ UNCHANGED <<source, round, due, ripe, dates, job>>
  BY DEF StackTyped, PayOut, trades, ChargeOK, TradesOK, HoldsOK
<1>4. Budgets' /\ CountsDown
  BY BudgetNoted, StackMishaps DEF StackTyped, PayOut
<1>5. PlanOK'
  <2>1. stack \in StackRows /\ stack' = [stack EXCEPT !.status = "ENDED"]
    BY DEF StackTyped, PlanOK, PayOut
  <2>2. stack' \in StackRows
    BY <2>1 DEF StackRows
  <2>. QED  BY <1>3, <2>2 DEF StackTyped, PlanOK
<1>6. ActorsOK'
  <2>1. request' = [request EXCEPT ![q] = NoRequest]
    BY DEF PayOut
  <2>. QED  BY <1>3, <2>1, NoRequestKind DEF StackTyped, ActorsOK
<1>7. FundsOK'
  <2>1. /\ usd' = [base |-> usd.base + back,
                   stacked |-> NotBelowZero(usd.stacked - r.amount),
                   interest |-> NotBelowZero(usd.interest - r.accrued)]
        /\ totals' = [stacked |-> NotBelowZero(totals.stacked - r.amount),
                      accrued |-> NotBelowZero(totals.accrued - r.accrued),
                      paid |-> totals.paid + IF r.early THEN 0 ELSE r.accrued,
                      internal |-> totals.internal]
    BY DEF PayOut
  <2>2. /\ usd.base \in Nat /\ usd.stacked \in Nat /\ usd.interest \in Nat
        /\ totals.stacked \in Nat /\ totals.accrued \in Nat /\ totals.paid \in Nat
        /\ totals.internal \in Nat
    BY DEF StackTyped, FundsOK, UsdRows, StackTotals
  <2>. HIDE DEF back, r
  <2>3. /\ usd.base + back \in Nat /\ NotBelowZero(usd.stacked - r.amount) \in Nat
        /\ NotBelowZero(usd.interest - r.accrued) \in Nat
        /\ NotBelowZero(totals.stacked - r.amount) \in Nat
        /\ NotBelowZero(totals.accrued - r.accrued) \in Nat
        /\ totals.paid + (IF r.early THEN 0 ELSE r.accrued) \in Nat
    BY <1>1, <1>2, <2>2, NotBelow
  <2>. QED  BY <2>1, <2>2, <2>3 DEF FundsOK, UsdRows, StackTotals
<1>. QED  BY <1>3, <1>4, <1>5, <1>6, <1>7 DEF StackTyped

\* The last of some swaps is one of them.
LEMMA LastKind ==
    ASSUME TradesOK
    PROVE  /\ LastOf(FirstSwap) \in Nat
           /\ FirstSwap = {} => LastOf(FirstSwap) = 0
           /\ FirstSwap # {} => /\ LastOf(FirstSwap) \in FirstSwap
                               /\ \A k \in FirstSwap : k <= LastOf(FirstSwap)
<1>1. DOMAIN swaps = 1..Len(swaps) /\ Len(swaps) \in Nat /\ FirstSwap \subseteq 1..Len(swaps)
  BY DEF TradesOK, FirstSwap
<1>2. CASE FirstSwap = {}
  BY <1>2 DEF LastOf
<1>3. CASE FirstSwap # {}
  <2>. DEFINE T == {n \in Nat : Len(swaps) - n \in FirstSwap}
  <2>1. T # {}
    <3>1. PICK i \in FirstSwap : TRUE
      BY <1>3
    <3>2. Len(swaps) - i \in Nat /\ Len(swaps) - (Len(swaps) - i) = i
      BY <1>1
    <3>. QED  BY <3>1, <3>2
  <2>2. PICK u \in T : \A v \in T : u <= v
    BY <2>1, LeastOf
  <2>3. Len(swaps) - u \in FirstSwap /\ \A k \in FirstSwap : k <= Len(swaps) - u
    <3>1. ASSUME NEW k \in FirstSwap PROVE k <= Len(swaps) - u
      <4>1. k \in 1..Len(swaps) /\ Len(swaps) - k \in Nat /\ Len(swaps) - (Len(swaps) - k) = k
        BY <1>1
      <4>2. Len(swaps) - k \in T
        BY <4>1
      <4>3. u <= Len(swaps) - k /\ u \in Nat
        BY <2>2, <4>2
      <4>. QED  BY <1>1, <4>1, <4>3
    <3>. QED  BY <2>2, <3>1
  <2>4. /\ LastOf(FirstSwap) \in FirstSwap
        /\ \A k \in FirstSwap : k <= LastOf(FirstSwap)
    <3>1. \E i \in FirstSwap : \A k \in FirstSwap : k <= i
      BY <2>3
    <3>2. LastOf(FirstSwap) = CHOOSE i \in FirstSwap : \A k \in FirstSwap : k <= i
      BY <1>3 DEF LastOf
    <3>. HIDE DEF T
    <3>. QED  BY <3>1, <3>2, Zenon
  <2>5. LastOf(FirstSwap) \in 1..Len(swaps)
    BY <1>1, <2>4
  <2>6. LastOf(FirstSwap) \in Nat
    BY <1>1, <2>5
  <2>. HIDE DEF T
  <2>. QED  BY <1>3, <2>4, <2>6
<1>. QED  BY <1>2, <1>3

LEMMA CancelStackTyped ==
    ASSUME StackTyped, NEW q \in Requests, CancelStack(q) PROVE StackTyped' /\ CountsDown
<1>1. PlanOK' /\ ChargeOK' /\ TradesOK' /\ FundsOK' /\ HoldsOK' /\ UNCHANGED job
  BY DEF StackTyped, CancelStack, plan, trades, wallets, books, PlanOK, ChargeOK, TradesOK, FundsOK,
    HoldsOK
<1>2. Budgets' /\ CountsDown
  BY BudgetSpent, StackMishaps DEF StackTyped, CancelStack
<1>3. request' \in [Requests -> StackRequests]
  <2>. DEFINE n == [NoRequest EXCEPT !.pc = "cancel", !.swap = LastOf(FirstSwap),
                                     !.held = charge[0].held, !.order = charge[0].order]
  <2>1. n \in StackRequests
    <3>1. /\ charge[0].held \in {"none", "RESERVED", "RELEASED", "CONSUMED"}
          /\ charge[0].order \in {"none", "marked", "placed"} /\ LastOf(FirstSwap) \in Nat
      BY ChargeKinds, ZeroExecution, LastKind DEF StackTyped
    <3>. QED  BY <3>1, NoRequestKind DEF StackRequests
  <2>2. request' = [request EXCEPT ![q] = n]
    BY DEF CancelStack
  <2>. HIDE DEF n
  <2>. QED  BY <2>1, <2>2 DEF StackTyped, ActorsOK
<1>. QED  BY <1>1, <1>2, <1>3 DEF StackTyped, ActorsOK

\* A swap is cancelled at Quidax, if there is one.
LEMMA SwapCancelled ==
    ASSUME TradesOK, NEW i, swaps' = [swaps EXCEPT ![i].at = "cancelled"], UNCHANGED payment
    PROVE  /\ TradesOK' /\ DOMAIN swaps' = DOMAIN swaps /\ Len(swaps') = Len(swaps)
           /\ \A k \in DOMAIN swaps :
                 /\ swaps'[k].at = IF k = i THEN "cancelled" ELSE swaps[k].at
                 /\ swaps'[k].round = swaps[k].round /\ swaps'[k].row = swaps[k].row
                 /\ swaps'[k].event = swaps[k].event
<1>1. swaps \in [1..Len(swaps) -> StackSwaps] /\ Len(swaps) \in Nat /\ DOMAIN swaps = 1..Len(swaps)
  BY DEF TradesOK
<1>. DEFINE c(k) == [swaps[k] EXCEPT !.at = "cancelled"]
<1>2. \A k \in DOMAIN swaps : /\ c(k) \in StackSwaps
                              /\ c(k).at = "cancelled" /\ c(k).round = swaps[k].round
                              /\ c(k).row = swaps[k].row /\ c(k).event = swaps[k].event
  BY <1>1 DEF StackSwaps
<1>3. \A k \in DOMAIN swaps : swaps'[k] = IF k = i THEN c(k) ELSE swaps[k]
  BY <1>1
<1>4. swaps' \in [1..Len(swaps) -> StackSwaps] /\ DOMAIN swaps' = 1..Len(swaps)
  <2>1. DOMAIN swaps' = 1..Len(swaps) /\ swaps' = [k \in 1..Len(swaps) |-> swaps'[k]]
    BY <1>1
  <2>2. \A k \in 1..Len(swaps) : swaps'[k] \in StackSwaps
    BY <1>1, <1>2, <1>3
  <2>. QED  BY <2>1, <2>2
<1>5. swaps' \in Seq(StackSwaps) /\ Len(swaps') = Len(swaps)
  BY <1>1, <1>4, SeqOf
<1>. HIDE DEF c
<1>. QED  BY <1>1, <1>2, <1>3, <1>4, <1>5 DEF TradesOK

LEMMA CancelStackCommitTyped ==
    ASSUME StackTyped, NEW q \in Requests, CancelStackCommit(q) PROVE StackTyped' /\ CountsDown
<1>. DEFINE r == request[q]
            held == r.held = "RESERVED"
            open == r.swap # 0 => swaps[r.swap].at = "open"
            able == held => /\ source = "BTC" => CanReleaseBalance(src, SourceCost)
                            /\ CanReleaseLiquidity(coSrc, Cost)
            stale == \/ stack.status # "PENDING"
                     \/ [charge[0] EXCEPT !.init = "none"]
                          # [charge[0] EXCEPT !.init = "none", !.held = r.held, !.order = r.order]
<1>1. r.held \in {"none", "RESERVED", "RELEASED", "CONSUMED"} /\ r.order \in {"none", "marked", "placed"}
  BY RequestKinds DEF StackTyped
<1>2. FundsOK' /\ UNCHANGED <<source, round, due, ripe, dates, payment, job, usd, totals>>
  BY DEF StackTyped, CancelStackCommit, FundsOK
<1>3. ActorsOK'
  <2>1. request' = [request EXCEPT ![q] = NoRequest]
    BY DEF CancelStackCommit
  <2>. QED  BY <1>2, <2>1, NoRequestKind DEF StackTyped, ActorsOK
<1>4. TradesOK'
  <2>1. swaps' = [swaps EXCEPT ![r.swap].at = "cancelled"] \/ UNCHANGED swaps
    BY DEF CancelStackCommit
  <2>2. CASE UNCHANGED swaps
    BY <1>2, <2>2 DEF StackTyped, TradesOK
  <2>. QED  BY <1>2, <2>1, <2>2, SwapCancelled DEF StackTyped
<1>5. CASE open /\ able
  <2>. DEFINE h == IF held THEN "RELEASED" ELSE r.held
              c == [charge[0] EXCEPT !.init = "CANCELLED", !.held = h, !.order = r.order]
  <2>1. /\ stack' = [stack EXCEPT !.status = "ENDED"] /\ charge' = [charge EXCEPT ![0] = c]
        /\ src' = IF held /\ source = "BTC" THEN ReleaseBalance(src, SourceCost) ELSE src
        /\ coSrc' = IF held THEN ReleaseLiquidity(coSrc, Cost) ELSE coSrc
        /\ Note(stale, "staleRequest")
    BY <1>5 DEF CancelStackCommit
  <2>2. PlanOK'
    <3>1. stack' \in StackRows
      BY <2>1 DEF StackTyped, PlanOK, StackRows
    <3>. QED  BY <1>2, <3>1 DEF StackTyped, PlanOK
  <2>3. ChargeOK'
    <3>1. h \in {"none", "RESERVED", "RELEASED", "CONSUMED"} /\ charge[0] \in ChargeRows
      BY <1>1, ZeroExecution, ChargeKinds DEF StackTyped
    <3>. HIDE DEF h
    <3>2. c \in ChargeRows
      BY <1>1, <3>1 DEF ChargeRows, Inits
    <3>. HIDE DEF c
    <3>. QED  BY <2>1, <3>2, ZeroExecution DEF StackTyped, ChargeOK
  <2>4. Budgets' /\ CountsDown
    <3>. HIDE DEF stale
    <3>1. Note(stale, "staleRequest") /\ stale \in BOOLEAN
      BY <2>1 DEF stale
    <3>. QED  BY <3>1, BudgetNoted, StackMishaps DEF StackTyped
  <2>5. GoodWallet(src)'
    BY <1>5, <2>1, ReleaseBalanceGood, StackKinds DEF StackTyped, HoldsOK
  <2>6. GoodCompany(coSrc)'
    BY <1>5, <2>1, ReleaseLiquidityGood, StackKinds DEF StackTyped, HoldsOK
  <2>. QED  BY <1>2, <1>3, <1>4, <2>2, <2>3, <2>4, <2>5, <2>6 DEF StackTyped, HoldsOK
<1>6. CASE ~(open /\ able)
  <2>1. UNCHANGED <<stack, charge, src, coSrc, budget>>
    BY <1>6 DEF CancelStackCommit
  <2>2. PlanOK' /\ ChargeOK' /\ HoldsOK' /\ Budgets' /\ CountsDown
    BY <1>2, <2>1, BudgetSame DEF StackTyped, PlanOK, ChargeOK, HoldsOK
  <2>. QED  BY <1>2, <1>3, <1>4, <2>2 DEF StackTyped
<1>. QED  BY <1>5, <1>6

LEMMA StackCrashTyped == ASSUME StackTyped, StackCrash PROVE StackTyped' /\ CountsDown
<1>1. PlanOK' /\ ChargeOK' /\ FundsOK' /\ HoldsOK' /\ UNCHANGED swaps
  BY DEF StackTyped, StackCrash, plan, wallets, books, PlanOK, ChargeOK, FundsOK, HoldsOK
<1>2. Budgets' /\ CountsDown
  BY BudgetSpent, StackMishaps DEF StackTyped, StackCrash
<1>3. ActorsOK'
  BY NobodyKind, NoRequestKind DEF StackCrash, ActorsOK
<1>4. payment' \in [Executions -> StackPayments]
  <2>1. \A r \in Executions : /\ payment[r] \in StackPayments
                              /\ [payment[r] EXCEPT !.event = "waiting"] \in StackPayments
    BY DEF StackTyped, TradesOK, StackPayments
  <2>. QED  BY <2>1 DEF StackCrash
<1>. QED  BY <1>1, <1>2, <1>3, <1>4 DEF StackTyped, TradesOK

LEMMA StackStepTyped == ASSUME StackTyped, StackNext PROVE StackTyped' /\ CountsDown
<1>1. ASSUME NEW j \in Jobs,
             \/ StackConfirm(j) \/ ChargeTake(j) \/ StackReserve(j) \/ StackUndo(j)
             \/ CardReserve(j)
      PROVE  StackTyped' /\ CountsDown
  <2>1. UNCHANGED budget
    BY <1>1 DEF StackConfirm, ChargeTake, StackReserve, StackUndo, CardReserve
  <2>2. CountsDown
    BY <2>1, BudgetSame DEF StackTyped
  <2>. QED  BY <1>1, <2>2, StackConfirmTyped, ChargeTakeTyped, StackReserveTyped, StackUndoTyped,
    CardReserveTyped
<1>2. ASSUME NEW j \in Jobs,
             \/ ChargeStart(j) \/ Accrue(j) \/ StackFromWallet(j) \/ StackPost(j)
             \/ StackRecord(j) \/ CardCharge(j) \/ CardRecord(j)
      PROVE  StackTyped' /\ CountsDown
  BY <1>2, ChargeStartTyped, AccrueTyped, StackFromWalletTyped, StackPostTyped, StackRecordTyped,
    CardChargeTyped, CardRecordTyped
<1>3. ASSUME NEW i \in DOMAIN swaps, StackSwapEnds(i) \/ StackWebhook(i) \/ CardOrderDone(i)
      PROVE  StackTyped' /\ CountsDown
  BY <1>3, StackSwapEndsTyped, StackWebhookTyped, CardOrderDoneTyped
<1>4. ASSUME NEW r \in Executions, CardPaid(r) \/ CardOrder(r) \/ CardOrdered(r)
      PROVE  StackTyped' /\ CountsDown
  BY <1>4, CardPaidTyped, CardOrderTyped, CardOrderedTyped
<1>5. ASSUME NEW q \in Requests,
             UnlockStack(q) \/ PayOut(q) \/ CancelStack(q) \/ CancelStackCommit(q)
      PROVE  StackTyped' /\ CountsDown
  BY <1>5, UnlockStackTyped, PayOutTyped, CancelStackTyped, CancelStackCommitTyped
<1>6. CASE DateCome
  <2>1. CountsDown
    BY <1>6, BudgetSame DEF DateCome, StackTyped
  <2>. QED  BY <1>6, <2>1, DateComeTyped
<1>7. CASE StackCrash
  BY <1>7, StackCrashTyped
<1>. QED  BY <1>1, <1>2, <1>3, <1>4, <1>5, <1>6, <1>7 DEF StackNext

---------------------------------------------------------------------------
(***************************************************************************)
(* What an autostack has stored, and when it was charged. Which jobs, rows *)
(* and events are at work on the current execution, what each of them      *)
(* knows, and what is on hold and in the totals for it: with that, every   *)
(* step of the model keeps the books, the dates and what a card has paid.  *)
(***************************************************************************)
\* Jobs that have taken an execution, rows that a webhook may still settle, and
\* events of a card that are not handled yet.
Working(j) == job[j].pc \in {"taken", "reserved", "posted", "failed"}
StackOver == stack.status = "ENDED"
LiveRow(i) == swaps[i].row = "PENDING" /\ swaps[i].event # "done"
LivePay(r) == payment[r].event \in {"waiting", "posting", "posted"}
Stands(i) == swaps[i].at \in {"open", "completed"}

Untold(r) == /\ charge[r].init = "none" /\ charge[r].held = "none"
             /\ charge[r].status = "PENDING" /\ charge[r].order = "none"

\* What has not begun yet, and what only some of those who pay know of.
StackBegun ==
    /\ stack.status = "none" => /\ swaps = <<>> /\ \A j \in Jobs : job[j].pc = "idle"
                                /\ \A r \in Executions : payment[r] = NoPayment /\ Untold(r)
    /\ stack.status \in {"none", "PENDING"} => round = 0 /\ Settled = {}
    /\ \A j \in Jobs : job[j].pc = "accrue" => stack.status \in {"ACTIVE", "ENDED"}
    /\ source # "CARD" => \A r \in Executions : payment[r] = NoPayment
    /\ source = "USDT" => swaps = <<>>
    /\ source # "BTC" => \A q \in Requests : request[q].swap = 0
    /\ \A i \in DOMAIN swaps : swaps[i].at = "open" => swaps[i].event = "none"

SumsCalm == Untouched({"staleRequest", "reopened", "afterEnd"})
StackSums ==
    SumsCalm =>
    /\ totals.stacked = (IF stack.status = "ACTIVE" THEN stack.amount ELSE 0)
    /\ totals.accrued = (IF stack.status = "ACTIVE" THEN stack.accrued ELSE 0)
    /\ usd.stacked = totals.stacked /\ usd.interest = totals.accrued
    /\ stack.status \in {"none", "PENDING"} => stack.accrued = 0
    /\ stack.status = "PENDING" => stack.amount = Installment
    /\ stack.status = "ACTIVE" => stack.amount = Installment * Cardinality(Settled)
    /\ source = "USDT" =>
         /\ ~StackOver => usd.base = StackUsdt - (Installment + InstallmentFee) * Cardinality(Settled)
         /\ \A j \in Jobs : Working(j) /\ ~StackOver => (job[j].first <=> stack.status = "PENDING")

\* One job or one row is at work on the current execution, and on no other.
CardCalm == Untouched({"lostAnswer", "error", "crash", "early", "staleRequest"})
StackTidy == source = "CARD" => CardCalm
RoundsDone ==
    /\ \A r \in Executions : r < round <=> charge[r].status = "COMPLETED"
    /\ \A i \in DOMAIN swaps : swaps[i].round <= round
JobsAlone ==
    \A j \in Jobs : Working(j) =>
       /\ job[j].round = round
       /\ StackOver \/ charge[job[j].round].init = "PROCESSING"
       /\ \A k \in Jobs : Working(k) => k = j
       /\ \A i \in DOMAIN swaps : ~LiveRow(i)
RowsAlone ==
    \A i \in DOMAIN swaps : LiveRow(i) =>
       /\ swaps[i].round = round
       /\ StackOver \/ charge[swaps[i].round].init = "SUBMITTED"
       /\ \A k \in DOMAIN swaps : LiveRow(k) => k = i
JobsPosted ==
    source = "BTC" => \A j \in Jobs : job[j].pc = "posted" =>
       /\ job[j].swap \in DOMAIN swaps
       /\ swaps[job[j].swap].row = "none" /\ swaps[job[j].swap].round = round
OneAtWork == StackTidy => RoundsDone /\ JobsAlone /\ RowsAlone /\ JobsPosted

\* Whoever works for a due date has it.
StackDates ==
    StackTidy /\ Untouched({"jobsOverlap"}) =>
    /\ round + (IF due THEN 1 ELSE 0) <= dates
    /\ \A j \in Jobs : job[j].pc \notin {"idle", "check"} => due
    /\ \A i \in DOMAIN swaps : LiveRow(i) => due
    /\ \A r \in Executions : LivePay(r) => due

\* The bitcoin on hold are those of the executions that say so.
HoldsCalm == source = "BTC" /\ Untouched({"cancelStack"})
StackHolds ==
    HoldsCalm =>
    /\ \A j \in Jobs :
         /\ job[j].pc = "taken" => (job[j].held <=> charge[job[j].round].held = "RESERVED")
         /\ job[j].pc \in {"reserved", "posted"} => charge[job[j].round].held = "RESERVED"
    /\ \A i \in DOMAIN swaps : LiveRow(i) => charge[swaps[i].round].held = "RESERVED"
    /\ \A q \in Requests : request[q].pc # "cancel"
    /\ src.reserved = SourceTotal * Cardinality(Held)
    /\ coSrc.reserved = BtcReserved + SourceCost * Cardinality(Held)

\* One swap of an execution stands, at most, and whoever would sell again knows.
OnTime == Untouched({"lostAnswer", "error", "crash"})
SwapsApart ==
    \A i, k \in DOMAIN swaps : i # k /\ swaps[i].round = swaps[k].round => ~(Stands(i) /\ Stands(k))
Standing == {i \in DOMAIN swaps : swaps[i].round = round /\ Stands(i)}
SwapsKnown ==
    source = "BTC" =>
    /\ \A j \in Jobs :
         /\ job[j].pc \in {"taken", "reserved", "failed"} => Standing = {}
         /\ job[j].pc = "posted" => Standing \subseteq {job[j].swap}
    /\ \A i \in DOMAIN swaps : LiveRow(i) => Standing \subseteq {i}
    /\ Standing # {} => StackOver \/ charge[round].init = "SUBMITTED"
                        \/ \E j \in Jobs : job[j].pc = "posted"
BoughtOnce ==
    source = "CARD" =>
    /\ \A r \in Executions : payment[r].event # "none" => payment[r].at # "none"
    /\ \A i \in DOMAIN swaps : /\ payment[swaps[i].round].event \in {"posted", "done"}
                               /\ \A k \in DOMAIN swaps : swaps[i].round = swaps[k].round => i = k
SoldOnce == OnTime => SwapsApart /\ SwapsKnown /\ BoughtOnce

\* A card: what Paystack was asked for and has told, what was bought for it, and
\* what the current execution and its job know of that.
CardPayments ==
    \A r \in Executions :
       /\ r > round => Untold(r) /\ payment[r] = NoPayment
       /\ payment[r].event # "none" <=> payment[r].at = "paid"
       /\ payment[r].event = "done" => \E i \in DOMAIN swaps : swaps[i].round = r
       /\ charge[r].status = "COMPLETED" => payment[r].at = "paid"
CardLive ==
    \A r \in Executions : LivePay(r) =>
       /\ r = round /\ charge[r].status = "PENDING" /\ charge[r].held = "RESERVED"
       /\ payment[r].event = "waiting" => charge[r].order = "none"
       /\ payment[r].event # "waiting" =>
            /\ charge[r].order = "marked" /\ charge[r].init = "SUBMITTED"
            /\ payment[r].init = "SUBMITTED" /\ payment[r].held = "RESERVED"
            /\ \A j \in Jobs : ~Working(j)
       /\ payment[r].event # "posted" => \A i \in DOMAIN swaps : swaps[i].round # r
       /\ payment[r].event = "posted" =>
            /\ payment[r].swap \in DOMAIN swaps
            /\ swaps[payment[r].swap].round = r /\ swaps[payment[r].swap].row = "none"
            /\ swaps[payment[r].swap].event # "done"
CardSwaps ==
    \A i \in DOMAIN swaps :
       /\ payment[swaps[i].round].event \in {"posted", "done"}
       /\ swaps[i].row = "none" => /\ payment[swaps[i].round].event = "posted"
                                   /\ payment[swaps[i].round].swap = i
       /\ \A k \in DOMAIN swaps : swaps[i].round = swaps[k].round => i = k
       /\ swaps[i].at \notin {"cancelled", "refused"}
       /\ swaps[i].at = "open" <=> swaps[i].event = "none"
       /\ swaps[i].row \in {"COMPLETED", "FAILED"} => swaps[i].event = "done"
       /\ LiveRow(i) => /\ charge[round].init = "SUBMITTED" /\ charge[round].held = "RESERVED"
                        /\ charge[round].status = "PENDING" /\ charge[round].order = "placed"
                        /\ payment[round].event = "done"
CardRound ==
    round \in Executions =>
       /\ charge[round].init = "PROCESSING" => \E j \in Jobs : Working(j)
       /\ charge[round].init \notin {"PROCESSING", "SUBMITTED"} => charge[round].held # "RESERVED"
       /\ charge[round].init = "SUBMITTED" => charge[round].held = "RESERVED" \/ charge[round].order = "placed"
       /\ payment[round].at = "none" => charge[round].order = "none" /\ charge[round].status = "PENDING"
       /\ payment[round].at # "none" => \/ charge[round].init = "SUBMITTED"
                                        \/ \E j \in Jobs : job[j].pc = "posted"
CardJobs ==
    \A j \in Jobs : Working(j) =>
       /\ job[j].pc # "posted" => payment[round].at = "none"
       /\ job[j].pc # "failed" => job[j].order = "none" /\ charge[round].order = "none"
       /\ job[j].pc = "taken" => ~job[j].held /\ charge[round].held # "RESERVED"
       /\ job[j].pc \in {"reserved", "posted"} => charge[round].held = "RESERVED"
       /\ job[j].pc = "posted" => payment[round].at # "none" /\ payment[round].event \in {"none", "waiting"}
CardRequests ==
    \A q \in Requests : request[q].pc = "cancel" => request[q].held # "RESERVED" /\ request[q].order = "none"
CardFunds ==
    /\ coSrc.total = CompanyNaira - CardCost * Cardinality(Settled)
    /\ coSrc.reserved = NairaReserved + CardCost * Cardinality(Held)
CardStory ==
    source = "CARD" /\ CardCalm =>
       CardPayments /\ CardLive /\ CardSwaps /\ CardRound /\ CardJobs /\ CardRequests /\ CardFunds
StackStory == StackBegun /\ StackSums /\ OneAtWork /\ StackDates /\ StackHolds /\ SoldOnce /\ CardStory

\* What a step says of the job, of the execution and of the rows it writes.
JobNow(j, pc) ==
    /\ \A k \in Jobs \ {j} : job'[k] = job[k]
    /\ job'[j].pc = pc /\ job'[j].round = job[j].round /\ job'[j].held = job[j].held
    /\ job'[j].first = job[j].first /\ job'[j].swap = job[j].swap /\ job'[j].order = job[j].order
JobDone(j) == /\ \A k \in Jobs \ {j} : job'[k] = job[k]
              /\ job'[j].pc = "idle"
ChargeNow(r, init, held, status, order) ==
    /\ \A k \in Executions \ {r} : charge'[k] = charge[k]
    /\ charge'[r].init = init /\ charge'[r].held = held
    /\ charge'[r].status = status /\ charge'[r].order = order

\* What the writes of jobs, charges and requests leave behind.
LEMMA JobWritten ==
    ASSUME ActorsOK, NEW j \in Jobs, NEW pc, SetJob(j, pc) PROVE JobNow(j, pc)
<1>1. job \in [Jobs -> JobRows] /\ job[j] \in JobRows
  BY DEF ActorsOK
<1>. QED  BY <1>1 DEF SetJob, JobNow, JobRows

LEMMA JobRested == ASSUME ActorsOK, NEW j \in Jobs, Rest(j) PROVE JobDone(j)
<1>1. job \in [Jobs -> JobRows] /\ job[j] \in JobRows
  BY DEF ActorsOK
<1>. QED  BY <1>1, NobodyKind DEF Rest, JobDone

LEMMA ChargeWritten ==
    ASSUME ChargeOK, NEW r \in Executions, NEW c, charge' = [charge EXCEPT ![r] = c]
    PROVE  ChargeNow(r, c.init, c.held, c.status, c.order)
  BY DEF ChargeOK, ChargeNow

\* Executions are few, and those that are before a round are as many as it says.
LEMMA ExecutionsFinite == IsFiniteSet(Executions) /\ Executions \subseteq Nat
<1>1. MaxDates + 2 \in Nat
  BY AutostackAssumption
<1>. QED  BY <1>1, FS_Interval, ZeroExecution DEF Executions

\* The executions that are settled, and those that hold something, are counted.
LEMMA StackSets ==
    ASSUME ChargeOK
    PROVE  /\ IsFiniteSet(Settled) /\ Cardinality(Settled) \in Nat
           /\ IsFiniteSet(Held) /\ Cardinality(Held) \in Nat
<1>1. Settled \subseteq Executions /\ Held \subseteq Executions
  BY DEF Settled, Held
<1>. QED  BY <1>1, ExecutionsFinite, FS_Subset, FS_CardinalityType

\* Which executions have ended, and which hold something, as one of them is written.
LEMMA SettledSame ==
    ASSUME \A r \in Executions : charge'[r].status = "COMPLETED" <=> charge[r].status = "COMPLETED"
    PROVE  Settled' = Settled
  BY DEF Settled

LEMMA HeldSame ==
    ASSUME \A r \in Executions : charge'[r].held = "RESERVED" <=> charge[r].held = "RESERVED"
    PROVE  Held' = Held
  BY DEF Held

\* One execution more, or one less.
LEMMA SettledGrows ==
    ASSUME ChargeOK, NEW r \in Executions, charge[r].status # "COMPLETED",
           charge'[r].status = "COMPLETED", \A k \in Executions \ {r} : charge'[k] = charge[k]
    PROVE  Cardinality(Settled') = Cardinality(Settled) + 1
<1>1. Settled' = Settled \cup {r} /\ r \notin Settled
  BY DEF Settled
<1>. QED  BY <1>1, StackSets, CardinalityPlus

LEMMA HeldGrows ==
    ASSUME ChargeOK, NEW r \in Executions, charge[r].held # "RESERVED",
           charge'[r].held = "RESERVED", \A k \in Executions \ {r} : charge'[k] = charge[k]
    PROVE  Cardinality(Held') = Cardinality(Held) + 1
<1>1. Held' = Held \cup {r} /\ r \notin Held
  BY DEF Held
<1>. QED  BY <1>1, StackSets, CardinalityPlus

LEMMA HeldShrinks ==
    ASSUME ChargeOK, ChargeOK', NEW r \in Executions, charge[r].held = "RESERVED",
           charge'[r].held # "RESERVED", \A k \in Executions \ {r} : charge'[k] = charge[k]
    PROVE  Cardinality(Held) = Cardinality(Held') + 1
<1>1. Held = Held' \cup {r} /\ r \notin Held'
  BY DEF Held
<1>2. IsFiniteSet(Held')
  <2>1. Held' \subseteq Executions
    BY DEF Held
  <2>. QED  BY <2>1, ExecutionsFinite, FS_Subset
<1>. QED  BY <1>1, <1>2, CardinalityPlus

LEMMA SomeHeld ==
    ASSUME ChargeOK, NEW r \in Executions, charge[r].held = "RESERVED"
    PROVE  Cardinality(Held) >= 1
<1>1. Held # {}
  BY DEF Held
<1>. QED  BY <1>1, StackSets, FS_EmptySet

\* Once more of an amount.
LEMMA TimesMore ==
    ASSUME NEW a \in Nat, NEW n \in Nat
    PROVE  /\ a * (n + 1) = a * n + a /\ a * n \in Nat
           /\ n >= 1 => a * n >= a
<1>1. a * (n + 1) = a * n + a /\ a * n \in Nat
  OBVIOUS
<1>2. ASSUME n >= 1 PROVE a * n >= a
  <2>1. PICK m \in Nat : n = m + 1
    <3>1. n - 1 \in Nat /\ n = (n - 1) + 1
      BY <1>2
    <3>. QED  BY <3>1
  <2>2. a * n = a * m + a /\ a * m \in Nat
    BY <2>1
  <2>. QED  BY <2>2
<1>. QED  BY <1>1, <1>2

\* What has been calm was calm before.
LEMMA StackCalm ==
    ASSUME Budgets, CountsDown, UNCHANGED source
    PROVE  /\ (SumsCalm' => SumsCalm) /\ (StackTidy' => StackTidy) /\ (CardCalm' => CardCalm)
           /\ (OnTime' => OnTime) /\ (HoldsCalm' => HoldsCalm)
           /\ (Untouched({"jobsOverlap"})' => Untouched({"jobsOverlap"}))
<1>1. \A F \in SUBSET Kinds : Untouched(F)' => Untouched(F)
  BY UntouchedBack
<1>2. /\ {"staleRequest", "reopened", "afterEnd"} \subseteq Kinds
      /\ {"lostAnswer", "error", "crash", "early", "staleRequest"} \subseteq Kinds
      /\ {"lostAnswer", "error", "crash"} \subseteq Kinds /\ {"cancelStack"} \subseteq Kinds
      /\ {"jobsOverlap"} \subseteq Kinds
  BY StackMishaps
<1>. QED  BY <1>1, <1>2 DEF SumsCalm, StackTidy, CardCalm, OnTime, HoldsCalm

LEMMA StackStillEmpty ==
    ASSUME swaps = <<>>, swaps' \in Seq(StackSwaps), Len(swaps') = Len(swaps) PROVE swaps' = <<>>
  OBVIOUS

\* The totals are those of a stack that is left alone.
LEMMA SumsRest ==
    ASSUME Budgets, CountsDown, StackSums, UNCHANGED <<source, stack, usd, totals>>,
           \A r \in Executions : charge'[r].status = "COMPLETED" <=> charge[r].status = "COMPLETED",
           source = "USDT" =>
              \A j \in Jobs : Working(j)' => Working(j) /\ job'[j].first = job[j].first
    PROVE  StackSums'
<1>1. Settled' = Settled
  BY SettledSame
<1>2. SumsCalm' => SumsCalm
  BY StackCalm
<1>. QED  BY <1>1, <1>2 DEF StackSums, Working, StackOver

\* Everything that a step needs to know of what was before it.
StackPart == StackTyped /\ StackStory

\* Confirming starts the stack with its first charge; nothing was under way before.
LEMMA ConfirmTells ==
    ASSUME StackPart, StackTyped', CountsDown, NEW j \in Jobs, StackConfirm(j)
    PROVE  StackStory'
<1>0. Budgets /\ PlanOK /\ ChargeOK /\ TradesOK /\ ActorsOK
  BY DEF StackPart, StackTyped
<1>1. /\ stack.status = "none" /\ stack'.status = "PENDING" /\ stack'.amount = Installment
      /\ stack'.accrued = stack.accrued
  <2>1. stack \in StackRows /\ stack' = [stack EXCEPT !.status = "PENDING", !.amount = Installment]
    BY <1>0 DEF StackConfirm, PlanOK
  <2>2. /\ [stack EXCEPT !.status = "PENDING", !.amount = Installment].status = "PENDING"
        /\ [stack EXCEPT !.status = "PENDING", !.amount = Installment].amount = Installment
        /\ [stack EXCEPT !.status = "PENDING", !.amount = Installment].accrued = stack.accrued
    BY <2>1 DEF StackRows
  <2>3. stack.status = "none"
    BY DEF StackConfirm
  <2>. QED  BY <2>1, <2>2, <2>3
<1>2. ChargeNow(0, "PENDING", charge[0].held, charge[0].status, charge[0].order)
  <2>. DEFINE c == [charge[0] EXCEPT !.init = "PENDING"]
  <2>1. charge' = [charge EXCEPT ![0] = c] /\ charge[0] \in ChargeRows
    BY <1>0, ZeroExecution, ChargeKinds DEF StackConfirm, SetCharge
  <2>2. c.init = "PENDING" /\ c.held = charge[0].held /\ c.status = charge[0].status /\ c.order = charge[0].order
    BY <2>1 DEF ChargeRows
  <2>. HIDE DEF c
  <2>. QED  BY <1>0, <2>1, <2>2, ZeroExecution, ChargeWritten
<1>3. \/ due' = TRUE /\ dates' = 1 /\ JobNow(j, "force")
      \/ UNCHANGED <<due, dates, job>>
  BY <1>0, JobWritten DEF StackConfirm
<1>4. UNCHANGED <<source, round, swaps, payment, usd, src, coSrc, totals, request, budget>>
  BY DEF StackConfirm, trades, wallets, books
<1>5. Settled' = Settled /\ Held' = Held
  BY <1>2, SettledSame, HeldSame DEF ChargeNow
<1>6. /\ swaps = <<>> /\ \A k \in Jobs : job[k].pc = "idle"
      /\ \A r \in Executions : payment[r] = NoPayment
      /\ round = 0 /\ Settled = {} /\ \A r \in Executions : Untold(r)
  BY <1>1 DEF StackPart, StackStory, StackBegun
<1>7. \A k \in Jobs : job'[k].pc \in {"idle", "force"}
  BY <1>3, <1>6 DEF JobNow
<1>10. StackBegun'
  BY <1>1, <1>4, <1>5, <1>6, <1>7 DEF StackPart, StackStory, StackBegun
<1>11. StackSums'
  BY <1>0, <1>1, <1>4, <1>5, <1>6, <1>7, StackCalm DEF StackPart, StackStory, StackSums, Working, StackOver
<1>12. OneAtWork'
  <2>1. StackTidy' => StackTidy
    BY <1>0, <1>4, StackCalm
  <2>. QED  BY <1>2, <1>4, <1>6, <1>7, <2>1 DEF StackPart, StackStory, OneAtWork, RoundsDone,
    JobsAlone, RowsAlone, JobsPosted, Working, ChargeNow
<1>13. StackDates'
  <2>1. \A r \in Executions : ~LivePay(r)'
    BY <1>4, <1>6 DEF LivePay, NoPayment
  <2>. QED  BY <1>0, <1>3, <1>4, <1>6, <1>7, <2>1, StackCalm DEF StackPart, StackStory, StackDates,
    PlanOK, JobNow
<1>14. StackHolds'
  BY <1>0, <1>4, <1>5, <1>6, <1>7, StackCalm DEF StackPart, StackStory, StackHolds
<1>15. SoldOnce'
  BY <1>0, <1>4, <1>6, <1>7, StackCalm DEF StackPart, StackStory, SoldOnce, SwapsApart, SwapsKnown,
    BoughtOnce, Standing, NoPayment
<1>16. CardStory'
  <2>1. CardCalm' => CardCalm
    BY <1>0, <1>4, StackCalm
  <2>2. ASSUME source = "CARD", CardCalm' PROVE CardStory'
    <3>0. /\ CardPayments /\ CardLive /\ CardSwaps /\ CardRound /\ CardJobs /\ CardRequests /\ CardFunds
      BY <2>1, <2>2 DEF StackPart, StackStory, CardStory
    <3>1. CardPayments'
      BY <1>2, <1>4, <1>6, <3>0 DEF CardPayments, ChargeNow, Untold
    <3>2. CardLive' /\ CardSwaps' /\ CardJobs'
      BY <1>4, <1>6, <1>7 DEF CardLive, CardSwaps, CardJobs, LivePay, NoPayment, Working
    <3>3. CardRound'
      BY <1>2, <1>4, <1>6, <1>7, ZeroExecution DEF CardRound, Untold, ChargeNow, NoPayment, Working
    <3>4. CardRequests' /\ CardFunds'
      BY <1>4, <1>5, <3>0 DEF CardRequests, CardFunds
    <3>. QED  BY <3>1, <3>2, <3>3, <3>4 DEF CardStory
  <2>. QED  BY <1>4, <2>2 DEF CardStory
<1>. QED  BY <1>10, <1>11, <1>12, <1>13, <1>14, <1>15, <1>16 DEF StackStory

\* A step that is only of jobs that do not work yet, of requests, or of the stack itself.
LEMMA LittleTells ==
    ASSUME StackPart, CountsDown,
           UNCHANGED <<source, round, charge, swaps, payment, src, coSrc>>,
           stack'.status \in {stack.status, "ENDED"},
           \A k \in Jobs : job'[k] = job[k] \/ (~Working(k) /\ ~Working(k)'),
           \A q \in Requests : \/ request'[q] = request[q] \/ request'[q].pc # "cancel"
                               \/ /\ ~HoldsCalm'
                                  /\ source = "CARD" /\ CardCalm' =>
                                       request'[q].held # "RESERVED" /\ request'[q].order = "none"
    PROVE  OneAtWork' /\ SoldOnce' /\ StackHolds' /\ CardStory'
<1>0. Budgets /\ PlanOK /\ ChargeOK /\ TradesOK /\ ActorsOK
  BY DEF StackPart, StackTyped
<1>1. \A k \in Jobs : /\ Working(k)' <=> Working(k)
                      /\ Working(k) => job'[k] = job[k]
                      /\ job'[k].pc = "posted" <=> job[k].pc = "posted"
  BY DEF Working
<1>3. OneAtWork'
  <2>1. StackTidy' => StackTidy
    BY <1>0, StackCalm
  <2>. QED  BY <1>1, <2>1 DEF StackPart, StackStory, OneAtWork, RoundsDone, JobsAlone, RowsAlone,
    JobsPosted, LiveRow, StackOver, Working
<1>4. SoldOnce'
  BY <1>0, <1>1, StackCalm DEF StackPart, StackStory, SoldOnce, SwapsApart, SwapsKnown, BoughtOnce,
    Standing, Stands, LiveRow, StackOver, Working
<1>5. StackHolds'
  <2>1. Held' = Held
    BY DEF Held
  <2>. QED  BY <1>0, <1>1, <2>1, StackCalm DEF StackPart, StackStory, StackHolds, LiveRow, Working
<1>6. CardStory'
  <2>1. CardCalm' => CardCalm
    BY <1>0, StackCalm
  <2>2. ASSUME source = "CARD", CardCalm' PROVE CardStory'
    <3>0. /\ CardPayments /\ CardLive /\ CardSwaps /\ CardRound /\ CardJobs /\ CardRequests /\ CardFunds
      BY <2>1, <2>2 DEF StackPart, StackStory, CardStory
    <3>1. CardPayments' /\ CardSwaps'
      BY <3>0 DEF CardPayments, CardSwaps, Untold, LiveRow
    <3>2. CardLive'
      BY <1>1, <3>0 DEF CardLive, LivePay
    <3>3. CardRound'
      BY <1>1, <3>0 DEF CardRound
    <3>5. CardJobs'
      BY <1>1, <3>0 DEF CardJobs
    <3>4. CardRequests' /\ CardFunds'
      BY <2>2, <3>0 DEF CardRequests, CardFunds, Settled, Held
    <3>. QED  BY <3>1, <3>2, <3>3, <3>4, <3>5 DEF CardStory
  <2>. QED  BY <2>2 DEF CardStory
<1>. QED  BY <1>3, <1>4, <1>5, <1>6

\* A date that comes is one date more.
LEMMA DateComeTells ==
    ASSUME StackPart, StackTyped', CountsDown, DateCome PROVE StackStory'
<1>0. Budgets /\ PlanOK /\ ChargeOK /\ TradesOK /\ ActorsOK
  BY DEF StackPart, StackTyped
<1>1. UNCHANGED <<source, stack, round, charge, swaps, payment, usd, src, coSrc, totals, job, request, budget>>
      /\ stack.status \in Running /\ due' = TRUE /\ dates' = dates + 1
  BY DEF DateCome, trades, wallets, books
<1>2. StackSums' /\ OneAtWork' /\ SoldOnce' /\ StackHolds' /\ CardStory'
  BY <1>0, <1>1, LittleTells, SumsRest DEF StackPart, StackStory, Working
<1>3. StackBegun'
  <2>1. Settled' = Settled /\ StackBegun
    BY <1>1 DEF Settled, StackPart, StackStory
  <2>. QED  BY <1>1, <2>1 DEF StackBegun, Untold
<1>4. StackDates'
  <2>1. dates \in Nat /\ round \in Nat
    BY <1>0 DEF PlanOK
  <2>. QED  BY <1>0, <1>1, <2>1, StackCalm DEF StackPart, StackStory, StackDates
<1>. QED  BY <1>2, <1>3, <1>4 DEF StackStory

\* A job that finds the stack due goes on; of two that do, the mishap tells.
LEMMA ChargeStartTells ==
    ASSUME StackPart, StackTyped', CountsDown, NEW j \in Jobs, ChargeStart(j) PROVE StackStory'
<1>0. Budgets /\ PlanOK /\ ChargeOK /\ TradesOK /\ ActorsOK
  BY DEF StackPart, StackTyped
<1>1. UNCHANGED <<source, stack, round, due, dates, charge, swaps, payment, usd, src, coSrc, totals, request>>
      /\ stack.status \in Running /\ due /\ job[j].pc = "idle"
  BY DEF ChargeStart, plan, trades, wallets, books
<1>2. JobNow(j, IF stack.status = "PENDING" THEN "check" ELSE "accrue")
  BY <1>0, JobWritten DEF ChargeStart
<1>3. StackSums' /\ OneAtWork' /\ SoldOnce' /\ StackHolds' /\ CardStory'
  <2>1. \A k \in Jobs : job'[k] = job[k] \/ (~Working(k) /\ ~Working(k)')
    BY <1>1, <1>2 DEF JobNow, Working
  <2>. QED  BY <1>0, <1>1, <2>1, LittleTells, SumsRest DEF StackPart, StackStory, Working
<1>4. StackBegun'
  <2>1. Settled' = Settled /\ StackBegun
    BY <1>1 DEF Settled, StackPart, StackStory
  <2>. QED  BY <1>1, <1>2, <2>1 DEF StackBegun, Untold, JobNow, Running
<1>5. StackDates'
  BY <1>0, <1>1, <1>2, StackCalm DEF StackPart, StackStory, StackDates, JobNow, LiveRow, LivePay
<1>. QED  BY <1>3, <1>4, <1>5 DEF StackStory

\* Interest is added to the stack, the wallet and the totals alike.
LEMMA AccrueTells ==
    ASSUME StackPart, StackTyped', CountsDown, NEW j \in Jobs, Accrue(j) PROVE StackStory'
<1>0. Budgets /\ PlanOK /\ ChargeOK /\ TradesOK /\ ActorsOK /\ FundsOK
  BY DEF StackPart, StackTyped
<1>1. UNCHANGED <<source, round, due, dates, charge, swaps, payment, src, coSrc, request>>
      /\ job[j].pc = "accrue"
  BY DEF Accrue, trades
<1>2. JobNow(j, "force")
  BY <1>0, JobWritten DEF Accrue
<1>. DEFINE interest == PeriodInterest(stack.amount)
<1>3. stack'.status = stack.status /\ stack'.amount = stack.amount
      /\ usd'.base = usd.base /\ usd'.stacked = usd.stacked /\ totals'.stacked = totals.stacked
      /\ \/ /\ stack'.accrued = stack.accrued + interest
            /\ usd'.interest = usd.interest + interest
            /\ totals'.accrued = totals.accrued + interest
            /\ Note(stack.status = "ENDED", "afterEnd")
         \/ UNCHANGED <<stack, usd, totals>>
  <2>1. stack \in StackRows /\ usd \in UsdRows /\ totals \in StackTotals /\ ripe \in BOOLEAN
    BY <1>0 DEF PlanOK, FundsOK
  <2>2. CASE ripe
    <3>1. /\ stack' = [stack EXCEPT !.accrued = stack.accrued + interest]
          /\ usd' = [usd EXCEPT !.interest = usd.interest + interest]
          /\ totals' = [totals EXCEPT !.accrued = totals.accrued + interest]
          /\ Note(stack.status = "ENDED", "afterEnd")
      BY <2>1, <2>2 DEF Accrue
    <3>. HIDE DEF interest
    <3>. QED  BY <2>1, <3>1 DEF StackRows, UsdRows, StackTotals
  <2>3. CASE ~ripe
    BY <2>3 DEF Accrue
  <2>. QED  BY <2>1, <2>2, <2>3
<1>4. interest \in Nat
  BY <1>0, InterestNatural DEF PlanOK, StackRows
<1>. HIDE DEF interest
<1>5. StackBegun /\ stack.status \in {"ACTIVE", "ENDED"} /\ Settled' = Settled
  <2>1. StackBegun
    BY DEF StackPart, StackStory
  <2>. QED  BY <1>1, <2>1 DEF StackBegun, Settled
<1>6. StackBegun'
  BY <1>1, <1>2, <1>3, <1>5 DEF StackBegun, Untold, JobNow
<1>7. StackSums'
  <2>1. SumsCalm' => SumsCalm
    BY <1>0, <1>1, StackCalm
  <2>2. ASSUME SumsCalm', ~UNCHANGED <<stack, usd, totals>> PROVE stack.status = "ACTIVE"
    <3>1. Note(stack.status = "ENDED", "afterEnd") /\ (stack.status = "ENDED") \in BOOLEAN
      BY <1>3, <2>2
    <3>2. stack.status = "ENDED" => \A F : "afterEnd" \in F => ~Untouched(F)'
      BY <1>0, <3>1, BudgetNoted, StackMishaps
    <3>. QED  BY <1>5, <2>2, <3>2 DEF SumsCalm
  <2>3. \A k \in Jobs : Working(k)' => Working(k) /\ job'[k].first = job[k].first
    BY <1>2 DEF Working, JobNow
  <2>. QED  BY <1>1, <1>3, <1>4, <1>5, <2>1, <2>2, <2>3 DEF StackPart, StackStory, StackSums, StackOver
<1>8. OneAtWork' /\ SoldOnce' /\ StackHolds' /\ CardStory'
  <2>1. \A k \in Jobs : job'[k] = job[k] \/ (~Working(k) /\ ~Working(k)')
    BY <1>1, <1>2 DEF JobNow, Working
  <2>. QED  BY <1>1, <1>3, <2>1, LittleTells
<1>9. StackDates'
  BY <1>0, <1>1, <1>2, StackCalm DEF StackPart, StackStory, StackDates, JobNow, LiveRow, LivePay
<1>. QED  BY <1>6, <1>7, <1>8, <1>9 DEF StackStory

\* A job takes the current execution only if no other one has it.
LEMMA ChargeTakeTells ==
    ASSUME StackPart, StackTyped', CountsDown, NEW j \in Jobs, ChargeTake(j) PROVE StackStory'
<1>0. Budgets /\ PlanOK /\ ChargeOK /\ TradesOK /\ ActorsOK
  BY DEF StackPart, StackTyped
<1>1. UNCHANGED <<source, stack, round, due, dates, swaps, payment, usd, src, coSrc, totals, request, budget>>
      /\ job[j].pc \in {"check", "force"} /\ round \in Executions
  BY DEF ChargeTake, plan, trades, wallets, books
<1>2. CASE MayStart(j) /\ ~Initiated(round, j)
  <2>1. stack.status \in Running /\ (job[j].pc = "force" \/ due)
    BY <1>2 DEF MayStart
  <2>2. /\ charge[round].init \notin {"SUBMITTED", "COMPLETED"}
        /\ charge[round].init = "PROCESSING" =>
             \A k \in Jobs \ {j} : Working(k) => job[k].round # round
    BY <1>2 DEF Initiated, Working
  <2>3. ChargeNow(round, "PROCESSING", charge[round].held, charge[round].status, charge[round].order)
    <3>. DEFINE c == [charge[round] EXCEPT !.init = "PROCESSING"]
    <3>1. charge' = [charge EXCEPT ![round] = c] /\ charge[round] \in ChargeRows
      BY <1>0, <1>1, <1>2, ChargeKinds DEF ChargeTake, SetCharge
    <3>2. c.init = "PROCESSING" /\ c.held = charge[round].held /\ c.status = charge[round].status
          /\ c.order = charge[round].order
      BY <3>1 DEF ChargeRows
    <3>. HIDE DEF c
    <3>. QED  BY <1>0, <1>1, <3>1, <3>2, ChargeWritten
  <2>4. /\ \A k \in Jobs \ {j} : job'[k] = job[k]
        /\ job'[j].pc = "taken" /\ job'[j].round = round
        /\ job'[j].held = (charge[round].held = "RESERVED")
        /\ job'[j].first = (stack.status = "PENDING") /\ job'[j].order = charge[round].order
    <3>1. job \in [Jobs -> JobRows]
      BY <1>0 DEF ActorsOK
    <3>. QED  BY <1>2, <3>1 DEF ChargeTake
  <2>5. Settled' = Settled /\ Held' = Held
    BY <2>3, SettledSame, HeldSame DEF ChargeNow
  <2>6. StackTidy => \A k \in Jobs : ~Working(k)
    <3>. SUFFICES ASSUME StackTidy, NEW k \in Jobs, Working(k) PROVE FALSE
      OBVIOUS
    <3>1. job[k].round = round /\ charge[job[k].round].init = "PROCESSING"
      BY <2>1 DEF StackPart, StackStory, OneAtWork, JobsAlone, StackOver, Running
    <3>2. k # j
      BY <1>1 DEF Working
    <3>. QED  BY <2>2, <3>1, <3>2
  <2>7. StackTidy => \A i \in DOMAIN swaps : ~LiveRow(i)
    <3>. SUFFICES ASSUME StackTidy, NEW i \in DOMAIN swaps, LiveRow(i) PROVE FALSE
      OBVIOUS
    <3>1. swaps[i].round = round /\ charge[swaps[i].round].init = "SUBMITTED"
      BY <2>1 DEF StackPart, StackStory, OneAtWork, RowsAlone, StackOver, Running
    <3>. QED  BY <2>2, <3>1
  <2>8. StackTidy' => StackTidy
    BY <1>0, <1>1, StackCalm
  <2>10. StackBegun'
    <3>1. StackBegun
      BY DEF StackPart, StackStory
    <3>2. stack.status # "none"
      BY <2>1 DEF Running
    <3>. QED  BY <1>1, <2>4, <2>5, <3>1, <3>2 DEF StackBegun
  <2>11. StackSums'
    <3>1. SumsCalm' => SumsCalm
      BY <1>0, <1>1, StackCalm
    <3>. QED  BY <1>1, <2>4, <2>5, <3>1 DEF StackPart, StackStory, StackSums, Working, StackOver
  <2>12. OneAtWork'
    <3>. SUFFICES ASSUME StackTidy' PROVE RoundsDone' /\ JobsAlone' /\ RowsAlone' /\ JobsPosted'
      BY DEF OneAtWork
    <3>1. RoundsDone /\ JobsPosted
      BY <2>8 DEF StackPart, StackStory, OneAtWork
    <3>2. RoundsDone'
      BY <1>1, <2>3, <3>1 DEF RoundsDone, ChargeNow
    <3>3. \A i \in DOMAIN swaps' : ~LiveRow(i)'
      BY <1>1, <2>7, <2>8 DEF LiveRow
    <3>4. \A k \in Jobs : Working(k)' <=> k = j
      BY <2>4, <2>6, <2>8 DEF Working
    <3>5. JobsAlone' /\ RowsAlone'
      BY <1>1, <2>3, <2>4, <3>3, <3>4 DEF JobsAlone, RowsAlone, ChargeNow
    <3>6. JobsPosted'
      BY <2>4, <3>4 DEF JobsPosted, Working
    <3>. QED  BY <3>2, <3>5, <3>6
  <2>13. StackDates'
    BY <1>0, <1>1, <2>1, <2>4, StackCalm DEF StackPart, StackStory, StackDates, LiveRow, LivePay
  <2>14. StackHolds'
    <3>1. HoldsCalm' => HoldsCalm /\ StackTidy
      BY <1>0, <1>1, StackCalm DEF HoldsCalm, StackTidy
    <3>2. HoldsCalm' => \A k \in Jobs : job'[k].pc \in {"taken", "reserved", "posted"} => k = j
      BY <2>4, <2>6, <3>1 DEF Working
    <3>3. HoldsCalm' => \A i \in DOMAIN swaps' : ~LiveRow(i)'
      BY <1>1, <2>7, <3>1 DEF LiveRow
    <3>. QED  BY <1>1, <2>3, <2>4, <2>5, <3>1, <3>2, <3>3 DEF StackPart, StackStory, StackHolds, ChargeNow
  <2>15. SoldOnce'
    <3>. SUFFICES ASSUME OnTime' PROVE SwapsApart' /\ SwapsKnown' /\ BoughtOnce'
      BY DEF SoldOnce
    <3>1. SwapsApart /\ SwapsKnown /\ BoughtOnce
      BY <1>0, <1>1, StackCalm DEF StackPart, StackStory, SoldOnce
    <3>2. SwapsApart' /\ BoughtOnce'
      BY <1>1, <3>1 DEF SwapsApart, BoughtOnce, Stands
    <3>3. ASSUME source = "BTC" PROVE Standing = {}
      <4>1. StackTidy
        BY <3>3 DEF StackTidy
      <4>2. Standing # {} => StackOver \/ charge[round].init = "SUBMITTED" \/ \E k \in Jobs : job[k].pc = "posted"
        BY <3>1, <3>3 DEF SwapsKnown
      <4>. QED  BY <2>1, <2>2, <2>6, <4>1, <4>2 DEF StackOver, Running, Working
    <3>4. Standing' = Standing
      BY <1>1 DEF Standing, Stands
    <3>5. SwapsKnown'
      BY <1>1, <2>4, <3>3, <3>4 DEF SwapsKnown
    <3>. QED  BY <3>2, <3>5
  <2>16. CardStory'
    <3>. SUFFICES ASSUME source = "CARD", CardCalm'
                  PROVE  /\ CardPayments' /\ CardLive' /\ CardSwaps' /\ CardRound' /\ CardJobs'
                         /\ CardRequests' /\ CardFunds'
      BY <1>1 DEF CardStory
    <3>1. CardCalm /\ StackTidy
      BY <1>0, <1>1, StackCalm DEF StackTidy
    <3>2. CardPayments /\ CardLive /\ CardSwaps /\ CardRound /\ CardJobs /\ CardRequests /\ CardFunds
      BY <3>1 DEF StackPart, StackStory, CardStory
    <3>3. /\ \A k \in Jobs : ~Working(k)
          /\ \A i \in DOMAIN swaps : ~LiveRow(i)
      BY <2>6, <2>7, <3>1
    <3>4. charge[round].init \notin {"PROCESSING", "SUBMITTED"} /\ charge[round].held # "RESERVED"
          /\ payment[round].at = "none" /\ charge[round].order = "none"
      BY <1>1, <2>2, <3>2, <3>3 DEF CardRound, Working
    <3>5. CardPayments'
      BY <1>1, <2>3, <3>2, ExecutionsFinite DEF CardPayments, ChargeNow, Untold
    <3>6. CardLive'
      <4>1. \A r \in Executions : ~LivePay(r)
        BY <3>2, <3>4 DEF CardLive
      <4>. QED  BY <1>1, <4>1 DEF CardLive, LivePay
    <3>7. CardSwaps'
      BY <1>1, <3>2, <3>3 DEF CardSwaps, LiveRow
    <3>8. CardRound'
      BY <1>1, <2>3, <2>4, <3>2, <3>4 DEF CardRound, ChargeNow, Working
    <3>9. CardJobs'
      BY <1>1, <2>3, <2>4, <3>3, <3>4 DEF CardJobs, ChargeNow, Working
    <3>10. CardRequests' /\ CardFunds'
      BY <1>1, <2>5, <3>2 DEF CardRequests, CardFunds
    <3>. QED  BY <3>5, <3>6, <3>7, <3>8, <3>9, <3>10
  <2>. QED  BY <2>10, <2>11, <2>12, <2>13, <2>14, <2>15, <2>16 DEF StackStory
<1>3. CASE ~(MayStart(j) /\ ~Initiated(round, j))
  <2>1. UNCHANGED charge /\ JobDone(j)
    BY <1>0, <1>3, JobRested DEF ChargeTake
  <2>2. StackSums' /\ OneAtWork' /\ SoldOnce' /\ StackHolds' /\ CardStory'
    <3>1. \A k \in Jobs : job'[k] = job[k] \/ (~Working(k) /\ ~Working(k)')
      BY <1>1, <2>1 DEF JobDone, Working
    <3>. QED  BY <1>0, <1>1, <2>1, <3>1, LittleTells, SumsRest DEF StackPart, StackStory, Working
  <2>3. StackBegun'
    <3>1. Settled' = Settled /\ StackBegun
      BY <2>1 DEF Settled, StackPart, StackStory
    <3>. QED  BY <1>1, <2>1, <3>1 DEF StackBegun, Untold, JobDone
  <2>4. StackDates'
    BY <1>0, <1>1, <2>1, StackCalm DEF StackPart, StackStory, StackDates, JobDone, LiveRow, LivePay
  <2>. QED  BY <2>2, <2>3, <2>4 DEF StackStory
<1>. QED  BY <1>2, <1>3

LEMMA RequestWritten ==
    ASSUME ActorsOK, NEW q \in Requests, NEW n, request' = [request EXCEPT ![q] = n]
    PROVE  request'[q] = n /\ \A p \in Requests \ {q} : request'[p] = request[p]
  BY DEF ActorsOK

\* Unlock and cancelPending read the stack, and say so if they were overtaken.
LEMMA UnlockTells ==
    ASSUME StackPart, StackTyped', CountsDown, NEW q \in Requests, UnlockStack(q) PROVE StackStory'
<1>0. Budgets /\ ActorsOK /\ StackBegun
  BY DEF StackPart, StackTyped, StackStory
<1>1. UNCHANGED <<source, stack, round, due, dates, charge, swaps, payment, usd, src, coSrc, totals, job>>
  BY DEF UnlockStack, plan, trades, wallets, books
<1>2. /\ \A p \in Requests \ {q} : request'[p] = request[p]
      /\ request'[q].pc = "unlock" /\ request'[q].swap = 0
  <2>. DEFINE n == [NoRequest EXCEPT !.pc = "unlock", !.amount = stack.amount,
                                     !.accrued = stack.accrued, !.early = ~ripe]
  <2>1. request' = [request EXCEPT ![q] = n] /\ n.pc = "unlock" /\ n.swap = 0
    BY DEF UnlockStack, NoRequest
  <2>. HIDE DEF n
  <2>. QED  BY <1>0, <2>1, RequestWritten
<1>3. StackSums' /\ OneAtWork' /\ SoldOnce' /\ StackHolds' /\ CardStory'
  <2>1. \A p \in Requests : request'[p] = request[p] \/ request'[p].pc # "cancel"
    BY <1>2
  <2>. QED  BY <1>0, <1>1, <2>1, LittleTells, SumsRest DEF StackPart, StackStory, Working
<1>4. StackBegun'
  BY <1>0, <1>1, <1>2 DEF StackBegun, Untold, Settled
<1>5. StackDates'
  BY <1>0, <1>1, StackCalm DEF StackPart, StackStory, StackDates, LiveRow, LivePay
<1>. QED  BY <1>3, <1>4, <1>5 DEF StackStory

\* A stack that is paid out leaves the totals.
LEMMA PayOutTells ==
    ASSUME StackPart, StackTyped', CountsDown, NEW q \in Requests, PayOut(q) PROVE StackStory'
<1>. DEFINE r == request[q]
            back == IF r.early THEN r.amount - (r.amount * 5) \div 100 ELSE r.amount + r.accrued
<1>0. Budgets /\ PlanOK /\ FundsOK /\ ActorsOK /\ StackBegun
  BY DEF StackPart, StackTyped, StackStory
<1>1. UNCHANGED <<source, round, due, dates, charge, swaps, payment, src, coSrc, job>>
  BY DEF PayOut, trades
<1>2. /\ stack'.status = "ENDED"
      /\ usd'.stacked = NotBelowZero(usd.stacked - r.amount)
      /\ usd'.interest = NotBelowZero(usd.interest - r.accrued)
      /\ totals'.stacked = NotBelowZero(totals.stacked - r.amount)
      /\ totals'.accrued = NotBelowZero(totals.accrued - r.accrued)
  <2>1. stack \in StackRows /\ stack' = [stack EXCEPT !.status = "ENDED"]
    BY <1>0 DEF PlanOK, PayOut
  <2>2. stack'.status = "ENDED"
    BY <2>1 DEF StackRows
  <2>3. /\ usd' = [base |-> usd.base + back,
                   stacked |-> NotBelowZero(usd.stacked - r.amount),
                   interest |-> NotBelowZero(usd.interest - r.accrued)]
        /\ totals' = [stacked |-> NotBelowZero(totals.stacked - r.amount),
                      accrued |-> NotBelowZero(totals.accrued - r.accrued),
                      paid |-> totals.paid + IF r.early THEN 0 ELSE r.accrued,
                      internal |-> totals.internal]
    BY DEF PayOut
  <2>. HIDE DEF r, back
  <2>. QED  BY <2>2, <2>3
<1>3. /\ \A p \in Requests \ {q} : request'[p] = request[p]
      /\ request'[q].pc = "idle" /\ request'[q].swap = 0
  <2>1. request' = [request EXCEPT ![q] = NoRequest]
    BY DEF PayOut
  <2>2. request'[q] = NoRequest /\ \A p \in Requests \ {q} : request'[p] = request[p]
    BY <1>0, <2>1, RequestWritten
  <2>. QED  BY <2>2 DEF NoRequest
<1>4. OneAtWork' /\ SoldOnce' /\ StackHolds' /\ CardStory'
  <2>1. \A p \in Requests : request'[p] = request[p] \/ request'[p].pc # "cancel"
    BY <1>3
  <2>. QED  BY <1>1, <1>2, <2>1, LittleTells
<1>5. StackBegun'
  BY <1>0, <1>1, <1>2, <1>3 DEF StackBegun, Untold, Settled
<1>6. StackDates'
  BY <1>0, <1>1, StackCalm DEF StackPart, StackStory, StackDates, LiveRow, LivePay
<1>7. StackSums'
  <2>. SUFFICES ASSUME SumsCalm'
                PROVE  /\ totals'.stacked = 0 /\ totals'.accrued = 0
                       /\ usd'.stacked = 0 /\ usd'.interest = 0
    BY <1>2 DEF StackSums, StackOver
  <2>. DEFINE stale == stack # [status |-> "ACTIVE", amount |-> r.amount, accrued |-> r.accrued]
  <2>1. ~stale
    <3>1. Note(stale, "staleRequest") /\ stale \in BOOLEAN
      BY DEF PayOut
    <3>. HIDE DEF stale
    <3>2. stale => \A F : "staleRequest" \in F => ~Untouched(F)'
      BY <1>0, <3>1, BudgetNoted, StackMishaps
    <3>. QED  BY <3>2 DEF SumsCalm
  <2>2. stack.status = "ACTIVE" /\ stack.amount = r.amount /\ stack.accrued = r.accrued
    <3>. HIDE DEF r
    <3>. QED  BY <2>1
  <2>3. /\ totals.stacked = r.amount /\ totals.accrued = r.accrued
        /\ usd.stacked = r.amount /\ usd.interest = r.accrued
    BY <1>0, <1>1, <2>2, StackCalm DEF StackPart, StackStory, StackSums
  <2>4. r.amount \in Nat /\ r.accrued \in Nat
    BY <1>0, RequestKinds
  <2>. HIDE DEF r
  <2>. QED  BY <1>2, <2>3, <2>4 DEF NotBelowZero
<1>. QED  BY <1>4, <1>5, <1>6, <1>7 DEF StackStory

LEMMA CancelTells ==
    ASSUME StackPart, StackTyped', CountsDown, NEW q \in Requests, CancelStack(q) PROVE StackStory'
<1>0. Budgets /\ ActorsOK /\ TradesOK /\ StackBegun
  BY DEF StackPart, StackTyped, StackStory
<1>1. UNCHANGED <<source, stack, round, due, dates, charge, swaps, payment, usd, src, coSrc, totals, job>>
      /\ stack.status = "PENDING" /\ (source = "CARD" => ~UnderWay(charge[0])) /\ Spend("cancelStack")
  BY DEF CancelStack, plan, trades, wallets, books
<1>2. /\ \A p \in Requests \ {q} : request'[p] = request[p]
      /\ request'[q].pc = "cancel" /\ request'[q].swap = LastOf(FirstSwap)
      /\ request'[q].held = charge[0].held /\ request'[q].order = charge[0].order
  <2>. DEFINE n == [NoRequest EXCEPT !.pc = "cancel", !.swap = LastOf(FirstSwap),
                                     !.held = charge[0].held, !.order = charge[0].order]
  <2>1. request' = [request EXCEPT ![q] = n]
    BY DEF CancelStack
  <2>2. n.pc = "cancel" /\ n.swap = LastOf(FirstSwap) /\ n.held = charge[0].held /\ n.order = charge[0].order
    BY DEF NoRequest
  <2>. HIDE DEF n
  <2>. QED  BY <1>0, <2>1, <2>2, RequestWritten
<1>3. ~HoldsCalm'
  BY <1>0, <1>1, BudgetSpent, StackMishaps DEF HoldsCalm
<1>4. source # "BTC" => LastOf(FirstSwap) = 0
  BY <1>0, LastKind DEF FirstSwap
<1>5. ASSUME source = "CARD", CardCalm' PROVE charge[0].held # "RESERVED" /\ charge[0].order = "none"
  <2>1. CardCalm /\ StackTidy
    BY <1>0, <1>1, <1>5, StackCalm DEF StackTidy
  <2>2. CardRound /\ JobsAlone
    BY <1>5, <2>1 DEF StackPart, StackStory, CardStory, OneAtWork
  <2>3. round = 0 /\ round \in Executions
    BY <1>0, <1>1, ZeroExecution DEF StackBegun
  <2>4. charge[0].init \notin {"PROCESSING", "SUBMITTED", "COMPLETED"} /\ charge[0].order # "placed"
    BY <1>1, <1>5 DEF UnderWay
  <2>5. \A j \in Jobs : ~Working(j)
    <3>. SUFFICES ASSUME NEW j \in Jobs, Working(j) PROVE FALSE
      OBVIOUS
    <3>1. job[j].round = 0 /\ charge[job[j].round].init = "PROCESSING"
      BY <1>1, <2>2, <2>3 DEF JobsAlone, StackOver
    <3>. QED  BY <2>4, <3>1
  <2>6. payment[0].at = "none"
    BY <2>2, <2>3, <2>4, <2>5 DEF CardRound, Working
  <2>. QED  BY <2>2, <2>3, <2>4, <2>6 DEF CardRound
<1>6. StackSums' /\ OneAtWork' /\ SoldOnce' /\ StackHolds' /\ CardStory'
  <2>1. \A p \in Requests : \/ request'[p] = request[p]
                            \/ /\ ~HoldsCalm'
                               /\ source = "CARD" /\ CardCalm' =>
                                    request'[p].held # "RESERVED" /\ request'[p].order = "none"
    BY <1>2, <1>3, <1>5
  <2>. QED  BY <1>0, <1>1, <2>1, LittleTells, SumsRest DEF StackPart, StackStory, Working
<1>7. StackBegun'
  BY <1>0, <1>1, <1>2, <1>4 DEF StackBegun, Untold, Settled
<1>8. StackDates'
  BY <1>0, <1>1, StackCalm DEF StackPart, StackStory, StackDates, LiveRow, LivePay
<1>. QED  BY <1>6, <1>7, <1>8 DEF StackStory

\* A cancelled execution gives back what it held, and its swap is cancelled.
LEMMA CancelCommitTells ==
    ASSUME StackPart, StackTyped', CountsDown, NEW q \in Requests, CancelStackCommit(q) PROVE StackStory'
<1>. DEFINE r == request[q]
            held == r.held = "RESERVED"
            open == r.swap # 0 => swaps[r.swap].at = "open"
            able == held => /\ source = "BTC" => CanReleaseBalance(src, SourceCost)
                            /\ CanReleaseLiquidity(coSrc, Cost)
            stale == \/ stack.status # "PENDING"
                     \/ [charge[0] EXCEPT !.init = "none"]
                          # [charge[0] EXCEPT !.init = "none", !.held = r.held, !.order = r.order]
            committed == open /\ able
<1>0. Budgets /\ PlanOK /\ ChargeOK /\ TradesOK /\ ActorsOK /\ StackBegun
  BY DEF StackPart, StackTyped, StackStory
<1>1. UNCHANGED <<source, round, due, dates, payment, usd, totals, job>> /\ r.pc = "cancel"
  BY DEF CancelStackCommit
<1>2. /\ \A p \in Requests \ {q} : request'[p] = request[p]
      /\ request'[q].pc = "idle" /\ request'[q].swap = 0
  <2>1. request' = [request EXCEPT ![q] = NoRequest]
    BY DEF CancelStackCommit
  <2>2. request'[q] = NoRequest /\ \A p \in Requests \ {q} : request'[p] = request[p]
    BY <1>0, <2>1, RequestWritten
  <2>. QED  BY <2>2 DEF NoRequest
<1>3. /\ DOMAIN swaps' = DOMAIN swaps /\ Len(swaps') = Len(swaps)
      /\ \A k \in DOMAIN swaps :
            /\ swaps'[k].round = swaps[k].round /\ swaps'[k].row = swaps[k].row
            /\ swaps'[k].event = swaps[k].event
            /\ Stands(k)' => Stands(k)
            /\ swaps'[k].at = "open" => swaps[k].at = "open"
      /\ source # "BTC" => UNCHANGED swaps
  <2>1. swaps' = [swaps EXCEPT ![r.swap].at = "cancelled"] \/ UNCHANGED swaps
    BY DEF CancelStackCommit
  <2>2. source # "BTC" => UNCHANGED swaps
    BY <1>0 DEF CancelStackCommit, StackBegun
  <2>. HIDE DEF r
  <2>3. CASE UNCHANGED swaps
    BY <2>3 DEF Stands
  <2>4. CASE swaps' = [swaps EXCEPT ![r.swap].at = "cancelled"]
    BY <1>0, <1>1, <2>2, <2>4, SwapCancelled DEF Stands
  <2>. QED  BY <2>1, <2>3, <2>4
<1>4. \A k \in DOMAIN swaps : LiveRow(k)' <=> LiveRow(k)
  BY <1>3 DEF LiveRow
<1>5. ~HoldsCalm
  BY <1>1 DEF StackPart, StackStory, StackHolds
<1>6. CASE committed
  <2>. DEFINE h == IF held THEN "RELEASED" ELSE r.held
  <2>1. stack'.status = "ENDED"
    <3>1. stack \in StackRows /\ stack' = [stack EXCEPT !.status = "ENDED"]
      BY <1>0, <1>6 DEF PlanOK, CancelStackCommit
    <3>. QED  BY <3>1 DEF StackRows
  <2>2. ChargeNow(0, "CANCELLED", h, charge[0].status, r.order)
    <3>. DEFINE c == [charge[0] EXCEPT !.init = "CANCELLED", !.held = h, !.order = r.order]
    <3>1. charge' = [charge EXCEPT ![0] = c] /\ charge[0] \in ChargeRows
      BY <1>0, <1>6, ZeroExecution, ChargeKinds DEF CancelStackCommit
    <3>. HIDE DEF h, r
    <3>2. c.init = "CANCELLED" /\ c.held = h /\ c.status = charge[0].status /\ c.order = r.order
      BY <3>1 DEF ChargeRows
    <3>. HIDE DEF c
    <3>. QED  BY <1>0, <3>1, <3>2, ZeroExecution, ChargeWritten
  <2>3. \A F : "staleRequest" \in F /\ Untouched(F)' =>
           /\ stack.status = "PENDING" /\ charge[0].held = r.held /\ charge[0].order = r.order
    <3>1. Note(stale, "staleRequest") /\ stale \in BOOLEAN
      BY <1>6 DEF CancelStackCommit
    <3>2. charge[0] \in ChargeRows
      BY <1>0, ZeroExecution, ChargeKinds
    <3>3. ~stale => stack.status = "PENDING" /\ charge[0].held = r.held /\ charge[0].order = r.order
      <4>. SUFFICES ASSUME ~stale PROVE charge[0].held = r.held /\ charge[0].order = r.order
        OBVIOUS
      <4>. HIDE DEF r
      <4>. DEFINE a == [charge[0] EXCEPT !.init = "none"]
                  b == [charge[0] EXCEPT !.init = "none", !.held = r.held, !.order = r.order]
      <4>1. a = b
        OBVIOUS
      <4>2. a.held = charge[0].held /\ a.order = charge[0].order /\ b.held = r.held /\ b.order = r.order
        BY <3>2 DEF ChargeRows
      <4>. HIDE DEF a, b
      <4>. QED  BY <4>1, <4>2
    <3>. HIDE DEF stale
    <3>4. stale => \A F : "staleRequest" \in F => ~Untouched(F)'
      BY <1>0, <3>1, BudgetNoted, StackMishaps
    <3>. QED  BY <3>3, <3>4
  <2>4. Settled' = Settled
    BY <2>2, SettledSame DEF ChargeNow
  <2>. HIDE DEF h, r
  <2>5. StackBegun'
    BY <1>0, <1>1, <1>2, <1>3, <2>1 DEF StackBegun
  <2>6. StackSums'
    <3>1. SumsCalm' => SumsCalm /\ stack.status = "PENDING"
      BY <1>0, <1>1, <2>3, StackCalm DEF SumsCalm
    <3>. QED  BY <1>1, <2>1, <3>1 DEF StackPart, StackStory, StackSums, StackOver
  <2>7. OneAtWork'
    <3>. SUFFICES ASSUME StackTidy' PROVE RoundsDone' /\ JobsAlone' /\ RowsAlone' /\ JobsPosted'
      BY DEF OneAtWork
    <3>1. RoundsDone /\ JobsAlone /\ RowsAlone /\ JobsPosted
      BY <1>0, <1>1, StackCalm DEF StackPart, StackStory, OneAtWork
    <3>2. RoundsDone'
      BY <1>1, <1>3, <2>2, <3>1 DEF RoundsDone, ChargeNow
    <3>3. JobsAlone'
      BY <1>1, <1>3, <1>4, <2>1, <3>1 DEF JobsAlone, StackOver, Working
    <3>4. RowsAlone'
      BY <1>1, <1>3, <1>4, <2>1, <3>1 DEF RowsAlone, StackOver
    <3>5. JobsPosted'
      BY <1>1, <1>3, <3>1 DEF JobsPosted
    <3>. QED  BY <3>2, <3>3, <3>4, <3>5
  <2>8. SoldOnce'
    <3>. SUFFICES ASSUME OnTime' PROVE SwapsApart' /\ SwapsKnown' /\ BoughtOnce'
      BY DEF SoldOnce
    <3>1. SwapsApart /\ SwapsKnown /\ BoughtOnce
      BY <1>0, <1>1, StackCalm DEF StackPart, StackStory, SoldOnce
    <3>2. SwapsApart'
      BY <1>3, <3>1 DEF SwapsApart
    <3>3. Standing' \subseteq Standing
      BY <1>1, <1>3 DEF Standing
    <3>4. SwapsKnown'
      BY <1>1, <1>3, <1>4, <2>1, <3>1, <3>3 DEF SwapsKnown, StackOver
    <3>5. BoughtOnce'
      BY <1>1, <1>3, <3>1 DEF BoughtOnce
    <3>. QED  BY <3>2, <3>4, <3>5
  <2>9. CardStory'
    <3>. SUFFICES ASSUME source = "CARD", CardCalm'
                  PROVE  /\ CardPayments' /\ CardLive' /\ CardSwaps' /\ CardRound' /\ CardJobs'
                         /\ CardRequests' /\ CardFunds'
      BY <1>1 DEF CardStory
    <3>1. CardCalm /\ StackTidy
      BY <1>0, <1>1, StackCalm DEF StackTidy
    <3>2. /\ CardPayments /\ CardLive /\ CardSwaps /\ CardRound /\ CardJobs /\ CardRequests /\ CardFunds
          /\ JobsAlone
      BY <3>1 DEF StackPart, StackStory, CardStory, OneAtWork
    <3>3. r.held # "RESERVED" /\ r.order = "none"
      BY <1>1, <3>2 DEF CardRequests, r
    <3>4. /\ stack.status = "PENDING" /\ charge[0].held = r.held /\ charge[0].order = r.order
          /\ round = 0
      BY <1>0, <2>3 DEF CardCalm, StackBegun
    <3>5. ChargeNow(0, "CANCELLED", charge[0].held, charge[0].status, "none") /\ UNCHANGED swaps
      BY <1>3, <2>2, <3>3, <3>4 DEF h, r
    <3>6. charge[0].held # "RESERVED" /\ charge[0].order = "none"
      BY <3>3, <3>4
    <3>7. payment[0].at = "none"
      <4>1. charge[0].init # "SUBMITTED"
        BY <3>2, <3>4, <3>6, ZeroExecution DEF CardRound
      <4>2. \A j \in Jobs : job[j].pc # "posted"
        BY <3>2, <3>4, <3>6 DEF CardJobs, Working
      <4>. QED  BY <3>2, <3>4, <4>1, <4>2, ZeroExecution DEF CardRound
    <3>10. CardPayments'
      BY <1>1, <3>2, <3>4, <3>5, ExecutionsFinite DEF CardPayments, ChargeNow, Untold
    <3>11. CardLive'
      <4>1. \A e \in Executions : ~LivePay(e)
        BY <3>2, <3>4, <3>6 DEF CardLive
      <4>. QED  BY <1>1, <4>1 DEF CardLive, LivePay
    <3>12. CardSwaps'
      <4>1. \A i \in DOMAIN swaps : ~LiveRow(i)
        BY <3>2, <3>4, <3>6 DEF CardSwaps
      <4>. QED  BY <1>1, <3>2, <3>5, <4>1 DEF CardSwaps, LiveRow
    <3>13. CardRound'
      BY <1>1, <3>2, <3>4, <3>5, <3>6, <3>7 DEF CardRound, ChargeNow
    <3>14. CardJobs'
      BY <1>1, <3>2, <3>4, <3>5, <3>6, ZeroExecution DEF CardJobs, ChargeNow, Working
    <3>15. CardRequests'
      BY <1>2, <3>2 DEF CardRequests
    <3>16. CardFunds'
      <4>1. Held' = Held
        BY <3>5, HeldSame DEF ChargeNow
      <4>2. UNCHANGED coSrc
        BY <1>6, <3>3 DEF CancelStackCommit, r
      <4>. QED  BY <2>4, <3>2, <4>1, <4>2 DEF CardFunds
    <3>. QED  BY <3>10, <3>11, <3>12, <3>13, <3>14, <3>15, <3>16
  <2>10. StackHolds'
    BY <1>0, <1>1, <1>5, StackCalm DEF StackHolds
  <2>11. StackDates'
    BY <1>0, <1>1, <1>3, <1>4, StackCalm DEF StackPart, StackStory, StackDates, LivePay
  <2>. QED  BY <2>5, <2>6, <2>7, <2>8, <2>9, <2>10, <2>11 DEF StackStory
<1>7. CASE ~committed
  <2>1. UNCHANGED <<stack, charge, src, coSrc, budget>>
    BY <1>7 DEF CancelStackCommit
  <2>. HIDE DEF committed, r
  <2>2. Settled' = Settled /\ Held' = Held
    BY <2>1 DEF Settled, Held
  <2>3. StackBegun'
    <3>1. swaps = <<>> => swaps' = <<>>
      BY <1>3, StackStillEmpty DEF StackTyped, TradesOK
    <3>. QED  BY <1>0, <1>1, <1>2, <1>3, <2>1, <2>2, <3>1 DEF StackBegun, Untold
  <2>4. StackSums'
    BY <1>0, <1>1, <2>1, SumsRest DEF StackPart, StackStory, Working
  <2>5. OneAtWork'
    <3>. SUFFICES ASSUME StackTidy' PROVE RoundsDone' /\ JobsAlone' /\ RowsAlone' /\ JobsPosted'
      BY DEF OneAtWork
    <3>1. RoundsDone /\ JobsAlone /\ RowsAlone /\ JobsPosted
      BY <1>0, <1>1, StackCalm DEF StackPart, StackStory, OneAtWork
    <3>2. RoundsDone' /\ JobsPosted'
      BY <1>1, <1>3, <2>1, <3>1 DEF RoundsDone, JobsPosted
    <3>3. JobsAlone'
      BY <1>1, <1>3, <1>4, <2>1, <3>1 DEF JobsAlone, StackOver, Working
    <3>4. RowsAlone'
      BY <1>1, <1>3, <1>4, <2>1, <3>1 DEF RowsAlone, StackOver
    <3>. QED  BY <3>2, <3>3, <3>4
  <2>6. SoldOnce'
    <3>. SUFFICES ASSUME OnTime' PROVE SwapsApart' /\ SwapsKnown' /\ BoughtOnce'
      BY DEF SoldOnce
    <3>1. SwapsApart /\ SwapsKnown /\ BoughtOnce
      BY <1>0, <1>1, StackCalm DEF StackPart, StackStory, SoldOnce
    <3>2. SwapsApart'
      BY <1>3, <3>1 DEF SwapsApart
    <3>3. Standing' \subseteq Standing
      BY <1>1, <1>3 DEF Standing
    <3>4. SwapsKnown'
      BY <1>1, <1>3, <1>4, <2>1, <3>1, <3>3 DEF SwapsKnown, StackOver
    <3>5. BoughtOnce'
      BY <1>1, <1>3, <3>1 DEF BoughtOnce
    <3>. QED  BY <3>2, <3>4, <3>5
  <2>7. CardStory'
    <3>1. source = "CARD" => CardStory'
      <4>. SUFFICES ASSUME source = "CARD" PROVE CardStory'
        OBVIOUS
      <4>1. \A p \in Requests : request'[p] = request[p] \/ request'[p].pc # "cancel"
        BY <1>2
      <4>. QED  BY <1>1, <1>3, <2>1, <4>1, LittleTells
    <3>. QED  BY <1>1, <3>1 DEF CardStory
  <2>8. StackHolds'
    BY <1>0, <1>1, <1>5, StackCalm DEF StackHolds
  <2>9. StackDates'
    BY <1>0, <1>1, <1>3, <1>4, StackCalm DEF StackPart, StackStory, StackDates, LivePay
  <2>. QED  BY <2>3, <2>4, <2>5, <2>6, <2>7, <2>8, <2>9 DEF StackStory
<1>. QED  BY <1>6, <1>7

\* A crash empties the jobs; what they had taken stays taken.
LEMMA StackCrashTells ==
    ASSUME StackPart, StackTyped', CountsDown, StackCrash PROVE StackStory'
<1>0. Budgets /\ PlanOK /\ TradesOK /\ StackBegun
  BY DEF StackPart, StackTyped, StackStory
<1>1. UNCHANGED <<source, stack, round, due, dates, charge, swaps, usd, src, coSrc, totals>>
  BY DEF StackCrash, plan, wallets, books
<1>2. /\ \A j \in Jobs : job'[j].pc = "idle"
      /\ \A q \in Requests : request'[q].pc = "idle" /\ request'[q].swap = 0
  BY DEF StackCrash, Nobody, NoRequest
<1>3. ~OnTime' /\ ~CardCalm'
  <2>1. Spend("crash")
    BY DEF StackCrash
  <2>. QED  BY <1>0, <2>1, BudgetSpent, StackMishaps DEF OnTime, CardCalm
<1>4. \A r \in Executions : /\ payment[r] = NoPayment => payment'[r] = NoPayment
                            /\ LivePay(r)' => LivePay(r)
  BY DEF StackCrash, LivePay, NoPayment
<1>5. \A j \in Jobs : ~Working(j)'
  BY <1>2 DEF Working
<1>6. StackBegun'
  BY <1>0, <1>1, <1>2, <1>4 DEF StackBegun, Untold, Settled
<1>7. StackSums'
  BY <1>0, <1>1, <1>5, SumsRest DEF StackPart, StackStory
<1>8. OneAtWork'
  <2>. SUFFICES ASSUME StackTidy' PROVE RoundsDone' /\ JobsAlone' /\ RowsAlone' /\ JobsPosted'
    BY DEF OneAtWork
  <2>1. RoundsDone /\ RowsAlone
    BY <1>0, <1>1, StackCalm DEF StackPart, StackStory, OneAtWork
  <2>. QED  BY <1>1, <1>2, <1>5, <2>1 DEF RoundsDone, JobsAlone, RowsAlone, JobsPosted, LiveRow, StackOver
<1>9. StackDates'
  BY <1>0, <1>1, <1>2, <1>4, StackCalm DEF StackPart, StackStory, StackDates, LiveRow
<1>10. StackHolds'
  <2>1. Held' = Held
    BY <1>1 DEF Held
  <2>. QED  BY <1>0, <1>1, <1>2, <2>1, StackCalm DEF StackPart, StackStory, StackHolds, LiveRow
<1>11. SoldOnce' /\ CardStory'
  BY <1>3 DEF SoldOnce, CardStory
<1>. QED  BY <1>6, <1>7, <1>8, <1>9, <1>10, <1>11 DEF StackStory

\* A job gives up: before anything was sold, or in a way that is remembered.
LEMMA JobFails ==
    ASSUME StackPart, StackTyped', CountsDown, NEW j \in Jobs, JobNow(j, "failed"), Working(j),
           UNCHANGED <<source, stack, round, due, dates, charge, swaps, payment, usd, src, coSrc,
                       totals, request>>,
           job[j].pc \in {"taken", "reserved"} \/ (~OnTime' /\ ~CardCalm')
    PROVE  StackStory'
<1>0. Budgets /\ PlanOK /\ ChargeOK /\ TradesOK /\ ActorsOK /\ StackBegun
  BY DEF StackPart, StackTyped, StackStory
<1>1. \A k \in Jobs : /\ Working(k)' <=> Working(k)
                      /\ job'[k].round = job[k].round /\ job'[k].first = job[k].first
                      /\ k # j => job'[k] = job[k]
  BY DEF JobNow, Working
<1>2. StackBegun'
  BY <1>0, <1>1 DEF StackBegun, Untold, Settled, JobNow, Working
<1>3. StackSums'
  BY <1>0, <1>1, SumsRest DEF StackPart, StackStory
<1>4. OneAtWork'
  <2>. SUFFICES ASSUME StackTidy' PROVE RoundsDone' /\ JobsAlone' /\ RowsAlone' /\ JobsPosted'
    BY DEF OneAtWork
  <2>1. RoundsDone /\ JobsAlone /\ RowsAlone /\ JobsPosted
    BY <1>0, StackCalm DEF StackPart, StackStory, OneAtWork
  <2>. QED  BY <1>1, <2>1 DEF RoundsDone, JobsAlone, RowsAlone, JobsPosted, LiveRow, StackOver, JobNow
<1>5. StackDates'
  BY <1>0, <1>1, StackCalm DEF StackPart, StackStory, StackDates, LiveRow, LivePay, JobNow, Working
<1>6. StackHolds'
  <2>1. Held' = Held
    BY DEF Held
  <2>. QED  BY <1>0, <1>1, <2>1, StackCalm DEF StackPart, StackStory, StackHolds, LiveRow, JobNow
<1>7. SoldOnce'
  <2>. SUFFICES ASSUME OnTime' PROVE SwapsApart' /\ SwapsKnown' /\ BoughtOnce'
    BY DEF SoldOnce
  <2>1. SwapsApart /\ SwapsKnown /\ BoughtOnce
    BY <1>0, StackCalm DEF StackPart, StackStory, SoldOnce
  <2>2. Standing' = Standing
    BY DEF Standing, Stands
  <2>. QED  BY <1>1, <2>1, <2>2 DEF SwapsApart, SwapsKnown, BoughtOnce, Stands, LiveRow, StackOver, JobNow
<1>8. CardStory'
  <2>. SUFFICES ASSUME source = "CARD", CardCalm'
                PROVE  /\ CardPayments' /\ CardLive' /\ CardSwaps' /\ CardRound' /\ CardJobs'
                       /\ CardRequests' /\ CardFunds'
    BY DEF CardStory
  <2>1. /\ CardPayments /\ CardLive /\ CardSwaps /\ CardRound /\ CardJobs /\ CardRequests /\ CardFunds
    BY <1>0, StackCalm DEF StackPart, StackStory, CardStory
  <2>2. CardPayments' /\ CardSwaps' /\ CardRequests'
    BY <2>1 DEF CardPayments, CardSwaps, CardRequests, Untold, LiveRow
  <2>3. CardLive'
    BY <1>1, <2>1 DEF CardLive, LivePay
  <2>4. CardRound'
    BY <1>1, <2>1 DEF CardRound, JobNow
  <2>5. CardJobs'
    BY <1>1, <2>1 DEF CardJobs, JobNow
  <2>6. CardFunds'
    BY <2>1 DEF CardFunds, Settled, Held
  <2>. QED  BY <2>2, <2>3, <2>4, <2>5, <2>6
<1>. QED  BY <1>2, <1>3, <1>4, <1>5, <1>6, <1>7, <1>8 DEF StackStory

\* The USDT of an installment leave the wallet as the execution is settled.
LEMMA FromWalletTells ==
    ASSUME StackPart, StackTyped', CountsDown, NEW j \in Jobs, StackFromWallet(j) PROVE StackStory'
<1>0. Budgets /\ PlanOK /\ ChargeOK /\ TradesOK /\ FundsOK /\ ActorsOK /\ StackBegun
  BY DEF StackPart, StackTyped, StackStory
<1>1. source = "USDT" /\ job[j].pc = "taken" /\ UNCHANGED <<source, dates, swaps, payment, src, coSrc, request>>
  BY DEF StackFromWallet, trades
<1>2. job[j].round \in Executions /\ job[j].first \in BOOLEAN /\ job[j] \in JobRows
  <2>1. job[j] \in JobRows
    BY <1>0, JobKinds
  <2>. QED  BY <2>1 DEF JobRows
<1>. DEFINE able == usd.base >= Installment + InstallmentFee
            each == Installment + InstallmentFee
<1>3. CASE able
  <2>1. /\ usd' = [usd EXCEPT !.base = usd.base - each, !.stacked = usd.stacked + Installment]
        /\ totals' = [totals EXCEPT !.stacked = totals.stacked + Installment]
        /\ Grow(Installment, job[j].first) /\ Rest(j)
        /\ charge' = [charge EXCEPT ![job[j].round] =
                         [charge[job[j].round] EXCEPT !.init = "COMPLETED", !.status = "COMPLETED"]]
    BY <1>3 DEF StackFromWallet
  <2>2. ChargeNow(job[j].round, "COMPLETED", charge[job[j].round].held, "COMPLETED", charge[job[j].round].order)
    <3>. DEFINE c == [charge[job[j].round] EXCEPT !.init = "COMPLETED", !.status = "COMPLETED"]
    <3>1. charge[job[j].round] \in ChargeRows
      BY <1>0, <1>2, ChargeKinds
    <3>2. c.init = "COMPLETED" /\ c.held = charge[job[j].round].held /\ c.status = "COMPLETED"
          /\ c.order = charge[job[j].round].order
      BY <3>1 DEF ChargeRows
    <3>3. charge' = [charge EXCEPT ![job[j].round] = c]
      BY <2>1
    <3>. HIDE DEF c
    <3>. QED  BY <1>0, <1>2, <3>2, <3>3, ChargeWritten
  <2>3. JobDone(j)
    BY <1>0, <2>1, JobRested
  <2>4. /\ usd'.base = usd.base - each /\ usd'.stacked = usd.stacked + Installment
        /\ usd'.interest = usd.interest
        /\ totals'.stacked = totals.stacked + Installment /\ totals'.accrued = totals.accrued
    <3>1. usd \in UsdRows /\ totals \in StackTotals
      BY <1>0 DEF FundsOK
    <3>. HIDE DEF each
    <3>. QED  BY <2>1, <3>1 DEF UsdRows, StackTotals
  <2>5. /\ stack'.status = "ACTIVE" /\ stack'.accrued = stack.accrued
        /\ stack'.amount = (IF job[j].first THEN Installment ELSE stack.amount + Installment)
        /\ round' = round + 1 /\ due' = FALSE
        /\ stack.status = "ENDED" => \A F : "reopened" \in F => ~Untouched(F)'
        /\ (\E k \in Jobs : job[k].pc \in {"accrue", "force"})
             => \A F : "jobsOverlap" \in F => ~Untouched(F)'
    BY <1>0, <1>1, <1>2, <2>1, GrowTyped
  <2>6. RoundsDone /\ JobsAlone /\ RowsAlone /\ job[j].round = round /\ StackTidy
        /\ \A k \in Jobs : Working(k) => k = j
    <3>1. StackTidy
      BY <1>1 DEF StackTidy
    <3>2. RoundsDone /\ JobsAlone /\ RowsAlone
      BY <3>1 DEF StackPart, StackStory, OneAtWork
    <3>. QED  BY <1>1, <3>1, <3>2 DEF JobsAlone, Working
  <2>7. charge[round].status # "COMPLETED" /\ round \in Nat /\ round \in Executions
    BY <1>0, <1>2, <2>6 DEF RoundsDone, PlanOK
  <2>8. Cardinality(Settled') = Cardinality(Settled) + 1 /\ Cardinality(Settled) \in Nat
    BY <1>0, <1>2, <2>2, <2>6, <2>7, SettledGrows, StackSets DEF ChargeNow
  <2>9. stack.status \in {"PENDING", "ACTIVE", "ENDED"} /\ swaps = <<>>
    <3>1. stack.status # "none"
      BY <1>0, <1>1 DEF StackBegun
    <3>. QED  BY <1>0, <1>1, <3>1 DEF StackBegun, PlanOK, StackRows
  <2>10. \A k \in Jobs : ~Working(k)' /\ (job'[k].pc # "idle" => job'[k] = job[k])
    BY <2>3, <2>6 DEF JobDone, Working
  <2>11. StackBegun'
    BY <1>0, <1>1, <2>5, <2>9, <2>10 DEF StackBegun
  <2>12. StackSums'
    <3>. SUFFICES ASSUME SumsCalm'
                  PROVE  /\ totals'.stacked = stack'.amount /\ totals'.accrued = stack'.accrued
                         /\ usd'.stacked = totals'.stacked /\ usd'.interest = totals'.accrued
                         /\ stack'.amount = Installment * Cardinality(Settled')
                         /\ usd'.base = StackUsdt - each * Cardinality(Settled')
      BY <2>5, <2>10 DEF StackSums
    <3>1. SumsCalm /\ stack.status # "ENDED"
      BY <1>0, <1>1, <2>5, StackCalm DEF SumsCalm
    <3>2. /\ totals.stacked = (IF stack.status = "ACTIVE" THEN stack.amount ELSE 0)
          /\ totals.accrued = (IF stack.status = "ACTIVE" THEN stack.accrued ELSE 0)
          /\ usd.stacked = totals.stacked /\ usd.interest = totals.accrued
          /\ stack.status = "PENDING" => stack.accrued = 0
          /\ stack.status = "ACTIVE" => stack.amount = Installment * Cardinality(Settled)
          /\ usd.base = StackUsdt - each * Cardinality(Settled)
          /\ job[j].first <=> stack.status = "PENDING"
      BY <1>1, <3>1 DEF StackPart, StackStory, StackSums, Working, StackOver
    <3>3. stack.status = "PENDING" => Cardinality(Settled) = 0
      BY <1>0, FS_EmptySet DEF StackBegun
    <3>. DEFINE n == Cardinality(Settled)
    <3>4. n \in Nat /\ Cardinality(Settled') = n + 1 /\ Installment \in Nat /\ each \in Nat
      BY <2>8, StackKinds
    <3>5. Installment * (n + 1) = Installment * n + Installment /\ each * (n + 1) = each * n + each
          /\ Installment * n \in Nat /\ each * n \in Nat
      BY <3>4, TimesMore
    <3>6. StackUsdt \in Nat
      BY AutostackAssumption
    <3>. HIDE DEF n, each
    <3>7. usd'.base = StackUsdt - each * Cardinality(Settled')
      BY <2>4, <3>2, <3>4, <3>5, <3>6 DEF n
    <3>8. CASE stack.status = "PENDING"
      BY <2>4, <2>5, <3>2, <3>3, <3>4, <3>7, <3>8 DEF n
    <3>9. CASE stack.status = "ACTIVE"
      BY <2>4, <2>5, <3>2, <3>4, <3>5, <3>7, <3>9 DEF n
    <3>. QED  BY <2>9, <3>1, <3>8, <3>9
  <2>13. OneAtWork'
    <3>1. RoundsDone'
      BY <1>1, <2>2, <2>5, <2>6, <2>7, <2>9, ExecutionsFinite DEF RoundsDone, ChargeNow
    <3>. QED  BY <1>1, <2>9, <2>10, <3>1 DEF OneAtWork, JobsAlone, RowsAlone, JobsPosted
  <2>14. StackDates'
    <3>. SUFFICES ASSUME Untouched({"jobsOverlap"})'
                  PROVE  /\ round' + 0 <= dates'
                         /\ \A k \in Jobs : job'[k].pc \in {"idle", "check"}
                         /\ \A e \in Executions : ~LivePay(e)'
      BY <1>1, <2>5, <2>9 DEF StackDates
    <3>1. round + 1 <= dates
      BY <1>0, <1>1, <2>6, StackCalm DEF StackPart, StackStory, StackDates
    <3>2. \A k \in Jobs : job[k].pc \notin {"accrue", "force"}
      BY <2>5
    <3>3. \A k \in Jobs : job'[k].pc \in {"idle", "check"}
      BY <1>0, <2>10, <3>2 DEF Working, ActorsOK, JobRows
    <3>4. \A e \in Executions : ~LivePay(e)'
      BY <1>0, <1>1 DEF StackBegun, LivePay, NoPayment
    <3>. QED  BY <1>1, <2>5, <2>7, <3>1, <3>3, <3>4
  <2>15. StackHolds' /\ CardStory' /\ SoldOnce'
    BY <1>1, <2>9 DEF StackHolds, HoldsCalm, CardStory, SoldOnce, SwapsApart, SwapsKnown, BoughtOnce
  <2>. QED  BY <2>11, <2>12, <2>13, <2>14, <2>15 DEF StackStory
<1>4. CASE ~able
  <2>1. JobNow(j, "failed") /\ UNCHANGED <<usd, totals, stack, round, due, charge>>
    BY <1>0, <1>4, JobWritten DEF StackFromWallet, plan
  <2>. QED  BY <1>1, <2>1, JobFails DEF Working
<1>. QED  BY <1>3, <1>4

\* What a job that sells bitcoin knows of its execution.
LEMMA SellerKnows ==
    ASSUME StackPart, NEW j \in Jobs, Working(j), source = "BTC"
    PROVE  /\ StackTidy /\ RoundsDone /\ JobsAlone /\ RowsAlone /\ JobsPosted
           /\ job[j].round = round /\ round \in Executions /\ job[j] \in JobRows
           /\ StackOver \/ charge[round].init = "PROCESSING"
           /\ \A k \in Jobs : Working(k) => k = j
           /\ \A i \in DOMAIN swaps : ~LiveRow(i)
           /\ stack.status # "none"
           /\ StackBegun /\ Budgets /\ PlanOK /\ ChargeOK /\ TradesOK /\ ActorsOK
<1>1. StackBegun /\ Budgets /\ PlanOK /\ ChargeOK /\ TradesOK /\ ActorsOK
  BY DEF StackPart, StackTyped, StackStory
<1>2. StackTidy
  BY DEF StackTidy
<1>3. RoundsDone /\ JobsAlone /\ RowsAlone /\ JobsPosted
  BY <1>2 DEF StackPart, StackStory, OneAtWork
<1>4. job[j].round = round /\ (StackOver \/ charge[job[j].round].init = "PROCESSING")
      /\ (\A k \in Jobs : Working(k) => k = j) /\ \A i \in DOMAIN swaps : ~LiveRow(i)
  BY <1>3 DEF JobsAlone
<1>5. job[j] \in JobRows /\ job[j].round \in Executions
  BY <1>1, JobKinds
<1>6. stack.status # "none"
  BY <1>1 DEF StackBegun, Working
<1>. QED  BY <1>1, <1>2, <1>3, <1>4, <1>5, <1>6

\* An execution holds its bitcoin once: of the wallet and of the company.
LEMMA ReserveTells ==
    ASSUME StackPart, StackTyped', CountsDown, NEW j \in Jobs, StackReserve(j) PROVE StackStory'
<1>. DEFINE already == job[j].held
            able == already \/ (CanReserveBalance(src, SourceTotal) /\ CanReserveLiquidity(coSrc, SourceCost))
<1>1. source = "BTC" /\ job[j].pc = "taken" /\ Working(j)
      /\ UNCHANGED <<source, stack, round, due, dates, swaps, payment, usd, totals, request, budget>>
  BY DEF StackReserve, plan, trades, Working
<1>2. /\ StackTidy /\ RoundsDone /\ JobsAlone /\ RowsAlone /\ JobsPosted
      /\ job[j].round = round /\ round \in Executions /\ job[j] \in JobRows
      /\ \A k \in Jobs : Working(k) => k = j
      /\ \A i \in DOMAIN swaps : ~LiveRow(i)
      /\ stack.status # "none"
      /\ StackBegun /\ Budgets /\ PlanOK /\ ChargeOK /\ TradesOK /\ ActorsOK
  BY <1>1, SellerKnows
<1>3. CASE able
  <2>1. JobNow(j, "reserved")
    BY <1>2, <1>3, JobWritten DEF StackReserve
  <2>2. ChargeNow(round, "PROCESSING", "RESERVED", charge[round].status, charge[round].order)
    <3>. DEFINE c == [charge[round] EXCEPT !.init = "PROCESSING", !.held = "RESERVED"]
    <3>1. charge' = [charge EXCEPT ![round] = c] /\ charge[round] \in ChargeRows
      BY <1>2, <1>3, ChargeKinds DEF StackReserve
    <3>2. c.init = "PROCESSING" /\ c.held = "RESERVED" /\ c.status = charge[round].status
          /\ c.order = charge[round].order
      BY <3>1 DEF ChargeRows
    <3>. HIDE DEF c
    <3>. QED  BY <1>2, <3>1, <3>2, ChargeWritten
  <2>3. /\ src' = IF already THEN src ELSE ReserveBalance(src, SourceTotal)
        /\ coSrc' = IF already THEN coSrc ELSE ReserveLiquidity(coSrc, SourceCost)
    BY <1>3 DEF StackReserve
  <2>4. \A k \in Jobs : /\ Working(k)' <=> k = j
                        /\ k # j => job'[k] = job[k]
    BY <1>1, <1>2, <2>1 DEF JobNow, Working
  <2>5. Settled' = Settled
    BY <2>2, SettledSame DEF ChargeNow
  <2>6. StackBegun'
    BY <1>1, <1>2, <2>1, <2>5 DEF StackBegun, JobNow
  <2>7. StackSums'
    BY <1>1, <1>2, <2>2, SumsRest DEF StackPart, StackStory, ChargeNow
  <2>8. OneAtWork'
    <3>1. RoundsDone'
      BY <1>1, <1>2, <2>2 DEF RoundsDone, ChargeNow
    <3>2. JobsAlone'
      BY <1>1, <1>2, <2>1, <2>2, <2>4 DEF JobsAlone, ChargeNow, JobNow, LiveRow
    <3>3. RowsAlone' /\ JobsPosted'
      BY <1>1, <1>2, <2>1, <2>4 DEF RowsAlone, JobsPosted, LiveRow, JobNow, Working
    <3>. QED  BY <3>1, <3>2, <3>3 DEF OneAtWork
  <2>9. StackDates'
    BY <1>1, <1>2, <2>1, StackCalm DEF StackPart, StackStory, StackDates, LiveRow, LivePay, JobNow
  <2>10. StackHolds'
    <3>. SUFFICES ASSUME HoldsCalm'
                  PROVE  /\ src'.reserved = SourceTotal * Cardinality(Held')
                         /\ coSrc'.reserved = BtcReserved + SourceCost * Cardinality(Held')
                         /\ \A q \in Requests : request[q].pc # "cancel"
      BY <1>1, <1>2, <2>1, <2>2, <2>4 DEF StackHolds, ChargeNow, LiveRow, JobNow, Working
    <3>1. /\ already <=> charge[round].held = "RESERVED"
          /\ src.reserved = SourceTotal * Cardinality(Held)
          /\ coSrc.reserved = BtcReserved + SourceCost * Cardinality(Held)
          /\ \A q \in Requests : request[q].pc # "cancel"
      BY <1>1, <1>2, StackCalm DEF StackPart, StackStory, StackHolds
    <3>2. CASE already
      <4>1. Held' = Held
        BY <2>2, <3>1, <3>2, HeldSame DEF ChargeNow
      <4>. QED  BY <2>3, <3>1, <3>2, <4>1
    <3>3. CASE ~already
      <4>1. Cardinality(Held') = Cardinality(Held) + 1 /\ Cardinality(Held) \in Nat
        BY <1>2, <2>2, <3>1, <3>3, HeldGrows, StackSets DEF ChargeNow
      <4>2. src'.reserved = src.reserved + SourceTotal /\ coSrc'.reserved = coSrc.reserved + SourceCost
        <5>1. src \in Wallets /\ coSrc \in CompanyAccounts
          BY DEF StackPart, StackTyped, HoldsOK, GoodWallet, GoodCompany
        <5>. QED  BY <2>3, <3>3, <5>1 DEF ReserveBalance, ReserveLiquidity, Wallets, CompanyAccounts
      <4>. DEFINE n == Cardinality(Held)
      <4>3. /\ SourceTotal * (n + 1) = SourceTotal * n + SourceTotal /\ SourceTotal * n \in Nat
            /\ SourceCost * (n + 1) = SourceCost * n + SourceCost /\ SourceCost * n \in Nat
        BY <4>1, TimesMore, SourceTotalNatural, StackKinds
      <4>4. BtcReserved \in Nat /\ SourceCost \in Nat /\ SourceTotal \in Nat
        BY AutostackAssumption, SourceTotalNatural
      <4>. HIDE DEF n
      <4>. QED  BY <3>1, <4>1, <4>2, <4>3, <4>4 DEF n
    <3>. QED  BY <3>1, <3>2, <3>3
  <2>11. SoldOnce'
    <3>. SUFFICES ASSUME OnTime' PROVE SwapsApart' /\ SwapsKnown' /\ BoughtOnce'
      BY DEF SoldOnce
    <3>1. SwapsApart /\ SwapsKnown /\ BoughtOnce /\ Standing = {}
      BY <1>1, <1>2, StackCalm DEF StackPart, StackStory, SoldOnce, SwapsKnown
    <3>2. Standing' = {}
      BY <1>1, <3>1 DEF Standing, Stands
    <3>. QED  BY <1>1, <3>1, <3>2 DEF SwapsApart, SwapsKnown, BoughtOnce, Stands
  <2>12. CardStory'
    BY <1>1 DEF CardStory
  <2>. QED  BY <2>6, <2>7, <2>8, <2>9, <2>10, <2>11, <2>12 DEF StackStory
<1>4. CASE ~able
  <2>1. JobNow(j, "failed") /\ UNCHANGED <<src, coSrc, charge>>
    BY <1>2, <1>4, JobWritten DEF StackReserve
  <2>. QED  BY <1>1, <2>1, JobFails
<1>. QED  BY <1>3, <1>4

\* A swap is posted for an execution that has none that stands.
LEMMA PostTells ==
    ASSUME StackPart, StackTyped', CountsDown, NEW j \in Jobs, StackPost(j) PROVE StackStory'
<1>. DEFINE new(at) == [round |-> job[j].round, row |-> "none", at |-> at, event |-> "none"]
            newest == Len(swaps) + 1
<1>1. source = "BTC" /\ job[j].pc = "reserved" /\ Working(j)
      /\ UNCHANGED <<source, stack, round, due, dates, charge, payment, usd, src, coSrc, totals, request>>
  BY DEF StackPost, plan, wallets, books, Working
<1>2. /\ StackTidy /\ RoundsDone /\ JobsAlone /\ RowsAlone /\ JobsPosted
      /\ job[j].round = round /\ round \in Executions /\ job[j] \in JobRows
      /\ \A k \in Jobs : Working(k) => k = j
      /\ \A i \in DOMAIN swaps : ~LiveRow(i)
      /\ stack.status # "none"
      /\ StackBegun /\ Budgets /\ PlanOK /\ ChargeOK /\ TradesOK /\ ActorsOK
      /\ StackOver \/ charge[round].init = "PROCESSING"
  BY <1>1, SellerKnows
<1>3. ASSUME NEW at \in {"open", "refused"}, swaps' = Append(swaps, new(at))
      PROVE  StackStory'
  <2>1. /\ DOMAIN swaps' = DOMAIN swaps \cup {newest} /\ newest \notin DOMAIN swaps /\ newest \in Nat
        /\ \A k \in DOMAIN swaps : swaps'[k] = swaps[k]
        /\ swaps'[newest].round = round /\ swaps'[newest].row = "none"
        /\ swaps'[newest].event = "none"
    <3>1. new(at) \in StackSwaps
      BY <1>2, NewSwapKind
    <3>2. new(at).round = round /\ new(at).row = "none" /\ new(at).event = "none"
      BY <1>2
    <3>. HIDE DEF new
    <3>. QED  BY <1>2, <1>3, <3>1, <3>2, SwapAdded DEF TradesOK
  <2>2. /\ \A k \in Jobs \ {j} : job'[k] = job[k]
        /\ job'[j].round = round /\ job'[j].first = job[j].first
        /\ \/ job'[j].pc = "posted" /\ job'[j].swap = newest
           \/ job'[j].pc = "failed" /\ ~OnTime'
    <3>. DEFINE p == [job[j] EXCEPT !.pc = "posted", !.swap = newest]
    <3>1. job' = [job EXCEPT ![j] = p] \/ (SetJob(j, "failed") /\ Spend("lostAnswer"))
          \/ UNCHANGED swaps
      BY DEF StackPost
    <3>2. ~UNCHANGED swaps
      BY <2>1
    <3>3. CASE job' = [job EXCEPT ![j] = p]
      <4>1. p.pc = "posted" /\ p.swap = newest /\ p.round = round /\ p.first = job[j].first
        BY <1>2 DEF JobRows
      <4>. HIDE DEF p, newest
      <4>. QED  BY <1>2, <3>3, <4>1 DEF ActorsOK
    <3>4. CASE SetJob(j, "failed") /\ Spend("lostAnswer")
      <4>1. JobNow(j, "failed")
        BY <1>2, <3>4, JobWritten
      <4>2. ~OnTime'
        BY <1>2, <3>4, BudgetSpent, StackMishaps DEF OnTime
      <4>. QED  BY <1>2, <4>1, <4>2 DEF JobNow
    <3>. QED  BY <3>1, <3>2, <3>3, <3>4
  <2>. HIDE DEF new, newest
  <2>3. \A k \in Jobs : Working(k)' <=> k = j
    BY <1>1, <1>2, <2>2 DEF Working
  <2>4. \A i \in DOMAIN swaps' : ~LiveRow(i)'
    BY <1>2, <2>1 DEF LiveRow
  <2>6. StackBegun'
    BY <1>1, <1>2, <2>1, <2>2 DEF StackBegun, Untold, Settled
  <2>7. StackSums'
    BY <1>1, <1>2, SumsRest DEF StackPart, StackStory
  <2>8. OneAtWork'
    <3>1. RoundsDone'
      <4>1. \A k \in DOMAIN swaps' : swaps'[k].round <= round
        <5>1. \A k \in DOMAIN swaps : swaps'[k].round <= round
          BY <1>2, <2>1 DEF RoundsDone
        <5>2. swaps'[newest].round <= round
          BY <1>2, <2>1 DEF PlanOK
        <5>. QED  BY <2>1, <5>1, <5>2
      <4>. QED  BY <1>1, <1>2, <4>1 DEF RoundsDone
    <3>2. JobsAlone' /\ RowsAlone'
      BY <1>1, <1>2, <2>2, <2>3, <2>4 DEF JobsAlone, RowsAlone, StackOver
    <3>3. JobsPosted'
      BY <1>1, <2>1, <2>2, <2>3 DEF JobsPosted, Working
    <3>. QED  BY <3>1, <3>2, <3>3 DEF OneAtWork
  <2>9. StackDates'
    BY <1>1, <1>2, <2>2, <2>4, StackCalm DEF StackPart, StackStory, StackDates, LivePay
  <2>10. StackHolds'
    <3>1. Held' = Held
      BY <1>1 DEF Held
    <3>. QED  BY <1>1, <1>2, <2>2, <2>3, <2>4, <3>1, StackCalm DEF StackPart, StackStory, StackHolds, Working
  <2>11. SoldOnce'
    <3>. SUFFICES ASSUME OnTime' PROVE SwapsApart' /\ SwapsKnown' /\ BoughtOnce'
      BY DEF SoldOnce
    <3>1. SwapsApart /\ Standing = {}
      BY <1>1, <1>2, StackCalm DEF StackPart, StackStory, SoldOnce, SwapsKnown
    <3>2. \A k \in DOMAIN swaps : swaps[k].round = round => ~Stands(k)
      BY <3>1 DEF Standing
    <3>3. \A k \in DOMAIN swaps : Stands(k)' <=> Stands(k)
      BY <2>1 DEF Stands
    <3>4. SwapsApart'
      BY <2>1, <3>1, <3>2, <3>3 DEF SwapsApart
    <3>5. Standing' \subseteq {newest}
      BY <1>1, <2>1, <3>2, <3>3 DEF Standing
    <3>6. SwapsKnown'
      BY <2>2, <2>3, <2>4, <3>5 DEF SwapsKnown, Working
    <3>7. BoughtOnce'
      BY <1>1 DEF BoughtOnce
    <3>. QED  BY <3>4, <3>6, <3>7
  <2>12. CardStory'
    BY <1>1 DEF CardStory
  <2>. QED  BY <2>6, <2>7, <2>8, <2>9, <2>10, <2>11, <2>12 DEF StackStory
<1>4. CASE SetJob(j, "failed") /\ UNCHANGED swaps
  <2>1. JobNow(j, "failed")
    BY <1>2, <1>4, JobWritten
  <2>. QED  BY <1>1, <1>4, <2>1, JobFails
<1>5. \/ \E at \in {"open", "refused"} : swaps' = Append(swaps, new(at))
      \/ SetJob(j, "failed") /\ UNCHANGED swaps
  BY DEF StackPost
<1>. QED  BY <1>3, <1>4, <1>5

\* The row of a swap is written while nobody else works on its execution.
LEMMA RecordTells ==
    ASSUME StackPart, StackTyped', CountsDown, NEW j \in Jobs, StackRecord(j) PROVE StackStory'
<1>. DEFINE i == job[j].swap
<1>1. source = "BTC" /\ job[j].pc = "posted" /\ Working(j)
      /\ UNCHANGED <<source, stack, round, due, dates, payment, usd, src, coSrc, totals, request>>
  BY DEF StackRecord, plan, wallets, books, Working
<1>2. /\ StackTidy /\ RoundsDone /\ JobsAlone /\ RowsAlone /\ JobsPosted
      /\ job[j].round = round /\ round \in Executions /\ job[j] \in JobRows
      /\ \A k \in Jobs : Working(k) => k = j
      /\ \A k \in DOMAIN swaps : ~LiveRow(k)
      /\ stack.status # "none"
      /\ StackBegun /\ Budgets /\ PlanOK /\ ChargeOK /\ TradesOK /\ ActorsOK
  BY <1>1, SellerKnows
<1>3. i \in DOMAIN swaps /\ swaps[i].row = "none" /\ swaps[i].round = round
  BY <1>1, <1>2 DEF JobsPosted
<1>4. CASE /\ swaps' = [swaps EXCEPT ![i].row = "PENDING"]
           /\ SetCharge(job[j].round, "init", "SUBMITTED") /\ Rest(j) /\ UNCHANGED budget
  <2>1. /\ DOMAIN swaps' = DOMAIN swaps
        /\ \A k \in DOMAIN swaps :
              /\ swaps'[k].row = IF k = i THEN "PENDING" ELSE swaps[k].row
              /\ swaps'[k].round = swaps[k].round /\ swaps'[k].at = swaps[k].at
              /\ swaps'[k].event = swaps[k].event
    <3>. HIDE DEF i
    <3>. QED  BY <1>1, <1>2, <1>4, SwapRowWritten
  <2>2. ChargeNow(round, "SUBMITTED", charge[round].held, charge[round].status, charge[round].order)
    <3>. DEFINE c == [charge[round] EXCEPT !.init = "SUBMITTED"]
    <3>1. charge' = [charge EXCEPT ![round] = c] /\ charge[round] \in ChargeRows
      BY <1>2, <1>4, ChargeKinds DEF SetCharge
    <3>2. c.init = "SUBMITTED" /\ c.held = charge[round].held /\ c.status = charge[round].status
          /\ c.order = charge[round].order
      BY <3>1 DEF ChargeRows
    <3>. HIDE DEF c
    <3>. QED  BY <1>2, <3>1, <3>2, ChargeWritten
  <2>3. JobDone(j)
    BY <1>2, <1>4, JobRested
  <2>4. \A k \in Jobs : ~Working(k)' /\ (job'[k].pc # "idle" => job'[k] = job[k])
    BY <1>2, <2>3 DEF JobDone, Working
  <2>. HIDE DEF i
  <2>5. \A k \in DOMAIN swaps : LiveRow(k)' => k = i
    BY <1>2, <2>1 DEF LiveRow
  <2>6. StackBegun'
    <3>1. Settled' = Settled
      BY <2>2, SettledSame DEF ChargeNow
    <3>. QED  BY <1>1, <1>2, <1>3, <2>1, <2>4, <3>1 DEF StackBegun
  <2>7. StackSums'
    BY <1>1, <1>2, <2>2, SumsRest DEF StackPart, StackStory, ChargeNow
  <2>8. OneAtWork'
    <3>1. RoundsDone'
      BY <1>1, <1>2, <2>1, <2>2 DEF RoundsDone, ChargeNow
    <3>2. RowsAlone'
      BY <1>1, <1>3, <2>1, <2>2, <2>5 DEF RowsAlone, ChargeNow
    <3>3. JobsAlone' /\ JobsPosted'
      BY <2>4 DEF JobsAlone, JobsPosted, Working
    <3>. QED  BY <3>1, <3>2, <3>3 DEF OneAtWork
  <2>9. StackDates'
    BY <1>1, <1>2, <2>1, <2>4, StackCalm DEF StackPart, StackStory, StackDates, LivePay
  <2>10. StackHolds'
    <3>1. Held' = Held
      BY <2>2, HeldSame DEF ChargeNow
    <3>. QED  BY <1>1, <1>2, <1>3, <2>1, <2>2, <2>4, <2>5, <3>1, StackCalm DEF StackPart,
      StackStory, StackHolds, ChargeNow, Working
  <2>11. SoldOnce'
    <3>. SUFFICES ASSUME OnTime' PROVE SwapsApart' /\ SwapsKnown' /\ BoughtOnce'
      BY DEF SoldOnce
    <3>1. SwapsApart /\ Standing \subseteq {i}
      BY <1>1, <1>2, <1>4, StackCalm DEF StackPart, StackStory, SoldOnce, SwapsKnown, i
    <3>2. \A k \in DOMAIN swaps : Stands(k)' <=> Stands(k)
      BY <2>1 DEF Stands
    <3>3. Standing' = Standing
      BY <1>1, <2>1, <3>2 DEF Standing
    <3>4. SwapsApart'
      BY <2>1, <3>1, <3>2 DEF SwapsApart
    <3>5. SwapsKnown'
      BY <1>1, <2>1, <2>2, <2>4, <2>5, <3>1, <3>3 DEF SwapsKnown, Working, ChargeNow
    <3>6. BoughtOnce'
      BY <1>1 DEF BoughtOnce
    <3>. QED  BY <3>4, <3>5, <3>6
  <2>12. CardStory'
    BY <1>1 DEF CardStory
  <2>. QED  BY <2>6, <2>7, <2>8, <2>9, <2>10, <2>11, <2>12 DEF StackStory
<1>5. CASE SetJob(j, "failed") /\ Spend("error") /\ UNCHANGED <<swaps, charge>>
  <2>1. JobNow(j, "failed")
    BY <1>2, <1>5, JobWritten
  <2>2. ~OnTime' /\ ~CardCalm'
    BY <1>2, <1>5, BudgetSpent, StackMishaps DEF OnTime, CardCalm
  <2>. QED  BY <1>1, <1>5, <2>1, <2>2, JobFails
<1>6. \/ /\ swaps' = [swaps EXCEPT ![i].row = "PENDING"]
         /\ SetCharge(job[j].round, "init", "SUBMITTED") /\ Rest(j) /\ UNCHANGED budget
      \/ SetJob(j, "failed") /\ Spend("error") /\ UNCHANGED <<swaps, charge>>
  BY DEF StackRecord
<1>. QED  BY <1>4, <1>5, <1>6

LEMMA StackSetsNext == Cardinality(Settled') \in Nat /\ Cardinality(Held') \in Nat
<1>1. Settled' \subseteq Executions /\ Held' \subseteq Executions
  BY DEF Settled, Held
<1>. QED  BY <1>1, ExecutionsFinite, FS_Subset, FS_CardinalityType

\* A refused swap gives back what its execution held.
LEMMA UndoTells ==
    ASSUME StackPart, StackTyped', CountsDown, NEW j \in Jobs, StackUndo(j) PROVE StackStory'
<1>. DEFINE r == job[j].round
            held == charge[r].held = "RESERVED"
            h == IF held THEN "RELEASED" ELSE charge[r].held
<1>0. Budgets /\ PlanOK /\ ChargeOK /\ ChargeOK' /\ TradesOK /\ HoldsOK /\ ActorsOK /\ StackBegun
  BY DEF StackPart, StackTyped, StackStory
<1>1. job[j].pc = "failed" /\ Working(j)
      /\ UNCHANGED <<source, stack, round, due, dates, swaps, payment, usd, totals, request, budget>>
  BY DEF StackUndo, plan, trades, Working
<1>2. r \in Executions /\ charge[r] \in ChargeRows
  BY <1>0, JobKinds, ChargeKinds
<1>3. ChargeNow(r, "FAILED", h, charge[r].status, charge[r].order)
  <2>. DEFINE c == [charge[r] EXCEPT !.init = "FAILED", !.held = h]
  <2>1. charge' = [charge EXCEPT ![r] = c]
    BY DEF StackUndo
  <2>. HIDE DEF h
  <2>2. c.init = "FAILED" /\ c.held = h /\ c.status = charge[r].status /\ c.order = charge[r].order
    BY <1>2 DEF ChargeRows
  <2>. HIDE DEF c
  <2>. QED  BY <1>0, <1>2, <2>1, <2>2, ChargeWritten
<1>4. JobDone(j)
  BY <1>0, JobRested DEF StackUndo
<1>5. /\ coSrc' = IF held /\ CanReleaseLiquidity(coSrc, Cost) THEN ReleaseLiquidity(coSrc, Cost) ELSE coSrc
      /\ src' = IF source = "BTC" /\ held /\ CanReleaseBalance(src, SourceTotal)
                THEN ReleaseBalance(src, SourceTotal) ELSE src
  BY DEF StackUndo
<1>6. /\ held => Cardinality(Held) = Cardinality(Held') + 1
      /\ ~held => Held' = Held
      /\ Cardinality(Held) \in Nat /\ Cardinality(Held') \in Nat
  <2>1. held => Cardinality(Held) = Cardinality(Held') + 1
    BY <1>0, <1>2, <1>3, HeldShrinks DEF ChargeNow
  <2>2. ~held => Held' = Held
    BY <1>2, <1>3, HeldSame DEF ChargeNow
  <2>. QED  BY <1>0, <2>1, <2>2, StackSets, StackSetsNext
<1>7. StackTidy => /\ r = round /\ RoundsDone /\ RowsAlone
                   /\ \A k \in Jobs : Working(k) => k = j
                   /\ \A i \in DOMAIN swaps : ~LiveRow(i)
  BY <1>1 DEF StackPart, StackStory, OneAtWork, JobsAlone
<1>8. /\ StackTidy => \A k \in Jobs : ~Working(k)'
      /\ \A k \in Jobs : job'[k].pc # "idle" => job'[k] = job[k]
      /\ StackTidy' => StackTidy
  BY <1>0, <1>1, <1>4, <1>7, StackCalm DEF JobDone, Working
<1>9. \A i \in DOMAIN swaps : LiveRow(i)' <=> LiveRow(i)
  BY <1>1 DEF LiveRow
<1>. HIDE DEF r, h
<1>10. StackBegun'
  <2>1. Settled' = Settled
    BY <1>3, SettledSame DEF ChargeNow
  <2>. QED  BY <1>0, <1>1, <1>8, <2>1 DEF StackBegun, Working
<1>11. StackSums'
  <2>1. \A k \in Jobs : Working(k)' => Working(k) /\ job'[k].first = job[k].first
    BY <1>8 DEF Working
  <2>. QED  BY <1>0, <1>1, <1>3, <2>1, SumsRest DEF StackPart, StackStory, ChargeNow
<1>12. OneAtWork'
  <2>. SUFFICES ASSUME StackTidy' PROVE RoundsDone' /\ JobsAlone' /\ RowsAlone' /\ JobsPosted'
    BY DEF OneAtWork
  <2>1. RoundsDone'
    BY <1>1, <1>3, <1>7, <1>8 DEF RoundsDone, ChargeNow
  <2>. QED  BY <1>1, <1>7, <1>8, <1>9, <2>1 DEF JobsAlone, RowsAlone, JobsPosted, Working
<1>13. StackDates'
  BY <1>0, <1>1, <1>8, <1>9, StackCalm DEF StackPart, StackStory, StackDates, LivePay
<1>14. StackHolds'
  <2>. SUFFICES ASSUME HoldsCalm'
                PROVE  /\ src'.reserved = SourceTotal * Cardinality(Held')
                       /\ coSrc'.reserved = BtcReserved + SourceCost * Cardinality(Held')
                       /\ \A q \in Requests : request[q].pc # "cancel"
    BY <1>1, <1>7, <1>8, <1>9 DEF StackHolds, HoldsCalm, StackTidy, Working
  <2>1. /\ source = "BTC" /\ src.reserved = SourceTotal * Cardinality(Held)
        /\ coSrc.reserved = BtcReserved + SourceCost * Cardinality(Held)
        /\ \A q \in Requests : request[q].pc # "cancel"
    BY <1>0, <1>1, StackCalm DEF StackPart, StackStory, StackHolds, HoldsCalm
  <2>2. CASE ~held
    BY <1>5, <1>6, <2>1, <2>2
  <2>3. CASE held
    <3>. DEFINE n == Cardinality(Held')
    <3>1. n \in Nat /\ Cardinality(Held) = n + 1 /\ Cost = SourceCost
      BY <1>6, <2>1, <2>3 DEF Cost
    <3>2. /\ SourceTotal * (n + 1) = SourceTotal * n + SourceTotal /\ SourceTotal * n \in Nat
          /\ SourceCost * (n + 1) = SourceCost * n + SourceCost /\ SourceCost * n \in Nat
      BY <3>1, TimesMore, SourceTotalNatural, StackKinds
    <3>3. BtcReserved \in Nat /\ SourceCost \in Nat /\ SourceTotal \in Nat
      BY AutostackAssumption, SourceTotalNatural
    <3>. HIDE DEF n
    <3>4. CanReleaseBalance(src, SourceTotal) /\ CanReleaseLiquidity(coSrc, Cost)
      BY <2>1, <3>1, <3>2, <3>3 DEF CanReleaseBalance, CanReleaseLiquidity
    <3>5. src'.reserved = src.reserved - SourceTotal /\ coSrc'.reserved = coSrc.reserved - SourceCost
      <4>1. src \in Wallets /\ coSrc \in CompanyAccounts
        BY <1>0 DEF HoldsOK, GoodWallet, GoodCompany
      <4>. HIDE DEF held
      <4>. QED  BY <1>5, <2>1, <2>3, <3>1, <3>4, <4>1 DEF ReleaseBalance, ReleaseLiquidity, Wallets, CompanyAccounts
    <3>. QED  BY <2>1, <3>1, <3>2, <3>3, <3>5 DEF n
  <2>. QED  BY <2>1, <2>2, <2>3
<1>15. SoldOnce'
  <2>. SUFFICES ASSUME OnTime' PROVE SwapsApart' /\ SwapsKnown' /\ BoughtOnce'
    BY DEF SoldOnce
  <2>1. SwapsApart /\ SwapsKnown /\ BoughtOnce
    BY <1>0, <1>1, StackCalm DEF StackPart, StackStory, SoldOnce
  <2>2. source = "BTC" => Standing = {} /\ StackTidy
    BY <1>1, <2>1 DEF SwapsKnown, StackTidy
  <2>3. Standing' = Standing
    BY <1>1 DEF Standing, Stands
  <2>4. SwapsKnown'
    BY <1>1, <2>2, <2>3 DEF SwapsKnown
  <2>. QED  BY <1>1, <2>1, <2>4 DEF SwapsApart, BoughtOnce, Stands
<1>16. CardStory'
  <2>. SUFFICES ASSUME source = "CARD", CardCalm'
                PROVE  /\ CardPayments' /\ CardLive' /\ CardSwaps' /\ CardRound' /\ CardJobs'
                       /\ CardRequests' /\ CardFunds'
    BY <1>1 DEF CardStory
  <2>1. CardCalm /\ StackTidy
    BY <1>0, <1>1, StackCalm DEF StackTidy
  <2>2. CardPayments /\ CardLive /\ CardSwaps /\ CardRound /\ CardJobs /\ CardRequests /\ CardFunds
    BY <2>1 DEF StackPart, StackStory, CardStory
  <2>3. payment[round].at = "none" /\ payment[round].event = "none" /\ r = round /\ round \in Executions
    BY <1>1, <1>2, <1>7, <2>1, <2>2 DEF CardJobs, CardPayments
  <2>4. CardPayments'
    BY <1>0, <1>1, <1>3, <2>2, <2>3 DEF CardPayments, ChargeNow, Untold, PlanOK
  <2>5. CardLive'
    <3>1. \A e \in Executions : ~LivePay(e)
      BY <2>2, <2>3 DEF CardLive, LivePay
    <3>. QED  BY <1>1, <3>1 DEF CardLive, LivePay
  <2>6. CardSwaps'
    BY <1>1, <1>7, <1>9, <2>1, <2>2 DEF CardSwaps
  <2>7. CardRound'
    BY <1>1, <1>3, <2>2, <2>3 DEF CardRound, ChargeNow, h
  <2>8. CardJobs' /\ CardRequests'
    BY <1>1, <1>8, <2>1, <2>2 DEF CardJobs, CardRequests
  <2>9. CardFunds'
    <3>1. Settled' = Settled
      BY <1>3, SettledSame DEF ChargeNow
    <3>2. coSrc \in CompanyAccounts /\ CardCost \in Nat /\ NairaReserved \in Nat /\ Cost = CardCost
      BY <1>0, AutostackAssumption DEF HoldsOK, GoodCompany, Cost
    <3>3. CASE ~held
      BY <1>5, <1>6, <2>2, <3>1, <3>3 DEF CardFunds
    <3>4. CASE held
      <4>. DEFINE n == Cardinality(Held')
      <4>1. n \in Nat /\ Cardinality(Held) = n + 1
        BY <1>6, <3>4
      <4>2. CardCost * (n + 1) = CardCost * n + CardCost /\ CardCost * n \in Nat
        BY <3>2, <4>1, TimesMore
      <4>. HIDE DEF n
      <4>3. coSrc.reserved = NairaReserved + CardCost * Cardinality(Held)
        BY <2>2 DEF CardFunds
      <4>4. CanReleaseLiquidity(coSrc, Cost)
        BY <3>2, <4>1, <4>2, <4>3 DEF CanReleaseLiquidity
      <4>5. coSrc'.reserved = coSrc.reserved - CardCost /\ coSrc'.total = coSrc.total
        <5>. HIDE DEF held
        <5>. QED  BY <1>5, <3>2, <3>4, <4>4 DEF ReleaseLiquidity, CompanyAccounts
      <4>6. coSrc'.reserved = NairaReserved + CardCost * Cardinality(Held')
        BY <3>2, <4>1, <4>2, <4>3, <4>5 DEF n
      <4>. QED  BY <2>2, <3>1, <4>5, <4>6 DEF CardFunds
    <3>. QED  BY <3>3, <3>4
  <2>. QED  BY <2>2, <2>4, <2>5, <2>6, <2>7, <2>8, <2>9
<1>. QED  BY <1>10, <1>11, <1>12, <1>13, <1>14, <1>15, <1>16 DEF StackStory

\* Quidax ends a swap on its own; a failed one does not stand any more.
LEMMA SwapEndsTells ==
    ASSUME StackPart, StackTyped', CountsDown, NEW i \in DOMAIN swaps, StackSwapEnds(i) PROVE StackStory'
<1>0. Budgets /\ PlanOK /\ ChargeOK /\ TradesOK /\ ActorsOK /\ StackBegun
  BY DEF StackPart, StackTyped, StackStory
<1>1. UNCHANGED <<source, stack, round, due, dates, charge, payment, usd, src, coSrc, totals, job, request>>
      /\ swaps[i].at = "open" /\ swaps[i].event = "none"
  BY <1>0 DEF StackSwapEnds, plan, wallets, books, StackBegun
<1>2. /\ DOMAIN swaps' = DOMAIN swaps
      /\ \A k \in DOMAIN swaps : /\ swaps'[k].round = swaps[k].round /\ swaps'[k].row = swaps[k].row
                                 /\ k # i => swaps'[k] = swaps[k]
      /\ swaps'[i].at \in {"completed", "failed"} /\ swaps'[i].event = "waiting"
  <2>1. PICK end \in {"completed", "failed"} :
           swaps' = [swaps EXCEPT ![i] = [swaps[i] EXCEPT !.at = end, !.event = "waiting"]]
    BY DEF StackSwapEnds
  <2>. DEFINE new == [swaps[i] EXCEPT !.at = end, !.event = "waiting"]
  <2>2. swaps[i] \in StackSwaps
    BY <1>0 DEF TradesOK
  <2>3. new \in StackSwaps /\ new.at = end /\ new.event = "waiting" /\ new.round = swaps[i].round
        /\ new.row = swaps[i].row
    BY <2>2 DEF StackSwaps
  <2>4. swaps' = [swaps EXCEPT ![i] = new]
    BY <2>1
  <2>. HIDE DEF new
  <2>. QED  BY <1>0, <2>3, <2>4, SwapWritten DEF TradesOK
<1>3. \A k \in DOMAIN swaps : /\ LiveRow(k)' <=> LiveRow(k)
                              /\ Stands(k)' => Stands(k)
                              /\ swaps'[k].at = "open" => swaps[k].at = "open" /\ k # i
                              /\ swaps'[k].event = "done" <=> swaps[k].event = "done"
  BY <1>1, <1>2 DEF LiveRow, Stands
<1>4. Settled' = Settled /\ Held' = Held
  BY <1>1 DEF Settled, Held
<1>5. stack.status # "none" /\ swaps # <<>>
  BY <1>0 DEF StackBegun
<1>10. StackBegun'
  BY <1>0, <1>1, <1>2, <1>3, <1>4, <1>5 DEF StackBegun
<1>11. StackSums'
  BY <1>0, <1>1, SumsRest DEF StackPart, StackStory, Working
<1>12. OneAtWork'
  <2>. SUFFICES ASSUME StackTidy' PROVE RoundsDone' /\ JobsAlone' /\ RowsAlone' /\ JobsPosted'
    BY DEF OneAtWork
  <2>1. RoundsDone /\ JobsAlone /\ RowsAlone /\ JobsPosted
    BY <1>0, <1>1, StackCalm DEF StackPart, StackStory, OneAtWork
  <2>. QED  BY <1>1, <1>2, <1>3, <2>1 DEF RoundsDone, JobsAlone, RowsAlone, JobsPosted, Working, StackOver
<1>13. StackDates'
  BY <1>0, <1>1, <1>2, <1>3, StackCalm DEF StackPart, StackStory, StackDates, LivePay
<1>14. StackHolds'
  BY <1>0, <1>1, <1>2, <1>3, <1>4, StackCalm DEF StackPart, StackStory, StackHolds
<1>15. SoldOnce'
  <2>. SUFFICES ASSUME OnTime' PROVE SwapsApart' /\ SwapsKnown' /\ BoughtOnce'
    BY DEF SoldOnce
  <2>1. SwapsApart /\ SwapsKnown /\ BoughtOnce
    BY <1>0, <1>1, StackCalm DEF StackPart, StackStory, SoldOnce
  <2>2. Standing' \subseteq Standing
    BY <1>1, <1>2, <1>3 DEF Standing
  <2>3. SwapsApart'
    BY <1>2, <1>3, <2>1 DEF SwapsApart
  <2>4. SwapsKnown'
    BY <1>1, <1>2, <1>3, <2>1, <2>2 DEF SwapsKnown, StackOver
  <2>5. BoughtOnce'
    BY <1>1, <1>2, <2>1 DEF BoughtOnce
  <2>. QED  BY <2>3, <2>4, <2>5
<1>16. CardStory'
  <2>. SUFFICES ASSUME source = "CARD", CardCalm'
                PROVE  /\ CardPayments' /\ CardLive' /\ CardSwaps' /\ CardRound' /\ CardJobs'
                       /\ CardRequests' /\ CardFunds'
    BY <1>1 DEF CardStory
  <2>1. CardPayments /\ CardLive /\ CardSwaps /\ CardRound /\ CardJobs /\ CardRequests /\ CardFunds
    BY <1>0, <1>1, StackCalm DEF StackPart, StackStory, CardStory
  <2>2. CardPayments' /\ CardRequests' /\ CardFunds'
    BY <1>1, <1>2, <1>4, <2>1 DEF CardPayments, CardRequests, CardFunds, Untold
  <2>3. CardLive'
    BY <1>1, <1>2, <1>3, <2>1 DEF CardLive, LivePay, Working
  <2>4. CardSwaps'
    BY <1>1, <1>2, <1>3, <2>1 DEF CardSwaps
  <2>5. CardRound' /\ CardJobs'
    BY <1>1, <2>1 DEF CardRound, CardJobs, Working
  <2>. QED  BY <2>2, <2>3, <2>4, <2>5
<1>. QED  BY <1>10, <1>11, <1>12, <1>13, <1>14, <1>15, <1>16 DEF StackStory

\* A settlement, of a swap or of an order: the amounts, the plan and the next round.
Settling(i) ==
    /\ usd' = [usd EXCEPT !.stacked = usd.stacked + Installment]
    /\ totals' = [totals EXCEPT !.stacked = totals.stacked + Installment,
                                !.internal = totals.internal + Installment]
    /\ Grow(Installment, stack.status = "PENDING")
    /\ swaps' = [swaps EXCEPT ![i] = [swaps[i] EXCEPT !.event = "done", !.row = "COMPLETED"]]
    /\ UNCHANGED <<source, dates, payment, job, request>>

\* A webhook that settles or fails a live row does so for the current execution.
LEMMA SettlingTells ==
    ASSUME StackPart, StackTyped', CountsDown, NEW i \in DOMAIN swaps, Settling(i),
           swaps[i].row = "PENDING", swaps[i].event = "waiting",
           NEW init, NEW held, charge[swaps[i].round].status = "PENDING",
           ChargeNow(swaps[i].round, init, held, "COMPLETED", charge[swaps[i].round].order)
    PROVE  /\ StackBegun' /\ StackSums' /\ OneAtWork' /\ StackDates' /\ SoldOnce'
           /\ DOMAIN swaps' = DOMAIN swaps
           /\ \A k \in DOMAIN swaps :
                 /\ swaps'[k].row = IF k = i THEN "COMPLETED" ELSE swaps[k].row
                 /\ swaps'[k].round = swaps[k].round /\ swaps'[k].at = swaps[k].at
                 /\ swaps'[k].event = IF k = i THEN "done" ELSE swaps[k].event
           /\ round' = round + 1 /\ Cardinality(Settled') = Cardinality(Settled) + 1
           /\ StackTidy => /\ swaps[i].round = round /\ RoundsDone
                           /\ \A k \in DOMAIN swaps : LiveRow(k) => k = i
                           /\ \A j \in Jobs : ~Working(j)
<1>. DEFINE r == swaps[i].round
<1>0. Budgets /\ PlanOK /\ ChargeOK /\ TradesOK /\ ActorsOK /\ FundsOK /\ StackBegun
  BY DEF StackPart, StackTyped, StackStory
<1>1. UNCHANGED <<source, dates, payment, job, request>> /\ LiveRow(i)
  BY DEF Settling, LiveRow
<1>2. r \in Executions
  BY SwapKinds DEF StackPart
<1>3. /\ DOMAIN swaps' = DOMAIN swaps /\ Len(swaps') = Len(swaps)
      /\ \A k \in DOMAIN swaps :
            /\ swaps'[k].row = IF k = i THEN "COMPLETED" ELSE swaps[k].row
            /\ swaps'[k].round = swaps[k].round /\ swaps'[k].at = swaps[k].at
            /\ swaps'[k].event = IF k = i THEN "done" ELSE swaps[k].event
  BY <1>0, SwapEnded DEF Settling
<1>4. /\ usd'.base = usd.base /\ usd'.stacked = usd.stacked + Installment
      /\ usd'.interest = usd.interest
      /\ totals'.stacked = totals.stacked + Installment /\ totals'.accrued = totals.accrued
  BY <1>0 DEF Settling, FundsOK, UsdRows, StackTotals
<1>5. /\ stack'.status = "ACTIVE" /\ stack'.accrued = stack.accrued
      /\ stack'.amount = (IF stack.status = "PENDING" THEN Installment ELSE stack.amount + Installment)
      /\ round' = round + 1 /\ due' = FALSE
      /\ stack.status = "ENDED" => \A F : "reopened" \in F => ~Untouched(F)'
      /\ (\E k \in Jobs : job[k].pc \in {"accrue", "force"})
           => \A F : "jobsOverlap" \in F => ~Untouched(F)'
  <2>1. (stack.status = "PENDING") \in BOOLEAN /\ Grow(Installment, stack.status = "PENDING")
    BY DEF Settling
  <2>. QED  BY <1>0, <1>1, <2>1, GrowTyped
<1>6. stack.status \in {"PENDING", "ACTIVE", "ENDED"} /\ source # "USDT"
  <2>1. stack.status # "none" /\ source # "USDT"
    BY <1>0 DEF StackBegun
  <2>. QED  BY <1>0, <2>1 DEF PlanOK, StackRows
<1>7. StackTidy => /\ r = round /\ RoundsDone
                   /\ \A k \in DOMAIN swaps : LiveRow(k) => k = i
                   /\ \A j \in Jobs : ~Working(j)
  BY <1>1 DEF StackPart, StackStory, OneAtWork, JobsAlone, RowsAlone
<1>8. Cardinality(Settled') = Cardinality(Settled) + 1 /\ Cardinality(Settled) \in Nat
  BY <1>0, <1>2, SettledGrows, StackSets DEF ChargeNow
<1>9. StackTidy' => StackTidy
  BY <1>0, <1>1, StackCalm
<1>10. \A k \in DOMAIN swaps : LiveRow(k)' => LiveRow(k) /\ k # i
  BY <1>3 DEF LiveRow
<1>11. StackBegun'
  BY <1>0, <1>1, <1>3, <1>5, <1>6 DEF StackBegun
<1>12. StackSums'
  <2>. SUFFICES ASSUME SumsCalm'
                PROVE  /\ totals'.stacked = stack'.amount /\ totals'.accrued = stack'.accrued
                       /\ usd'.stacked = totals'.stacked /\ usd'.interest = totals'.accrued
                       /\ stack'.amount = Installment * Cardinality(Settled')
    BY <1>1, <1>5, <1>6 DEF StackSums
  <2>1. SumsCalm /\ stack.status # "ENDED"
    BY <1>0, <1>1, <1>5, StackCalm DEF SumsCalm
  <2>2. /\ totals.stacked = (IF stack.status = "ACTIVE" THEN stack.amount ELSE 0)
        /\ totals.accrued = (IF stack.status = "ACTIVE" THEN stack.accrued ELSE 0)
        /\ usd.stacked = totals.stacked /\ usd.interest = totals.accrued
        /\ stack.status = "PENDING" => stack.accrued = 0
        /\ stack.status = "ACTIVE" => stack.amount = Installment * Cardinality(Settled)
    BY <2>1 DEF StackPart, StackStory, StackSums
  <2>3. stack.status = "PENDING" => Cardinality(Settled) = 0
    BY <1>0, FS_EmptySet DEF StackBegun
  <2>. DEFINE n == Cardinality(Settled)
  <2>4. n \in Nat /\ Cardinality(Settled') = n + 1 /\ Installment \in Nat
    BY <1>8, StackKinds
  <2>5. Installment * (n + 1) = Installment * n + Installment /\ Installment * n \in Nat
    BY <2>4, TimesMore
  <2>. HIDE DEF n
  <2>6. CASE stack.status = "PENDING"
    BY <1>4, <1>5, <2>2, <2>3, <2>4, <2>6 DEF n
  <2>7. CASE stack.status = "ACTIVE"
    BY <1>4, <1>5, <2>2, <2>4, <2>5, <2>7 DEF n
  <2>. QED  BY <1>6, <2>1, <2>6, <2>7
<1>13. StackTidy => RoundsDone'
  <2>. SUFFICES ASSUME StackTidy PROVE RoundsDone'
    OBVIOUS
  <2>1. round \in Nat /\ \A k \in DOMAIN swaps : swaps[k].round \in Nat
    BY <1>0, SwapKinds, ExecutionsFinite DEF PlanOK, StackPart
  <2>2. \A e \in Executions : e < round + 1 <=> charge'[e].status = "COMPLETED"
    BY <1>7, <2>1, ExecutionsFinite DEF RoundsDone, ChargeNow
  <2>3. \A k \in DOMAIN swaps : swaps[k].round <= round + 1
    BY <1>7, <2>1 DEF RoundsDone
  <2>. QED  BY <1>3, <1>5, <2>2, <2>3 DEF RoundsDone
<1>14. OneAtWork'
  BY <1>1, <1>3, <1>7, <1>9, <1>10, <1>13 DEF OneAtWork, JobsAlone, RowsAlone, JobsPosted, Working
<1>15. StackDates'
  <2>. SUFFICES ASSUME StackTidy', Untouched({"jobsOverlap"})'
                PROVE  /\ round' + 0 <= dates'
                       /\ \A k \in Jobs : job[k].pc \in {"idle", "check"}
                       /\ \A k \in DOMAIN swaps : ~LiveRow(k)'
                       /\ \A e \in Executions : ~LivePay(e)'
    BY <1>1, <1>3, <1>5 DEF StackDates
  <2>1. round + 1 <= dates
    BY <1>0, <1>1, <1>9, StackCalm DEF StackPart, StackStory, StackDates
  <2>2. \A k \in Jobs : job[k].pc \notin {"accrue", "force"}
    BY <1>5
  <2>3. \A k \in Jobs : job[k].pc \in {"idle", "check"}
    <3>1. \A k \in Jobs : ~Working(k)
      BY <1>7, <1>9
    <3>. QED  BY <1>0, <2>2, <3>1, JobKinds DEF Working, JobRows
  <2>4. \A e \in Executions : ~LivePay(e)
    <3>1. CASE source = "CARD"
      <4>1. CardLive /\ CardSwaps
        BY <1>9, <3>1 DEF StackTidy, StackPart, StackStory, CardStory
      <4>. QED  BY <1>1, <4>1 DEF CardLive, CardSwaps, LivePay
    <3>2. CASE source # "CARD"
      BY <1>0, <3>2 DEF StackBegun, LivePay, NoPayment
    <3>. QED  BY <3>1, <3>2
  <2>5. round \in Nat /\ dates \in Nat
    BY <1>0 DEF PlanOK
  <2>. QED  BY <1>1, <1>5, <1>7, <1>9, <1>10, <2>1, <2>3, <2>4, <2>5 DEF LivePay
<1>16. SoldOnce'
  <2>. SUFFICES ASSUME OnTime' PROVE SwapsApart' /\ SwapsKnown' /\ BoughtOnce'
    BY DEF SoldOnce
  <2>1. SwapsApart /\ SwapsKnown /\ BoughtOnce
    BY <1>0, <1>1, StackCalm DEF StackPart, StackStory, SoldOnce
  <2>2. SwapsApart' /\ BoughtOnce'
    BY <1>1, <1>3, <2>1 DEF SwapsApart, BoughtOnce, Stands
  <2>3. SwapsKnown'
    <3>. SUFFICES ASSUME source = "BTC" PROVE SwapsKnown'
      BY <1>1 DEF SwapsKnown
    <3>1. StackTidy
      BY DEF StackTidy
    <3>2. round \in Nat /\ \A k \in DOMAIN swaps : swaps[k].round \in Nat /\ swaps[k].round <= round
      BY <1>0, <1>7, <3>1, SwapKinds, ExecutionsFinite DEF PlanOK, StackPart, RoundsDone
    <3>3. \A k \in DOMAIN swaps : swaps[k].round # round + 1
      BY <3>2
    <3>4. Standing' = {}
      BY <1>3, <1>5, <3>3 DEF Standing
    <3>. QED  BY <1>1, <1>3, <1>7, <1>10, <3>1, <3>4 DEF SwapsKnown, Working
  <2>. QED  BY <2>2, <2>3
<1>. QED  BY <1>3, <1>5, <1>7, <1>8, <1>11, <1>12, <1>14, <1>15, <1>16

\* A swap's webhook settles its execution, or gives back what it held.
LEMMA WebhookTells ==
    ASSUME StackPart, StackTyped', CountsDown, NEW i \in DOMAIN swaps, StackWebhook(i) PROVE StackStory'
<1>. DEFINE r == swaps[i].round
            ended(row) == swaps' = [swaps EXCEPT ![i] = [swaps[i] EXCEPT !.event = "done", !.row = row]]
<1>0. Budgets /\ PlanOK /\ ChargeOK /\ ChargeOK' /\ TradesOK /\ HoldsOK /\ ActorsOK /\ StackBegun
  BY DEF StackPart, StackTyped, StackStory
<1>1. source = "BTC" /\ swaps[i].event = "waiting" /\ StackTidy
      /\ UNCHANGED <<source, dates, payment, job, request>>
  BY DEF StackWebhook, StackTidy
<1>2. r \in Executions /\ charge[r] \in ChargeRows
      /\ swaps[i].row \in {"none", "PENDING", "COMPLETED", "FAILED"}
  BY SwapKinds DEF StackPart
<1>3. /\ stack.status # "none" /\ CardStory'
      /\ RoundsDone /\ JobsAlone /\ RowsAlone /\ JobsPosted
  BY <1>0, <1>1 DEF StackBegun, CardStory, StackPart, StackStory, OneAtWork
<1>4. swaps[i].row = "PENDING" =>
         /\ r = round /\ \A k \in DOMAIN swaps : LiveRow(k) => k = i
         /\ \A j \in Jobs : ~Working(j)
         /\ HoldsCalm => charge[r].held = "RESERVED"
  <2>1. swaps[i].row = "PENDING" => LiveRow(i)
    BY <1>1 DEF LiveRow
  <2>. QED  BY <1>3, <2>1 DEF JobsAlone, RowsAlone, StackPart, StackStory, StackHolds
<1>5. ASSUME HoldsCalm, charge[r].held = "RESERVED", charge'[r].held # "RESERVED",
             \A k \in Executions \ {r} : charge'[k] = charge[k],
             src'.reserved = src.reserved - SourceTotal, coSrc'.reserved = coSrc.reserved - SourceCost
      PROVE  /\ src'.reserved = SourceTotal * Cardinality(Held')
             /\ coSrc'.reserved = BtcReserved + SourceCost * Cardinality(Held')
  <2>. DEFINE n == Cardinality(Held')
  <2>1. n \in Nat /\ Cardinality(Held) = n + 1
    BY <1>0, <1>2, <1>5, StackSetsNext, HeldShrinks
  <2>2. /\ src.reserved = SourceTotal * Cardinality(Held)
        /\ coSrc.reserved = BtcReserved + SourceCost * Cardinality(Held)
    BY <1>5 DEF StackPart, StackStory, StackHolds
  <2>3. /\ SourceTotal * (n + 1) = SourceTotal * n + SourceTotal /\ SourceTotal * n \in Nat
        /\ SourceCost * (n + 1) = SourceCost * n + SourceCost /\ SourceCost * n \in Nat
    BY <2>1, TimesMore, SourceTotalNatural, StackKinds
  <2>4. BtcReserved \in Nat /\ SourceCost \in Nat /\ SourceTotal \in Nat
    BY AutostackAssumption, SourceTotalNatural
  <2>. HIDE DEF n
  <2>. QED  BY <1>5, <2>1, <2>2, <2>3, <2>4 DEF n
<1>6. HoldsCalm' => HoldsCalm /\ \A q \in Requests : request'[q].pc # "cancel"
  BY <1>0, <1>1, StackCalm DEF StackPart, StackStory, StackHolds
<1>7. src \in Wallets /\ coSrc \in CompanyAccounts
  BY <1>0 DEF HoldsOK, GoodWallet, GoodCompany
<1>8. CASE CanSettle(i) /\ SwapSettles(i) /\ ended("COMPLETED")
  <2>1. swaps[i].row = "PENDING" /\ charge[r].status = "PENDING" /\ Settling(i)
    BY <1>1, <1>8 DEF CanSettle, SwapIsNews, SwapSettles, Settling
  <2>2. ChargeNow(r, "COMPLETED", "CONSUMED", "COMPLETED", charge[r].order)
    <3>. DEFINE c == [charge[r] EXCEPT !.init = "COMPLETED", !.held = "CONSUMED", !.status = "COMPLETED"]
    <3>1. charge' = [charge EXCEPT ![r] = c]
      BY <1>8 DEF SwapSettles
    <3>2. c.init = "COMPLETED" /\ c.held = "CONSUMED" /\ c.status = "COMPLETED" /\ c.order = charge[r].order
      BY <1>2 DEF ChargeRows
    <3>. HIDE DEF c
    <3>. QED  BY <1>0, <1>2, <3>1, <3>2, ChargeWritten
  <2>3. /\ StackBegun' /\ StackSums' /\ OneAtWork' /\ StackDates' /\ SoldOnce'
        /\ DOMAIN swaps' = DOMAIN swaps
        /\ \A k \in DOMAIN swaps :
              /\ swaps'[k].row = IF k = i THEN "COMPLETED" ELSE swaps[k].row
              /\ swaps'[k].round = swaps[k].round
              /\ swaps'[k].event = IF k = i THEN "done" ELSE swaps[k].event
    BY <1>1, <2>1, <2>2, SettlingTells
  <2>4. src'.reserved = src.reserved - SourceTotal /\ coSrc'.reserved = coSrc.reserved - SourceCost
    BY <1>7, <1>8 DEF SwapSettles, FinalizeBalance, ConsumeReservedLiquidity, SubtractInternal,
      Wallets, CompanyAccounts
  <2>5. StackHolds'
    <3>1. \A k \in DOMAIN swaps : ~LiveRow(k)'
      BY <1>4, <2>1, <2>3 DEF LiveRow
    <3>. HIDE DEF r
    <3>. QED  BY <1>1, <1>4, <1>5, <1>6, <2>1, <2>2, <2>3, <2>4, <3>1 DEF StackHolds, ChargeNow, Working
  <2>. QED  BY <1>3, <2>3, <2>5 DEF StackStory
<1>9. CASE CanFail(i) /\ SwapFails(i) /\ ended("FAILED")
  <2>1. swaps[i].row = "PENDING" /\ swaps[i].at = "failed"
        /\ UNCHANGED <<usd, totals, stack, round, due, budget>>
    BY <1>9 DEF CanFail, SwapFails, plan
  <2>2. ChargeNow(r, "FAILED", "RELEASED", "FAILED", charge[r].order)
    <3>. DEFINE c == [charge[r] EXCEPT !.init = "FAILED", !.held = "RELEASED", !.status = "FAILED"]
    <3>1. charge' = [charge EXCEPT ![r] = c]
      BY <1>9 DEF SwapFails
    <3>2. c.init = "FAILED" /\ c.held = "RELEASED" /\ c.status = "FAILED" /\ c.order = charge[r].order
      BY <1>2 DEF ChargeRows
    <3>. HIDE DEF c
    <3>. QED  BY <1>0, <1>2, <3>1, <3>2, ChargeWritten
  <2>3. /\ DOMAIN swaps' = DOMAIN swaps
        /\ \A k \in DOMAIN swaps :
              /\ swaps'[k].row = IF k = i THEN "FAILED" ELSE swaps[k].row
              /\ swaps'[k].round = swaps[k].round /\ swaps'[k].at = swaps[k].at
              /\ swaps'[k].event = IF k = i THEN "done" ELSE swaps[k].event
    BY <1>0, <1>1, <1>9, SwapEnded
  <2>4. \A k \in DOMAIN swaps : ~LiveRow(k)'
    BY <1>4, <2>1, <2>3 DEF LiveRow
  <2>5. charge[r].status # "COMPLETED"
    <3>1. round \in Nat
      BY <1>0 DEF PlanOK
    <3>. QED  BY <1>2, <1>3, <1>4, <2>1, <3>1 DEF RoundsDone
  <2>. HIDE DEF r
  <2>6. StackBegun'
    <3>1. Settled' = Settled
      BY <2>2, <2>5, SettledSame DEF ChargeNow
    <3>. QED  BY <1>0, <1>1, <1>3, <2>1, <2>3, <3>1 DEF StackBegun
  <2>7. StackSums'
    BY <1>0, <1>1, <2>1, <2>2, <2>5, SumsRest DEF StackPart, StackStory, ChargeNow, Working
  <2>8. OneAtWork'
    <3>1. RoundsDone'
      BY <1>3, <2>1, <2>2, <2>3, <2>5 DEF RoundsDone, ChargeNow
    <3>. QED  BY <1>1, <1>4, <2>1, <2>3, <2>4, <3>1 DEF OneAtWork, JobsAlone, RowsAlone, JobsPosted, Working
  <2>9. StackDates'
    BY <1>0, <1>1, <2>1, <2>3, <2>4, StackCalm DEF StackPart, StackStory, StackDates, LivePay
  <2>10. StackHolds'
    <3>1. src'.reserved = src.reserved - SourceTotal /\ coSrc'.reserved = coSrc.reserved - SourceCost
      BY <1>7, <1>9 DEF SwapFails, ReleaseBalance, ReleaseLiquidity, Wallets, CompanyAccounts
    <3>. QED  BY <1>1, <1>4, <1>5, <1>6, <2>1, <2>2, <2>3, <2>4, <3>1 DEF StackHolds, ChargeNow, Working
  <2>11. SoldOnce'
    <3>. SUFFICES ASSUME OnTime' PROVE SwapsApart' /\ SwapsKnown' /\ BoughtOnce'
      BY DEF SoldOnce
    <3>1. SwapsApart /\ SwapsKnown /\ BoughtOnce
      BY <1>0, <1>1, StackCalm DEF StackPart, StackStory, SoldOnce
    <3>2. SwapsApart' /\ BoughtOnce'
      BY <1>1, <2>3, <3>1 DEF SwapsApart, BoughtOnce, Stands
    <3>3. Standing = {}
      <4>1. Standing \subseteq {i} /\ ~Stands(i)
        BY <1>1, <2>1, <3>1 DEF SwapsKnown, LiveRow, Stands
      <4>. QED  BY <4>1 DEF Standing
    <3>4. Standing' = {}
      BY <2>1, <2>3, <3>3 DEF Standing, Stands
    <3>5. SwapsKnown'
      BY <3>4 DEF SwapsKnown
    <3>. QED  BY <3>2, <3>5
  <2>. QED  BY <1>3, <2>6, <2>7, <2>8, <2>9, <2>10, <2>11 DEF StackStory
<1>10. CASE ended(swaps[i].row) /\ UNCHANGED <<wallets, books, charge, plan, budget>>
  <2>1. /\ DOMAIN swaps' = DOMAIN swaps
        /\ \A k \in DOMAIN swaps :
              /\ swaps'[k].row = swaps[k].row
              /\ swaps'[k].round = swaps[k].round /\ swaps'[k].at = swaps[k].at
              /\ swaps'[k].event = IF k = i THEN "done" ELSE swaps[k].event
    <3>. DEFINE row == swaps[i].row
    <3>1. ended(row) /\ row \in {"none", "PENDING", "COMPLETED", "FAILED"}
      BY <1>2, <1>10
    <3>. HIDE DEF row
    <3>2. \A k \in DOMAIN swaps : swaps'[k].row = (IF k = i THEN row ELSE swaps[k].row)
             /\ swaps'[k].round = swaps[k].round /\ swaps'[k].at = swaps[k].at
             /\ swaps'[k].event = IF k = i THEN "done" ELSE swaps[k].event
      BY <1>0, <1>1, <3>1, SwapEnded
    <3>3. DOMAIN swaps' = DOMAIN swaps
      BY <1>0, <1>1, <3>1, SwapEnded
    <3>. QED  BY <3>2, <3>3 DEF row
  <2>2. UNCHANGED <<stack, round, due, usd, src, coSrc, totals, charge, budget>>
    BY <1>10 DEF wallets, books, plan
  <2>3. \A k \in DOMAIN swaps : LiveRow(k)' => LiveRow(k)
    BY <2>1 DEF LiveRow
  <2>4. Standing' = Standing /\ Settled' = Settled /\ Held' = Held
    BY <2>1, <2>2 DEF Standing, Stands, Settled, Held
  <2>5. StackBegun'
    BY <1>0, <1>1, <1>3, <2>1, <2>2, <2>4 DEF StackBegun
  <2>6. StackSums'
    BY <1>0, <1>1, <2>2, SumsRest DEF StackPart, StackStory, Working
  <2>7. OneAtWork'
    BY <1>1, <1>3, <2>1, <2>2, <2>3 DEF OneAtWork, RoundsDone, JobsAlone, RowsAlone, JobsPosted,
      Working, StackOver
  <2>8. StackDates'
    BY <1>0, <1>1, <2>1, <2>2, <2>3, StackCalm DEF StackPart, StackStory, StackDates, LivePay
  <2>9. StackHolds'
    BY <1>1, <1>6, <2>1, <2>2, <2>3, <2>4 DEF StackPart, StackStory, StackHolds
  <2>10. SoldOnce'
    BY <1>0, <1>1, <2>1, <2>2, <2>3, <2>4, StackCalm DEF StackPart, StackStory, SoldOnce,
      SwapsApart, SwapsKnown, BoughtOnce, Stands, StackOver
  <2>. QED  BY <1>3, <2>5, <2>6, <2>7, <2>8, <2>9, <2>10 DEF StackStory
<1>11. \/ CanSettle(i) /\ SwapSettles(i) /\ ended("COMPLETED")
       \/ CanFail(i) /\ SwapFails(i) /\ ended("FAILED")
       \/ ended(swaps[i].row) /\ UNCHANGED <<wallets, books, charge, plan, budget>>
  BY DEF StackWebhook
<1>. QED  BY <1>8, <1>9, <1>10, <1>11

\* Somebody works on the current execution, or has yet to hear of it.
Occupied == \/ \E j \in Jobs : Working(j)
            \/ \E i \in DOMAIN swaps : LiveRow(i)
            \/ \E r \in Executions : LivePay(r)
CardParts == /\ CardPayments /\ CardLive /\ CardSwaps /\ CardRound /\ CardJobs /\ CardRequests
             /\ CardFunds

\* What is known of a card as long as nothing went wrong.
LEMMA CardKnows ==
    ASSUME StackPart, source = "CARD", CardCalm
    PROVE  /\ StackTidy /\ RoundsDone /\ JobsAlone /\ RowsAlone /\ CardParts
           /\ \A r \in Executions : payment[r].at = "none" => payment[r].event = "none"
<1>1. StackTidy /\ CardParts
  BY DEF StackTidy, StackPart, StackStory, CardStory, CardParts
<1>2. RoundsDone /\ JobsAlone /\ RowsAlone
  BY <1>1 DEF StackPart, StackStory, OneAtWork
<1>. QED  BY <1>1, <1>2 DEF CardParts, CardPayments

\* What a step of a card that settles nothing has to show.
LEMMA CardPartsStep ==
    ASSUME StackPart, CountsDown, source = "CARD", stack.status # "none",
           UNCHANGED <<source, stack, round, due, dates, usd, totals, request>>,
           \A r \in Executions : charge'[r].status = "COMPLETED" <=> charge[r].status = "COMPLETED",
           \A j \in Jobs : job'[j] = job[j] \/ (Working(j) /\ job'[j].pc # "accrue"),
           \A i \in DOMAIN swaps' : swaps'[i].at = "open" => swaps'[i].event = "none",
           OnTime /\ OnTime' => BoughtOnce',
           CardCalm /\ CardCalm' =>
              RoundsDone' /\ JobsAlone' /\ RowsAlone' /\ CardParts' /\ (Occupied' => Occupied)
    PROVE  StackStory'
<1>0. Budgets /\ PlanOK /\ ChargeOK /\ StackBegun
  BY DEF StackPart, StackTyped, StackStory
<1>1. (CardCalm' => CardCalm) /\ (OnTime' => OnTime) /\ (StackTidy' => CardCalm /\ CardCalm')
  BY <1>0, StackCalm DEF StackTidy
<1>2. StackBegun'
  <2>1. Settled' = Settled
    BY SettledSame
  <2>. QED  BY <1>0, <2>1 DEF StackBegun, Working
<1>3. StackSums'
  BY <1>0, SumsRest DEF StackPart, StackStory
<1>4. OneAtWork'
  BY <1>1 DEF OneAtWork, JobsPosted
<1>5. StackDates'
  <2>1. ASSUME StackTidy', Untouched({"jobsOverlap"})'
        PROVE  /\ round + (IF due THEN 1 ELSE 0) <= dates /\ (Occupied' => due)
               /\ \A j \in Jobs : job[j].pc \notin {"idle", "check"} => due
    BY <1>0, <1>1, <2>1, StackCalm DEF StackPart, StackStory, StackDates, Occupied, Working
  <2>. SUFFICES ASSUME StackTidy', Untouched({"jobsOverlap"})'
                PROVE  /\ round' + (IF due' THEN 1 ELSE 0) <= dates'
                       /\ \A j \in Jobs : job'[j].pc \notin {"idle", "check"} => due'
                       /\ \A i \in DOMAIN swaps' : LiveRow(i)' => due'
                       /\ \A r \in Executions : LivePay(r)' => due'
    BY DEF StackDates
  <2>2. round + (IF due THEN 1 ELSE 0) <= dates /\ (Occupied' => due)
    BY <2>1
  <2>3. \A j \in Jobs : job'[j].pc \notin {"idle", "check"} => due
    BY <2>1 DEF Working
  <2>4. UNCHANGED <<round, due, dates>>
    OBVIOUS
  <2>5. /\ \A i \in DOMAIN swaps' : LiveRow(i)' => Occupied'
        /\ \A r \in Executions : LivePay(r)' => Occupied'
    BY DEF Occupied
  <2>. QED  BY <2>2, <2>3, <2>4, <2>5
<1>6. StackHolds' /\ CardStory'
  BY <1>1 DEF StackHolds, HoldsCalm, CardStory, CardParts
<1>7. SoldOnce'
  BY <1>1 DEF SoldOnce, SwapsApart, SwapsKnown, BoughtOnce
<1>. QED  BY <1>2, <1>3, <1>4, <1>5, <1>6, <1>7 DEF StackStory

\* A card reserves the naira before it is charged.
LEMMA CardReserveTells ==
    ASSUME StackPart, StackTyped', CountsDown, NEW j \in Jobs, CardReserve(j) PROVE StackStory'
<1>. DEFINE r == job[j].round
            able == job[j].held \/ CanReserveLiquidity(coSrc, CardCost)
<1>0. Budgets /\ ChargeOK /\ HoldsOK /\ ActorsOK /\ StackBegun
  BY DEF StackPart, StackTyped, StackStory
<1>1. source = "CARD" /\ job[j].pc = "taken" /\ Working(j) /\ stack.status # "none"
      /\ UNCHANGED <<source, stack, round, due, dates, swaps, payment, usd, src, totals, request, budget>>
  BY <1>0 DEF CardReserve, plan, trades, wallets, Working, StackBegun
<1>2. r \in Executions /\ charge[r] \in ChargeRows
  BY <1>0, JobKinds, ChargeKinds
<1>3. CASE able
  <2>1. JobNow(j, "reserved")
    BY <1>0, <1>3, JobWritten DEF CardReserve
  <2>2. ChargeNow(r, "PROCESSING", "RESERVED", charge[r].status, job[j].order)
    <3>. DEFINE c == [charge[r] EXCEPT !.init = "PROCESSING", !.held = "RESERVED", !.order = job[j].order]
    <3>1. charge' = [charge EXCEPT ![r] = c]
      BY <1>3 DEF CardReserve
    <3>2. c.init = "PROCESSING" /\ c.held = "RESERVED" /\ c.status = charge[r].status
          /\ c.order = job[j].order
      BY <1>2 DEF ChargeRows
    <3>. HIDE DEF c
    <3>. QED  BY <1>0, <1>2, <3>1, <3>2, ChargeWritten
  <2>3. coSrc' = IF job[j].held THEN coSrc ELSE ReserveLiquidity(coSrc, CardCost)
    BY <1>3 DEF CardReserve
  <2>4. ASSUME CardCalm
        PROVE  RoundsDone' /\ JobsAlone' /\ RowsAlone' /\ CardParts' /\ (Occupied' => Occupied)
    <3>1. /\ RoundsDone /\ JobsAlone /\ RowsAlone /\ CardParts /\ r = round
          /\ \A k \in Jobs : Working(k) => k = j
          /\ \A i \in DOMAIN swaps : ~LiveRow(i)
      BY <1>1, <2>4, CardKnows DEF JobsAlone
    <3>2. /\ payment[round].at = "none" /\ payment[round].event = "none"
          /\ job[j].order = "none" /\ charge[round].order = "none"
          /\ ~job[j].held /\ charge[round].held # "RESERVED"
      BY <1>1, <1>2, <2>4, <3>1, CardKnows DEF CardParts, CardJobs
    <3>3. \A k \in Jobs : Working(k)' <=> k = j
      BY <1>1, <2>1, <3>1 DEF JobNow, Working
    <3>4. \A i \in DOMAIN swaps : ~LiveRow(i)'
      BY <1>1, <3>1 DEF LiveRow
    <3>5. RoundsDone'
      BY <1>1, <2>2, <3>1 DEF RoundsDone, ChargeNow
    <3>6. JobsAlone' /\ RowsAlone'
      BY <1>1, <1>2, <2>1, <2>2, <3>1, <3>3, <3>4 DEF JobsAlone, RowsAlone, ChargeNow, JobNow
    <3>7. CardPayments'
      BY <1>0, <1>1, <2>2, <3>1 DEF StackPart, StackTyped, PlanOK, CardParts, CardPayments, ChargeNow, Untold
    <3>8. CardLive'
      <4>1. \A e \in Executions : ~LivePay(e)
        BY <3>1, <3>2 DEF CardParts, CardLive, LivePay
      <4>. QED  BY <1>1, <4>1 DEF CardLive, LivePay
    <3>9. CardSwaps'
      BY <1>1, <3>1, <3>4 DEF CardParts, CardSwaps
    <3>10. CardRound' /\ CardJobs'
      BY <1>1, <1>2, <2>1, <2>2, <3>1, <3>2, <3>3 DEF CardParts, CardRound, CardJobs, ChargeNow, JobNow
    <3>11. CardRequests'
      BY <1>1, <3>1 DEF CardParts, CardRequests
    <3>12. CardFunds'
      <4>1. Settled' = Settled
        BY <2>2, SettledSame DEF ChargeNow
      <4>. DEFINE n == Cardinality(Held)
      <4>2. Cardinality(Held') = n + 1 /\ n \in Nat
        BY <1>0, <1>2, <2>2, <3>1, <3>2, HeldGrows, StackSets DEF ChargeNow
      <4>3. CardCost * (n + 1) = CardCost * n + CardCost /\ CardCost * n \in Nat
        BY <4>2, TimesMore, StackKinds
      <4>4. coSrc'.reserved = coSrc.reserved + CardCost /\ coSrc'.total = coSrc.total
        BY <1>0, <2>3, <3>2 DEF ReserveLiquidity, HoldsOK, GoodCompany, CompanyAccounts
      <4>5. coSrc.reserved = NairaReserved + CardCost * n /\ NairaReserved \in Nat /\ CardCost \in Nat
        BY <3>1, AutostackAssumption DEF CardParts, CardFunds
      <4>. HIDE DEF n
      <4>6. coSrc'.reserved = NairaReserved + CardCost * Cardinality(Held')
        BY <4>2, <4>3, <4>4, <4>5
      <4>. QED  BY <3>1, <4>1, <4>4, <4>6 DEF CardParts, CardFunds
    <3>13. Occupied
      BY <1>1 DEF Occupied
    <3>. QED  BY <3>5, <3>6, <3>7, <3>8, <3>9, <3>10, <3>11, <3>12, <3>13 DEF CardParts
  <2>5. OnTime => BoughtOnce'
    BY <1>1 DEF StackPart, StackStory, SoldOnce, BoughtOnce
  <2>6. \A k \in Jobs : job'[k] = job[k] \/ (Working(k) /\ job'[k].pc # "accrue")
    BY <1>1, <2>1 DEF JobNow
  <2>7. \A e \in Executions : charge'[e].status = "COMPLETED" <=> charge[e].status = "COMPLETED"
    BY <2>2 DEF ChargeNow
  <2>8. \A i \in DOMAIN swaps' : swaps'[i].at = "open" => swaps'[i].event = "none"
    BY <1>0, <1>1 DEF StackBegun
  <2>. QED  BY <1>1, <2>4, <2>5, <2>6, <2>7, <2>8, CardPartsStep
<1>4. CASE ~able
  <2>1. JobNow(j, "failed") /\ UNCHANGED <<coSrc, charge>>
    BY <1>0, <1>4, JobWritten DEF CardReserve
  <2>. QED  BY <1>1, <2>1, JobFails
<1>. QED  BY <1>3, <1>4

\* What a step does to the payment it writes.
PaymentNow(r, at, event, init, held, swap) ==
    /\ \A k \in Executions \ {r} : payment'[k] = payment[k]
    /\ payment'[r].at = at /\ payment'[r].event = event /\ payment'[r].init = init
    /\ payment'[r].held = held /\ payment'[r].swap = swap

\* What the writes of payments leave behind.
LEMMA PaymentWritten ==
    ASSUME TradesOK, NEW r \in Executions, NEW p, payment' = [payment EXCEPT ![r] = p]
    PROVE  PaymentNow(r, p.at, p.event, p.init, p.held, p.swap)
  BY DEF TradesOK, PaymentNow

LEMMA EventWritten ==
    ASSUME TradesOK, NEW r \in Executions, NEW e, SetEvent(r, e)
    PROVE  PaymentNow(r, payment[r].at, e, payment[r].init, payment[r].held, payment[r].swap)
<1>. DEFINE p == [payment[r] EXCEPT !.event = e]
<1>1. payment' = [payment EXCEPT ![r] = p] /\ payment[r] \in StackPayments
  BY DEF SetEvent, TradesOK
<1>2. p.at = payment[r].at /\ p.event = e /\ p.init = payment[r].init /\ p.held = payment[r].held
      /\ p.swap = payment[r].swap
  BY <1>1 DEF StackPayments
<1>. HIDE DEF p
<1>. QED  BY <1>1, <1>2, PaymentWritten

\* Paystack is asked for an execution whose naira are reserved.
LEMMA CardChargeTells ==
    ASSUME StackPart, StackTyped', CountsDown, NEW j \in Jobs, CardCharge(j) PROVE StackStory'
<1>. DEFINE r == job[j].round
            p == payment[r]
<1>0. Budgets /\ ChargeOK /\ TradesOK /\ ActorsOK /\ StackBegun
  BY DEF StackPart, StackTyped, StackStory
<1>1. source = "CARD" /\ job[j].pc = "reserved" /\ Working(j) /\ stack.status # "none"
      /\ UNCHANGED <<source, stack, round, due, dates, charge, swaps, usd, src, coSrc, totals, request>>
  BY <1>0 DEF CardCharge, plan, wallets, books, Working, StackBegun
<1>2. r \in Executions /\ payment[r] \in StackPayments
  BY <1>0, JobKinds, PaymentKinds
<1>3. ASSUME NEW at \in {"paid", "declined"}, NEW pc \in {"posted", "failed"}, p.at = "none",
             PaymentNow(r, at, IF at = "paid" THEN "waiting" ELSE p.event, p.init, p.held, p.swap),
             JobNow(j, pc), pc = "failed" => ~CardCalm' /\ ~OnTime'
      PROVE  StackStory'
  <2>1. ASSUME CardCalm, CardCalm'
        PROVE  RoundsDone' /\ JobsAlone' /\ RowsAlone' /\ CardParts' /\ (Occupied' => Occupied)
    <3>1. /\ RoundsDone /\ JobsAlone /\ RowsAlone /\ CardParts /\ r = round
          /\ \A k \in Jobs : Working(k) => k = j
          /\ \A i \in DOMAIN swaps : ~LiveRow(i)
          /\ p.event = "none"
      BY <1>1, <1>2, <1>3, <2>1, CardKnows DEF JobsAlone
    <3>2. /\ job[j].order = "none" /\ charge[round].order = "none"
          /\ charge[round].status = "PENDING" /\ charge[round].held = "RESERVED"
          /\ \A i \in DOMAIN swaps : swaps[i].round # round
      BY <1>1, <1>2, <1>3, <3>1 DEF CardParts, CardJobs, CardRound, CardSwaps
    <3>3. /\ pc = "posted" /\ payment'[round].at = at
          /\ payment'[round].event = IF at = "paid" THEN "waiting" ELSE "none"
          /\ \A k \in Executions : k # round => payment'[k] = payment[k]
      BY <1>3, <2>1, <3>1 DEF PaymentNow
    <3>4. \A k \in Jobs : (Working(k)' <=> k = j) /\ (k # j => job'[k] = job[k])
      BY <1>1, <1>3, <3>1 DEF JobNow, Working
    <3>5. \A i \in DOMAIN swaps : ~LiveRow(i)'
      BY <1>1, <3>1 DEF LiveRow
    <3>6. RoundsDone'
      BY <1>1, <3>1 DEF RoundsDone
    <3>7. JobsAlone' /\ RowsAlone'
      BY <1>1, <1>3, <3>1, <3>4, <3>5 DEF JobsAlone, RowsAlone, JobNow, StackOver
    <3>8. CardPayments'
      <4>1. round \in Nat
        BY DEF StackPart, StackTyped, PlanOK
      <4>. QED  BY <1>1, <3>1, <3>3, <4>1 DEF CardParts, CardPayments, Untold
    <3>9. CardLive'
      <4>1. \A e \in Executions : LivePay(e)' => e = round /\ payment'[e].event = "waiting"
        BY <1>2, <3>1, <3>3 DEF CardParts, CardLive, LivePay
      <4>. QED  BY <1>1, <3>2, <4>1 DEF CardLive
    <3>10. CardSwaps'
      BY <1>1, <1>2, <3>1, <3>2, <3>3, <3>5, SwapKinds DEF CardParts, CardSwaps, StackPart
    <3>11. CardRound'
      BY <1>1, <1>3, <3>1, <3>2, <3>3, <3>4 DEF CardParts, CardRound, JobNow
    <3>12. CardJobs'
      BY <1>1, <1>3, <3>2, <3>3, <3>4 DEF CardJobs, JobNow
    <3>13. CardRequests' /\ CardFunds'
      BY <1>1, <3>1 DEF CardParts, CardRequests, CardFunds, Settled, Held
    <3>14. Occupied
      BY <1>1 DEF Occupied
    <3>. QED  BY <3>6, <3>7, <3>8, <3>9, <3>10, <3>11, <3>12, <3>13, <3>14 DEF CardParts
  <2>2. ASSUME OnTime, OnTime' PROVE BoughtOnce'
    <3>1. BoughtOnce
      BY <2>2 DEF StackPart, StackStory, SoldOnce
    <3>2. p.event = "none" /\ \A i \in DOMAIN swaps : swaps[i].round # r
      BY <1>1, <1>2, <1>3, <3>1, PaymentKinds DEF BoughtOnce
    <3>3. \A i \in DOMAIN swaps : payment'[swaps[i].round] = payment[swaps[i].round]
      BY <1>3, <3>2, SwapKinds DEF PaymentNow, StackPart
    <3>4. \A e \in Executions : payment'[e].event # "none" => payment'[e].at # "none"
      BY <1>1, <1>3, <3>1 DEF PaymentNow, BoughtOnce
    <3>. QED  BY <1>1, <3>1, <3>3, <3>4 DEF BoughtOnce
  <2>3. \A k \in Jobs : job'[k] = job[k] \/ (Working(k) /\ job'[k].pc # "accrue")
    BY <1>1, <1>3 DEF JobNow
  <2>4. \A i \in DOMAIN swaps' : swaps'[i].at = "open" => swaps'[i].event = "none"
    BY <1>0, <1>1 DEF StackBegun
  <2>. QED  BY <1>1, <2>1, <2>2, <2>3, <2>4, CardPartsStep
<1>4. CASE /\ p.at = "none" /\ payment' = [payment EXCEPT ![r] = [p EXCEPT !.at = "paid", !.event = "waiting"]]
           /\ SetJob(j, "posted") \/ (SetJob(j, "failed") /\ Spend("lostAnswer"))
  <2>. DEFINE n == [p EXCEPT !.at = "paid", !.event = "waiting"]
  <2>1. n.at = "paid" /\ n.event = "waiting" /\ n.init = p.init /\ n.held = p.held /\ n.swap = p.swap
    BY <1>2 DEF StackPayments
  <2>2. payment' = [payment EXCEPT ![r] = n]
    BY <1>4
  <2>. HIDE DEF n
  <2>3. PaymentNow(r, "paid", "waiting", p.init, p.held, p.swap)
    BY <1>0, <1>2, <2>1, <2>2, PaymentWritten
  <2>4. PaymentNow(r, "paid", IF "paid" = "paid" THEN "waiting" ELSE p.event, p.init, p.held, p.swap)
    BY <2>3
  <2>. HIDE DEF p, r
  <2>5. \/ JobNow(j, "posted")
        \/ JobNow(j, "failed") /\ ~CardCalm' /\ ~OnTime'
    BY <1>0, <1>4, JobWritten, BudgetSpent, StackMishaps DEF CardCalm, OnTime
  <2>. QED  BY <1>3, <1>4, <2>4, <2>5
<1>5. CASE /\ p.at = "none" /\ SetJob(j, "posted") /\ payment' = [payment EXCEPT ![r].at = "declined"]
  <2>. DEFINE n == [p EXCEPT !.at = "declined"]
  <2>1. n.at = "declined" /\ n.event = p.event /\ n.init = p.init /\ n.held = p.held /\ n.swap = p.swap
    BY <1>2 DEF StackPayments
  <2>2. payment' = [payment EXCEPT ![r] = n]
    BY <1>5
  <2>. HIDE DEF n
  <2>3. PaymentNow(r, "declined", p.event, p.init, p.held, p.swap)
    BY <1>0, <1>2, <2>1, <2>2, PaymentWritten
  <2>4. PaymentNow(r, "declined", IF "declined" = "paid" THEN "waiting" ELSE p.event, p.init, p.held, p.swap)
    BY <2>3
  <2>5. JobNow(j, "posted")
    BY <1>0, <1>5, JobWritten
  <2>. HIDE DEF p, r
  <2>. QED  BY <1>3, <1>5, <2>4, <2>5
<1>6. CASE SetJob(j, "failed") /\ UNCHANGED payment
  <2>1. JobNow(j, "failed")
    BY <1>0, <1>6, JobWritten
  <2>. QED  BY <1>1, <1>6, <2>1, JobFails
<1>7. \/ /\ p.at = "none" /\ payment' = [payment EXCEPT ![r] = [p EXCEPT !.at = "paid", !.event = "waiting"]]
         /\ SetJob(j, "posted") \/ (SetJob(j, "failed") /\ Spend("lostAnswer"))
      \/ /\ p.at = "none" /\ SetJob(j, "posted") /\ payment' = [payment EXCEPT ![r].at = "declined"]
      \/ SetJob(j, "failed") /\ UNCHANGED payment
  BY DEF CardCharge
<1>. QED  BY <1>4, <1>5, <1>6, <1>7

\* What Paystack said of the charge is written down.
LEMMA CardRecordTells ==
    ASSUME StackPart, StackTyped', CountsDown, NEW j \in Jobs, CardRecord(j) PROVE StackStory'
<1>. DEFINE r == job[j].round
<1>0. Budgets /\ ChargeOK /\ TradesOK /\ ActorsOK /\ StackBegun
  BY DEF StackPart, StackTyped, StackStory
<1>1. source = "CARD" /\ job[j].pc = "posted" /\ Working(j) /\ stack.status # "none"
      /\ UNCHANGED <<source, stack, round, due, dates, swaps, payment, usd, src, coSrc, totals, request>>
  BY <1>0 DEF CardRecord, plan, trades, wallets, books, Working, StackBegun
<1>2. r \in Executions /\ charge[r] \in ChargeRows
  BY <1>0, JobKinds, ChargeKinds
<1>3. CASE charge' = [charge EXCEPT ![r] = [charge[r] EXCEPT !.init = "SUBMITTED", !.held = "RESERVED",
                                                             !.order = job[j].order]] /\ Rest(j)
  <2>1. JobDone(j)
    BY <1>0, <1>3, JobRested
  <2>2. ChargeNow(r, "SUBMITTED", "RESERVED", charge[r].status, job[j].order)
    <3>. DEFINE c == [charge[r] EXCEPT !.init = "SUBMITTED", !.held = "RESERVED", !.order = job[j].order]
    <3>1. charge' = [charge EXCEPT ![r] = c]
      BY <1>3
    <3>2. c.init = "SUBMITTED" /\ c.held = "RESERVED" /\ c.status = charge[r].status
          /\ c.order = job[j].order
      BY <1>2 DEF ChargeRows
    <3>. HIDE DEF c
    <3>. QED  BY <1>0, <1>2, <3>1, <3>2, ChargeWritten
  <2>3. ASSUME CardCalm
        PROVE  RoundsDone' /\ JobsAlone' /\ RowsAlone' /\ CardParts' /\ (Occupied' => Occupied)
    <3>1. /\ RoundsDone /\ JobsAlone /\ RowsAlone /\ CardParts /\ r = round
          /\ \A k \in Jobs : Working(k) => k = j
          /\ \A i \in DOMAIN swaps : ~LiveRow(i)
      BY <1>1, <2>3, CardKnows DEF JobsAlone
    <3>2. /\ payment[round].at # "none" /\ payment[round].event \in {"none", "waiting"}
          /\ job[j].order = "none" /\ charge[round].order = "none"
          /\ charge[round].held = "RESERVED"
      BY <1>1, <1>2, <3>1 DEF CardParts, CardJobs
    <3>3. \A k \in Jobs : ~Working(k)'
      BY <2>1, <3>1 DEF JobDone, Working
    <3>4. \A i \in DOMAIN swaps : ~LiveRow(i)'
      BY <1>1, <3>1 DEF LiveRow
    <3>5. RoundsDone'
      BY <1>1, <2>2, <3>1 DEF RoundsDone, ChargeNow
    <3>6. JobsAlone' /\ RowsAlone'
      BY <1>1, <3>3, <3>4 DEF JobsAlone, RowsAlone
    <3>7. CardPayments'
      <4>1. round \in Nat
        BY DEF StackPart, StackTyped, PlanOK
      <4>. QED  BY <1>1, <2>2, <3>1, <4>1 DEF CardParts, CardPayments, ChargeNow, Untold
    <3>8. CardLive'
      <4>1. \A e \in Executions : LivePay(e) => e = round /\ payment[e].event = "waiting"
        BY <3>1, <3>2 DEF CardParts, CardLive, LivePay
      <4>. QED  BY <1>1, <1>2, <2>2, <3>1, <3>2, <4>1 DEF CardParts, CardLive, LivePay, ChargeNow
    <3>9. CardSwaps'
      BY <1>1, <3>1, <3>4 DEF CardParts, CardSwaps
    <3>10. CardRound' /\ CardJobs'
      BY <1>1, <1>2, <2>2, <3>1, <3>2, <3>3 DEF CardParts, CardRound, CardJobs, ChargeNow
    <3>11. CardRequests'
      BY <1>1, <3>1 DEF CardParts, CardRequests
    <3>12. CardFunds'
      <4>1. Settled' = Settled /\ Held' = Held
        BY <2>2, <3>1, <3>2, SettledSame, HeldSame DEF ChargeNow
      <4>. QED  BY <1>1, <3>1, <4>1 DEF CardParts, CardFunds
    <3>13. Occupied
      BY <1>1 DEF Occupied
    <3>. QED  BY <3>5, <3>6, <3>7, <3>8, <3>9, <3>10, <3>11, <3>12, <3>13 DEF CardParts
  <2>4. OnTime => BoughtOnce'
    BY <1>1 DEF StackPart, StackStory, SoldOnce, BoughtOnce
  <2>5. \A k \in Jobs : job'[k] = job[k] \/ (Working(k) /\ job'[k].pc # "accrue")
    BY <1>1, <2>1 DEF JobDone
  <2>6. \A e \in Executions : charge'[e].status = "COMPLETED" <=> charge[e].status = "COMPLETED"
    BY <2>2 DEF ChargeNow
  <2>7. \A i \in DOMAIN swaps' : swaps'[i].at = "open" => swaps'[i].event = "none"
    BY <1>0, <1>1 DEF StackBegun
  <2>. QED  BY <1>1, <2>3, <2>4, <2>5, <2>6, <2>7, CardPartsStep
<1>4. CASE SetJob(j, "failed") /\ Spend("error") /\ UNCHANGED charge
  <2>1. JobNow(j, "failed")
    BY <1>0, <1>4, JobWritten
  <2>2. ~OnTime' /\ ~CardCalm'
    BY <1>0, <1>4, BudgetSpent, StackMishaps DEF OnTime, CardCalm
  <2>. QED  BY <1>1, <1>4, <2>1, <2>2, JobFails
<1>5. \/ charge' = [charge EXCEPT ![r] = [charge[r] EXCEPT !.init = "SUBMITTED", !.held = "RESERVED",
                                                           !.order = job[j].order]] /\ Rest(j)
      \/ SetJob(j, "failed") /\ Spend("error") /\ UNCHANGED charge
  BY DEF CardRecord
<1>. QED  BY <1>3, <1>4, <1>5

\* Somebody who has a payment has a card and a stack; and what a card's charge that
\* is paid for and not yet bought for is like.
LEMMA PayerKnows ==
    ASSUME StackPart, NEW r \in Executions, payment[r].event # "none"
    PROVE  /\ source = "CARD" /\ stack.status # "none"
           /\ Budgets /\ ChargeOK /\ TradesOK /\ ActorsOK /\ StackBegun
           /\ \A i \in DOMAIN swaps : swaps[i].at = "open" => swaps[i].event = "none"
<1>1. Budgets /\ ChargeOK /\ TradesOK /\ ActorsOK /\ StackBegun
  BY DEF StackPart, StackTyped, StackStory
<1>2. payment[r] # NoPayment
  BY DEF NoPayment
<1>. QED  BY <1>1, <1>2 DEF StackBegun

\* An event that is not handled yet is of the current execution, with its naira on hold.
LEMMA LivePayKnows ==
    ASSUME StackPart, source = "CARD", CardCalm, NEW r \in Executions, LivePay(r)
    PROVE  /\ r = round /\ RoundsDone /\ CardParts /\ Occupied
           /\ charge[r].status = "PENDING" /\ charge[r].held = "RESERVED"
           /\ payment[r].at = "paid"
           /\ \A i \in DOMAIN swaps : ~LiveRow(i)
           /\ \A e \in Executions : LivePay(e) => e = r
<1>1. RoundsDone /\ CardParts /\ r = round
  BY CardKnows DEF CardParts, CardLive
<1>2. charge[r].status = "PENDING" /\ charge[r].held = "RESERVED" /\ payment[r].at = "paid"
      /\ payment[r].event # "done"
  BY <1>1 DEF CardParts, CardLive, CardPayments, LivePay
<1>3. \A i \in DOMAIN swaps : ~LiveRow(i)
  BY <1>1, <1>2 DEF CardParts, CardSwaps
<1>4. \A e \in Executions : LivePay(e) => e = r
  BY <1>1 DEF CardParts, CardLive
<1>5. Occupied
  BY DEF Occupied
<1>. QED  BY <1>1, <1>2, <1>3, <1>4, <1>5

\* A payment's event marks its order.
LEMMA CardPaidTells ==
    ASSUME StackPart, StackTyped', CountsDown, NEW r \in Executions, CardPaid(r) PROVE StackStory'
<1>0. /\ source = "CARD" /\ stack.status # "none" /\ payment[r].event = "waiting"
      /\ Budgets /\ ChargeOK /\ TradesOK /\ ActorsOK /\ StackBegun
      /\ \A i \in DOMAIN swaps : swaps[i].at = "open" => swaps[i].event = "none"
  BY PayerKnows DEF CardPaid
<1>1. UNCHANGED <<source, stack, round, due, dates, swaps, usd, src, coSrc, totals, job, request>>
  BY DEF CardPaid, plan, wallets, books
<1>2. Watching(r) => ~CardCalm'
  <2>1. Watching(r) \in BOOLEAN /\ Note(Watching(r), "early")
    BY DEF CardPaid, Watching
  <2>. QED  BY <1>0, <2>1, BudgetNoted, StackMishaps DEF CardCalm
<1>3. charge[r] \in ChargeRows /\ payment[r] \in StackPayments
  BY <1>0, ChargeKinds, PaymentKinds
<1>4. CASE Wanted(r)
  <2>1. PaymentNow(r, payment[r].at, "posting", charge[r].init, charge[r].held, payment[r].swap)
    <3>. DEFINE p == [payment[r] EXCEPT !.event = "posting", !.init = charge[r].init,
                                        !.held = charge[r].held]
    <3>1. payment' = [payment EXCEPT ![r] = p]
      BY <1>4 DEF CardPaid
    <3>2. p.at = payment[r].at /\ p.event = "posting" /\ p.init = charge[r].init
          /\ p.held = charge[r].held /\ p.swap = payment[r].swap
      BY <1>3 DEF StackPayments
    <3>. HIDE DEF p
    <3>. QED  BY <1>0, <3>1, <3>2, PaymentWritten
  <2>2. ChargeNow(r, charge[r].init, charge[r].held, charge[r].status, "marked")
    <3>. DEFINE c == [charge[r] EXCEPT !.order = "marked"]
    <3>1. charge' = [charge EXCEPT ![r] = c]
      BY <1>4 DEF CardPaid, SetCharge
    <3>2. c.init = charge[r].init /\ c.held = charge[r].held /\ c.status = charge[r].status
          /\ c.order = "marked"
      BY <1>3 DEF ChargeRows
    <3>. HIDE DEF c
    <3>. QED  BY <1>0, <3>1, <3>2, ChargeWritten
  <2>3. ASSUME CardCalm, CardCalm'
        PROVE  RoundsDone' /\ JobsAlone' /\ RowsAlone' /\ CardParts' /\ (Occupied' => Occupied)
    <3>0. LivePay(r)
      BY <1>0 DEF LivePay
    <3>1. /\ r = round /\ RoundsDone /\ CardParts /\ Occupied
          /\ charge[r].status = "PENDING" /\ charge[r].held = "RESERVED"
          /\ payment[r].at = "paid"
          /\ \A i \in DOMAIN swaps : ~LiveRow(i)
          /\ \A e \in Executions : LivePay(e) => e = r
      BY <1>0, <2>3, <3>0, LivePayKnows
    <3>2. \A k \in Jobs : ~Working(k)
      <4>. SUFFICES ASSUME NEW k \in Jobs, Working(k) PROVE FALSE
        OBVIOUS
      <4>1. job[k].round = round
        BY <1>0, <2>3, CardKnows DEF JobsAlone
      <4>2. job[k].pc = "posted"
        BY <3>1 DEF CardParts, CardJobs
      <4>. QED  BY <1>2, <2>3, <3>1, <4>1, <4>2 DEF Watching
    <3>3. charge[r].init = "SUBMITTED" /\ charge[r].order = "none"
          /\ \A i \in DOMAIN swaps : swaps[i].round # r
      BY <1>0, <3>0, <3>1, <3>2 DEF CardParts, CardRound, CardLive, Working
    <3>4. RoundsDone'
      BY <1>1, <2>2, <3>1 DEF RoundsDone, ChargeNow
    <3>5. JobsAlone' /\ RowsAlone'
      BY <1>1, <3>1, <3>2 DEF JobsAlone, RowsAlone, LiveRow, Working
    <3>6. CardPayments'
      <4>1. round \in Nat
        BY DEF StackPart, StackTyped, PlanOK
      <4>. QED  BY <1>1, <2>1, <2>2, <3>1, <4>1 DEF CardParts, CardPayments, PaymentNow, ChargeNow, Untold
    <3>7. CardLive'
      <4>1. \A e \in Executions : LivePay(e)' => e = r
        BY <2>1, <3>1 DEF LivePay, PaymentNow
      <4>. QED  BY <1>1, <2>1, <2>2, <3>1, <3>2, <3>3, <4>1 DEF CardLive, PaymentNow, ChargeNow, Working
    <3>8. CardSwaps'
      BY <1>1, <2>1, <3>1, <3>3, SwapKinds DEF CardParts, CardSwaps, PaymentNow, LiveRow, StackPart
    <3>9. CardRound' /\ CardJobs' /\ CardRequests'
      BY <1>1, <2>1, <2>2, <3>1, <3>2, <3>3 DEF CardParts, CardRound, CardJobs, CardRequests,
        PaymentNow, ChargeNow, Working
    <3>10. CardFunds'
      <4>1. Settled' = Settled /\ Held' = Held
        BY <2>2, SettledSame, HeldSame DEF ChargeNow
      <4>. QED  BY <1>1, <3>1, <4>1 DEF CardParts, CardFunds
    <3>. QED  BY <3>1, <3>4, <3>5, <3>6, <3>7, <3>8, <3>9, <3>10 DEF CardParts
  <2>4. ASSUME OnTime, OnTime' PROVE BoughtOnce'
    <3>1. BoughtOnce
      BY <2>4 DEF StackPart, StackStory, SoldOnce
    <3>2. \A i \in DOMAIN swaps : swaps[i].round # r
      BY <1>0, <3>1 DEF BoughtOnce
    <3>3. \A i \in DOMAIN swaps : payment'[swaps[i].round] = payment[swaps[i].round]
      BY <2>1, <3>2, SwapKinds DEF PaymentNow, StackPart
    <3>4. \A e \in Executions : payment'[e].event # "none" => payment'[e].at # "none"
      BY <1>0, <2>1, <3>1 DEF PaymentNow, BoughtOnce
    <3>. QED  BY <1>1, <3>1, <3>3, <3>4 DEF BoughtOnce
  <2>5. \A e \in Executions : charge'[e].status = "COMPLETED" <=> charge[e].status = "COMPLETED"
    BY <2>2 DEF ChargeNow
  <2>. QED  BY <1>0, <1>1, <2>3, <2>4, <2>5, CardPartsStep
<1>5. CASE ~Wanted(r)
  <2>1. UNCHANGED charge /\ PaymentNow(r, payment[r].at, "done", payment[r].init, payment[r].held, payment[r].swap)
    BY <1>0, <1>5, EventWritten DEF CardPaid
  <2>2. ~CardCalm
    <3>. SUFFICES ASSUME CardCalm PROVE FALSE
      OBVIOUS
    <3>1. LivePay(r)
      BY <1>0 DEF LivePay
    <3>2. CardParts /\ charge[r].status = "PENDING" /\ charge[r].held = "RESERVED"
      BY <1>0, <3>1, LivePayKnows
    <3>3. charge[r].order = "none"
      BY <1>0, <3>1, <3>2 DEF CardParts, CardLive
    <3>. QED  BY <1>5, <3>2, <3>3 DEF Wanted, Bought
  <2>3. ASSUME OnTime, OnTime' PROVE BoughtOnce'
    <3>1. BoughtOnce
      BY <2>3 DEF StackPart, StackStory, SoldOnce
    <3>2. \A i \in DOMAIN swaps : swaps[i].round # r
      BY <1>0, <3>1 DEF BoughtOnce
    <3>3. \A i \in DOMAIN swaps : payment'[swaps[i].round] = payment[swaps[i].round]
      BY <2>1, <3>2, SwapKinds DEF PaymentNow, StackPart
    <3>4. \A e \in Executions : payment'[e].event # "none" => payment'[e].at # "none"
      BY <1>0, <2>1, <3>1 DEF PaymentNow, BoughtOnce
    <3>. QED  BY <1>1, <3>1, <3>3, <3>4 DEF BoughtOnce
  <2>. QED  BY <1>0, <1>1, <2>1, <2>2, <2>3, CardPartsStep
<1>. QED  BY <1>4, <1>5

\* An order that is refused, or whose answer is not had: paid for, not bought for.
LEMMA OrderAgainTells ==
    ASSUME StackPart, StackTyped', CountsDown, NEW r \in Executions, payment[r].event = "posting",
           SetEvent(r, "waiting"),
           UNCHANGED <<source, stack, round, due, dates, swaps, usd, src, coSrc, totals, job, request>>,
           \/ Restored(r, "none")
           \/ UNCHANGED charge /\ ~CardCalm'
    PROVE  StackStory'
<1>0. /\ source = "CARD" /\ stack.status # "none"
      /\ Budgets /\ ChargeOK /\ TradesOK /\ ActorsOK /\ StackBegun
      /\ \A i \in DOMAIN swaps : swaps[i].at = "open" => swaps[i].event = "none"
  BY PayerKnows
<1>1. PaymentNow(r, payment[r].at, "waiting", payment[r].init, payment[r].held, payment[r].swap)
  BY <1>0, EventWritten
<1>2. \/ ChargeNow(r, payment[r].init, payment[r].held, charge[r].status, "none")
      \/ UNCHANGED charge /\ ~CardCalm'
  BY <1>0, RestoredTyped DEF ChargeNow
<1>3. ASSUME CardCalm, CardCalm'
      PROVE  RoundsDone' /\ JobsAlone' /\ RowsAlone' /\ CardParts' /\ (Occupied' => Occupied)
  <2>0. LivePay(r) /\ ChargeNow(r, payment[r].init, payment[r].held, charge[r].status, "none")
    BY <1>2, <1>3 DEF LivePay
  <2>1. /\ r = round /\ RoundsDone /\ CardParts /\ Occupied
        /\ charge[r].status = "PENDING" /\ charge[r].held = "RESERVED"
        /\ payment[r].at = "paid"
        /\ \A i \in DOMAIN swaps : ~LiveRow(i)
        /\ \A e \in Executions : LivePay(e) => e = r
    BY <1>0, <1>3, <2>0, LivePayKnows
  <2>2. /\ \A k \in Jobs : ~Working(k)
        /\ payment[r].init = "SUBMITTED" /\ payment[r].held = "RESERVED" /\ charge[r].init = "SUBMITTED"
        /\ \A i \in DOMAIN swaps : swaps[i].round # r
    BY <2>0, <2>1 DEF CardParts, CardLive
  <2>4. RoundsDone'
    BY <2>0, <2>1 DEF RoundsDone, ChargeNow
  <2>5. JobsAlone' /\ RowsAlone'
    BY <2>1, <2>2 DEF JobsAlone, RowsAlone, LiveRow, Working
  <2>6. CardPayments'
    <3>1. round \in Nat
      BY DEF StackPart, StackTyped, PlanOK
    <3>. QED  BY <1>1, <2>0, <2>1, <3>1 DEF CardParts, CardPayments, PaymentNow, ChargeNow, Untold
  <2>7. CardLive'
    <3>1. \A e \in Executions : LivePay(e)' => e = r
      BY <1>1, <2>1 DEF LivePay, PaymentNow
    <3>. QED  BY <1>1, <2>0, <2>1, <2>2, <3>1 DEF CardLive, PaymentNow, ChargeNow
  <2>8. CardSwaps'
    BY <1>1, <2>1, <2>2, SwapKinds DEF CardParts, CardSwaps, PaymentNow, LiveRow, StackPart
  <2>9. CardRound' /\ CardJobs' /\ CardRequests'
    BY <1>1, <2>0, <2>1, <2>2 DEF CardParts, CardRound, CardJobs, CardRequests, PaymentNow,
      ChargeNow, Working
  <2>10. CardFunds'
    <3>1. Settled' = Settled /\ Held' = Held
      BY <2>0, <2>1, <2>2, SettledSame, HeldSame DEF ChargeNow
    <3>. QED  BY <2>1, <3>1 DEF CardParts, CardFunds
  <2>. QED  BY <2>1, <2>4, <2>5, <2>6, <2>7, <2>8, <2>9, <2>10 DEF CardParts
<1>4. ASSUME OnTime, OnTime' PROVE BoughtOnce'
  <2>1. BoughtOnce
    BY <1>4 DEF StackPart, StackStory, SoldOnce
  <2>2. \A i \in DOMAIN swaps : swaps[i].round # r
    BY <1>0, <2>1 DEF BoughtOnce
  <2>3. \A i \in DOMAIN swaps : payment'[swaps[i].round] = payment[swaps[i].round]
    BY <1>1, <2>2, SwapKinds DEF PaymentNow, StackPart
  <2>4. \A e \in Executions : payment'[e].event # "none" => payment'[e].at # "none"
    BY <1>0, <1>1, <2>1 DEF PaymentNow, BoughtOnce
  <2>. QED  BY <2>1, <2>3, <2>4 DEF BoughtOnce
<1>5. \A e \in Executions : charge'[e].status = "COMPLETED" <=> charge[e].status = "COMPLETED"
  BY <1>2 DEF ChargeNow
<1>. QED  BY <1>0, <1>3, <1>4, <1>5, CardPartsStep

\* An order is posted for an execution that was paid, and that has none.
LEMMA CardOrderTells ==
    ASSUME StackPart, StackTyped', CountsDown, NEW r \in Executions, CardOrder(r) PROVE StackStory'
<1>. DEFINE new == [round |-> r, row |-> "none", at |-> "open", event |-> "none"]
            newest == Len(swaps) + 1
<1>0. /\ source = "CARD" /\ stack.status # "none" /\ payment[r].event = "posting"
      /\ Budgets /\ ChargeOK /\ TradesOK /\ ActorsOK /\ StackBegun
      /\ \A i \in DOMAIN swaps : swaps[i].at = "open" => swaps[i].event = "none"
  BY PayerKnows DEF CardOrder
<1>1. UNCHANGED <<source, stack, round, due, dates, usd, src, coSrc, totals, job, request>>
  BY DEF CardOrder, plan, wallets, books
<1>2. payment[r] \in StackPayments
  BY <1>0, PaymentKinds
<1>3. CASE /\ swaps' = Append(swaps, new) /\ UNCHANGED charge
           /\ \/ payment' = [payment EXCEPT ![r] = [payment[r] EXCEPT !.event = "posted", !.swap = newest]]
              \/ SetEvent(r, "waiting") /\ Spend("lostAnswer")
  <2>1. /\ DOMAIN swaps' = DOMAIN swaps \cup {newest} /\ newest \notin DOMAIN swaps
        /\ \A k \in DOMAIN swaps : swaps'[k] = swaps[k]
        /\ swaps'[newest].round = r /\ swaps'[newest].row = "none" /\ swaps'[newest].at = "open"
        /\ swaps'[newest].event = "none"
    <3>1. new \in StackSwaps /\ swaps \in Seq(StackSwaps)
      BY <1>0, NewSwapKind DEF TradesOK
    <3>2. new.round = r /\ new.row = "none" /\ new.event = "none" /\ new.at = "open"
      OBVIOUS
    <3>. HIDE DEF new
    <3>. QED  BY <1>3, <3>1, <3>2, SwapAdded
  <2>2. \/ PaymentNow(r, payment[r].at, "posted", payment[r].init, payment[r].held, newest)
        \/ /\ ~CardCalm' /\ ~OnTime'
    <3>. DEFINE p == [payment[r] EXCEPT !.event = "posted", !.swap = newest]
    <3>1. p.at = payment[r].at /\ p.event = "posted" /\ p.init = payment[r].init
          /\ p.held = payment[r].held /\ p.swap = newest
      BY <1>2 DEF StackPayments
    <3>2. payment' = [payment EXCEPT ![r] = p] \/ Spend("lostAnswer")
      BY <1>3
    <3>. HIDE DEF p, newest
    <3>. QED  BY <1>0, <3>1, <3>2, PaymentWritten, BudgetSpent, StackMishaps DEF CardCalm, OnTime
  <2>. HIDE DEF new, newest
  <2>3. ASSUME CardCalm, CardCalm'
        PROVE  RoundsDone' /\ JobsAlone' /\ RowsAlone' /\ CardParts' /\ (Occupied' => Occupied)
    <3>0. LivePay(r) /\ PaymentNow(r, payment[r].at, "posted", payment[r].init, payment[r].held, newest)
      BY <1>0, <2>2, <2>3 DEF LivePay
    <3>1. /\ r = round /\ RoundsDone /\ CardParts /\ Occupied
          /\ charge[r].status = "PENDING" /\ charge[r].held = "RESERVED"
          /\ payment[r].at = "paid"
          /\ \A i \in DOMAIN swaps : ~LiveRow(i)
          /\ \A e \in Executions : LivePay(e) => e = r
      BY <1>0, <2>3, <3>0, LivePayKnows
    <3>2. /\ \A k \in Jobs : ~Working(k)
          /\ payment[r].init = "SUBMITTED" /\ payment[r].held = "RESERVED" /\ charge[r].init = "SUBMITTED"
          /\ charge[r].order = "marked"
          /\ \A i \in DOMAIN swaps : swaps[i].round # r
      BY <1>0, <3>0, <3>1 DEF CardParts, CardLive
    <3>3. \A i \in DOMAIN swaps' : ~LiveRow(i)'
      BY <2>1, <3>1 DEF LiveRow
    <3>4. RoundsDone'
      BY <1>1, <1>3, <2>1, <3>1 DEF RoundsDone, StackPart, StackTyped, PlanOK
    <3>5. JobsAlone' /\ RowsAlone'
      BY <1>1, <3>2, <3>3 DEF JobsAlone, RowsAlone, Working
    <3>6. CardPayments'
      <4>1. \A e \in Executions : payment'[e].event = "done" => payment[e].event = "done"
        BY <3>0 DEF PaymentNow
      <4>2. \A e \in Executions : e > round => e # r
        BY <3>1 DEF StackPart, StackTyped, PlanOK
      <4>. QED  BY <1>1, <1>3, <2>1, <3>0, <3>1, <4>1, <4>2 DEF CardParts, CardPayments, PaymentNow, Untold
    <3>7. CardLive'
      <4>1. \A e \in Executions : LivePay(e)' => e = r
        BY <3>0, <3>1 DEF LivePay, PaymentNow
      <4>. QED  BY <1>1, <1>3, <2>1, <3>0, <3>1, <3>2, <4>1 DEF CardLive, PaymentNow, Working
    <3>8. CardSwaps'
      <4>1. \A i \in DOMAIN swaps : swaps[i].round \in Executions /\ swaps[i].round # r
        BY <3>2, SwapKinds DEF StackPart
      <4>2. \A i \in DOMAIN swaps : payment'[swaps[i].round] = payment[swaps[i].round]
        BY <3>0, <4>1 DEF PaymentNow
      <4>3. payment'[r].event = "posted" /\ payment'[r].swap = newest
        BY <3>0 DEF PaymentNow
      <4>. QED  BY <2>1, <3>1, <3>3, <4>1, <4>2, <4>3 DEF CardParts, CardSwaps
    <3>9. CardRound' /\ CardJobs' /\ CardRequests'
      BY <1>1, <1>3, <3>0, <3>1, <3>2 DEF CardParts, CardRound, CardJobs, CardRequests, PaymentNow, Working
    <3>10. CardFunds'
      BY <1>1, <1>3, <3>1 DEF CardParts, CardFunds, Settled, Held
    <3>. QED  BY <3>1, <3>4, <3>5, <3>6, <3>7, <3>8, <3>9, <3>10 DEF CardParts
  <2>4. ASSUME OnTime, OnTime' PROVE BoughtOnce'
    <3>1. BoughtOnce /\ PaymentNow(r, payment[r].at, "posted", payment[r].init, payment[r].held, newest)
      BY <2>2, <2>4 DEF StackPart, StackStory, SoldOnce
    <3>2. \A i \in DOMAIN swaps : swaps[i].round # r
      BY <1>0, <3>1 DEF BoughtOnce
    <3>3. \A i \in DOMAIN swaps : payment'[swaps[i].round] = payment[swaps[i].round]
      BY <3>1, <3>2, SwapKinds DEF PaymentNow, StackPart
    <3>4. \A e \in Executions : payment'[e].event # "none" => payment'[e].at # "none"
      BY <1>0, <3>1 DEF PaymentNow, BoughtOnce
    <3>5. payment'[r].event = "posted"
      BY <3>1 DEF PaymentNow
    <3>. QED  BY <1>0, <2>1, <3>1, <3>2, <3>3, <3>4, <3>5 DEF BoughtOnce
  <2>5. \A i \in DOMAIN swaps' : swaps'[i].at = "open" => swaps'[i].event = "none"
    BY <1>0, <2>1
  <2>. QED  BY <1>0, <1>1, <1>3, <2>3, <2>4, <2>5, CardPartsStep
<1>4. CASE Spend("refusal") /\ SetEvent(r, "waiting") /\ Restored(r, "none") /\ UNCHANGED swaps
  BY <1>0, <1>1, <1>4, OrderAgainTells
<1>5. CASE Spend("error") /\ SetEvent(r, "waiting") /\ UNCHANGED <<charge, swaps>>
  <2>1. ~CardCalm'
    BY <1>0, <1>5, BudgetSpent, StackMishaps DEF CardCalm
  <2>. QED  BY <1>0, <1>1, <1>5, <2>1, OrderAgainTells
<1>6. \/ /\ swaps' = Append(swaps, new) /\ UNCHANGED charge
         /\ \/ payment' = [payment EXCEPT ![r] = [payment[r] EXCEPT !.event = "posted", !.swap = newest]]
            \/ SetEvent(r, "waiting") /\ Spend("lostAnswer")
      \/ Spend("refusal") /\ SetEvent(r, "waiting") /\ Restored(r, "none") /\ UNCHANGED swaps
      \/ Spend("error") /\ SetEvent(r, "waiting") /\ UNCHANGED <<charge, swaps>>
  BY DEF CardOrder
<1>. QED  BY <1>3, <1>4, <1>5, <1>6

\* The row of an order is written, unless Quidax refused it.
LEMMA CardOrderedTells ==
    ASSUME StackPart, StackTyped', CountsDown, NEW r \in Executions, CardOrdered(r) PROVE StackStory'
<1>. DEFINE i == payment[r].swap
<1>0. /\ source = "CARD" /\ stack.status # "none" /\ payment[r].event = "posted"
      /\ Budgets /\ ChargeOK /\ TradesOK /\ ActorsOK /\ StackBegun
      /\ \A k \in DOMAIN swaps : swaps[k].at = "open" => swaps[k].event = "none"
  BY PayerKnows DEF CardOrdered
<1>1. UNCHANGED <<source, stack, round, due, dates, usd, src, coSrc, totals, job, request>>
  BY DEF CardOrdered, plan, wallets, books
<1>3. CASE RowsOf(r) /\ Restored(r, "placed") /\ SetEvent(r, "done")
  <2>1. /\ DOMAIN swaps' = DOMAIN swaps
        /\ \A k \in DOMAIN swaps :
              /\ swaps'[k].row = (IF k = i THEN "PENDING"
                                  ELSE IF swaps[k].round = r THEN "none" ELSE swaps[k].row)
              /\ swaps'[k].round = swaps[k].round /\ swaps'[k].at = swaps[k].at
              /\ swaps'[k].event = swaps[k].event
    BY <1>0, <1>3, RowsWritten DEF TradesOK
  <2>2. PaymentNow(r, payment[r].at, "done", payment[r].init, payment[r].held, i)
    BY <1>0, <1>3, EventWritten
  <2>3. ChargeNow(r, payment[r].init, payment[r].held, charge[r].status, "placed")
    BY <1>0, <1>3, RestoredTyped DEF ChargeNow
  <2>. HIDE DEF i
  <2>4. ASSUME CardCalm
        PROVE  RoundsDone' /\ JobsAlone' /\ RowsAlone' /\ CardParts' /\ (Occupied' => Occupied)
    <3>0. LivePay(r)
      BY <1>0 DEF LivePay
    <3>1. /\ r = round /\ RoundsDone /\ CardParts /\ Occupied
          /\ charge[r].status = "PENDING" /\ charge[r].held = "RESERVED"
          /\ payment[r].at = "paid"
          /\ \A k \in DOMAIN swaps : ~LiveRow(k)
          /\ \A e \in Executions : LivePay(e) => e = r
      BY <1>0, <2>4, <3>0, LivePayKnows
    <3>2. /\ \A k \in Jobs : ~Working(k)
          /\ payment[r].init = "SUBMITTED" /\ payment[r].held = "RESERVED" /\ charge[r].init = "SUBMITTED"
          /\ i \in DOMAIN swaps /\ swaps[i].round = r /\ swaps[i].row = "none"
          /\ swaps[i].event # "done"
      BY <1>0, <3>0, <3>1 DEF CardParts, CardLive, i
    <3>3. \A k \in DOMAIN swaps : swaps[k].round = r <=> k = i
      BY <3>1, <3>2 DEF CardParts, CardSwaps
    <3>4. \A k \in DOMAIN swaps : LiveRow(k)' => k = i
      BY <2>1, <3>1, <3>3 DEF LiveRow
    <3>5. /\ charge'[r].init = "SUBMITTED" /\ charge'[r].held = "RESERVED"
          /\ charge'[r].status = "PENDING" /\ charge'[r].order = "placed"
          /\ \A e \in Executions \ {r} : charge'[e] = charge[e]
          /\ payment'[r].event = "done" /\ payment'[r].at = "paid"
          /\ \A e \in Executions \ {r} : payment'[e] = payment[e]
      BY <2>2, <2>3, <3>1, <3>2 DEF ChargeNow, PaymentNow
    <3>6. RoundsDone'
      BY <1>1, <2>1, <2>3, <3>1 DEF RoundsDone, ChargeNow
    <3>7. JobsAlone'
      BY <1>1, <3>2 DEF JobsAlone, Working
    <3>8. RowsAlone'
      BY <1>1, <2>1, <3>1, <3>2, <3>4, <3>5 DEF RowsAlone
    <3>9. CardPayments'
      <4>1. \A e \in Executions : e > round => e # r
        BY <3>1 DEF StackPart, StackTyped, PlanOK
      <4>2. \E k \in DOMAIN swaps' : swaps'[k].round = r
        BY <2>1, <3>2
      <4>. QED  BY <1>1, <2>1, <3>1, <3>5, <4>1, <4>2 DEF CardParts, CardPayments, Untold
    <3>10. CardLive'
      <4>1. \A e \in Executions : ~LivePay(e)'
        BY <3>1, <3>5 DEF LivePay
      <4>. QED  BY <4>1 DEF CardLive
    <3>11. CardSwaps'
      <4>1. \A k \in DOMAIN swaps : swaps[k].round \in Executions
        BY SwapKinds DEF StackPart
      <4>2. \A k \in DOMAIN swaps : k # i => payment'[swaps[k].round] = payment[swaps[k].round]
        BY <3>3, <3>5, <4>1
      <4>. QED  BY <1>1, <2>1, <3>1, <3>2, <3>3, <3>4, <3>5, <4>2 DEF CardParts, CardSwaps
    <3>12. CardRound' /\ CardJobs' /\ CardRequests'
      BY <1>1, <3>1, <3>2, <3>5 DEF CardParts, CardRound, CardJobs, CardRequests, Working
    <3>13. CardFunds'
      <4>1. Settled' = Settled /\ Held' = Held
        BY <3>1, <3>5, SettledSame, HeldSame
      <4>. QED  BY <1>1, <3>1, <4>1 DEF CardParts, CardFunds
    <3>. QED  BY <3>1, <3>6, <3>7, <3>8, <3>9, <3>10, <3>11, <3>12, <3>13 DEF CardParts
  <2>5. ASSUME OnTime PROVE BoughtOnce'
    <3>1. BoughtOnce
      BY <2>5 DEF StackPart, StackStory, SoldOnce
    <3>2. \A k \in DOMAIN swaps : payment'[swaps[k].round].event \in {"posted", "done"}
      BY <1>0, <2>2, <3>1, SwapKinds DEF BoughtOnce, PaymentNow, StackPart
    <3>3. \A e \in Executions : payment'[e].event # "none" => payment'[e].at # "none"
      BY <1>0, <2>2, <3>1 DEF BoughtOnce, PaymentNow
    <3>. QED  BY <1>0, <2>1, <3>1, <3>2, <3>3 DEF BoughtOnce
  <2>6. \A e \in Executions : charge'[e].status = "COMPLETED" <=> charge[e].status = "COMPLETED"
    BY <2>3 DEF ChargeNow
  <2>7. \A k \in DOMAIN swaps' : swaps'[k].at = "open" => swaps'[k].event = "none"
    BY <1>0, <2>1
  <2>. QED  BY <1>0, <1>1, <2>4, <2>5, <2>6, <2>7, CardPartsStep
<1>4. CASE Spend("error") /\ SetEvent(r, "waiting") /\ UNCHANGED <<charge, swaps>>
  <2>1. ~CardCalm' /\ ~OnTime'
    BY <1>0, <1>4, BudgetSpent, StackMishaps DEF CardCalm, OnTime
  <2>2. \A e \in Executions : charge'[e].status = "COMPLETED" <=> charge[e].status = "COMPLETED"
    BY <1>4
  <2>3. \A k \in DOMAIN swaps' : swaps'[k].at = "open" => swaps'[k].event = "none"
    BY <1>0, <1>4
  <2>. QED  BY <1>0, <1>1, <2>1, <2>2, <2>3, CardPartsStep
<1>5. \/ RowsOf(r) /\ Restored(r, "placed") /\ SetEvent(r, "done")
      \/ Spend("error") /\ SetEvent(r, "waiting") /\ UNCHANGED <<charge, swaps>>
  BY DEF CardOrdered, RowsOf
<1>. QED  BY <1>3, <1>4, <1>5

\* What the company's naira are enough for, and what an order that is news is like.
LEMMA OrderKnows ==
    ASSUME StackPart, source = "CARD", CardCalm, NEW i \in DOMAIN swaps, LiveRow(i)
    PROVE  /\ swaps[i].round = round /\ RoundsDone /\ CardParts /\ Occupied /\ round \in Executions
           /\ charge[round].init = "SUBMITTED" /\ charge[round].held = "RESERVED"
           /\ charge[round].status = "PENDING" /\ charge[round].order = "placed"
           /\ payment[round].event = "done" /\ payment[round].at = "paid"
           /\ \A j \in Jobs : ~Working(j)
           /\ \A k \in DOMAIN swaps : LiveRow(k) => k = i
           /\ \A e \in Executions : ~LivePay(e)
           /\ Backed(i) /\ BackedBy(i) = CardCost
           /\ CanConsumeLiquidity(coSrc, CardCost) /\ CanReleaseLiquidity(coSrc, CardCost)
<1>1. /\ RoundsDone /\ JobsAlone /\ RowsAlone /\ CardParts
      /\ swaps[i].round = round /\ \A k \in DOMAIN swaps : LiveRow(k) => k = i
  BY CardKnows DEF RowsAlone
<1>2. round \in Executions
  BY <1>1, SwapKinds DEF StackPart
<1>3. /\ charge[round].init = "SUBMITTED" /\ charge[round].held = "RESERVED"
      /\ charge[round].status = "PENDING" /\ charge[round].order = "placed"
      /\ payment[round].event = "done" /\ payment[round].at = "paid"
  BY <1>1, <1>2 DEF CardParts, CardSwaps, CardPayments
<1>4. \A j \in Jobs : ~Working(j)
  BY <1>1 DEF JobsAlone
<1>5. \A e \in Executions : ~LivePay(e)
  BY <1>1, <1>3 DEF CardParts, CardLive, LivePay
<1>6. Backed(i) /\ BackedBy(i) = CardCost
  <2>1. CardCost \in Nat
    BY StackKinds
  <2>. QED  BY <1>1, <1>3, <2>1 DEF Backed, BackedBy
<1>7. CanConsumeLiquidity(coSrc, CardCost) /\ CanReleaseLiquidity(coSrc, CardCost)
  <2>1. Cardinality(Held) >= 1 /\ Cardinality(Held) \in Nat
    BY <1>2, <1>3, SomeHeld, StackSets DEF StackPart, StackTyped
  <2>2. CardCost * Cardinality(Held) >= CardCost /\ CardCost * Cardinality(Held) \in Nat
    BY <2>1, TimesMore, StackKinds
  <2>3. coSrc.reserved = NairaReserved + CardCost * Cardinality(Held) /\ NairaReserved \in Nat
        /\ CardCost \in Nat
    BY <1>1, AutostackAssumption DEF CardParts, CardFunds
  <2>4. coSrc.reserved >= CardCost
    BY <2>2, <2>3
  <2>5. coSrc.reserved <= coSrc.total /\ coSrc.reserved \in Nat /\ coSrc.total \in Nat
    BY DEF StackPart, StackTyped, HoldsOK, GoodCompany, CompanySolvent, CompanyAccounts
  <2>6. coSrc.total >= CardCost
    BY <2>3, <2>4, <2>5
  <2>. QED  BY <2>4, <2>6 DEF CanConsumeLiquidity, CanReleaseLiquidity
<1>. QED  BY <1>1, <1>2, <1>3, <1>4, <1>5, <1>6, <1>7 DEF Occupied

\* The naira that an order of the current execution no longer holds.
LEMMA NairaSpent ==
    ASSUME StackPart, StackTyped', source = "CARD", CardCalm, NEW r \in Executions,
           charge[r].held = "RESERVED", charge'[r].held # "RESERVED",
           \A k \in Executions \ {r} : charge'[k] = charge[k],
           coSrc'.reserved = coSrc.reserved - CardCost
    PROVE  coSrc'.reserved = NairaReserved + CardCost * Cardinality(Held')
<1>. DEFINE n == Cardinality(Held')
<1>1. n \in Nat /\ Cardinality(Held) = n + 1
  BY StackSetsNext, HeldShrinks DEF StackPart, StackTyped
<1>2. coSrc.reserved = NairaReserved + CardCost * Cardinality(Held)
  BY CardKnows DEF CardParts, CardFunds
<1>3. CardCost * (n + 1) = CardCost * n + CardCost /\ CardCost * n \in Nat
  BY <1>1, TimesMore, StackKinds
<1>4. CardCost \in Nat /\ NairaReserved \in Nat
  BY AutostackAssumption
<1>. HIDE DEF n
<1>. QED  BY <1>1, <1>2, <1>3, <1>4 DEF n

\* An order that is filled spends the naira its execution held.
LEMMA OrderFillsTells ==
    ASSUME StackPart, StackTyped', CountsDown, NEW i \in DOMAIN swaps, source = "CARD",
           swaps[i].event = "waiting", CanFill(i), OrderFills(i),
           swaps' = [swaps EXCEPT ![i] = [swaps[i] EXCEPT !.event = "done", !.row = "COMPLETED"]],
           UNCHANGED <<source, dates, payment, src, job, request>>
    PROVE  StackStory'
<1>. DEFINE r == swaps[i].round
            init == IF Backed(i) THEN "COMPLETED" ELSE charge[r].init
            held == IF Backed(i) THEN "CONSUMED" ELSE charge[r].held
<1>0. Budgets /\ PlanOK /\ ChargeOK /\ HoldsOK
  BY DEF StackPart, StackTyped
<1>1. r \in Executions /\ charge[r] \in ChargeRows
  BY SwapKinds DEF StackPart
<1>2. swaps[i].row = "PENDING" /\ charge[r].status = "PENDING" /\ Settling(i) /\ LiveRow(i)
  BY DEF CanFill, OrderIsNews, OrderFills, Settling, LiveRow
<1>3. ChargeNow(r, init, held, "COMPLETED", charge[r].order)
  <2>. DEFINE c == [charge[r] EXCEPT !.init = "COMPLETED", !.held = "CONSUMED", !.status = "COMPLETED"]
              d == [charge[r] EXCEPT !.status = "COMPLETED"]
  <2>1. charge' = [charge EXCEPT ![r] = IF Backed(i) THEN c ELSE d]
    BY DEF OrderFills
  <2>2. c.init = "COMPLETED" /\ c.held = "CONSUMED" /\ c.status = "COMPLETED" /\ c.order = charge[r].order
    BY <1>1 DEF ChargeRows
  <2>3. d.init = charge[r].init /\ d.held = charge[r].held /\ d.status = "COMPLETED"
        /\ d.order = charge[r].order
    BY <1>1 DEF ChargeRows
  <2>. HIDE DEF c, d
  <2>4. CASE Backed(i)
    BY <1>0, <1>1, <2>1, <2>2, <2>4, ChargeWritten
  <2>5. CASE ~Backed(i)
    BY <1>0, <1>1, <2>1, <2>3, <2>5, ChargeWritten
  <2>. QED  BY <2>4, <2>5
<1>4. /\ StackBegun' /\ StackSums' /\ OneAtWork' /\ StackDates' /\ SoldOnce'
      /\ DOMAIN swaps' = DOMAIN swaps
      /\ \A k \in DOMAIN swaps :
            /\ swaps'[k].row = IF k = i THEN "COMPLETED" ELSE swaps[k].row
            /\ swaps'[k].round = swaps[k].round /\ swaps'[k].at = swaps[k].at
            /\ swaps'[k].event = IF k = i THEN "done" ELSE swaps[k].event
      /\ round' = round + 1 /\ Cardinality(Settled') = Cardinality(Settled) + 1
  <2>. HIDE DEF r, init, held
  <2>1. charge[swaps[i].round].status = "PENDING"
        /\ ChargeNow(swaps[i].round, init, held, "COMPLETED", charge[swaps[i].round].order)
    BY <1>2, <1>3 DEF r
  <2>. QED  BY <1>2, <2>1, SettlingTells
<1>5. CardStory'
  <2>. SUFFICES ASSUME CardCalm' PROVE CardParts'
    BY DEF CardStory, CardParts
  <2>1. /\ CardCalm /\ r = round /\ RoundsDone /\ CardParts /\ round \in Executions
        /\ charge[round].held = "RESERVED" /\ charge[round].order = "placed"
        /\ payment[round].event = "done" /\ payment[round].at = "paid"
        /\ \A j \in Jobs : ~Working(j)
        /\ \A k \in DOMAIN swaps : LiveRow(k) => k = i
        /\ \A e \in Executions : ~LivePay(e)
        /\ Backed(i) /\ BackedBy(i) = CardCost
    BY <1>0, <1>2, StackCalm, OrderKnows
  <2>2. /\ charge'[round].held = "CONSUMED" /\ charge'[round].status = "COMPLETED"
        /\ \A e \in Executions \ {round} : charge'[e] = charge[e]
    BY <1>3, <2>1 DEF ChargeNow
  <2>3. round \in Nat /\ Executions \subseteq Nat
    BY <1>0, ExecutionsFinite DEF PlanOK
  <2>4. CardPayments'
    <3>1. \A e \in Executions : e > round + 1 => e > round /\ e # round
      BY <2>3
    <3>. QED  BY <1>4, <2>1, <2>2, <3>1 DEF CardParts, CardPayments, Untold
  <2>5. CardLive'
    BY <2>1 DEF CardLive, LivePay
  <2>6. CardSwaps'
    <3>1. \A k \in DOMAIN swaps : ~LiveRow(k)'
      BY <1>4, <2>1 DEF LiveRow
    <3>. QED  BY <1>2, <1>4, <2>1, <3>1 DEF CardParts, CardSwaps
  <2>7. CardRound'
    <3>. SUFFICES ASSUME round + 1 \in Executions PROVE CardRound'
      BY <1>4 DEF CardRound
    <3>1. round + 1 > round /\ round + 1 # round
      BY <2>3
    <3>2. Untold(round + 1) /\ payment[round + 1] = NoPayment /\ charge'[round + 1] = charge[round + 1]
      BY <2>1, <2>2, <3>1 DEF CardParts, CardPayments
    <3>. QED  BY <1>4, <3>2 DEF CardRound, Untold, NoPayment
  <2>8. CardJobs' /\ CardRequests'
    BY <2>1 DEF CardParts, CardJobs, CardRequests, Working
  <2>9. CardFunds'
    <3>1. coSrc'.reserved = coSrc.reserved - CardCost /\ coSrc'.total = coSrc.total - CardCost
      <4>1. coSrc' = ConsumeReservedLiquidity(coSrc, CardCost) /\ coSrc \in CompanyAccounts
        BY <1>0, <2>1 DEF OrderFills, HoldsOK, GoodCompany
      <4>. QED  BY <4>1 DEF ConsumeReservedLiquidity, CompanyAccounts
    <3>2. coSrc'.reserved = NairaReserved + CardCost * Cardinality(Held')
      BY <2>1, <2>2, <3>1, NairaSpent
    <3>. DEFINE n == Cardinality(Settled)
    <3>3. coSrc.total = CompanyNaira - CardCost * n /\ n \in Nat /\ CardCost \in Nat /\ CompanyNaira \in Nat
      BY <1>0, <2>1, StackSets, AutostackAssumption DEF CardParts, CardFunds
    <3>4. CardCost * (n + 1) = CardCost * n + CardCost /\ CardCost * n \in Nat
      BY <3>3, TimesMore
    <3>. HIDE DEF n
    <3>5. coSrc'.total = CompanyNaira - CardCost * Cardinality(Settled')
      BY <1>4, <3>1, <3>3, <3>4 DEF n
    <3>. QED  BY <3>2, <3>5 DEF CardFunds
  <2>. QED  BY <2>4, <2>5, <2>6, <2>7, <2>8, <2>9 DEF CardParts
<1>6. StackHolds'
  BY DEF StackHolds, HoldsCalm
<1>. QED  BY <1>4, <1>5, <1>6 DEF StackStory

\* An order's webhook settles its execution, or gives back its naira.
LEMMA CardOrderDoneTells ==
    ASSUME StackPart, StackTyped', CountsDown, NEW i \in DOMAIN swaps, CardOrderDone(i) PROVE StackStory'
<1>. DEFINE r == swaps[i].round
            ended(row) == swaps' = [swaps EXCEPT ![i] = [swaps[i] EXCEPT !.event = "done", !.row = row]]
<1>0. Budgets /\ PlanOK /\ ChargeOK /\ TradesOK /\ HoldsOK /\ ActorsOK /\ StackBegun
  BY DEF StackPart, StackTyped, StackStory
<1>1. source = "CARD" /\ swaps[i].event = "waiting" /\ UNCHANGED <<source, dates, payment, src, job, request>>
  BY DEF CardOrderDone
<1>2. r \in Executions /\ charge[r] \in ChargeRows
      /\ swaps[i].row \in {"none", "PENDING", "COMPLETED", "FAILED"}
  BY SwapKinds DEF StackPart
<1>3. stack.status # "none"
  BY <1>0 DEF StackBegun
<1>4. CASE CanFill(i) /\ OrderFills(i) /\ ended("COMPLETED")
  BY <1>1, <1>4, OrderFillsTells
<1>5. CASE CanReject(i) /\ OrderFails(i) /\ ended("FAILED")
  <2>. DEFINE h == IF Backed(i) /\ swaps[i].at = "failed" THEN "RELEASED" ELSE charge[r].held
  <2>1. swaps[i].row = "PENDING" /\ charge[r].status = "PENDING" /\ LiveRow(i)
        /\ UNCHANGED <<usd, totals, stack, round, due, budget>>
    BY <1>1, <1>5 DEF CanReject, OrderIsNews, OrderFails, plan, LiveRow
  <2>2. ChargeNow(r, charge[r].init, h, "FAILED", charge[r].order)
    <3>. DEFINE c == [charge[r] EXCEPT !.held = h, !.status = "FAILED"]
    <3>1. charge' = [charge EXCEPT ![r] = c]
      BY <1>5 DEF OrderFails
    <3>. HIDE DEF h
    <3>2. c.init = charge[r].init /\ c.held = h /\ c.status = "FAILED" /\ c.order = charge[r].order
      BY <1>2 DEF ChargeRows
    <3>. HIDE DEF c
    <3>. QED  BY <1>0, <1>2, <3>1, <3>2, ChargeWritten
  <2>3. /\ DOMAIN swaps' = DOMAIN swaps
        /\ \A k \in DOMAIN swaps :
              /\ swaps'[k].row = IF k = i THEN "FAILED" ELSE swaps[k].row
              /\ swaps'[k].round = swaps[k].round /\ swaps'[k].at = swaps[k].at
              /\ swaps'[k].event = IF k = i THEN "done" ELSE swaps[k].event
    BY <1>0, <1>1, <1>5, SwapEnded
  <2>4. ASSUME CardCalm
        PROVE  RoundsDone' /\ JobsAlone' /\ RowsAlone' /\ CardParts' /\ (Occupied' => Occupied)
    <3>1. /\ r = round /\ RoundsDone /\ CardParts /\ Occupied /\ round \in Executions
          /\ charge[round].init = "SUBMITTED" /\ charge[round].held = "RESERVED"
          /\ charge[round].status = "PENDING" /\ charge[round].order = "placed"
          /\ payment[round].event = "done" /\ payment[round].at = "paid"
          /\ \A j \in Jobs : ~Working(j)
          /\ \A k \in DOMAIN swaps : LiveRow(k) => k = i
          /\ \A e \in Executions : ~LivePay(e)
          /\ Backed(i) /\ BackedBy(i) = CardCost /\ CanConsumeLiquidity(coSrc, CardCost)
      BY <1>1, <2>1, <2>4, OrderKnows
    <3>2. swaps[i].at = "failed"
      <4>1. swaps[i] \in StackSwaps /\ swaps[i].at \notin {"open", "cancelled", "refused"}
        BY <1>1, <3>1, SwapKinds DEF CardParts, CardSwaps, StackPart
      <4>2. swaps[i].at # "completed"
        BY <1>5, <2>1, <3>1 DEF CanReject, CanFill, OrderIsNews
      <4>. QED  BY <4>1, <4>2 DEF StackSwaps
    <3>3. /\ charge'[round].init = "SUBMITTED" /\ charge'[round].held = "RELEASED"
          /\ charge'[round].status = "FAILED" /\ charge'[round].order = "placed"
          /\ \A e \in Executions \ {round} : charge'[e] = charge[e]
      BY <2>2, <3>1, <3>2 DEF ChargeNow
    <3>4. \A k \in DOMAIN swaps : ~LiveRow(k)'
      BY <2>3, <3>1 DEF LiveRow
    <3>5. RoundsDone'
      BY <2>1, <2>3, <3>1, <3>3 DEF RoundsDone
    <3>6. JobsAlone' /\ RowsAlone'
      BY <1>1, <2>3, <3>1, <3>4 DEF JobsAlone, RowsAlone, Working
    <3>7. CardPayments'
      <4>1. \A e \in Executions : e > round => e # round
        BY <1>0 DEF PlanOK
      <4>. QED  BY <1>1, <2>1, <2>3, <3>1, <3>3, <4>1 DEF CardParts, CardPayments, Untold
    <3>8. CardLive'
      BY <1>1, <3>1 DEF CardLive, LivePay
    <3>9. CardSwaps'
      BY <1>1, <2>1, <2>3, <3>1, <3>4 DEF CardParts, CardSwaps
    <3>10. CardRound' /\ CardJobs' /\ CardRequests'
      BY <1>1, <2>1, <3>1, <3>3 DEF CardParts, CardRound, CardJobs, CardRequests, Working
    <3>11. CardFunds'
      <4>1. Settled' = Settled
        BY <3>1, <3>3, SettledSame
      <4>2. coSrc'.reserved = coSrc.reserved - CardCost /\ coSrc'.total = coSrc.total
        <5>1. coSrc' = ReleaseLiquidity(coSrc, CardCost) /\ coSrc \in CompanyAccounts
          BY <1>0, <1>5, <3>1 DEF OrderFails, HoldsOK, GoodCompany
        <5>. QED  BY <5>1 DEF ReleaseLiquidity, CompanyAccounts
      <4>3. coSrc'.reserved = NairaReserved + CardCost * Cardinality(Held')
        BY <1>1, <2>4, <3>1, <3>3, <4>2, NairaSpent
      <4>. QED  BY <3>1, <4>1, <4>2, <4>3 DEF CardParts, CardFunds
    <3>. QED  BY <3>1, <3>5, <3>6, <3>7, <3>8, <3>9, <3>10, <3>11 DEF CardParts
  <2>5. OnTime => BoughtOnce'
    BY <1>1, <2>3 DEF StackPart, StackStory, SoldOnce, BoughtOnce
  <2>6. \A e \in Executions : charge'[e].status = "COMPLETED" <=> charge[e].status = "COMPLETED"
    BY <2>1, <2>2 DEF ChargeNow
  <2>7. \A k \in DOMAIN swaps' : swaps'[k].at = "open" => swaps'[k].event = "none"
    BY <1>0, <1>1, <2>3 DEF StackBegun
  <2>. HIDE DEF h, r
  <2>. QED  BY <1>1, <1>3, <2>1, <2>4, <2>5, <2>6, <2>7, CardPartsStep
<1>6. CASE /\ ~CanFill(i) /\ ~CanReject(i) /\ ended(swaps[i].row)
           /\ Note(swaps[i].row = "none", "early") /\ UNCHANGED <<coSrc, charge, usd, totals, plan>>
  <2>. DEFINE row == swaps[i].row
  <2>1. UNCHANGED <<coSrc, charge, usd, totals, stack, round, due>>
    BY <1>6 DEF plan
  <2>2. ended(row) /\ row \in {"none", "PENDING", "COMPLETED", "FAILED"}
    BY <1>2, <1>6
  <2>3. CardCalm => ~CardCalm'
    <3>. SUFFICES ASSUME CardCalm, CardCalm' PROVE FALSE
      OBVIOUS
    <3>1. swaps[i].row # "none"
      <4>1. (swaps[i].row = "none") \in BOOLEAN /\ Note(swaps[i].row = "none", "early")
        BY <1>6
      <4>. HIDE DEF row
      <4>. QED  BY <1>0, <4>1, BudgetNoted, StackMishaps DEF CardCalm
    <3>2. swaps[i].row \notin {"COMPLETED", "FAILED"}
      BY <1>1, CardKnows DEF CardParts, CardSwaps
    <3>3. LiveRow(i)
      BY <1>1, <1>2, <3>1, <3>2 DEF LiveRow
    <3>4. /\ r = round /\ charge[round].status = "PENDING" /\ BackedBy(i) = CardCost
          /\ CanReleaseLiquidity(coSrc, CardCost)
      BY <1>1, <3>3, OrderKnows
    <3>5. OrderIsNews(i)
      BY <3>3, <3>4 DEF OrderIsNews, LiveRow
    <3>. QED  BY <1>6, <3>4, <3>5 DEF CanReject
  <2>. HIDE DEF row
  <2>4. /\ DOMAIN swaps' = DOMAIN swaps
        /\ \A k \in DOMAIN swaps :
              /\ swaps'[k].round = swaps[k].round /\ swaps'[k].at = swaps[k].at
              /\ swaps'[k].event = IF k = i THEN "done" ELSE swaps[k].event
    BY <1>0, <1>1, <2>2, SwapEnded
  <2>5. OnTime => BoughtOnce'
    BY <1>1, <2>4 DEF StackPart, StackStory, SoldOnce, BoughtOnce
  <2>6. \A k \in DOMAIN swaps' : swaps'[k].at = "open" => swaps'[k].event = "none"
    BY <1>0, <1>1, <2>4 DEF StackBegun
  <2>. QED  BY <1>1, <1>3, <2>1, <2>3, <2>5, <2>6, CardPartsStep
<1>7. \/ CanFill(i) /\ OrderFills(i) /\ ended("COMPLETED")
      \/ CanReject(i) /\ OrderFails(i) /\ ended("FAILED")
      \/ /\ ~CanFill(i) /\ ~CanReject(i) /\ ended(swaps[i].row)
         /\ Note(swaps[i].row = "none", "early") /\ UNCHANGED <<coSrc, charge, usd, totals, plan>>
  BY DEF CardOrderDone
<1>. QED  BY <1>4, <1>5, <1>6, <1>7
\* What every step of an autostack keeps, and what it starts from.
LEMMA StackTells == ASSUME StackPart, StackNext PROVE StackStory'
<1>0. StackTyped' /\ CountsDown
  BY StackStepTyped DEF StackPart
<1>1. ASSUME NEW j \in Jobs,
             \/ StackConfirm(j) \/ ChargeStart(j) \/ Accrue(j) \/ ChargeTake(j)
             \/ StackFromWallet(j) \/ StackReserve(j) \/ StackPost(j) \/ StackRecord(j)
             \/ StackUndo(j) \/ CardReserve(j) \/ CardCharge(j) \/ CardRecord(j)
      PROVE  StackStory'
  BY <1>0, <1>1, ConfirmTells, ChargeStartTells, AccrueTells, ChargeTakeTells, FromWalletTells,
    ReserveTells, PostTells, RecordTells, UndoTells, CardReserveTells, CardChargeTells,
    CardRecordTells
<1>2. ASSUME NEW i \in DOMAIN swaps, StackSwapEnds(i) \/ StackWebhook(i) \/ CardOrderDone(i)
      PROVE  StackStory'
  BY <1>0, <1>2, SwapEndsTells, WebhookTells, CardOrderDoneTells
<1>3. ASSUME NEW r \in Executions, CardPaid(r) \/ CardOrder(r) \/ CardOrdered(r)
      PROVE  StackStory'
  BY <1>0, <1>3, CardPaidTells, CardOrderTells, CardOrderedTells
<1>4. ASSUME NEW q \in Requests,
             UnlockStack(q) \/ PayOut(q) \/ CancelStack(q) \/ CancelStackCommit(q)
      PROVE  StackStory'
  BY <1>0, <1>4, UnlockTells, PayOutTells, CancelTells, CancelCommitTells
<1>5. CASE DateCome
  BY <1>0, <1>5, DateComeTells
<1>6. CASE StackCrash
  BY <1>0, <1>6, StackCrashTells
<1>. QED  BY <1>1, <1>2, <1>3, <1>4, <1>5, <1>6 DEF StackNext

\* Nothing has happened yet.
LEMMA StackBeginsTelling == ASSUME StackInit PROVE StackStory
<1>1. Settled = {} /\ Held = {}
  BY DEF StackInit, Settled, Held
<1>2. Cardinality(Settled) = 0 /\ Cardinality(Held) = 0
  BY <1>1, FS_EmptySet
<1>3. /\ swaps = <<>> /\ DOMAIN swaps = {} /\ Standing = {}
      /\ stack.status = "none" /\ stack.accrued = 0 /\ round = 0 /\ due = FALSE /\ dates = 0
      /\ \A j \in Jobs : job[j].pc = "idle"
      /\ \A q \in Requests : request[q].pc = "idle" /\ request[q].swap = 0
      /\ \A r \in Executions : payment[r] = NoPayment /\ Untold(r)
      /\ \A r \in Executions : charge[r].init = "none"
  BY DEF StackInit, Nobody, NoRequest, Untold, Standing
<1>4. NoPayment.event = "none" /\ NoPayment.at = "none"
  BY DEF NoPayment
<1>5. StackBegun
  BY <1>1, <1>3 DEF StackBegun
<1>6. StackSums
  <2>1. \A n \in Nat : n * 0 = 0 /\ n - 0 = n
    OBVIOUS
  <2>2. Installment + InstallmentFee \in Nat /\ StackUsdt \in Nat
    BY AutostackAssumption
  <2>3. /\ totals.stacked = 0 /\ totals.accrued = 0 /\ usd.stacked = 0 /\ usd.interest = 0
        /\ usd.base = StackUsdt
    BY DEF StackInit
  <2>4. usd.base = StackUsdt - (Installment + InstallmentFee) * Cardinality(Settled)
    BY <1>2, <2>1, <2>2, <2>3
  <2>. QED  BY <1>3, <2>3, <2>4 DEF StackSums, Working
<1>7. OneAtWork
  <2>1. \A r \in Executions : ~(r < round) /\ charge[r].status # "COMPLETED"
    BY <1>3, ExecutionsFinite DEF Untold
  <2>. QED  BY <1>3, <2>1 DEF OneAtWork, RoundsDone, JobsAlone, RowsAlone, JobsPosted, Working
<1>8. StackDates
  BY <1>3, <1>4 DEF StackDates, LivePay
<1>9. StackHolds
  <2>1. SourceTotal * Cardinality(Held) = 0
    BY <1>2, SourceTotalNatural
  <2>2. SourceCost * Cardinality(Held) = 0 /\ BtcReserved + 0 = BtcReserved
    BY <1>2, AutostackAssumption
  <2>3. HoldsCalm => src.reserved = 0 /\ coSrc.reserved = BtcReserved
    BY DEF StackInit, HoldsCalm
  <2>. QED  BY <1>3, <2>1, <2>2, <2>3 DEF StackHolds
<1>10. SoldOnce
  BY <1>3, <1>4 DEF SoldOnce, SwapsApart, SwapsKnown, BoughtOnce, Working
<1>11. CardStory
  <2>1. CardCost * Cardinality(Settled) = 0 /\ CardCost * Cardinality(Held) = 0
        /\ CompanyNaira - 0 = CompanyNaira /\ NairaReserved + 0 = NairaReserved
    BY <1>2, AutostackAssumption
  <2>2. source = "CARD" => CardFunds
    BY <2>1 DEF StackInit, CardFunds
  <2>3. CardPayments /\ CardLive /\ CardSwaps /\ CardJobs /\ CardRequests
    BY <1>3, <1>4 DEF CardPayments, CardLive, CardSwaps, CardJobs, CardRequests, LivePay, Working,
      Untold
  <2>4. CardRound
    BY <1>3, <1>4 DEF CardRound, Untold
  <2>. QED  BY <2>2, <2>3, <2>4 DEF CardStory
<1>. QED  BY <1>5, <1>6, <1>7, <1>8, <1>9, <1>10, <1>11 DEF StackStory

\* What is charged is charged for a date: the executions charged are those before the
\* current one.
LEMMA SettledDated ==
    ASSUME StackPart, StackTidy, Untouched({"jobsOverlap"})
    PROVE  Cardinality(Settled) <= dates
<1>1. RoundsDone /\ round + (IF due THEN 1 ELSE 0) <= dates
  BY DEF StackPart, StackStory, OneAtWork, StackDates
<1>2. round \in Nat /\ dates \in Nat
  BY DEF StackPart, StackTyped, PlanOK
<1>3. Settled \subseteq 0..(round - 1)
  <2>. SUFFICES ASSUME NEW r \in Settled PROVE r \in 0..(round - 1)
    OBVIOUS
  <2>1. r \in Executions /\ charge[r].status = "COMPLETED"
    BY DEF Settled
  <2>2. r < round /\ r \in Nat
    BY <1>1, <2>1, ExecutionsFinite DEF RoundsDone
  <2>. QED  BY <1>2, <2>2
<1>4. IsFiniteSet(0..(round - 1)) /\ Cardinality(0..(round - 1)) = round
  BY <1>2, FS_Interval
<1>5. Cardinality(Settled) <= round
  BY <1>3, <1>4, FS_Subset
<1>6. Cardinality(Settled) \in Nat
  BY StackSets DEF StackPart, StackTyped
<1>. QED  BY <1>1, <1>2, <1>5, <1>6

\* What is told says all that the books, the dates and a card are to say.
LEMMA StackTellsExactly == ASSUME StackPart PROVE StackBooks /\ StackOnDate /\ CardBacked
<1>1. StackBooks
  <2>1. ASSUME Untouched({"staleRequest", "reopened", "afterEnd"})
        PROVE  /\ totals.stacked = (IF stack.status = "ACTIVE" THEN stack.amount ELSE 0)
               /\ totals.accrued = (IF stack.status = "ACTIVE" THEN stack.accrued ELSE 0)
               /\ usd.stacked = totals.stacked /\ usd.interest = totals.accrued
               /\ stack.status = "ACTIVE" =>
                    /\ stack.amount = Installment * Cardinality(Settled)
                    /\ source = "USDT" =>
                         usd.base = StackUsdt - (Installment + InstallmentFee) * Cardinality(Settled)
    BY <2>1 DEF StackPart, StackStory, StackSums, SumsCalm, StackOver
  <2>2. ASSUME source = "BTC", Untouched({"cancelStack"})
        PROVE  /\ src.reserved = SourceTotal * Cardinality(Held)
               /\ coSrc.reserved = BtcReserved + SourceCost * Cardinality(Held)
    BY <2>2 DEF StackPart, StackStory, StackHolds, HoldsCalm
  <2>. QED  BY <2>1, <2>2 DEF StackBooks
<1>2. StackOnDate
  <2>1. ASSUME Untouched({"jobsOverlap"}),
               source = "CARD" => /\ Untouched({"lostAnswer", "error", "crash"})
                                  /\ Untouched({"early", "staleRequest"})
        PROVE  Cardinality(Settled) <= dates
    <3>1. StackTidy
      BY <2>1 DEF StackTidy, CardCalm, Untouched
    <3>. QED  BY <2>1, <3>1, SettledDated
  <2>2. ASSUME Untouched({"lostAnswer", "error", "crash"}),
               NEW i \in DOMAIN swaps, NEW k \in (i + 1)..Len(swaps)
        PROVE  \/ swaps[i].round # swaps[k].round
               \/ ~({swaps[i].at, swaps[k].at} \subseteq {"open", "completed"})
    <3>1. SwapsApart
      BY <2>2 DEF StackPart, StackStory, SoldOnce, OnTime
    <3>2. swaps \in Seq(StackSwaps)
      BY DEF StackPart, StackTyped, TradesOK
    <3>3. i \in Nat /\ k \in DOMAIN swaps /\ i # k
      BY <2>2, <3>2
    <3>. QED  BY <3>1, <3>3 DEF SwapsApart, Stands
  <2>. QED  BY <2>1, <2>2 DEF StackOnDate
<1>3. CardBacked
  <2>. SUFFICES ASSUME source = "CARD",
                       Untouched({"lostAnswer", "error", "crash", "early", "staleRequest"})
                PROVE  /\ coSrc.total = CompanyNaira - CardCost * Cardinality(Settled)
                       /\ coSrc.reserved = NairaReserved + CardCost * Cardinality(Held)
                       /\ \A r \in Executions :
                             /\ payment[r].at = "paid" /\ payment[r].event = "done"
                                  => \E i \in DOMAIN swaps : swaps[i].round = r
                             /\ charge[r].status = "COMPLETED" => payment[r].at = "paid"
    BY DEF CardBacked
  <2>1. CardPayments /\ CardFunds
    BY DEF StackPart, StackStory, CardStory, CardCalm
  <2>. QED  BY <2>1 DEF CardPayments, CardFunds
<1>. QED  BY <1>1, <1>2, <1>3

---------------------------------------------------------------------------
StackInv == StackPart

LEMMA StackStarts == ASSUME budget = Budget, StackInit PROVE StackInv
  BY StackStartsTyped, StackBeginsTelling DEF StackInv, StackPart

LEMMA StackSteps == ASSUME StackInv, StackNext PROVE StackInv'
  BY StackStepTyped, StackTells DEF StackInv, StackPart

LEMMA StackSays == ASSUME StackInv PROVE StackSafe /\ StackBooks /\ StackOnDate /\ CardBacked
  BY StackTypedSays, StackTellsExactly DEF StackInv, StackPart

---------------------------------------------------------------------------
(* Side by side: a step of another part, or of none, leaves a part alone.  *)

LEMMA StackTypedRests == ASSUME StackTyped, UNCHANGED <<StackOwn, budget>> PROVE StackTyped'
<1>1. Budgets'
  BY DEF StackOwn, StackTyped, plan, trades, wallets, books, Budgets
<1>2. PlanOK'
  BY DEF StackOwn, StackTyped, plan, trades, wallets, books, PlanOK
<1>3. ChargeOK'
  BY DEF StackOwn, StackTyped, plan, trades, wallets, books, ChargeOK
<1>4. TradesOK'
  BY DEF StackOwn, StackTyped, plan, trades, wallets, books, TradesOK, StackSwaps
<1>5. FundsOK'
  BY DEF StackOwn, StackTyped, plan, trades, wallets, books, FundsOK
<1>6. HoldsOK'
  BY DEF StackOwn, StackTyped, plan, trades, wallets, books, HoldsOK
<1>7. ActorsOK'
  BY DEF StackOwn, StackTyped, plan, trades, wallets, books, ActorsOK, JobRows
<1>. QED  BY <1>1, <1>2, <1>3, <1>4, <1>5, <1>6, <1>7 DEF StackTyped

LEMMA StackStoryRests == ASSUME StackStory, UNCHANGED <<StackOwn, budget>> PROVE StackStory'
<1>0. /\ UNCHANGED <<source, stack, round, due, dates, charge, swaps, payment, usd, src, coSrc,
                     totals, job, request>>
      /\ \A F : Untouched(F)' <=> Untouched(F)
  BY DEF StackOwn, plan, trades, wallets, books, Untouched
<1>1. Settled' = Settled /\ Held' = Held /\ Standing' = Standing
  BY <1>0 DEF Settled, Held, Standing, Stands
<1>2. StackBegun'
  BY <1>0, <1>1 DEF StackStory, StackBegun, Untold
<1>3. StackSums'
  BY <1>0, <1>1 DEF StackStory, StackSums, SumsCalm, StackOver, Working
<1>4. OneAtWork'
  BY <1>0 DEF StackStory, OneAtWork, StackTidy, CardCalm, RoundsDone, JobsAlone, RowsAlone,
    JobsPosted, Working, LiveRow, StackOver
<1>5. StackDates'
  BY <1>0 DEF StackStory, StackDates, StackTidy, CardCalm, LiveRow, LivePay
<1>6. StackHolds'
  BY <1>0, <1>1 DEF StackStory, StackHolds, HoldsCalm, LiveRow
<1>7. SoldOnce'
  BY <1>0, <1>1 DEF StackStory, SoldOnce, OnTime, SwapsApart, SwapsKnown, BoughtOnce, Stands,
    Working, LiveRow, StackOver
<1>8. CardStory'
  <2>1. /\ CardPayments' = CardPayments /\ CardLive' = CardLive /\ CardSwaps' = CardSwaps
        /\ CardRound' = CardRound /\ CardJobs' = CardJobs /\ CardRequests' = CardRequests
    BY <1>0 DEF CardPayments, CardLive, CardSwaps, CardRound, CardJobs, CardRequests, Untold,
      LivePay, LiveRow, Working
  <2>2. CardFunds' = CardFunds
    BY <1>0, <1>1 DEF CardFunds
  <2>. QED  BY <1>0, <2>1, <2>2 DEF StackStory, CardStory, CardCalm
<1>. QED  BY <1>2, <1>3, <1>4, <1>5, <1>6, <1>7, <1>8 DEF StackStory

LEMMA StackRests == ASSUME StackInv, UNCHANGED <<StackOwn, budget>> PROVE StackInv'
  BY StackTypedRests, StackStoryRests DEF StackInv, StackPart

LEMMA SettingsRests == ASSUME SettingsInv, UNCHANGED <<SettingsOwn, budget>> PROVE SettingsInv'
<1>1. Budgets'
  BY DEF SettingsOwn, SettingsInv, Budgets
<1>2. SettingsTypeOK'
  BY DEF SettingsOwn, SettingsInv, SettingsTypeOK, Contents
<1>3. AdminsTyped'
  BY DEF SettingsOwn, SettingsInv, AdminsTyped, AdminKind, AdminShape, AdminSteps, Contents
<1>4. TermsCounted'
  <2>1. Termers' = Termers
    BY DEF SettingsOwn, Termers
  <2>. QED  BY <2>1 DEF SettingsOwn, SettingsInv, TermsCounted
<1>5. OneAtDesk'
  BY DEF SettingsOwn, SettingsInv, OneAtDesk, Untouched, Stored, Nothing
<1>6. RowsApart'
  BY DEF SettingsOwn, SettingsInv, RowsApart, Untouched, RowsFit, Fit, UsedRows, Free
<1>7. CachedTrue'
  BY DEF SettingsOwn, SettingsInv, CachedTrue, Untouched
<1>. QED  BY <1>1, <1>2, <1>3, <1>4, <1>5, <1>6, <1>7 DEF SettingsInv

LEMMA AccountRests == ASSUME AccountInv, UNCHANGED <<AccountsOwn, budget>> PROVE AccountInv'
<1>1. Budgets'
  BY DEF AccountsOwn, AccountInv, Budgets
<1>2. AccountTypeOK'
  BY DEF AccountsOwn, AccountInv, AccountTypeOK
<1>3. PinThere'
  BY DEF AccountsOwn, AccountInv, PinThere, Trying, Under
<1>4. OneRequest'
  BY DEF AccountsOwn, AccountInv, OneRequest, Untouched, Under, FreshOf, Doing, Trying
<1>5. CodesCounted'
  <2>1. HeldReset' = HeldReset /\ HeldChange' = HeldChange /\ HeldPass' = HeldPass
    BY DEF AccountsOwn, HeldReset, HeldChange, HeldPass, Doing
  <2>. QED  BY <2>1 DEF AccountsOwn, AccountInv, CodesCounted, Untouched
<1>6. AccountOpens'
  BY DEF AccountsOwn, AccountInv, AccountOpens, Untouched, Doing
<1>7. PinsCounted'
  BY DEF AccountsOwn, AccountInv, PinsCounted, Untouched, Doing, Closed, Trying
<1>. QED  BY <1>1, <1>2, <1>3, <1>4, <1>5, <1>6, <1>7 DEF AccountInv

LEMMA CardRests == ASSUME CardInv, UNCHANGED <<CardsOwn, budget>> PROVE CardInv'
  BY DEF CardsOwn, CardInv, Budgets, CardTypeOK, CardGrounded, CardsBacked, RefundsBooked,
    CardsAlone, ToldIsSaved, CardAt, Storing, Untouched, SavedAs, CardOf

LEMMA BankRests == ASSUME BankInv, UNCHANGED <<BanksOwn, budget>> PROVE BankInv'
  BY DEF BanksOwn, BankInv, Budgets, BankTypeOK, BankGrounded, BanksExact, BankAt, NumberOf,
    Untouched

LEMMA StaffRests == ASSUME StaffInv, UNCHANGED <<StaffOwn, budget>> PROVE StaffInv'
  BY StaffInvNext DEF StaffOwn, staffVars

LEMMA KycRests == ASSUME KycInv, UNCHANGED <<KycOwn, budget>> PROVE KycInv'
  BY DEF KycOwn, KycInv, Budgets, KycTypeOK, InquiriesGrounded, NinsOwn, TierFollowsDocument,
    Asking, Untouched, HasNin

LEMMA QuotesRests == ASSUME QuotesInv, UNCHANGED <<QuotesOwn, budget>> PROVE QuotesInv'
<1>1. Budgets'
  BY DEF QuotesOwn, QuotesInv, Budgets
<1>2. QuotesTypeOK'
  BY DEF QuotesOwn, QuotesInv, QuotesTypeOK
<1>3. Unquoted'
  BY DEF QuotesOwn, QuotesInv, Unquoted
<1>4. OneOrder'
  BY DEF QuotesOwn, QuotesInv, OneOrder
<1>5. PayeeNamed'
  BY DEF QuotesOwn, QuotesInv, PayeeNamed, Untouched, Sure
<1>6. PayeeAgreed'
  BY DEF QuotesOwn, QuotesInv, PayeeAgreed, Untouched, Sure
<1>7. OfferKept'
  BY DEF QuotesOwn, QuotesInv, OfferKept, OfferSound, Untouched, Guarded, Covers
<1>. QED  BY <1>1, <1>2, <1>3, <1>4, <1>5, <1>6, <1>7 DEF QuotesInv

LEMMA CacheRests == ASSUME CacheInv, UNCHANGED <<cacheVars, budget>> PROVE CacheInv'
  BY DEF cacheVars, CacheInv, Budgets, CacheTypeOK, CacheAges, Untouched, AnyField, Present,
    Pending, Room, Presents, Spent

LEMMA ScheduleRests == ASSUME ScheduleInv, UNCHANGED <<scheduleVars, budget>> PROVE ScheduleInv'
  BY DEF scheduleVars, ScheduleInv, Budgets, ScheduleTypeOK, RunsShaped, LockHeld, OneJob, InTime,
    Untouched, Slack, AtWork, Safe, Alive, Spent

LEMMA SnapshotRests == ASSUME SnapshotInv, UNCHANGED <<snapshotVars, budget>> PROVE SnapshotInv'
  BY DEF snapshotVars, SnapshotInv, Budgets, SnapshotTypeOK, SweepsShaped, OutsetShown,
    ShownOrAhead, Untouched, Ahead, Rank

\* What each part keeps, in a behaviour of it.
PartsInv ==
    /\ Of("autostack") => StackInv
    /\ Of("settings") => SettingsInv
    /\ Of("accounts") => AccountInv
    /\ Of("cards") => CardInv
    /\ Of("banks") => BankInv
    /\ Of("staff") => StaffInv
    /\ Of("kyc") => KycInv
    /\ Of("quotes") => QuotesInv
    /\ Of("cache") => CacheInv
    /\ Of("schedule") => ScheduleInv
    /\ Of("snapshots") => SnapshotInv

LEMMA PartsStart == Init => PartsInv
  BY StackStarts, SettingsStarts, AccountStarts, CardStarts, BankStarts, StaffStarts, KycStarts,
    QuotesStarts, CacheStarts, ScheduleStarts, SnapshotStarts DEF Init, PartsInv

LEMMA PartsStep == PartsInv /\ [Next]_platformVars => PartsInv'
<1>. SUFFICES ASSUME PartsInv, [Next]_platformVars PROVE PartsInv'
  OBVIOUS
<1>1. subject' = subject
  BY DEF Next, platformVars
<1>2. ASSUME Of("autostack")' PROVE StackInv'
  <2>1. Of("autostack") /\ StackInv
    BY <1>1, <1>2 DEF PartsInv, Of
  <2>2. CASE Next
    <3>1. StackNext
      BY <2>1, <2>2 DEF Next, Of
    <3>. QED  BY <2>1, <3>1, StackSteps
  <2>3. CASE UNCHANGED platformVars
    <3>1. UNCHANGED <<StackOwn, budget>>
      BY <2>3 DEF platformVars
    <3>. QED  BY <2>1, <3>1, StackRests
  <2>. QED  BY <2>2, <2>3
<1>3. ASSUME Of("settings")' PROVE SettingsInv'
  <2>1. Of("settings") /\ SettingsInv
    BY <1>1, <1>3 DEF PartsInv, Of
  <2>2. CASE Next
    <3>1. SettingsNext
      BY <2>1, <2>2 DEF Next, Of
    <3>. QED  BY <2>1, <3>1, SettingsSteps
  <2>3. CASE UNCHANGED platformVars
    <3>1. UNCHANGED <<SettingsOwn, budget>>
      BY <2>3 DEF platformVars
    <3>. QED  BY <2>1, <3>1, SettingsRests
  <2>. QED  BY <2>2, <2>3
<1>4. ASSUME Of("accounts")' PROVE AccountInv'
  <2>1. Of("accounts") /\ AccountInv
    BY <1>1, <1>4 DEF PartsInv, Of
  <2>2. CASE Next
    <3>1. AccountNext
      BY <2>1, <2>2 DEF Next, Of
    <3>. QED  BY <2>1, <3>1, AccountSteps
  <2>3. CASE UNCHANGED platformVars
    <3>1. UNCHANGED <<AccountsOwn, budget>>
      BY <2>3 DEF platformVars
    <3>. QED  BY <2>1, <3>1, AccountRests
  <2>. QED  BY <2>2, <2>3
<1>5. ASSUME Of("cards")' PROVE CardInv'
  <2>1. Of("cards") /\ CardInv
    BY <1>1, <1>5 DEF PartsInv, Of
  <2>2. CASE Next
    <3>1. CardNext
      BY <2>1, <2>2 DEF Next, Of
    <3>. QED  BY <2>1, <3>1, CardSteps
  <2>3. CASE UNCHANGED platformVars
    <3>1. UNCHANGED <<CardsOwn, budget>>
      BY <2>3 DEF platformVars
    <3>. QED  BY <2>1, <3>1, CardRests
  <2>. QED  BY <2>2, <2>3
<1>6. ASSUME Of("banks")' PROVE BankInv'
  <2>1. Of("banks") /\ BankInv
    BY <1>1, <1>6 DEF PartsInv, Of
  <2>2. CASE Next
    <3>1. BankNext
      BY <2>1, <2>2 DEF Next, Of
    <3>. QED  BY <2>1, <3>1, BankSteps
  <2>3. CASE UNCHANGED platformVars
    <3>1. UNCHANGED <<BanksOwn, budget>>
      BY <2>3 DEF platformVars
    <3>. QED  BY <2>1, <3>1, BankRests
  <2>. QED  BY <2>2, <2>3
<1>7. ASSUME Of("staff")' PROVE StaffInv'
  <2>1. Of("staff") /\ StaffInv
    BY <1>1, <1>7 DEF PartsInv, Of
  <2>2. CASE Next
    <3>1. StaffNext
      BY <2>1, <2>2 DEF Next, Of
    <3>. QED  BY <2>1, <3>1, StaffSteps
  <2>3. CASE UNCHANGED platformVars
    <3>1. UNCHANGED <<StaffOwn, budget>>
      BY <2>3 DEF platformVars
    <3>. QED  BY <2>1, <3>1, StaffRests
  <2>. QED  BY <2>2, <2>3
<1>8. ASSUME Of("kyc")' PROVE KycInv'
  <2>1. Of("kyc") /\ KycInv
    BY <1>1, <1>8 DEF PartsInv, Of
  <2>2. CASE Next
    <3>1. KycNext
      BY <2>1, <2>2 DEF Next, Of
    <3>. QED  BY <2>1, <3>1, KycSteps
  <2>3. CASE UNCHANGED platformVars
    <3>1. UNCHANGED <<KycOwn, budget>>
      BY <2>3 DEF platformVars
    <3>. QED  BY <2>1, <3>1, KycRests
  <2>. QED  BY <2>2, <2>3
<1>9. ASSUME Of("quotes")' PROVE QuotesInv'
  <2>1. Of("quotes") /\ QuotesInv
    BY <1>1, <1>9 DEF PartsInv, Of
  <2>2. CASE Next
    <3>1. QuotesNext
      BY <2>1, <2>2 DEF Next, Of
    <3>. QED  BY <2>1, <3>1, QuotesSteps
  <2>3. CASE UNCHANGED platformVars
    <3>1. UNCHANGED <<QuotesOwn, budget>>
      BY <2>3 DEF platformVars
    <3>. QED  BY <2>1, <3>1, QuotesRests
  <2>. QED  BY <2>2, <2>3
<1>10. ASSUME Of("cache")' PROVE CacheInv'
  <2>1. Of("cache") /\ CacheInv
    BY <1>1, <1>10 DEF PartsInv, Of
  <2>2. CASE Next
    <3>1. CacheNext
      BY <2>1, <2>2 DEF Next, Of
    <3>. QED  BY <2>1, <3>1, CacheSteps
  <2>3. CASE UNCHANGED platformVars
    <3>1. UNCHANGED <<cacheVars, budget>>
      BY <2>3 DEF platformVars
    <3>. QED  BY <2>1, <3>1, CacheRests
  <2>. QED  BY <2>2, <2>3
<1>11. ASSUME Of("schedule")' PROVE ScheduleInv'
  <2>1. Of("schedule") /\ ScheduleInv
    BY <1>1, <1>11 DEF PartsInv, Of
  <2>2. CASE Next
    <3>1. ScheduleNext
      BY <2>1, <2>2 DEF Next, Of
    <3>. QED  BY <2>1, <3>1, ScheduleSteps
  <2>3. CASE UNCHANGED platformVars
    <3>1. UNCHANGED <<scheduleVars, budget>>
      BY <2>3 DEF platformVars
    <3>. QED  BY <2>1, <3>1, ScheduleRests
  <2>. QED  BY <2>2, <2>3
<1>12. ASSUME Of("snapshots")' PROVE SnapshotInv'
  <2>1. Of("snapshots") /\ SnapshotInv
    BY <1>1, <1>12 DEF PartsInv, Of
  <2>2. CASE Next
    <3>1. SnapshotNext
      BY <2>1, <2>2 DEF Next, Of
    <3>. QED  BY <2>1, <3>1, SnapshotSteps
  <2>3. CASE UNCHANGED platformVars
    <3>1. UNCHANGED <<snapshotVars, budget>>
      BY <2>3 DEF platformVars
    <3>. QED  BY <2>1, <3>1, SnapshotRests
  <2>. QED  BY <2>2, <2>3
<1>. QED  BY <1>2, <1>3, <1>4, <1>5, <1>6, <1>7, <1>8, <1>9, <1>10, <1>11, <1>12 DEF PartsInv

\* Every part keeps its types, and an autostack neither promises more of a wallet or of
\* the company than there is, nor takes a column of theirs below zero: whatever the
\* amounts, and however many jobs, requests and mishaps there are.
THEOREM PlatformSafely == Spec => []PlatformSafe
<1>1. PartsInv /\ subject \in Parts => PlatformSafe
  <2>. SUFFICES ASSUME PartsInv, subject \in Parts PROVE PlatformSafe
    OBVIOUS
  <2>1. subject = "autostack" => StackSafe
    BY StackSays DEF PartsInv, Of
  <2>2. subject = "settings" => SettingsTypeOK
    BY SettingsSays DEF PartsInv, Of
  <2>3. subject = "accounts" => AccountTypeOK
    BY DEF PartsInv, AccountInv, Of
  <2>4. subject = "cards" => CardTypeOK
    BY DEF PartsInv, CardInv, Of
  <2>5. subject = "banks" => BankTypeOK
    BY DEF PartsInv, BankInv, Of
  <2>6. subject = "kyc" => KycTypeOK
    BY DEF PartsInv, KycInv, Of
  <2>7. subject = "staff" => StaffTypeOK
    BY StaffSays DEF PartsInv, Of
  <2>8. subject = "quotes" => QuotesTypeOK
    BY DEF PartsInv, QuotesInv, Of
  <2>9. subject = "cache" => CacheTypeOK
    BY DEF PartsInv, CacheInv, Of
  <2>10. subject = "schedule" => ScheduleTypeOK
    BY DEF PartsInv, ScheduleInv, Of
  <2>11. subject = "snapshots" => SnapshotTypeOK
    BY DEF PartsInv, SnapshotInv, Of
  <2>12. CASE subject = "autostack"
    BY <2>1, <2>12 DEF PlatformSafe, Of
  <2>13. CASE subject = "settings"
    BY <2>2, <2>13 DEF PlatformSafe, Of
  <2>14. CASE subject = "accounts"
    BY <2>3, <2>14 DEF PlatformSafe, Of
  <2>15. CASE subject = "cards"
    BY <2>4, <2>15 DEF PlatformSafe, Of
  <2>16. CASE subject = "banks"
    BY <2>5, <2>16 DEF PlatformSafe, Of
  <2>17. CASE subject = "kyc"
    BY <2>6, <2>17 DEF PlatformSafe, Of
  <2>18. CASE subject = "staff"
    BY <2>7, <2>18 DEF PlatformSafe, Of
  <2>19. CASE subject = "quotes"
    BY <2>8, <2>19 DEF PlatformSafe, Of
  <2>20. CASE subject = "cache"
    BY <2>9, <2>20 DEF PlatformSafe, Of
  <2>21. CASE subject = "schedule"
    BY <2>10, <2>21 DEF PlatformSafe, Of
  <2>22. CASE subject = "snapshots"
    BY <2>11, <2>22 DEF PlatformSafe, Of
  <2>. QED  BY <2>12, <2>13, <2>14, <2>15, <2>16, <2>17, <2>18, <2>19, <2>20, <2>21, <2>22 DEF Parts
<1>2. Init => subject \in Parts
  BY DEF Init
<1>3. subject \in Parts /\ [Next]_platformVars => (subject \in Parts)'
  BY DEF Next, platformVars
<1>. QED  BY <1>1, <1>2, <1>3, PartsStart, PartsStep, PTL DEF Spec

\* What an autostack has stored is what it was charged for, no more often than its dates
\* have come, and no charge is sold or bought twice: whatever jobs, webhooks, unlocks and
\* cancellations meet, but for the mishaps each part of the statement names.
THEOREM PlatformStackExact == Spec => []StackExact
<1>1. PartsInv => StackExact
  BY StackSays DEF PartsInv, StackExact
<1>. QED  BY <1>1, PartsStart, PartsStep, PTL DEF Spec

\* The account of a user, its cards, its bank accounts and its proof of identity, for any
\* number of requests at once: what is deleted stays deleted, a PIN is changed once per
\* code, wrong PINs lock; a card is saved for a charge that was made and told of, the test
\* charge goes back; a bank account is the user's own and there once; a NIN is one user's
\* and the tier follows the document; each unless what the property names has happened.
THEOREM PlatformAccountsExact == Spec => []AccountsExact
<1>1. PartsInv => AccountsExact
  BY AccountSays, CardSaysExact DEF PartsInv, AccountsExact, BankInv, KycInv, KycExact
<1>. QED  BY <1>1, PartsStart, PartsStep, PTL DEF Spec

\* One transaction and one order come of a quotation, it pays whom the user has been shown
\* and has agreed to, and what is booked for it is covered at the price it was checked
\* against: for any number of previews, PIN checks and confirmations, and any prices,
\* amounts and buffers.
THEOREM PlatformQuotesHonest == Spec => []QuotesHonest
<1>1. PartsInv => QuotesHonest
  BY QuotesSays DEF PartsInv, QuotesHonest
<1>. QED  BY <1>1, PartsStart, PartsStep, PTL DEF Spec

\* A recurring job runs alone, once per slot and not too seldom whatever number of processes
\* schedule it; a snapshot of the balances shows every user although users come and go
\* between its pages; and the cached liquidity is no older than its time to live and a
\* fetch: unless what each property names has happened.
THEOREM PlatformJobsExact == Spec => []JobsExact
<1>1. PartsInv => JobsExact
  BY ScheduleSays, SnapshotSays, CacheSaysBounded DEF PartsInv, JobsExact
<1>. QED  BY <1>1, PartsStart, PartsStep, PTL DEF Spec

\* The rows of the settings stay apart whatever the administrators change, and what the
\* cache says of them is what is stored, for any number of administrators, rows, amounts
\* and requests: unless requests overlap, or what the properties name has happened.
THEOREM PlatformSettingsExact == Spec => []SettingsExact
<1>1. PartsInv => SettingsExact
  BY SettingsSays DEF PartsInv, SettingsExact
<1>. QED  BY <1>1, PartsStart, PartsStep, PTL DEF Spec

\* Types: an administrator's role, and an entry of one, is a role or nothing.
THEOREM StaffTyped == StaffSpec => []StaffTypeOK
<1>1. StaffInv => StaffTypeOK
  BY DEF StaffInv
<1>. QED  BY <1>1, StaffInvInit, StaffInvNext, PTL DEF StaffSpec

\* The caches follow the rows: a role in Redis is at most the version before the last
\* change, but for a deletion, and an administrator who has a role is let in with it,
\* for any number of administrators, roles, changes, evictions and restarts, as long as
\* no two requests overlap and none dies halfway.
THEOREM StaffCachesFollow == StaffSpec => []StaffCaches
<1>. QED  BY StaffInvCaches, StaffInvInit, StaffInvNext, PTL DEF StaffSpec

=============================================================================
