--------------------------- MODULE Ledger_proofs ---------------------------
(***************************************************************************)
(* Lemmas every flow's theorems rest on: what each guarded update of       *)
(* Ledger does to a row, and what happens to a sum over a finite set of    *)
(* operations when one of them changes.                                    *)
(***************************************************************************)
EXTENDS Ledger, Functions, FiniteSets, FiniteSetTheorems,
        WellFoundedInduction, TLAPS

---------------------------------------------------------------------------
(* Rows: under its guard an update takes a row that is solvent to a row    *)
(* that is one again (no column goes negative) and is solvent again.       *)

\* A row in which nothing is promised twice.
GoodWallet(w) == w \in Wallets /\ WalletSolvent(w)
GoodCompany(c) == c \in CompanyAccounts /\ CompanySolvent(c)

\* reserveBalance keeps the wallet solvent when its WHERE clause holds.
LEMMA ReserveBalanceGood ==
    ASSUME NEW w, GoodWallet(w), NEW a \in Nat, CanReserveBalance(w, a)
    PROVE GoodWallet(ReserveBalance(w, a))
BY DEF GoodWallet, Wallets, WalletSolvent, CanReserveBalance, ReserveBalance

\* releaseBalance never makes reservedBalance negative.
LEMMA ReleaseBalanceGood ==
    ASSUME NEW w, GoodWallet(w), NEW a \in Nat, CanReleaseBalance(w, a)
    PROVE GoodWallet(ReleaseBalance(w, a))
BY DEF GoodWallet, Wallets, WalletSolvent, CanReleaseBalance, ReleaseBalance

\* The final debit of the handlers takes base and reservation down together.
LEMMA FinalizeBalanceGood ==
    ASSUME NEW w, GoodWallet(w), NEW a \in Nat, CanFinalizeBalance(w, a)
    PROVE GoodWallet(FinalizeBalance(w, a))
<1>1. w \in Wallets /\ w.base - a \in Nat /\ w.reserved - a \in Nat
  BY DEF GoodWallet, Wallets, CanFinalizeBalance
<1>2. [w EXCEPT !.base = @ - a] \in Wallets
  BY <1>1 DEF Wallets
<1>3. /\ FinalizeBalance(w, a)
           = [[w EXCEPT !.base = @ - a] EXCEPT !.reserved = @ - a]
      /\ [w EXCEPT !.base = @ - a].reserved = w.reserved
  BY <1>1 DEF Wallets, FinalizeBalance
<1>4. FinalizeBalance(w, a) \in Wallets
  BY <1>1, <1>2, <1>3 DEF Wallets
<1>5. /\ FinalizeBalance(w, a).base = w.base - a
      /\ FinalizeBalance(w, a).reserved = w.reserved - a
  BY <1>1 DEF Wallets, FinalizeBalance
<1>. QED  BY <1>1, <1>4, <1>5 DEF GoodWallet, Wallets, WalletSolvent

\* A credit needs no guard.
LEMMA CreditBalanceGood ==
    ASSUME NEW w, GoodWallet(w), NEW a \in Nat
    PROVE GoodWallet(CreditBalance(w, a))
BY DEF GoodWallet, Wallets, WalletSolvent, CreditBalance

\* reserveLiquidity never over-commits the company's total.
LEMMA ReserveLiquidityGood ==
    ASSUME NEW c, GoodCompany(c), NEW a \in Nat, CanReserveLiquidity(c, a)
    PROVE GoodCompany(ReserveLiquidity(c, a))
BY DEF GoodCompany, CompanyAccounts, CompanySolvent, CanReserveLiquidity, ReserveLiquidity

\* releaseLiquidity never makes the reservation negative.
LEMMA ReleaseLiquidityGood ==
    ASSUME NEW c, GoodCompany(c), NEW a \in Nat, CanReleaseLiquidity(c, a)
    PROVE GoodCompany(ReleaseLiquidity(c, a))
BY DEF GoodCompany, CompanyAccounts, CompanySolvent, CanReleaseLiquidity, ReleaseLiquidity

\* consumeReservedLiquidity takes the same amount from both columns.
LEMMA ConsumeLiquidityGood ==
    ASSUME NEW c, GoodCompany(c), NEW a \in Nat, CanConsumeLiquidity(c, a)
    PROVE GoodCompany(ConsumeReservedLiquidity(c, a))
<1>1. c \in CompanyAccounts /\ c.total - a \in Nat /\ c.reserved - a \in Nat
  BY DEF GoodCompany, CompanyAccounts, CanConsumeLiquidity
<1>2. [c EXCEPT !.reserved = @ - a] \in CompanyAccounts
  BY <1>1 DEF CompanyAccounts
<1>3. /\ ConsumeReservedLiquidity(c, a)
           = [[c EXCEPT !.reserved = @ - a] EXCEPT !.total = @ - a]
      /\ [c EXCEPT !.reserved = @ - a].total = c.total
  BY <1>1 DEF CompanyAccounts, ConsumeReservedLiquidity
<1>4. ConsumeReservedLiquidity(c, a) \in CompanyAccounts
  BY <1>1, <1>2, <1>3 DEF CompanyAccounts
<1>5. /\ ConsumeReservedLiquidity(c, a).total = c.total - a
      /\ ConsumeReservedLiquidity(c, a).reserved = c.reserved - a
  BY <1>1 DEF CompanyAccounts, ConsumeReservedLiquidity
<1>. QED
  BY <1>1, <1>4, <1>5 DEF GoodCompany, CompanyAccounts, CompanySolvent

\* addLiquidity needs no guard.
LEMMA AddLiquidityGood ==
    ASSUME NEW c, GoodCompany(c), NEW a \in Nat
    PROVE GoodCompany(AddLiquidity(c, a))
BY DEF GoodCompany, CompanyAccounts, CompanySolvent, AddLiquidity

\* The internal balance is guarded on its own and shares no bound with the
\* other two columns.
LEMMA SubtractInternalGood ==
    ASSUME NEW c, GoodCompany(c), NEW a \in Nat, CanSubtractInternal(c, a)
    PROVE GoodCompany(SubtractInternal(c, a))
BY DEF GoodCompany, CompanyAccounts, CompanySolvent, CanSubtractInternal, SubtractInternal
---------------------------------------------------------------------------
(***************************************************************************)
(* Sums over a finite set of operations, of whatever size: what an account *)
(* owes is SumFunctionOnSet of the amounts over the operations in flight,  *)
(* and every step of a flow adds a term, takes one away or changes one.    *)
(*                                                                         *)
(* SumFunctionOnSet is a fold, and a fold a recursive function on the      *)
(* subsets of the set, from which it takes one chosen element at a time.   *)
(* That such a function exists, and that the order in which it takes the   *)
(* elements makes no difference, is shown by a least counterexample: the   *)
(* subsets of a finite set are well founded under strict inclusion.        *)
(***************************************************************************)

\* The element a fold takes first, and the function a sum of f is defined by.
ChosenOf(s) == CHOOSE x \in s : TRUE

Sums(g, f, U) ==
    g = [s \in SUBSET U |->
           IF s = {} THEN 0 ELSE f[ChosenOf(s)] + g[s \ {ChosenOf(s)}]]

\* Among sets of elements of a finite set there is a least one: no other of
\* them is inside it.
LEMMA Minimal ==
    ASSUME NEW U, IsFiniteSet(U), NEW B \in SUBSET SUBSET U, B # {}
    PROVE  \E s \in B : \A t \in B : t \subseteq s => t = s
<1>1. IsWellFoundedOn(StrictSubsetOrdering(U), SUBSET U)
  BY FS_FiniteSubsetsOfFinite, FS_StrictSubsetOrderingWellFounded, Zenon
<1>2. PICK s \in B : \A t \in B : ~(<<t, s>> \in StrictSubsetOrdering(U))
  BY <1>1, WFMin, Zenon
<1>. QED  BY <1>2 DEF StrictSubsetOrdering

\* The sum of the community modules is the value of such a function.
LEMMA SumIs ==
    ASSUME NEW f, NEW U
    PROVE  SumFunctionOnSet(f, U) = (CHOOSE g : Sums(g, f, U))[U]
BY DEF SumFunctionOnSet, FoldFunctionOnSet, MapThenFoldSet, Sums, ChosenOf

\* What a set that is not empty begins with is one of its elements.
LEMMA FirstIn ==
    ASSUME NEW s, s # {}
    PROVE  ChosenOf(s) \in s
BY DEF ChosenOf

\* The two equations of the definition.
LEMMA SumsAt ==
    ASSUME NEW f, NEW U, NEW g, Sums(g, f, U), NEW s \in SUBSET U, s # {}
    PROVE  g[s] = f[ChosenOf(s)] + g[s \ {ChosenOf(s)}]
BY DEF Sums

\* Nothing to add makes nothing.
LEMMA SumsOfNone ==
    ASSUME NEW f, NEW U, NEW g, Sums(g, f, U)
    PROVE  g[{}] = 0
BY DEF Sums

\* Whatever sets they are defined for, two sums agree on the sets of both.
LEMMA SumsAgree ==
    ASSUME NEW f, NEW U, NEW V, IsFiniteSet(V), NEW g, NEW h,
           Sums(g, f, U), Sums(h, f, V), NEW s, s \subseteq U, s \subseteq V
    PROVE  g[s] = h[s]
<1> DEFINE B == {t \in SUBSET s : g[t] # h[t]}
<1>1. SUFFICES ASSUME B # {} PROVE FALSE
  OBVIOUS
<1>2. IsFiniteSet(s)
  BY FS_Subset
<1>3. PICK t \in B : \A u \in B : u \subseteq t => u = t
  <2>1. B \in SUBSET SUBSET s
    OBVIOUS
  <2> HIDE DEF B
  <2>. QED  BY <1>1, <1>2, <2>1, Minimal
<1>4. t # {}
  BY SumsOfNone, Zenon
<1>5. g[t \ {ChosenOf(t)}] = h[t \ {ChosenOf(t)}]
  BY <1>3, <1>4, FirstIn
<1>6. g[t] = f[ChosenOf(t)] + g[t \ {ChosenOf(t)}]
  <2>1. t \in SUBSET U
    OBVIOUS
  <2> HIDE DEF B
  <2>. QED  BY <1>4, <2>1, SumsAt
<1>7. h[t] = f[ChosenOf(t)] + h[t \ {ChosenOf(t)}]
  <2>1. t \in SUBSET V
    OBVIOUS
  <2> HIDE DEF B
  <2>. QED  BY <1>4, <2>1, SumsAt
<1>. QED  BY <1>3, <1>5, <1>6, <1>7

\* The function exists: below a least set without one it would be what the
\* functions of the smaller sets say.
LEMMA SumsExist ==
    ASSUME NEW f, NEW U, IsFiniteSet(U)
    PROVE  \E g : Sums(g, f, U)
<1> DEFINE B == {s \in SUBSET U : ~\E g : Sums(g, f, s)}
<1>1. SUFFICES ASSUME B # {} PROVE FALSE
  OBVIOUS
<1>2. PICK s \in B : \A t \in B : t \subseteq s => t = s
  <2>1. B \in SUBSET SUBSET U
    OBVIOUS
  <2> HIDE DEF B
  <2>. QED  BY <1>1, <2>1, Minimal
<1> DEFINE Below(t) == CHOOSE g : Sums(g, f, t)
           Rest(t) == t \ {ChosenOf(t)}
           G == [t \in SUBSET s |-> IF t = {} THEN 0 ELSE f[ChosenOf(t)] + Below(Rest(t))[Rest(t)]]
<1>3. \A t \in SUBSET s : t # s => Sums(Below(t), f, t)
  BY <1>2
<1>4. ASSUME NEW t \in SUBSET s, t # {}
      PROVE  Below(Rest(t))[Rest(t)] = G[Rest(t)]
  <2>1. Rest(t) \subseteq s /\ Rest(t) # s
    BY <1>4, FirstIn
  <2>2. Sums(Below(Rest(t)), f, Rest(t))
    BY <1>3, <2>1
  <2>3. CASE Rest(t) = {}
    BY <2>2, <2>3, <2>1, SumsOfNone
  <2>4. CASE Rest(t) # {}
    <3> DEFINE u == Rest(t)
    <3>1. Rest(u) \subseteq s /\ Rest(u) # s /\ Rest(u) \subseteq u
      BY <2>1
    <3>2. Sums(Below(Rest(u)), f, Rest(u))
      BY <1>3, <3>1
    <3>3. Below(u)[u] = f[ChosenOf(u)] + Below(u)[Rest(u)]
      <4> DEFINE b == Below(u)
      <4>1. Sums(b, f, u) /\ u \in SUBSET u /\ u # {}
        BY <2>2, <2>4
      <4>2. b[u] = f[ChosenOf(u)] + b[u \ {ChosenOf(u)}]
        <5> HIDE DEF b, u
        <5>. QED  BY <4>1, SumsAt
      <4>. QED  BY <4>2
    <3>4. Below(u)[Rest(u)] = Below(Rest(u))[Rest(u)]
      <4>1. IsFiniteSet(Rest(u))
        BY <3>1, FS_Subset
      <4>. QED  BY <2>2, <3>1, <3>2, <4>1, SumsAgree
    <3>5. G[u] = f[ChosenOf(u)] + Below(Rest(u))[Rest(u)]
      BY <2>1, <2>4
    <3>. QED  BY <3>3, <3>4, <3>5
  <2>. QED  BY <2>3, <2>4
<1>5. Sums(G, f, s)
  <2>1. ASSUME NEW t \in SUBSET s
        PROVE  G[t] = IF t = {} THEN 0 ELSE f[ChosenOf(t)] + G[Rest(t)]
    <3>1. CASE t = {}
      BY <3>1
    <3>2. CASE t # {}
      <4>1. G[t] = f[ChosenOf(t)] + Below(Rest(t))[Rest(t)]
        BY <3>2
      <4>2. Below(Rest(t))[Rest(t)] = G[Rest(t)]
        BY <1>4, <3>2
      <4> HIDE DEF G, Below, Rest
      <4>. QED  BY <3>2, <4>1, <4>2
    <3>. QED  BY <3>1, <3>2
  <2>2. G = [t \in SUBSET s |-> G[t]]
    OBVIOUS
  <2> DEFINE H(t) == IF t = {} THEN 0 ELSE f[ChosenOf(t)] + G[Rest(t)]
  <2>3. \A t \in SUBSET s : G[t] = H(t)
    BY <2>1, Zenon
  <2>4. [t \in SUBSET s |-> G[t]] = [t \in SUBSET s |-> H(t)]
    <3> HIDE DEF G, H
    <3>. QED  BY <2>3
  <2>5. G = [t \in SUBSET s |-> H(t)]
    <3> HIDE DEF G, H
    <3>. QED  BY <2>2, <2>4
  <2>. QED  BY <2>5, Zenon DEF Sums
<1>. QED  BY <1>2, <1>5

\* A sum is what its terms make of it, whatever set it was defined for.
LEMMA SumOfPart ==
    ASSUME NEW f, NEW U, IsFiniteSet(U), NEW S \in SUBSET U,
           NEW g, Sums(g, f, U)
    PROVE  SumFunctionOnSet(f, S) = g[S]
<1> DEFINE h == CHOOSE h : Sums(h, f, S)
<1>1. IsFiniteSet(S)
  BY FS_Subset
<1>2. Sums(h, f, S)
  BY <1>1, SumsExist
<1>3. h[S] = g[S]
  <2> HIDE DEF h
  <2>. QED  BY <1>2, SumsAgree
<1>. QED  BY <1>3, SumIs

\* No operations, no money.
THEOREM SumEmpty == ASSUME NEW f PROVE SumFunctionOnSet(f, {}) = 0
<1>1. IsFiniteSet({})
  BY FS_EmptySet
<1>2. PICK g : Sums(g, f, {})
  BY <1>1, SumsExist
<1>3. {} \in SUBSET {}
  OBVIOUS
<1>4. SumFunctionOnSet(f, {}) = g[{}]
  BY <1>1, <1>2, <1>3, SumOfPart
<1>. QED  BY <1>2, <1>4, SumsOfNone

\* Any element can be taken first: two taken after one another can be swapped.
LEMMA SumRemoveFrom ==
    ASSUME NEW f, NEW U, IsFiniteSet(U), \A x \in U : f[x] \in Int,
           NEW g, Sums(g, f, U)
    PROVE  \A s \in SUBSET U : /\ g[s] \in Int
                               /\ \A x \in s : g[s] = f[x] + g[s \ {x}]
<1> DEFINE Good(s) == g[s] \in Int /\ \A x \in s : g[s] = f[x] + g[s \ {x}]
           B == {s \in SUBSET U : ~Good(s)}
<1>1. SUFFICES ASSUME B # {} PROVE FALSE
  OBVIOUS
<1>2. PICK s \in B : \A t \in B : t \subseteq s => t = s
  <2>1. B \in SUBSET SUBSET U
    OBVIOUS
  <2> HIDE DEF B
  <2>. QED  BY <1>1, <2>1, Minimal
<1>3. \A t \in SUBSET s : t # s => Good(t)
  BY <1>2
<1>4. s # {}
  <2>1. g[{}] = 0
    BY SumsOfNone
  <2>2. Good({})
    BY <2>1
  <2> HIDE DEF Good
  <2>. QED  BY <2>2
<1> DEFINE y == ChosenOf(s)
<1>5. y \in s
  BY <1>4, FirstIn
<1>6. g[s] = f[y] + g[s \ {y}]
  BY <1>4, SumsAt
<1>7. f[y] \in Int /\ g[s \ {y}] \in Int
  BY <1>3, <1>5
<1>8. ASSUME NEW x \in s, x # y
      PROVE  g[s] = f[x] + g[s \ {x}]
  <2> HIDE DEF y
  <2> DEFINE r == (s \ {y}) \ {x}
  <2>1. g[s \ {y}] = f[x] + g[r]
    BY <1>3, <1>5, <1>8
  <2>2. g[s \ {x}] = f[y] + g[(s \ {x}) \ {y}]
    BY <1>3, <1>5, <1>8
  <2>3. r = (s \ {x}) \ {y}
    OBVIOUS
  <2>4. f[x] \in Int /\ g[r] \in Int
    BY <1>3, <1>5, <1>8
  <2> HIDE DEF r, B, Good
  <2>5. g[s \ {x}] = f[y] + g[r]
    BY <2>2, <2>3
  <2>6. g[s] = f[y] + (f[x] + g[r])
    BY <1>6, <2>1
  <2>. QED  BY <1>7, <2>4, <2>5, <2>6
<1>9. Good(s)
  <2>1. g[s] \in Int
    <3> HIDE DEF y
    <3>. QED  BY <1>6, <1>7
  <2>. QED  BY <1>6, <1>8, <2>1
<1>. QED  BY <1>2, <1>9

---------------------------------------------------------------------------
(* What a sum over a finite set is made of, as the flows use it.           *)

\* Integers add up to an integer.
THEOREM SumIsInt ==
    ASSUME NEW S, IsFiniteSet(S), NEW f, \A x \in S : f[x] \in Int
    PROVE  SumFunctionOnSet(f, S) \in Int
<1>1. PICK g : Sums(g, f, S)
  BY SumsExist
<1>2. SumFunctionOnSet(f, S) = g[S]
  BY <1>1, SumOfPart
<1>. QED  BY <1>1, <1>2, SumRemoveFrom

\* An operation ends: the sum is its amount and the sum of the others.
THEOREM SumRemove ==
    ASSUME NEW S, IsFiniteSet(S), NEW f, \A x \in S : f[x] \in Int, NEW x \in S
    PROVE  SumFunctionOnSet(f, S) = f[x] + SumFunctionOnSet(f, S \ {x})
<1>1. PICK g : Sums(g, f, S)
  BY SumsExist
<1>2. SumFunctionOnSet(f, S) = g[S] /\ SumFunctionOnSet(f, S \ {x}) = g[S \ {x}]
  BY <1>1, SumOfPart
<1>3. g[S] = f[x] + g[S \ {x}]
  BY <1>1, SumRemoveFrom
<1>. QED  BY <1>2, <1>3

\* An operation begins: the sum grows by its amount.
THEOREM SumAdd ==
    ASSUME NEW S, IsFiniteSet(S), NEW f, NEW x, x \notin S,
           \A y \in S \cup {x} : f[y] \in Int
    PROVE  SumFunctionOnSet(f, S \cup {x}) = f[x] + SumFunctionOnSet(f, S)
<1> DEFINE T == S \cup {x}
<1>1. IsFiniteSet(T) /\ x \in T /\ T \ {x} = S
  BY FS_AddElement
<1>2. SumFunctionOnSet(f, T) = f[x] + SumFunctionOnSet(f, T \ {x})
  <2> HIDE DEF T
  <2>. QED  BY <1>1, SumRemove DEF T
<1>. QED  BY <1>1, <1>2

\* Only the amounts of the operations of the set matter.
THEOREM SumSame ==
    ASSUME NEW S, IsFiniteSet(S), NEW f, NEW h, \A x \in S : f[x] = h[x] /\ f[x] \in Int
    PROVE  SumFunctionOnSet(f, S) = SumFunctionOnSet(h, S)
<1> DEFINE B == {s \in SUBSET S : SumFunctionOnSet(f, s) # SumFunctionOnSet(h, s)}
<1>1. SUFFICES ASSUME B # {} PROVE FALSE
  OBVIOUS
<1>2. PICK s \in B : \A t \in B : t \subseteq s => t = s
  <2>1. B \in SUBSET SUBSET S
    OBVIOUS
  <2> HIDE DEF B
  <2>. QED  BY <1>1, <2>1, Minimal
<1>3. PICK x \in s : TRUE
  <2>1. s # {}
    BY SumEmpty
  <2>. QED  BY <2>1
<1>4. IsFiniteSet(s)
  BY FS_Subset
<1>5. SumFunctionOnSet(f, s \ {x}) = SumFunctionOnSet(h, s \ {x})
  BY <1>2
<1>6. SumFunctionOnSet(f, s) = f[x] + SumFunctionOnSet(f, s \ {x})
  BY <1>4, SumRemove
<1>7. SumFunctionOnSet(h, s) = h[x] + SumFunctionOnSet(h, s \ {x})
  BY <1>4, SumRemove
<1>. QED  BY <1>5, <1>6, <1>7

\* The amount of one operation changes, and the sum by as much.
THEOREM SumChange ==
    ASSUME NEW S, IsFiniteSet(S), NEW f, NEW h, NEW x \in S,
           \A y \in S : f[y] \in Int /\ h[y] \in Int,
           \A y \in S \ {x} : h[y] = f[y]
    PROVE  SumFunctionOnSet(h, S) = SumFunctionOnSet(f, S) + h[x] - f[x]
<1>1. IsFiniteSet(S \ {x})
  BY FS_Subset
<1>2. SumFunctionOnSet(f, S \ {x}) = SumFunctionOnSet(h, S \ {x})
  BY <1>1, SumSame
<1>3. SumFunctionOnSet(f, S) = f[x] + SumFunctionOnSet(f, S \ {x})
  BY SumRemove
<1>4. SumFunctionOnSet(h, S) = h[x] + SumFunctionOnSet(h, S \ {x})
  BY SumRemove
<1>5. SumFunctionOnSet(f, S \ {x}) \in Int
  BY <1>1, SumIsInt
<1>. QED  BY <1>2, <1>3, <1>4, <1>5

\* Nothing held by anyone makes nothing.
THEOREM SumZero ==
    ASSUME NEW S, IsFiniteSet(S), NEW f, \A x \in S : f[x] = 0
    PROVE  SumFunctionOnSet(f, S) = 0
<1> DEFINE B == {s \in SUBSET S : SumFunctionOnSet(f, s) # 0}
<1>1. SUFFICES ASSUME B # {} PROVE FALSE
  OBVIOUS
<1>2. PICK s \in B : \A t \in B : t \subseteq s => t = s
  <2>1. B \in SUBSET SUBSET S
    OBVIOUS
  <2> HIDE DEF B
  <2>. QED  BY <1>1, <2>1, Minimal
<1>3. PICK x \in s : TRUE
  <2>1. s # {}
    BY SumEmpty
  <2>. QED  BY <2>1
<1>4. IsFiniteSet(s)
  BY FS_Subset
<1>5. SumFunctionOnSet(f, s \ {x}) = 0
  BY <1>2
<1>6. SumFunctionOnSet(f, s) = f[x] + SumFunctionOnSet(f, s \ {x})
  BY <1>4, SumRemove
<1>. QED  BY <1>5, <1>6

\* Amounts that are not negative add up to one that is not.
THEOREM SumNatural ==
    ASSUME NEW S, IsFiniteSet(S), NEW f, \A x \in S : f[x] \in Nat
    PROVE  SumFunctionOnSet(f, S) \in Nat
<1> DEFINE B == {s \in SUBSET S : SumFunctionOnSet(f, s) \notin Nat}
<1>1. SUFFICES ASSUME B # {} PROVE FALSE
  OBVIOUS
<1>2. PICK s \in B : \A t \in B : t \subseteq s => t = s
  <2>1. B \in SUBSET SUBSET S
    OBVIOUS
  <2> HIDE DEF B
  <2>. QED  BY <1>1, <2>1, Minimal
<1>3. PICK x \in s : TRUE
  <2>1. s # {}
    BY SumEmpty
  <2>. QED  BY <2>1
<1>4. IsFiniteSet(s)
  BY FS_Subset
<1>5. SumFunctionOnSet(f, s \ {x}) \in Nat
  BY <1>2
<1>6. SumFunctionOnSet(f, s) = f[x] + SumFunctionOnSet(f, s \ {x})
  BY <1>4, SumRemove
<1>. QED  BY <1>5, <1>6

\* More operations never make a smaller sum.
THEOREM SumSubset ==
    ASSUME NEW S, IsFiniteSet(S), NEW T \in SUBSET S,
           NEW f, \A x \in S : f[x] \in Nat
    PROVE  SumFunctionOnSet(f, T) <= SumFunctionOnSet(f, S)
<1> DEFINE B == {s \in SUBSET S : /\ T \subseteq s
                                  /\ ~(SumFunctionOnSet(f, T)
                                         <= SumFunctionOnSet(f, s))}
<1>1. SUFFICES ASSUME B # {} PROVE FALSE
  OBVIOUS
<1>2. PICK s \in B : \A t \in B : t \subseteq s => t = s
  <2>1. B \in SUBSET SUBSET S
    OBVIOUS
  <2> HIDE DEF B
  <2>. QED  BY <1>1, <2>1, Minimal
<1>3. IsFiniteSet(T) /\ IsFiniteSet(s)
  BY FS_Subset
<1>4. SumFunctionOnSet(f, T) \in Nat
  BY <1>3, SumNatural
<1>5. PICK x \in s : x \notin T
  <2>1. s # T
    BY <1>4
  <2>. QED  BY <2>1
<1>6. SumFunctionOnSet(f, T) <= SumFunctionOnSet(f, s \ {x})
  BY <1>2, <1>5
<1>7. SumFunctionOnSet(f, s) = f[x] + SumFunctionOnSet(f, s \ {x})
  BY <1>3, <1>5, SumRemove
<1>8. SumFunctionOnSet(f, s \ {x}) \in Nat
  <2>1. IsFiniteSet(s \ {x})
    BY <1>3, FS_Subset
  <2>. QED  BY <2>1, SumNatural
<1>. QED  BY <1>4, <1>6, <1>7, <1>8

\* Taking an operation away, whether it is there or not, takes at most its
\* amount.
THEOREM SumWithout ==
    ASSUME NEW S, IsFiniteSet(S), NEW x, NEW f,
           \A y \in S \cup {x} : f[y] \in Nat
    PROVE  SumFunctionOnSet(f, S) <= SumFunctionOnSet(f, S \ {x}) + f[x]
<1>1. CASE x \in S
  <2>1. SumFunctionOnSet(f, S) = f[x] + SumFunctionOnSet(f, S \ {x})
    BY <1>1, SumRemove
  <2>2. IsFiniteSet(S \ {x})
    BY FS_Subset
  <2>3. SumFunctionOnSet(f, S \ {x}) \in Nat
    BY <2>2, SumNatural
  <2>. QED  BY <2>1, <2>3
<1>2. CASE x \notin S
  <2>1. S \ {x} = S
    BY <1>2
  <2>2. SumFunctionOnSet(f, S) \in Nat
    BY SumNatural
  <2>3. SumFunctionOnSet(f, S \ {x}) = SumFunctionOnSet(f, S)
    BY <2>1
  <2>4. f[x] \in Nat
    OBVIOUS
  <2> HIDE DEF SumFunctionOnSet
  <2>. QED  BY <2>2, <2>3, <2>4
<1>. QED  BY <1>1, <1>2
===========================================================================
