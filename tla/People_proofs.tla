--------------------------- MODULE People_proofs ---------------------------
(***************************************************************************)
(* What holds of the people on the platform, their accounts, cards, bank   *)
(* accounts, proofs of identity and quotations, and of those who run it,   *)
(* their roles and settings: an inductive invariant of each part, whatever *)
(* its constants and the budgets of mishaps.                               *)
(***************************************************************************)
EXTENDS Settings, Accounts, Cards, BankAccounts, Kyc, Staff, Quotes, Ledger_proofs
---------------------------------------------------------------------------
---------------------------------------------------------------------------
(* Mishaps are counted down.                                               *)

Budgets == budget \in [Kinds -> Nat] /\ \A f \in Kinds : budget[f] <= Budget[f]

\* What every step does to the budget.
CountsDown == \A f \in Kinds : budget'[f] <= budget[f]

LEMMA BudgetsInit == budget = Budget => Budgets
BY MishapsAssumption DEF Budgets

LEMMA BudgetSpent ==
    ASSUME Budgets, NEW f \in Kinds, Spend(f)
    PROVE  /\ Budgets' /\ CountsDown
           /\ \A F : f \in F => ~Untouched(F)'
<1>1. budget[f] \in Nat /\ budget[f] > 0 /\ Budget[f] \in Nat
      /\ budget[f] <= Budget[f]
  BY MishapsAssumption DEF Budgets, Spend
<1>2. budget' = [budget EXCEPT ![f] = budget[f] - 1]
  BY DEF Spend
<1>3. budget' \in [Kinds -> Nat] /\ budget'[f] = budget[f] - 1
  BY <1>1, <1>2 DEF Budgets
<1>4. \A g \in Kinds : budget'[g] <= budget[g] /\ budget'[g] <= Budget[g]
  <2>. TAKE g \in Kinds
  <2>1. budget[g] \in Nat /\ Budget[g] \in Nat /\ budget[g] <= Budget[g]
    BY MishapsAssumption DEF Budgets
  <2>2. CASE g = f
    BY <1>1, <1>3, <2>1, <2>2
  <2>3. CASE g # f
    BY <1>2, <2>1, <2>3 DEF Budgets
  <2>. QED  BY <2>2, <2>3
<1>5. budget'[f] # Budget[f]
  BY <1>1, <1>3
<1>. QED  BY <1>3, <1>4, <1>5 DEF Budgets, CountsDown, Untouched

\* What is noted leaves its trace, if its budget allows for one.
LEMMA BudgetNotedAll ==
    ASSUME Budgets, NEW G, NoteAll(G)
    PROVE  /\ Budgets' /\ CountsDown
           /\ \A F : \A f \in F : f \in G /\ f \in Kinds /\ Budget[f] > 0 => ~Untouched(F)'
  BY MishapsAssumption DEF Budgets, NoteAll, CountsDown, Untouched

LEMMA BudgetNoted ==
    ASSUME Budgets, NEW P \in BOOLEAN, NEW f \in Kinds, Note(P, f)
    PROVE  /\ Budgets' /\ CountsDown
           /\ P /\ Budget[f] > 0 => \A F : f \in F => ~Untouched(F)'
<1>1. NoteAll(IF P THEN {f} ELSE {})
  BY DEF Note
<1>2. CASE P
  BY <1>1, <1>2, BudgetNotedAll
<1>3. CASE ~P
  BY <1>1, <1>3, BudgetNotedAll
<1>. QED  BY <1>2, <1>3

LEMMA BudgetSame ==
    ASSUME Budgets, UNCHANGED budget
    PROVE  Budgets' /\ CountsDown
  BY DEF Budgets, CountsDown

\* What has not happened yet has not happened before.
LEMMA UntouchedBack ==
    ASSUME Budgets, CountsDown
    PROVE  \A F \in SUBSET Kinds : Untouched(F)' => Untouched(F)
  BY MishapsAssumption DEF Untouched, Budgets, CountsDown

\* How often mishaps of some kinds have happened.
LEMMA SpentNatural ==
    ASSUME Budgets, NEW F \in SUBSET Kinds
    PROVE  IsFiniteSet(F) /\ Spent(F) \in Nat
<1>. DEFINE g == [f \in F |-> Budget[f] - budget[f]]
<1>1. IsFiniteSet(F)
  BY MishapsAssumption, FS_Subset
<1>2. \A f \in F : g[f] \in Nat
  BY MishapsAssumption DEF Budgets
<1>3. SumFunctionOnSet(g, F) \in Nat
  <2>. HIDE DEF g
  <2>. QED  BY <1>1, <1>2, SumNatural
<1>. QED  BY <1>1, <1>3 DEF Spent

LEMMA SpentSame ==
    ASSUME Budgets, NEW F \in SUBSET Kinds, \A f \in F : budget'[f] = budget[f]
    PROVE  Spent(F)' = Spent(F)
  BY DEF Spent

LEMMA SpentUp ==
    ASSUME Budgets, NEW F \in SUBSET Kinds, NEW f \in F, Spend(f)
    PROVE  Spent(F)' = Spent(F) + 1
<1>. DEFINE g == [x \in F |-> Budget[x] - budget[x]]
            h == [x \in F |-> Budget[x] - budget'[x]]
<1>1. Budgets' /\ IsFiniteSet(F) /\ Spent(F) \in Nat
  BY BudgetSpent, SpentNatural
<1>2. \A x \in F : /\ budget[x] \in Nat /\ budget'[x] \in Nat /\ Budget[x] \in Nat
  BY <1>1, MishapsAssumption DEF Budgets
<1>3. \A x \in F : g[x] \in Int /\ h[x] \in Int
  BY <1>2
<1>4. h[f] = g[f] + 1 /\ \A x \in F \ {f} : h[x] = g[x]
  BY <1>2 DEF Spend, Budgets
<1>5. SumFunctionOnSet(h, F) = SumFunctionOnSet(g, F) + h[f] - g[f]
  <2>. HIDE DEF g, h
  <2>. QED  BY <1>1, <1>3, <1>4, SumChange
<1>6. Spent(F) = SumFunctionOnSet(g, F) /\ Spent(F)' = SumFunctionOnSet(h, F)
  BY DEF Spent
<1>7. g[f] \in Int
  BY <1>3
<1>. HIDE DEF g, h
<1>. QED  BY <1>1, <1>4, <1>5, <1>6, <1>7

\* Whatever else is spent.
LEMMA SpentBy ==
    ASSUME Budgets, NEW F \in SUBSET Kinds,
           UNCHANGED budget \/ \E f \in Kinds : Spend(f)
    PROVE  Spent(F) \in Nat /\ Spent(F)' \in Nat /\ Spent(F)' >= Spent(F)
<1>0. Spent(F) \in Nat
  BY SpentNatural
<1>1. CASE UNCHANGED budget
  BY <1>0, <1>1, SpentSame
<1>2. ASSUME NEW f \in Kinds, Spend(f) PROVE Spent(F)' \in Nat /\ Spent(F)' >= Spent(F)
  <2>1. CASE f \in F
    BY <1>0, <1>2, <2>1, SpentUp
  <2>2. CASE f \notin F
    BY <1>2, <2>2, <1>0, SpentSame DEF Spend, Budgets
  <2>. QED  BY <2>1, <2>2
<1>. QED  BY <1>0, <1>1, <1>2

\* Numbers: each set of them that is not empty has a least one, and a greatest if finite.
LEMMA LeastOf ==
    ASSUME NEW S \in SUBSET Nat, S # {}
    PROVE  \E u \in S : \A v \in S : u <= v
<1>1. PICK u \in S : \A v \in S : ~(<<v, u>> \in OpToRel(<, Nat))
  BY NatLessThanWellFounded, WFMin, Zenon
<1>2. \A v \in S : v \in Nat /\ u \in Nat /\ ~(v < u)
  BY <1>1 DEF OpToRel
<1>. QED  BY <1>2

\* One element more, unless it is there.
LEMMA CardinalityPlus ==
    ASSUME NEW S, IsFiniteSet(S), NEW x
    PROVE  /\ IsFiniteSet(S \cup {x}) /\ Cardinality(S) \in Nat
           /\ Cardinality(S \cup {x}) \in Nat
           /\ Cardinality(S) <= Cardinality(S \cup {x})
           /\ Cardinality(S \cup {x}) <= Cardinality(S) + 1
           /\ x \notin S => Cardinality(S \cup {x}) = Cardinality(S) + 1
<1>1. Cardinality(S) \in Nat /\ IsFiniteSet(S \cup {x})
  BY FS_AddElement, FS_CardinalityType
<1>2. CASE x \in S
  <2>1. S \cup {x} = S
    BY <1>2
  <2>. QED  BY <1>1, <1>2, <2>1
<1>3. CASE x \notin S
  BY <1>1, <1>3, FS_AddElement
<1>. QED  BY <1>2, <1>3

---------------------------------------------------------------------------
(* Identification.                                                         *)

\* What is known of the user of a request that is under way.
InquiriesGrounded ==
    \A s \in KycSlots :
        /\ ~Asking(s, "idle") => inquiry[s].who \in People
        /\ Asking(s, "nin") => inquiry[s].nin \in Nins
        /\ Asking(s, "paper") \/ Asking(s, "kept") => known[inquiry[s].who].nin # "none"
        /\ Asking(s, "kept") /\ Untouched({"renewed"}) =>
               known[inquiry[s].who].document = "paper"

KycInv == Budgets /\ KycTypeOK /\ InquiriesGrounded /\ NinsOwn /\ TierFollowsDocument

LEMMA KycStarts == ASSUME budget = Budget, KycInit PROVE KycInv
<1>1. Budgets
  BY BudgetsInit
<1>2. KycTypeOK /\ InquiriesGrounded /\ TierFollowsDocument
  BY DEF KycInit, KycTypeOK, InquiriesGrounded, TierFollowsDocument, Asking, NoInquiry
<1>3. \A n \in Nins : HasNin(n) = {}
  BY KycAssumption DEF KycInit, HasNin
<1>4. NinsOwn
  BY <1>3, KycAssumption DEF NinsOwn
<1>. QED  BY <1>1, <1>2, <1>4 DEF KycInv

\* A step that leaves the users as they are.
LEMMA KycSameUsers ==
    ASSUME KycInv, UNCHANGED <<known, tier>>, Budgets', CountsDown,
           inquiry' \in [KycSlots -> [pc : {"idle", "nin", "paper", "kept"},
                                      who : People \cup {"none"}, nin : Nins \cup {"none"}]],
           \A s \in KycSlots :
               \/ inquiry'[s] = inquiry[s]
               \/ inquiry'[s].pc = "idle" /\ (inquiry[s].pc # "kept" \/ ~Untouched({"error", "crash"})')
               \/ /\ inquiry[s].pc = "idle" /\ inquiry'[s].who \in People
                  /\ \/ inquiry'[s].pc = "nin" /\ inquiry'[s].nin \in Nins
                     \/ inquiry'[s].pc = "paper" /\ known[inquiry'[s].who].nin # "none"
    PROVE  KycInv'
<1>1. /\ {"renewed"} \in SUBSET Kinds /\ {"error", "crash"} \in SUBSET Kinds
  BY KycAssumption
<1>2. /\ Untouched({"renewed"})' => Untouched({"renewed"})
      /\ Untouched({"error", "crash"})' => Untouched({"error", "crash"})
  BY <1>1, UntouchedBack DEF KycInv
<1>3. KycTypeOK' /\ NinsOwn'
  BY DEF KycInv, KycTypeOK, NinsOwn, HasNin
<1>4. InquiriesGrounded'
  BY <1>2 DEF KycInv, InquiriesGrounded, Asking
<1>5. TierFollowsDocument'
  <2>. SUFFICES ASSUME NEW p \in People
                PROVE  TierFollowsDocument!(p)'
    BY DEF TierFollowsDocument
  <2>1. CASE \E s \in KycSlots : Asking(s, "kept") /\ inquiry[s].who = p
    <3>1. PICK s \in KycSlots : Asking(s, "kept") /\ inquiry[s].who = p
      BY <2>1
    <3>. QED  BY <3>1, <1>2 DEF KycInv, TierFollowsDocument, Asking
  <2>2. CASE ~\E s \in KycSlots : Asking(s, "kept") /\ inquiry[s].who = p
    BY <2>2, <1>2 DEF KycInv, TierFollowsDocument
  <2>. QED  BY <2>1, <2>2
<1>. QED  BY <1>3, <1>4, <1>5 DEF KycInv

LEMMA KycSteps ==
    ASSUME KycInv, KycNext
    PROVE  KycInv' /\ CountsDown
<1>kinds. /\ {"refusal", "error", "crash", "renewed"} \subseteq Kinds
  BY KycAssumption
<1>slots. \A s \in KycSlots : /\ inquiry[s].pc \in {"idle", "nin", "paper", "kept"}
                              /\ inquiry[s] \in [pc : {"idle", "nin", "paper", "kept"},
                                 who : People \cup {"none"}, nin : Nins \cup {"none"}]
  BY DEF KycInv, KycTypeOK
<1>1. CASE KycCrash
  BY <1>1, <1>kinds, BudgetSpent, KycSameUsers DEF KycInv, KycCrash, NoInquiry
<1>2. ASSUME NEW p \in People, VerifyAddress(p)
      PROVE  KycInv' /\ CountsDown
  <2>1. /\ known' = [known EXCEPT ![p].address = TRUE]
        /\ UNCHANGED <<tier, inquiry, budget>>
    BY <1>2 DEF VerifyAddress
  <2>2. Budgets' /\ CountsDown
    BY <2>1, BudgetSame DEF KycInv
  <2>3. \A q \in People : /\ known'[q].nin = known[q].nin
                          /\ known'[q].document = known[q].document
    BY <2>1 DEF KycInv, KycTypeOK
  <2>4. KycTypeOK'
    BY <2>1 DEF KycInv, KycTypeOK
  <2>5. \A n \in Nins : HasNin(n)' = HasNin(n)
    BY <2>3 DEF HasNin
  <2>6. NinsOwn'
    BY <2>5 DEF KycInv, NinsOwn
  <2>7. InquiriesGrounded'
    BY <2>1, <2>3, <1>slots DEF KycInv, InquiriesGrounded, Asking, Untouched
  <2>8. TierFollowsDocument'
    BY <2>1, <2>3 DEF KycInv, TierFollowsDocument, Asking, Untouched
  <2>. QED  BY <2>2, <2>4, <2>6, <2>7, <2>8 DEF KycInv
<1>3. ASSUME NEW s \in KycSlots, SaveNin(s)
      PROVE  KycInv' /\ CountsDown
  <2>. DEFINE p == inquiry[s].who
              n == inquiry[s].nin
  <2>1. /\ inquiry' = [inquiry EXCEPT ![s] = NoInquiry] /\ UNCHANGED tier
        /\ inquiry[s].pc = "nin" /\ p \in People /\ n \in Nins
    BY <1>3 DEF SaveNin, Inquired, Asking, KycInv, InquiriesGrounded
  <2>2. CASE UNCHANGED <<known, budget>>
    BY <2>2, BudgetSame, <2>1, <1>slots, KycSameUsers DEF KycInv, NoInquiry, KycTypeOK
  <2>3. CASE UNCHANGED known /\ Spend("refusal")
    BY <2>3, <1>kinds, BudgetSpent, <2>1, <1>slots, KycSameUsers DEF KycInv, NoInquiry, KycTypeOK
  <2>4. CASE /\ p \in BearersOf[n] /\ NinFree(n, p)
             /\ known' = [known EXCEPT ![p].nin = n, ![p].document = "nin"]
             /\ Note(known[p].nin # "none", "renewed")
    <3>1. /\ Budgets' /\ CountsDown
          /\ known[p].nin # "none" => ~Untouched({"renewed"})'
      BY <2>4, <1>kinds, BudgetNoted, KycAssumption DEF KycInv
    <3>2. /\ Untouched({"renewed"})' => Untouched({"renewed"}) /\ known[p].nin = "none"
          /\ Untouched({"error", "crash"})' => Untouched({"error", "crash"})
      BY <3>1, <1>kinds, UntouchedBack DEF KycInv
    <3>3. /\ known' \in [People -> [nin : Nins \cup {"none"}, address : BOOLEAN,
                                    document : {"none", "nin", "paper"}]]
          /\ known'[p].nin = n /\ known'[p].document = "nin"
          /\ \A q \in People \ {p} : known'[q] = known[q]
      BY <2>1, <2>4 DEF KycInv, KycTypeOK
    <3>4. /\ inquiry'[s] = NoInquiry
          /\ \A t \in KycSlots \ {s} : inquiry'[t] = inquiry[t]
      BY <2>1 DEF KycInv, KycTypeOK
    <3>5. KycTypeOK'
      BY <2>1, <3>3 DEF KycInv, KycTypeOK, NoInquiry
    <3>6. \A m \in Nins : HasNin(m)' \subseteq IF m = n THEN {p} ELSE HasNin(m)
      BY <2>4, <3>3 DEF HasNin, NinFree
    <3>7. NinsOwn'
      BY <2>1, <2>4, <3>6 DEF KycInv, NinsOwn
    <3>8. n # "none"
      BY <2>1, KycAssumption
    <3>9. InquiriesGrounded'
      BY <3>2, <3>3, <3>4, <3>8 DEF KycInv, InquiriesGrounded, Asking, NoInquiry
    <3>10. ASSUME NEW q \in People
           PROVE  TierFollowsDocument!(q)'
      <4>1. CASE q = p
        BY <2>1, <3>2, <3>3, <3>8, <4>1 DEF KycInv, TierFollowsDocument
      <4>2. CASE q # p
        <5>1. ASSUME NEW t \in KycSlots, Asking(t, "kept") PROVE inquiry'[t] = inquiry[t]
          BY <2>1, <3>4, <5>1 DEF Asking
        <5>2. known'[q] = known[q]
          BY <3>3, <4>2
        <5>3. (\E t \in KycSlots : Asking(t, "kept") /\ inquiry[t].who = q) =>
                  \E t \in KycSlots : Asking(t, "kept")' /\ inquiry'[t].who = q
          BY <5>1 DEF Asking
        <5>. QED  BY <2>1, <3>2, <5>2, <5>3 DEF KycInv, TierFollowsDocument
      <4>. QED  BY <4>1, <4>2
    <3>. QED  BY <3>1, <3>5, <3>7, <3>9, <3>10 DEF KycInv, TierFollowsDocument
  <2>. QED  BY <1>3, <2>2, <2>3, <2>4 DEF SaveNin
<1>4. ASSUME NEW s \in KycSlots, KeepDocument(s)
      PROVE  KycInv' /\ CountsDown
  <2>. DEFINE p == inquiry[s].who
  <2>1. /\ UNCHANGED tier /\ inquiry[s].pc = "paper" /\ p \in People
        /\ known[p].nin # "none"
    BY <1>4 DEF KeepDocument, Asking, KycInv, InquiriesGrounded
  <2>2. CASE Inquired(s) /\ UNCHANGED known /\ Spend("refusal")
    BY <2>2, <1>kinds, BudgetSpent, <2>1, <1>slots, KycSameUsers DEF KycInv, NoInquiry, KycTypeOK,
      Inquired
  <2>3. CASE /\ known' = [known EXCEPT ![p].document = "paper"]
             /\ inquiry' = [inquiry EXCEPT ![s].pc = "kept"] /\ UNCHANGED budget
    <3>1. Budgets' /\ CountsDown
      BY <2>3, BudgetSame DEF KycInv
    <3>2. /\ known' \in [People -> [nin : Nins \cup {"none"}, address : BOOLEAN,
                                    document : {"none", "nin", "paper"}]]
          /\ known'[p].document = "paper"
          /\ \A q \in People : known'[q].nin = known[q].nin
          /\ \A q \in People \ {p} : known'[q] = known[q]
      BY <2>1, <2>3 DEF KycInv, KycTypeOK
    <3>3. /\ inquiry'[s].pc = "kept" /\ inquiry'[s].who = p
          /\ \A t \in KycSlots \ {s} : inquiry'[t] = inquiry[t]
      BY <2>3 DEF KycInv, KycTypeOK
    <3>4. KycTypeOK'
      BY <2>1, <2>3, <3>2 DEF KycInv, KycTypeOK
    <3>5. NinsOwn'
      BY <3>2 DEF KycInv, NinsOwn, HasNin
    <3>6. InquiriesGrounded'
      BY <2>1, <2>3, <3>2, <3>3 DEF KycInv, InquiriesGrounded, Asking, Untouched
    <3>7. ASSUME NEW q \in People
          PROVE  TierFollowsDocument!(q)'
      <4>1. CASE q = p
        BY <2>1, <2>3, <3>2, <3>3, <4>1 DEF KycInv, TierFollowsDocument, Asking, Untouched
      <4>2. CASE q # p
        BY <3>2, <4>2, <2>1, <3>3, <2>3 DEF Asking, KycInv, TierFollowsDocument, Untouched
      <4>. QED  BY <4>1, <4>2
    <3>. QED  BY <3>1, <3>4, <3>5, <3>6, <3>7 DEF KycInv, TierFollowsDocument
  <2>. QED  BY <1>4, <2>2, <2>3 DEF KeepDocument
<1>5. ASSUME NEW s \in KycSlots, RaiseTier(s)
      PROVE  KycInv' /\ CountsDown
  <2>. DEFINE p == inquiry[s].who
  <2>1. /\ UNCHANGED known /\ inquiry[s].pc = "kept" /\ p \in People
        /\ known[p].nin # "none"
        /\ Untouched({"renewed"}) => known[p].document = "paper"
        /\ inquiry' = [inquiry EXCEPT ![s] = NoInquiry]
    BY <1>5 DEF RaiseTier, Asking, KycInv, InquiriesGrounded, Inquired
  <2>2. CASE UNCHANGED tier /\ Spend("error")
    BY <2>2, <1>kinds, BudgetSpent, <2>1, <1>slots, KycSameUsers DEF KycInv, NoInquiry, KycTypeOK
  <2>3. CASE tier' = [tier EXCEPT ![p] = 2] /\ UNCHANGED budget
    <3>1. Budgets' /\ CountsDown
      BY <2>3, BudgetSame DEF KycInv
    <3>2. /\ tier'[p] = 2 /\ \A q \in People \ {p} : tier'[q] = tier[q]
          /\ tier' \in [People -> {1, 2}]
      BY <2>1, <2>3 DEF KycInv, KycTypeOK
    <3>3. /\ inquiry'[s] = NoInquiry
          /\ \A t \in KycSlots \ {s} : inquiry'[t] = inquiry[t]
      BY <2>1 DEF KycInv, KycTypeOK
    <3>4. KycTypeOK'
      BY <2>1, <3>2 DEF KycInv, KycTypeOK, NoInquiry
    <3>5. NinsOwn'
      BY <2>1 DEF KycInv, NinsOwn, HasNin
    <3>6. InquiriesGrounded'
      BY <2>1, <2>3, <3>3 DEF KycInv, InquiriesGrounded, Asking, Untouched, NoInquiry
    <3>7. ASSUME NEW q \in People
          PROVE  TierFollowsDocument!(q)'
      <4>1. CASE q = p
        BY <2>1, <2>3, <3>2, <4>1 DEF Untouched
      <4>2. CASE q # p
        BY <3>3, <4>2, <2>1, <2>3, <3>2 DEF Asking, KycInv, TierFollowsDocument, Untouched
      <4>. QED  BY <4>1, <4>2
    <3>. QED  BY <3>1, <3>4, <3>5, <3>6, <3>7 DEF KycInv, TierFollowsDocument
  <2>. QED  BY <1>5, <2>2, <2>3 DEF RaiseTier
<1>6. ASSUME NEW s \in KycSlots, NEW p \in People, UploadDocument(s, p)
      PROVE  KycInv' /\ CountsDown
  BY <1>6, BudgetSame, <1>slots, KycSameUsers DEF UploadDocument, Inquires, Asking, KycInv,
    KycTypeOK
<1>7. ASSUME NEW s \in KycSlots, NEW p \in People, NEW n \in Nins, ValidateNin(s, p, n)
      PROVE  KycInv' /\ CountsDown
  BY <1>7, BudgetSame, <1>slots, KycSameUsers DEF ValidateNin, Inquires, Asking, KycInv, KycTypeOK
<1>. QED  BY <1>1, <1>2, <1>3, <1>4, <1>5, <1>6, <1>7 DEF KycNext

---------------------------------------------------------------------------
(* Bank accounts.                                                          *)

\* A token that is there, or is being used, is of a number; what is about to be added
\* is the user's, and not there yet unless requests overlap.
BankGrounded ==
    /\ \A t \in BankTokens : bankToken[t].live => bankToken[t].of # "none"
    /\ \A s \in BankSlots :
           /\ ~BankAt(s, "idle") => /\ bankRequest[s].token \in BankTokens
                                    /\ NumberOf(s) # "none"
           /\ BankAt(s, "add") => /\ NumberOf(s) \in OwnNumbers
                                  /\ Untouched({"overlap"}) => bankRows[NumberOf(s)] = 0
    /\ Untouched({"overlap"}) =>
           \A s, u \in BankSlots : BankAt(s, "add") /\ BankAt(u, "add") /\ s # u =>
               NumberOf(s) # NumberOf(u)

BankInv == Budgets /\ BankTypeOK /\ BankGrounded /\ BanksExact

LEMMA BankStarts == ASSUME budget = Budget, BankInit PROVE BankInv
  BY BudgetsInit DEF BankInit, BankTypeOK, BankGrounded, BanksExact, BankAt, NoBankRequest,
    NumberOf, BankInv

\* A step that adds no account, and lets no request become about to.
LEMMA BankSameRows ==
    ASSUME BankInv, Budgets', CountsDown, BankTypeOK',
           \A n \in BankNumbers : bankRows'[n] <= bankRows[n],
           \A t \in BankTokens : /\ bankToken'[t].live => bankToken'[t].of # "none"
                                 /\ bankToken[t].of # "none" => bankToken'[t].of = bankToken[t].of,
           \A s \in BankSlots :
               \/ bankRequest'[s] = bankRequest[s]
               \/ bankRequest'[s].pc = "idle"
               \/ /\ bankRequest'[s].pc # "add"
                  /\ bankRequest'[s].token \in BankTokens
                  /\ bankToken[bankRequest'[s].token].of # "none"
    PROVE  BankInv'
<1>1. Untouched({"overlap"})' => Untouched({"overlap"})
  BY BankAssumption, UntouchedBack DEF BankInv
<1>2. \A n \in BankNumbers : bankRows[n] \in Nat /\ bankRows'[n] \in Nat
  BY DEF BankInv, BankTypeOK
<1>3. BanksExact'
  BY <1>1, <1>2 DEF BankInv, BanksExact
<1>4. ASSUME NEW s \in BankSlots, ~BankAt(s, "idle")'
      PROVE  /\ bankRequest'[s].token \in BankTokens /\ NumberOf(s)' # "none"
             /\ BankAt(s, "add")' => BankAt(s, "add") /\ NumberOf(s)' = NumberOf(s)
  BY <1>4 DEF BankAt, BankInv, BankGrounded, NumberOf
<1>5. \A s \in BankSlots : BankAt(s, "add")' => BankAt(s, "add") /\ NumberOf(s)' = NumberOf(s)
  BY <1>4 DEF BankAt
<1>6. \A s \in BankSlots : BankAt(s, "add")' => NumberOf(s) \in OwnNumbers /\ NumberOf(s) \in BankNumbers
  BY <1>5, BankAssumption DEF BankInv, BankGrounded
<1>7. BankGrounded'
  BY <1>1, <1>2, <1>4, <1>5, <1>6 DEF BankInv, BankGrounded
<1>. QED  BY <1>3, <1>7 DEF BankInv

LEMMA BankSteps ==
    ASSUME BankInv, BankNext
    PROVE  BankInv' /\ CountsDown
<1>kinds. {"refusal", "error", "expiry", "crash", "overlap"} \subseteq Kinds
  BY BankAssumption
<1>type. BankTypeOK /\ Budgets
  BY DEF BankInv
<1>live. \A t \in BankTokens : bankToken[t].live => bankToken[t].of # "none"
  BY DEF BankInv, BankGrounded
<1>slots. \A s \in BankSlots : ~BankAt(s, "idle") => bankRequest[s].token \in BankTokens
                                                     /\ NumberOf(s) # "none"
  BY DEF BankInv, BankGrounded
<1>list. ASSUME NEW list \in {"none", "full", "empty"}, BankListed(list)
         PROVE  Budgets' /\ CountsDown /\ bankList' \in {"none", "full", "empty"}
  BY <1>list, <1>type, <1>kinds, BudgetSame, BudgetSpent DEF BankListed, BankTypeOK
<1>1. CASE AllBanks
  BY <1>1, <1>list, <1>type, <1>live, BankSameRows DEF AllBanks, BankTypeOK
<1>2. CASE BankExpires
  <2>1. Budgets' /\ CountsDown
    BY <1>2, <1>kinds, <1>type, BudgetSpent DEF BankExpires
  <2>2. UNCHANGED <<bankRows, bankRequest>>
    BY <1>2 DEF BankExpires
  <2>3. BankTypeOK'
    BY <1>2, <1>type DEF BankTypeOK, BankExpires
  <2>4. \A t \in BankTokens : /\ bankToken'[t].live => bankToken[t].live
                              /\ bankToken'[t].of = bankToken[t].of
    BY <1>2, <1>type DEF BankTypeOK, BankExpires
  <2>5. \A n \in BankNumbers : bankRows'[n] <= bankRows[n]
    BY <2>2, <1>type DEF BankTypeOK
  <2>. QED  BY <2>1, <2>2, <2>3, <2>4, <2>5, <1>live, BankSameRows
<1>3. CASE BankCrash
  BY <1>3, <1>kinds, <1>type, BudgetSpent, <1>live, BankSameRows DEF BankCrash, BankTypeOK,
    NoBankRequest
<1>4. ASSUME NEW n \in BankNumbers, DeleteBankAccount(n)
      PROVE  BankInv' /\ CountsDown
  BY <1>4, <1>type, BudgetSame, <1>live, BankSameRows DEF DeleteBankAccount, BankTypeOK
<1>5. ASSUME NEW n \in BankNumbers, NEW t \in BankTokens, VerifyBankAccount(t, n)
      PROVE  BankInv' /\ CountsDown
  <2>1. Budgets' /\ CountsDown
    BY <1>5, <1>type, BudgetSame DEF VerifyBankAccount
  <2>2. /\ UNCHANGED <<bankList, bankRows, bankRequest>> /\ bankToken[t].of = "none"
        /\ bankToken' = [bankToken EXCEPT ![t] = [of |-> n, live |-> TRUE]]
    BY <1>5 DEF VerifyBankAccount
  <2>3. BankTypeOK'
    BY <2>2, <1>type DEF BankTypeOK
  <2>4. \A u \in BankTokens : /\ bankToken'[u].live => bankToken'[u].of # "none"
                              /\ bankToken[u].of # "none" => bankToken'[u].of = bankToken[u].of
    BY <2>2, <1>type, <1>live, BankAssumption DEF BankTypeOK
  <2>5. \A m \in BankNumbers : bankRows'[m] <= bankRows[m]
    BY <2>2, <1>type DEF BankTypeOK
  <2>. QED  BY <2>1, <2>2, <2>3, <2>4, <2>5, BankSameRows
<1>6. ASSUME NEW s \in BankSlots, BankNamed(s)
      PROVE  BankInv' /\ CountsDown
  <2>1. /\ Budgets' /\ CountsDown /\ bankList' \in {"none", "full", "empty"}
        /\ UNCHANGED <<bankToken, bankRows>>
        /\ BankGo(s, "named") \/ BankEnds(s)
        /\ BankAt(s, "begun")
    BY <1>6, <1>list DEF BankNamed
  <2>2. BankTypeOK'
    BY <2>1, <1>type DEF BankTypeOK, BankGo, BankEnds, NoBankRequest
  <2>3. \A u \in BankSlots : \/ bankRequest'[u] = bankRequest[u]
                             \/ bankRequest'[u].pc = "idle"
                             \/ u = s /\ bankRequest'[u].pc = "named"
                                /\ bankRequest'[u].token = bankRequest[u].token
    BY <2>1, <1>type DEF BankTypeOK, BankGo, BankEnds, NoBankRequest
  <2>5. \A m \in BankNumbers : bankRows'[m] <= bankRows[m]
    BY <2>1, <1>type DEF BankTypeOK
  <2>. QED  BY <2>1, <2>2, <2>3, <2>5, <1>live, <1>slots, BankSameRows DEF BankAt, NumberOf
<1>7. ASSUME NEW s \in BankSlots, BankChecked(s)
      PROVE  BankInv' /\ CountsDown
  <2>. DEFINE n == NumberOf(s)
              clash == \E u \in BankSlots \ {s} : BankAt(u, "add") /\ NumberOf(u) = n
              next == IF n \notin OwnNumbers \/ BankKnown(n) THEN "forget" ELSE "add"
  <2>1. /\ BankAt(s, "named") /\ UNCHANGED <<bankToken, bankList, bankRows>>
        /\ bankRequest' = [bankRequest EXCEPT ![s].pc = next]
        /\ Note(clash, "overlap")
    BY <1>7 DEF BankChecked, BankGo
  <2>2. /\ Budgets' /\ CountsDown
        /\ clash => ~Untouched({"overlap"})'
    BY <2>1, <1>kinds, <1>type, BankAssumption, BudgetNoted
  <2>3. BankTypeOK'
    BY <2>1, <1>type DEF BankTypeOK
  <2>4. /\ bankRequest'[s].pc = next /\ bankRequest'[s].token = bankRequest[s].token
        /\ \A u \in BankSlots \ {s} : bankRequest'[u] = bankRequest[u]
    BY <2>1, <1>type DEF BankTypeOK
  <2>5. \A m \in BankNumbers : bankRows'[m] <= bankRows[m]
    BY <2>1, <1>type DEF BankTypeOK
  <2>6. bankRequest[s].token \in BankTokens /\ n # "none"
    BY <2>1, <1>slots DEF BankAt
  <2>7. CASE next = "forget"
    BY <2>1, <2>2, <2>3, <2>4, <2>5, <2>6, <2>7, <1>live, BankSameRows DEF NumberOf
  <2>8. CASE next = "add"
    <3>1. n \in OwnNumbers /\ n \in BankNumbers /\ bankRows[n] = 0
      BY <2>8, BankAssumption, <1>type DEF BankKnown, BankTypeOK
    <3>2. Untouched({"overlap"})' => Untouched({"overlap"}) /\ ~clash
      BY <2>2, <1>kinds, <1>type, UntouchedBack
    <3>3. \A u \in BankSlots : NumberOf(u)' = NumberOf(u)
      BY <2>1, <2>4 DEF NumberOf
    <3>4. \A u \in BankSlots \ {s} : \A pc : BankAt(u, pc)' = BankAt(u, pc)
      BY <2>4 DEF BankAt
    <3>5. BankAt(s, "add")' /\ ~BankAt(s, "idle")'
      BY <2>4, <2>8 DEF BankAt
    <3>6. BanksExact'
      BY <2>1, <3>2 DEF BankInv, BanksExact
    <3>7. \A u \in BankSlots :
              /\ ~BankAt(u, "idle")' => /\ bankRequest'[u].token \in BankTokens
                                        /\ NumberOf(u)' # "none"
              /\ BankAt(u, "add")' => /\ NumberOf(u)' \in OwnNumbers
                                      /\ Untouched({"overlap"})' => bankRows'[NumberOf(u)'] = 0
      <4>. TAKE u \in BankSlots
      <4>1. CASE u = s
        BY <4>1, <2>1, <2>4, <2>6, <3>1, <3>3
      <4>2. CASE u # s
        BY <4>2, <2>1, <2>4, <3>2, <3>3, <3>4 DEF BankInv, BankGrounded
      <4>. QED  BY <4>1, <4>2
    <3>8. Untouched({"overlap"})' =>
           \A a, u \in BankSlots : BankAt(a, "add")' /\ BankAt(u, "add")' /\ a # u =>
               NumberOf(a)' # NumberOf(u)'
      BY <3>2, <3>3, <3>4 DEF BankInv, BankGrounded
    <3>9. \A t \in BankTokens : (bankToken[t].live => bankToken[t].of # "none")'
      BY <2>1, <1>live
    <3>10. BankGrounded'
      BY <3>7, <3>8, <3>9 DEF BankGrounded
    <3>. QED  BY <2>2, <2>3, <3>6, <3>10 DEF BankInv
  <2>. QED  BY <2>7, <2>8
<1>8. ASSUME NEW s \in BankSlots, BankAdded(s)
      PROVE  BankInv' /\ CountsDown
  <2>. DEFINE n == NumberOf(s)
  <2>1. /\ BankAt(s, "add") /\ UNCHANGED <<bankToken, bankList>>
        /\ n \in OwnNumbers /\ n \in BankNumbers
        /\ Untouched({"overlap"}) => bankRows[n] = 0
    BY <1>8, BankAssumption DEF BankAdded, BankInv, BankGrounded
  <2>2. CASE UNCHANGED bankRows /\ BankEnds(s) /\ Spend("error")
    BY <2>2, <1>kinds, <1>type, BudgetSpent, <2>1, <1>live, BankSameRows DEF BankTypeOK, BankEnds,
      NoBankRequest
  <2>3. CASE /\ bankRows' = [bankRows EXCEPT ![n] = bankRows[n] + 1] /\ BankGo(s, "forget")
             /\ UNCHANGED budget
    <3>1. Budgets' /\ CountsDown
      BY <2>3, <1>type, BudgetSame
    <3>2. BankTypeOK'
      BY <2>1, <2>3, <1>type DEF BankTypeOK, BankGo
    <3>3. /\ bankRequest'[s].pc = "forget" /\ bankRequest'[s].token = bankRequest[s].token
          /\ \A u \in BankSlots \ {s} : bankRequest'[u] = bankRequest[u]
      BY <2>3, <1>type DEF BankTypeOK, BankGo
    <3>4. /\ bankRows'[n] = bankRows[n] + 1
          /\ \A m \in BankNumbers \ {n} : bankRows'[m] = bankRows[m]
      BY <2>1, <2>3, <1>type DEF BankTypeOK
    <3>5. Untouched({"overlap"})' = Untouched({"overlap"})
      BY <2>3 DEF Untouched
    <3>6. BanksExact'
      <4>. SUFFICES ASSUME NEW m \in BankNumbers
                    PROVE  /\ bankRows'[m] > 0 => m \in OwnNumbers
                           /\ Untouched({"overlap"}) => bankRows'[m] <= 1
        BY <3>5 DEF BanksExact
      <4>1. CASE m = n
        BY <4>1, <2>1, <3>4
      <4>2. CASE m # n
        BY <4>2, <3>4 DEF BankInv, BanksExact
      <4>. QED  BY <4>1, <4>2
    <3>7. \A u \in BankSlots : NumberOf(u)' = NumberOf(u)
      BY <2>1, <3>3 DEF NumberOf
    <3>8. \A u \in BankSlots \ {s} : \A pc : BankAt(u, pc)' = BankAt(u, pc)
      BY <3>3 DEF BankAt
    <3>9. ~BankAt(s, "add")' /\ bankRequest[s].token \in BankTokens /\ n # "none"
      BY <2>1, <3>3, <1>slots DEF BankAt
    <3>10. \A u \in BankSlots :
              /\ ~BankAt(u, "idle")' => /\ bankRequest'[u].token \in BankTokens
                                        /\ NumberOf(u)' # "none"
              /\ BankAt(u, "add")' => /\ NumberOf(u)' \in OwnNumbers
                                      /\ Untouched({"overlap"})' => bankRows'[NumberOf(u)'] = 0
      <4>. TAKE u \in BankSlots
      <4>1. CASE u = s
        BY <4>1, <3>3, <3>7, <3>9
      <4>2. CASE u # s
        BY <2>1, <4>2, BankAssumption, <3>3, <3>4, <3>5, <3>7, <3>8, <1>slots DEF BankInv,
          BankGrounded
      <4>. QED  BY <4>1, <4>2
    <3>11. Untouched({"overlap"})' =>
           \A a, u \in BankSlots : BankAt(a, "add")' /\ BankAt(u, "add")' /\ a # u =>
               NumberOf(a)' # NumberOf(u)'
      BY <3>5, <3>7, <3>8, <3>9 DEF BankInv, BankGrounded
    <3>12. \A t \in BankTokens : (bankToken[t].live => bankToken[t].of # "none")'
      BY <2>1, <1>live
    <3>13. BankGrounded'
      BY <3>10, <3>11, <3>12 DEF BankGrounded
    <3>. QED  BY <3>1, <3>2, <3>6, <3>13 DEF BankInv
  <2>. QED  BY <1>8, <2>2, <2>3 DEF BankAdded
<1>9. ASSUME NEW s \in BankSlots, BankForgotten(s)
      PROVE  BankInv' /\ CountsDown
  <2>1. Budgets' /\ CountsDown
    BY <1>9, <1>type, BudgetSame DEF BankForgotten
  <2>2. /\ UNCHANGED <<bankList, bankRows>>
        /\ bankRequest' = [bankRequest EXCEPT ![s] = NoBankRequest]
        /\ bankToken' = [bankToken EXCEPT ![bankRequest[s].token].live = FALSE]
    BY <1>9 DEF BankForgotten, BankEnds
  <2>3. BankTypeOK'
    BY <2>2, <1>type DEF BankTypeOK, NoBankRequest
  <2>4. \A t \in BankTokens : /\ bankToken'[t].live => bankToken[t].live
                              /\ bankToken'[t].of = bankToken[t].of
    BY <2>2, <1>type DEF BankTypeOK
  <2>5. \A m \in BankNumbers : bankRows'[m] <= bankRows[m]
    BY <2>2, <1>type DEF BankTypeOK
  <2>6. \A u \in BankSlots : \/ bankRequest'[u] = bankRequest[u]
                             \/ bankRequest'[u].pc = "idle"
    BY <2>2, <1>type DEF BankTypeOK, NoBankRequest
  <2>. QED  BY <2>1, <2>3, <2>4, <2>5, <2>6, <1>live, BankSameRows
<1>10. ASSUME NEW s \in BankSlots, NEW t \in BankTokens, CreateBankAccount(s, t)
       PROVE  BankInv' /\ CountsDown
  <2>1. Budgets' /\ CountsDown
    BY <1>10, <1>type, BudgetSame DEF CreateBankAccount
  <2>2. /\ UNCHANGED <<bankToken, bankList, bankRows>> /\ bankToken[t].live
        /\ bankRequest' = [bankRequest EXCEPT ![s] = [pc |-> "begun", token |-> t]]
    BY <1>10 DEF CreateBankAccount
  <2>3. BankTypeOK'
    BY <2>2, <1>type DEF BankTypeOK
  <2>5. \A m \in BankNumbers : bankRows'[m] <= bankRows[m]
    BY <2>2, <1>type DEF BankTypeOK
  <2>6. \A u \in BankSlots : \/ bankRequest'[u] = bankRequest[u]
                             \/ bankRequest'[u] = [pc |-> "begun", token |-> t]
    BY <2>2, <1>type DEF BankTypeOK
  <2>. QED  BY <2>1, <2>2, <2>3, <2>5, <2>6, <1>live, BankSameRows
<1>. QED  BY <1>1, <1>2, <1>3, <1>4, <1>5, <1>6, <1>7, <1>8, <1>9, <1>10 DEF BankNext

---------------------------------------------------------------------------
(* Cards.                                                                  *)

CardUndone == {"lostAnswer", "timeout", "error", "crash"}

\* A charge that is known of was paid; what is being stored is not booked yet, one
\* transaction at a time has inserted it, and unless requests overlap nothing else is
\* stored of its card; who is told has a card.
CardGrounded ==
    /\ \A r \in References : r \in cardTold => cardCharge[r].at \in {"paid", "refunded"}
    /\ \A v \in Callbacks :
           /\ ~CardAt(v, "idle") => /\ callback[v].ref \in References
                                    /\ cardCharge[callback[v].ref].at \in {"paid", "refunded"}
           /\ CardAt(v, "refund") \/ CardAt(v, "commit") => callback[v].ref \notin cardBooks
           /\ CardAt(v, "commit") => cardCharge[callback[v].ref].at = "refunded"
           /\ Storing(v) /\ Untouched({"overlap"}) =>
                  SavedAs(CardOf(callback[v].ref)) \subseteq {callback[v].ref}
           /\ CardAt(v, "tell") /\ Untouched({"cardDeleted"}) =>
                  SavedAs(CardOf(callback[v].ref)) # {}
    /\ \A u, v \in Callbacks :
           /\ callback[u].pc \in {"refund", "commit"} /\ callback[v].pc \in {"refund", "commit"}
              /\ callback[u].ref = callback[v].ref => u = v
           /\ Storing(u) /\ Storing(v) /\ Untouched({"overlap"})
              /\ CardOf(callback[u].ref) = CardOf(callback[v].ref) =>
                     callback[u].ref = callback[v].ref

CardsAlone ==
    Untouched({"overlap"}) =>
        \A q, r \in savedCards : CardOf(q) = CardOf(r) => q = r

CardInv == /\ Budgets /\ CardTypeOK /\ CardGrounded
           /\ CardsBacked /\ RefundsBooked /\ CardsAlone /\ ToldIsSaved

LEMMA CardStarts == ASSUME budget = Budget, CardInit PROVE CardInv
<1>1. Budgets
  BY BudgetsInit
<1>2. CardTypeOK /\ CardsBacked /\ RefundsBooked /\ CardsAlone /\ ToldIsSaved
  BY DEF CardInit, CardTypeOK, CardsBacked, RefundsBooked, CardsAlone, ToldIsSaved, NoCallback,
    CallbackSteps
<1>3. CardGrounded
  BY DEF CardInit, CardGrounded, CardAt, Storing, NoCallback
<1>. QED  BY <1>1, <1>2, <1>3 DEF CardInv

LEMMA CardSaysExact == ASSUME CardInv PROVE CardsExact
<1>. SUFFICES ASSUME Untouched({"overlap"}), NEW card \in Plastics
              PROVE  Cardinality(SavedAs(card)) <= 1
  BY DEF CardInv, CardsExact, OneRowPerCard
<1>1. \A q, r \in SavedAs(card) : q = r
  BY DEF CardInv, CardsAlone, SavedAs
<1>2. CASE SavedAs(card) = {}
  BY <1>2, FS_EmptySet
<1>3. CASE SavedAs(card) # {}
  <2>1. PICK r \in SavedAs(card) : TRUE
    BY <1>3
  <2>2. SavedAs(card) = {r}
    BY <1>1, <2>1
  <2>3. Cardinality({r}) = 1
    BY FS_Singleton
  <2>. QED  BY <2>2, <2>3
<1>. QED  BY <1>2, <1>3

\* A charge that has been paid stays with its card; what is booked and saved, with it.
LEMMA CardKept ==
    ASSUME CardInv,
           \A r \in References : \/ cardCharge'[r] = cardCharge[r]
                                 \/ cardCharge[r].at \in {"none", "open"}
                                 \/ /\ cardCharge[r].at = "paid" /\ cardCharge'[r].at = "refunded"
                                    /\ cardCharge'[r].card = cardCharge[r].card
    PROVE  /\ \A r \in References : cardCharge[r].at \in {"paid", "refunded"} =>
                  /\ CardOf(r)' = CardOf(r)
                  /\ cardCharge'[r].at \in {"paid", "refunded"}
                  /\ cardCharge[r].at = "refunded" => cardCharge'[r].at = "refunded"
           /\ \A r \in savedCards : r \in References /\ CardOf(r)' = CardOf(r)
           /\ \A r \in cardBooks : r \in References /\ cardCharge'[r].at = "refunded"
           /\ \A r \in cardTold : r \in References /\ CardOf(r)' = CardOf(r)
           /\ savedCards' = savedCards => \A card : SavedAs(card)' = SavedAs(card)
  BY DEF CardInv, CardsBacked, CardTypeOK, CardGrounded, CardOf, SavedAs

\* A step that books and saves nothing.
LEMMA CardSame ==
    ASSUME CardInv, Budgets', CountsDown, CardTypeOK', UNCHANGED <<cardBooks, savedCards>>,
           \A r \in References : \/ cardCharge'[r] = cardCharge[r]
                                 \/ /\ cardCharge[r].at \in {"none", "open"}
                                    /\ cardCharge'[r].at \in {"open", "paid"},
           \A r \in cardTold' : \/ r \in cardTold
                                \/ \E v \in Callbacks : CardAt(v, "tell") /\ callback[v].ref = r,
           \A v \in Callbacks :
               \/ callback'[v] = callback[v]
               \/ callback'[v].pc = "idle" /\ (~CardAt(v, "commit") \/ ~Untouched(CardUndone)')
               \/ /\ callback'[v].pc = "verified" /\ callback'[v].ref \in References
                  /\ cardCharge[callback'[v].ref].at \in {"paid", "refunded"}
                  /\ ~CardAt(v, "commit")
               \/ /\ callback'[v].pc = "tell" /\ callback'[v].ref = callback[v].ref
                  /\ CardAt(v, "verified") /\ SavedAs(CardOf(callback[v].ref)) # {}
    PROVE  CardInv'
<1>kinds. {"overlap"} \in SUBSET Kinds /\ {"cardDeleted"} \in SUBSET Kinds /\ CardUndone \in SUBSET Kinds
  BY CardsAssumption DEF CardUndone
<1>1. /\ Untouched({"overlap"})' => Untouched({"overlap"})
      /\ Untouched({"cardDeleted"})' => Untouched({"cardDeleted"})
      /\ Untouched(CardUndone)' => Untouched(CardUndone)
  BY <1>kinds, UntouchedBack DEF CardInv
<1>2. /\ \A r \in References : cardCharge[r].at \in {"paid", "refunded"} =>
                  /\ CardOf(r)' = CardOf(r)
                  /\ cardCharge'[r].at \in {"paid", "refunded"}
                  /\ cardCharge[r].at = "refunded" => cardCharge'[r].at = "refunded"
      /\ \A r \in savedCards : r \in References /\ CardOf(r)' = CardOf(r)
      /\ \A r \in cardBooks : r \in References /\ cardCharge'[r].at = "refunded"
      /\ \A r \in cardTold : r \in References /\ CardOf(r)' = CardOf(r)
      /\ \A card : SavedAs(card)' = SavedAs(card)
  <2>1. \A r \in References : \/ cardCharge'[r] = cardCharge[r]
                                 \/ cardCharge[r].at \in {"none", "open"}
    OBVIOUS
  <2>. HIDE DEF CardInv
  <2>. QED  BY <2>1, CardKept
<1>3. CardsBacked'
  BY <1>2 DEF CardInv, CardsBacked
<1>4. CardsAlone'
  BY <1>1, <1>2 DEF CardInv, CardsAlone
<1>5. \A r \in References : cardCharge'[r].at = "refunded" => cardCharge[r].at = "refunded"
  OBVIOUS
<1>6. RefundsBooked'
  <2>. SUFFICES ASSUME Untouched(CardUndone)', NEW r \in References, cardCharge'[r].at = "refunded",
                       r \notin cardBooks
                PROVE  \E v \in Callbacks : CardAt(v, "commit")' /\ callback'[v].ref = r
    BY DEF RefundsBooked, CardUndone
  <2>1. PICK v \in Callbacks : CardAt(v, "commit") /\ callback[v].ref = r
    BY <1>1, <1>5 DEF CardInv, RefundsBooked, CardUndone
  <2>2. callback'[v] = callback[v]
    BY <2>1 DEF CardAt
  <2>. QED  BY <2>1, <2>2 DEF CardAt
<1>7. ASSUME NEW v \in Callbacks, ~CardAt(v, "idle")'
      PROVE  \/ callback'[v] = callback[v] /\ ~CardAt(v, "idle")
             \/ callback'[v].pc = "verified" /\ callback'[v].ref \in References
                /\ cardCharge[callback'[v].ref].at \in {"paid", "refunded"}
             \/ /\ callback'[v].pc = "tell" /\ callback'[v].ref = callback[v].ref
                /\ ~CardAt(v, "idle") /\ SavedAs(CardOf(callback[v].ref)) # {}
  BY <1>7 DEF CardAt
<1>8. ASSUME NEW v \in Callbacks, ~CardAt(v, "idle")'
      PROVE  /\ callback'[v].ref \in References
             /\ cardCharge[callback'[v].ref].at \in {"paid", "refunded"}
             /\ callback'[v].pc = "tell" \/ callback'[v].pc = "verified" \/ callback'[v] = callback[v]
             /\ callback'[v].pc = "tell" =>
                    \/ CardAt(v, "tell") /\ callback'[v] = callback[v]
                    \/ SavedAs(CardOf(callback'[v].ref)) # {}
  BY <1>7, <1>8 DEF CardInv, CardGrounded, CardAt
<1>9. \A r \in cardTold' : r \in References => cardCharge'[r].at \in {"paid", "refunded"}
  BY <1>2 DEF CardInv, CardGrounded, CardAt
<1>10. \A v \in Callbacks :
           /\ ~CardAt(v, "idle")' => /\ callback'[v].ref \in References
                                    /\ cardCharge'[callback'[v].ref].at \in {"paid", "refunded"}
           /\ CardAt(v, "refund")' \/ CardAt(v, "commit")' => callback'[v].ref \notin cardBooks'
           /\ CardAt(v, "commit")' => cardCharge'[callback'[v].ref].at = "refunded"
           /\ Storing(v)' /\ Untouched({"overlap"})' =>
                  SavedAs(CardOf(callback[v].ref))' \subseteq {callback'[v].ref}
           /\ CardAt(v, "tell")' /\ Untouched({"cardDeleted"})' =>
                  SavedAs(CardOf(callback[v].ref))' # {}
  <2>. TAKE v \in Callbacks
  <2>1. CASE CardAt(v, "idle")'
    BY <2>1 DEF CardAt, Storing
  <2>2. CASE ~CardAt(v, "idle")'
    <3>1. /\ callback'[v].ref \in References
          /\ cardCharge'[callback'[v].ref].at \in {"paid", "refunded"}
          /\ CardOf(callback[v].ref)' = CardOf(callback'[v].ref)
          /\ SavedAs(CardOf(callback[v].ref))' = SavedAs(CardOf(callback'[v].ref))
      BY <1>2, <1>8, <2>2 DEF CardOf
    <3>2. CASE callback'[v] = callback[v]
      BY <1>1, <1>2, <1>8, <2>2, <3>1, <3>2 DEF CardInv, CardGrounded, CardAt, Storing
    <3>3. CASE callback'[v] # callback[v]
      BY <1>1, <1>2, <1>8, <2>2, <3>1, <3>3 DEF CardAt, Storing
    <3>. QED  BY <3>2, <3>3
  <2>. QED  BY <2>1, <2>2
<1>11. \A u \in Callbacks : callback'[u].pc \in {"debit", "refund", "commit"} =>
           /\ callback'[u] = callback[u] /\ callback[u].ref \in References
           /\ CardOf(callback[u].ref)' = CardOf(callback[u].ref)
  BY <1>2 DEF CardInv, CardGrounded, CardAt, CardOf
<1>12. \A u, v \in Callbacks :
           /\ callback'[u].pc \in {"refund", "commit"} /\ callback'[v].pc \in {"refund", "commit"}
              /\ callback'[u].ref = callback'[v].ref => u = v
           /\ Storing(u)' /\ Storing(v)' /\ Untouched({"overlap"})'
              /\ CardOf(callback[u].ref)' = CardOf(callback[v].ref)' =>
                     callback'[u].ref = callback'[v].ref
  BY <1>1, <1>11 DEF CardInv, CardGrounded, Storing
<1>13. CardGrounded'
  BY <1>9, <1>10, <1>12 DEF CardGrounded
<1>14. ToldIsSaved'
  <2>. SUFFICES ASSUME Untouched({"cardDeleted"})', NEW r \in cardTold'
                PROVE  SavedAs(CardOf(r))' # {}
    BY DEF ToldIsSaved
  <2>1. CASE r \in cardTold
    BY <1>1, <1>2, <2>1 DEF CardInv, ToldIsSaved
  <2>2. CASE \E v \in Callbacks : CardAt(v, "tell") /\ callback[v].ref = r
    <3>1. PICK v \in Callbacks : CardAt(v, "tell") /\ callback[v].ref = r
      BY <2>2
    <3>2. /\ SavedAs(CardOf(r)) # {} /\ r \in References
          /\ cardCharge[r].at \in {"paid", "refunded"}
      BY <1>1, <3>1 DEF CardInv, CardGrounded, CardAt
    <3>3. CardOf(r)' = CardOf(r)
      BY <1>2, <3>2
    <3>. QED  BY <3>2, <3>3, <1>2
  <2>. QED  BY <2>1, <2>2
<1>. QED  BY <1>3, <1>4, <1>6, <1>13, <1>14 DEF CardInv

LEMMA CardSteps ==
    ASSUME CardInv, CardNext
    PROVE  CardInv' /\ CountsDown
<1>kinds. {"lostAnswer", "timeout", "refusal", "error", "crash", "cardDeleted", "overlap"}
              \subseteq Kinds
  BY CardsAssumption
<1>type. CardTypeOK /\ Budgets
  BY DEF CardInv
<1>sets. {"overlap"} \in SUBSET Kinds /\ {"cardDeleted"} \in SUBSET Kinds /\ CardUndone \in SUBSET Kinds
  BY <1>kinds DEF CardUndone
<1>refs. \A v \in Callbacks : ~CardAt(v, "idle") =>
             /\ callback[v].ref \in References
             /\ cardCharge[callback[v].ref].at \in {"paid", "refunded"}
  BY DEF CardInv, CardGrounded
<1>go. ASSUME NEW v \in Callbacks, NEW pc \in CallbackSteps, CardStep(v, pc)
       PROVE  /\ callback'[v].pc = pc /\ callback'[v].ref = callback[v].ref
              /\ \A u \in Callbacks \ {v} : callback'[u] = callback[u]
              /\ callback' \in [Callbacks -> [pc : CallbackSteps, ref : References \cup {"none"}]]
  BY <1>go, <1>type DEF CardStep, CardTypeOK
<1>ends. ASSUME NEW v \in Callbacks, CardEnds(v)
         PROVE  /\ callback'[v].pc = "idle"
                /\ \A u \in Callbacks \ {v} : callback'[u] = callback[u]
                /\ callback' \in [Callbacks -> [pc : CallbackSteps, ref : References \cup {"none"}]]
  BY <1>ends, <1>type DEF CardEnds, CardTypeOK, NoCallback, CallbackSteps
<1>1. CASE CardsCrash
  BY <1>1, <1>kinds, <1>type, BudgetSpent, CardSame DEF CardsCrash, CardUndone, CardTypeOK,
    NoCallback, CallbackSteps
<1>2. ASSUME NEW r \in References, InitializeCard(r)
      PROVE  CardInv' /\ CountsDown
  BY <1>2, <1>type, BudgetSame, CardSame DEF InitializeCard, CardTypeOK
<1>3. ASSUME NEW r \in References, NEW card \in Plastics, PayCard(r, card)
      PROVE  CardInv' /\ CountsDown
  BY <1>3, <1>type, BudgetSame, CardSame DEF PayCard, CardTypeOK
<1>4. ASSUME NEW v \in Callbacks, NEW r \in References, VerifyCard(v, r)
      PROVE  CardInv' /\ CountsDown
  BY <1>4, <1>type, BudgetSame, CardSame DEF VerifyCard, CardAt, CardTypeOK, CallbackSteps
<1>5. ASSUME NEW r \in References, IsCardAdded(r)
      PROVE  CardInv' /\ CountsDown
  BY <1>5, <1>type, BudgetSame, CardSame DEF IsCardAdded, CardTypeOK
<1>6. ASSUME NEW v \in Callbacks, CardTell(v)
      PROVE  CardInv' /\ CountsDown
  BY <1>6, <1>kinds, <1>type, BudgetSame, BudgetSpent, <1>refs, <1>ends, CardSame DEF CardTell,
    CardTypeOK, CardAt
<1>7. ASSUME NEW r \in References, DeleteCard(r)
      PROVE  CardInv' /\ CountsDown
  <2>1. Budgets' /\ CountsDown /\ ~Untouched({"cardDeleted"})'
    BY <1>7, <1>kinds, <1>type, BudgetSpent DEF DeleteCard
  <2>2. /\ UNCHANGED <<cardCharge, cardBooks, cardTold, callback>>
        /\ savedCards' = savedCards \ {r}
    BY <1>7 DEF DeleteCard
  <2>3. /\ Untouched({"overlap"})' => Untouched({"overlap"})
        /\ Untouched(CardUndone)' => Untouched(CardUndone)
    BY <1>sets, <1>type, <2>1, UntouchedBack
  <2>4. CardTypeOK' /\ CardsBacked' /\ ToldIsSaved'
    BY <2>1, <2>2, <1>type DEF CardTypeOK, CardInv, CardsBacked, ToldIsSaved
  <2>5. RefundsBooked'
    BY <2>2, <2>3 DEF CardInv, RefundsBooked, CardAt, CardUndone
  <2>6. CardsAlone'
    BY <2>2, <2>3 DEF CardInv, CardsAlone, CardOf
  <2>7. \A card : SavedAs(card)' \subseteq SavedAs(card)
    BY <2>2 DEF SavedAs, CardOf
  <2>8. /\ \A q : CardOf(q)' = CardOf(q)
        /\ \A u : CardOf(callback[u].ref)' = CardOf(callback[u].ref)
    BY <2>2 DEF CardOf
  <2>9. \A u : SavedAs(CardOf(callback[u].ref))' \subseteq SavedAs(CardOf(callback[u].ref))
    BY <2>2 DEF SavedAs, CardOf
  <2>10. CardGrounded'
    BY <2>1, <2>2, <2>3, <2>8, <2>9 DEF CardInv, CardGrounded, CardAt, Storing
  <2>. QED  BY <2>1, <2>4, <2>5, <2>6, <2>10 DEF CardInv
<1>8. ASSUME NEW v \in Callbacks, CardLook(v)
      PROVE  CardInv' /\ CountsDown
  <2>. DEFINE r == callback[v].ref
              clash == \E u \in Callbacks \ {v} : /\ Storing(u) /\ callback[u].ref # r
                                           /\ CardOf(callback[u].ref) = CardOf(r)
              next == IF KnownCard(CardOf(r)) THEN "tell" ELSE "debit"
  <2>1. /\ CardAt(v, "verified") /\ CardStep(v, next) /\ Note(clash, "overlap")
        /\ UNCHANGED <<cardCharge, cardBooks, savedCards, cardTold>>
    BY <1>8 DEF CardLook
  <2>2. /\ Budgets' /\ CountsDown
        /\ clash => ~Untouched({"overlap"})'
    BY <2>1, <1>kinds, <1>type, CardsAssumption, BudgetNoted
  <2>3. next \in CallbackSteps
    BY DEF CallbackSteps
  <2>4. /\ callback'[v].pc = next /\ callback'[v].ref = callback[v].ref
        /\ \A u \in Callbacks \ {v} : callback'[u] = callback[u]
    BY <2>1, <2>3, <1>go
  <2>5. CardTypeOK'
    BY <2>1, <2>3, <1>type, <1>go DEF CardTypeOK
  <2>6. CASE KnownCard(CardOf(r))
    BY <2>6, <2>1, <2>2, <2>4, <2>5, CardSame DEF KnownCard
  <2>7. CASE ~KnownCard(CardOf(r))
    <3>1. SavedAs(CardOf(r)) = {} /\ next = "debit"
      BY <2>7 DEF KnownCard
    <3>2. /\ Untouched({"overlap"})' => Untouched({"overlap"}) /\ ~clash
          /\ Untouched({"cardDeleted"})' => Untouched({"cardDeleted"})
          /\ Untouched(CardUndone)' => Untouched(CardUndone)
      BY <1>sets, <1>type, <2>2, UntouchedBack
    <3>3. /\ \A q : CardOf(q)' = CardOf(q)
          /\ \A c : SavedAs(c)' = SavedAs(c)
      BY <2>1 DEF CardOf, SavedAs
    <3>4. /\ \A u \in Callbacks : callback'[u].ref = callback[u].ref
          /\ \A u \in Callbacks : CardOf(callback[u].ref)' = CardOf(callback[u].ref)
      BY <2>1, <2>4 DEF CardOf
    <3>5. CardsBacked' /\ CardsAlone' /\ ToldIsSaved'
      BY <2>1, <3>2, <3>3 DEF CardInv, CardsBacked, CardsAlone, ToldIsSaved
    <3>6. RefundsBooked'
      BY <2>1, <2>4, <3>2 DEF CardAt, CardInv, RefundsBooked, CardUndone
    <3>7. r \in References /\ cardCharge[r].at \in {"paid", "refunded"}
      BY <2>1, <1>refs DEF CardAt
    <3>8. \A u \in Callbacks : SavedAs(CardOf(callback[u].ref))' = SavedAs(CardOf(callback[u].ref))
      BY <3>3, <3>4
    <3>9. \A u \in Callbacks :
           /\ ~CardAt(u, "idle")' => /\ callback'[u].ref \in References
                                    /\ cardCharge'[callback'[u].ref].at \in {"paid", "refunded"}
           /\ CardAt(u, "refund")' \/ CardAt(u, "commit")' => callback'[u].ref \notin cardBooks'
           /\ CardAt(u, "commit")' => cardCharge'[callback'[u].ref].at = "refunded"
           /\ Storing(u)' /\ Untouched({"overlap"})' =>
                  SavedAs(CardOf(callback[u].ref))' \subseteq {callback'[u].ref}
           /\ CardAt(u, "tell")' /\ Untouched({"cardDeleted"})' =>
                  SavedAs(CardOf(callback[u].ref))' # {}
      <4>. TAKE u \in Callbacks
      <4>1. CASE u = v
        BY <2>1, <2>4, <3>1, <3>7, <3>8, <4>1 DEF CardAt, Storing
      <4>2. CASE u # v
        BY <2>1, <2>4, <3>2, <3>8, <4>2 DEF CardInv, CardGrounded, CardAt, Storing
      <4>. QED  BY <4>1, <4>2
    <3>10. \A t, u \in Callbacks :
             callback'[u].pc \in {"refund", "commit"} /\ callback'[t].pc \in {"refund", "commit"}
              /\ callback'[u].ref = callback'[t].ref => u = t
      BY <2>1, <2>4, <3>1 DEF CardInv, CardGrounded
    <3>11. ASSUME NEW t \in Callbacks, NEW u \in Callbacks,
                  Storing(u)', Storing(t)', Untouched({"overlap"})',
                  CardOf(callback[u].ref)' = CardOf(callback[t].ref)'
           PROVE  callback'[u].ref = callback'[t].ref
      <4>1. CardOf(callback[u].ref) = CardOf(callback[t].ref) /\ ~clash
        BY <3>2, <3>4, <3>11
      <4>2. \A w \in Callbacks \ {v} : Storing(w)' => Storing(w)
        BY <2>4 DEF Storing
      <4>3. CASE u = v \/ t = v
        BY <3>4, <3>11, <4>1, <4>2, <4>3
      <4>4. CASE u # v /\ t # v
        BY <3>2, <3>4, <3>11, <4>1, <4>2, <4>4 DEF CardInv, CardGrounded
      <4>. QED  BY <4>3, <4>4
    <3>12. \A q \in References : (q \in cardTold => cardCharge[q].at \in {"paid", "refunded"})'
      BY <2>1 DEF CardInv, CardGrounded
    <3>13. CardGrounded'
      BY <3>9, <3>10, <3>11, <3>12 DEF CardGrounded
    <3>. QED  BY <2>2, <2>5, <3>5, <3>6, <3>13 DEF CardInv
  <2>. QED  BY <2>6, <2>7
<1>9. ASSUME NEW v \in Callbacks, CardDebit(v)
      PROVE  CardInv' /\ CountsDown
  <2>. DEFINE r == callback[v].ref
  <2>1. /\ CardAt(v, "debit")
        /\ \A u \in Callbacks : callback[u].ref = r => callback[u].pc \notin {"refund", "commit"}
        /\ IF r \in cardBooks THEN CardEnds(v) ELSE CardStep(v, "refund")
        /\ UNCHANGED <<cardCharge, cardBooks, savedCards, cardTold, budget>>
    BY <1>9 DEF CardDebit
  <2>2. Budgets' /\ CountsDown
    BY <2>1, <1>type, BudgetSame
  <2>3. CASE CardEnds(v)
    BY <2>1, <2>3, <1>type, <1>ends, <2>2, CardSame DEF CardTypeOK, CardAt
  <2>4. CASE r \notin cardBooks /\ CardStep(v, "refund")
    <3>1. /\ callback'[v].pc = "refund" /\ callback'[v].ref = callback[v].ref
          /\ \A u \in Callbacks \ {v} : callback'[u] = callback[u]
          /\ CardTypeOK'
      BY <2>1, <2>4, <1>type, <1>go DEF CardTypeOK, CallbackSteps
    <3>2. \A F : Untouched(F)' = Untouched(F)
      BY <2>1 DEF Untouched
    <3>3. /\ \A q : CardOf(q)' = CardOf(q)
          /\ \A c : SavedAs(c)' = SavedAs(c)
      BY <2>1 DEF CardOf, SavedAs
    <3>4. \A u \in Callbacks :
              /\ callback'[u].ref = callback[u].ref
              /\ CardOf(callback[u].ref)' = CardOf(callback[u].ref)
              /\ SavedAs(CardOf(callback[u].ref))' = SavedAs(CardOf(callback[u].ref))
              /\ Storing(u)' = Storing(u)
      BY <2>1, <3>1 DEF CardOf, SavedAs, Storing, CardAt
    <3>5. CardsBacked' /\ CardsAlone' /\ ToldIsSaved'
      BY <2>1, <3>2, <3>3 DEF CardInv, CardsBacked, CardsAlone, ToldIsSaved
    <3>6. RefundsBooked'
      BY <2>1, <3>1, <3>2 DEF CardAt, CardInv, RefundsBooked, CardUndone
    <3>7. r \in References /\ cardCharge[r].at \in {"paid", "refunded"}
      BY <2>1, <1>refs DEF CardAt
    <3>9. \A u \in Callbacks :
           /\ ~CardAt(u, "idle")' => /\ callback'[u].ref \in References
                                    /\ cardCharge'[callback'[u].ref].at \in {"paid", "refunded"}
           /\ CardAt(u, "refund")' \/ CardAt(u, "commit")' => callback'[u].ref \notin cardBooks'
           /\ CardAt(u, "commit")' => cardCharge'[callback'[u].ref].at = "refunded"
           /\ Storing(u)' /\ Untouched({"overlap"})' =>
                  SavedAs(CardOf(callback[u].ref))' \subseteq {callback'[u].ref}
           /\ CardAt(u, "tell")' /\ Untouched({"cardDeleted"})' =>
                  SavedAs(CardOf(callback[u].ref))' # {}
      <4>. TAKE u \in Callbacks
      <4>1. Storing(u)' /\ Untouched({"overlap"})' =>
                  SavedAs(CardOf(callback[u].ref))' \subseteq {callback'[u].ref}
        BY <3>2, <3>4 DEF CardInv, CardGrounded
      <4>2. CASE u = v
        BY <2>1, <2>4, <3>1, <3>7, <4>1, <4>2 DEF CardAt
      <4>3. CASE u # v
        BY <3>1, <4>3, <2>1, <3>2, <3>4, <4>1 DEF CardInv, CardGrounded, CardAt
      <4>. QED  BY <4>2, <4>3
    <3>10. ASSUME NEW t \in Callbacks, NEW u \in Callbacks,
                  callback'[u].pc \in {"refund", "commit"}, callback'[t].pc \in {"refund", "commit"},
                  callback'[u].ref = callback'[t].ref
           PROVE  u = t
      <4>1. \A w \in Callbacks \ {v} : callback'[w].pc = callback[w].pc
        BY <3>1
      <4>2. CASE u = v \/ t = v
        BY <2>1, <3>4, <3>10, <4>1, <4>2
      <4>3. CASE u # v /\ t # v
        BY <3>4, <3>10, <4>1, <4>3 DEF CardInv, CardGrounded
      <4>. QED  BY <4>2, <4>3
    <3>11. \A t, u \in Callbacks :
             Storing(u)' /\ Storing(t)' /\ Untouched({"overlap"})'
              /\ CardOf(callback[u].ref)' = CardOf(callback[t].ref)' =>
                     callback'[u].ref = callback'[t].ref
      BY <3>2, <3>4 DEF CardInv, CardGrounded
    <3>12. \A q \in References : (q \in cardTold => cardCharge[q].at \in {"paid", "refunded"})'
      BY <2>1 DEF CardInv, CardGrounded
    <3>13. CardGrounded'
      BY <3>9, <3>10, <3>11, <3>12 DEF CardGrounded
    <3>. QED  BY <2>2, <3>1, <3>5, <3>6, <3>13 DEF CardInv
  <2>. QED  BY <2>1, <2>3, <2>4
<1>10. ASSUME NEW v \in Callbacks, CardRefund(v)
      PROVE  CardInv' /\ CountsDown
  <2>. DEFINE r == callback[v].ref
  <2>1. /\ CardAt(v, "refund") /\ UNCHANGED <<cardBooks, savedCards, cardTold>>
        /\ r \in References /\ r \notin cardBooks
    BY <1>10, <1>refs DEF CardRefund, CardInv, CardGrounded, CardAt
  <2>2. CASE /\ CardEnds(v) /\ UNCHANGED cardCharge
             /\ IF cardCharge[r].at = "refunded" THEN UNCHANGED budget
                ELSE Spend("refusal")
    BY <2>2, <1>kinds, <1>type, BudgetSame, BudgetSpent, <2>1, <1>ends, CardSame DEF CardTypeOK,
      CardAt
  <2>3. CASE /\ cardCharge[r].at = "paid"
             /\ cardCharge' = [cardCharge EXCEPT ![r].at = "refunded"]
             /\ \/ CardStep(v, "commit") /\ UNCHANGED budget
                \/ CardEnds(v) /\ (Spend("lostAnswer") \/ Spend("timeout"))
    <3>1. /\ Budgets' /\ CountsDown
          /\ CardStep(v, "commit") \/ (CardEnds(v) /\ ~Untouched(CardUndone)')
      <4>1. "lostAnswer" \in Kinds /\ "timeout" \in Kinds
        BY <1>kinds
      <4>2. CASE CardStep(v, "commit") /\ UNCHANGED budget
        BY <4>2, <1>type, BudgetSame
      <4>3. CASE CardEnds(v) /\ Spend("lostAnswer")
        BY <4>1, <4>3, <1>type, BudgetSpent DEF CardUndone
      <4>4. CASE CardEnds(v) /\ Spend("timeout")
        BY <4>1, <4>4, <1>type, BudgetSpent DEF CardUndone
      <4>. QED  BY <2>3, <4>2, <4>3, <4>4
    <3>2. /\ Untouched({"overlap"})' => Untouched({"overlap"})
          /\ Untouched({"cardDeleted"})' => Untouched({"cardDeleted"})
          /\ Untouched(CardUndone)' => Untouched(CardUndone)
      BY <1>sets, <1>type, <3>1, UntouchedBack
    <3>3. /\ \A u \in Callbacks \ {v} : callback'[u] = callback[u]
          /\ \/ callback'[v].pc = "commit" /\ callback'[v].ref = r
             \/ callback'[v].pc = "idle" /\ ~Untouched(CardUndone)'
          /\ callback' \in [Callbacks -> [pc : CallbackSteps, ref : References \cup {"none"}]]
      BY <3>1, <1>go, <1>ends DEF CallbackSteps
    <3>4. /\ \A q \in References \ {r} : cardCharge'[q] = cardCharge[q]
          /\ cardCharge'[r].at = "refunded" /\ cardCharge'[r].card = cardCharge[r].card
      BY <2>1, <2>3, <1>type DEF CardTypeOK
    <3>5. CardTypeOK'
      BY <2>1, <2>3, <3>3, <1>type DEF CardTypeOK
    <3>6. /\ \A q \in References : cardCharge[q].at \in {"paid", "refunded"} =>
                  /\ CardOf(q)' = CardOf(q)
                  /\ cardCharge'[q].at \in {"paid", "refunded"}
                  /\ cardCharge[q].at = "refunded" => cardCharge'[q].at = "refunded"
          /\ \A q \in savedCards : q \in References /\ CardOf(q)' = CardOf(q)
          /\ \A q \in cardBooks : q \in References /\ cardCharge'[q].at = "refunded"
          /\ \A q \in cardTold : q \in References /\ CardOf(q)' = CardOf(q)
          /\ \A card : SavedAs(card)' = SavedAs(card)
      <4>1. \A q \in References : \/ cardCharge'[q] = cardCharge[q]
                                 \/ /\ cardCharge[q].at = "paid" /\ cardCharge'[q].at = "refunded"
                                    /\ cardCharge'[q].card = cardCharge[q].card
        BY <2>3, <3>4
      <4>. HIDE DEF CardInv
      <4>. QED  BY <4>1, <2>1, CardKept
    <3>7. CardsBacked' /\ CardsAlone' /\ ToldIsSaved'
      BY <2>1, <3>2, <3>6 DEF CardInv, CardsBacked, CardsAlone, ToldIsSaved
    <3>8. RefundsBooked'
      <4>. SUFFICES ASSUME Untouched(CardUndone)', NEW q \in References,
                           cardCharge'[q].at = "refunded", q \notin cardBooks'
                    PROVE  \E u \in Callbacks : CardAt(u, "commit")' /\ callback'[u].ref = q
        BY DEF RefundsBooked, CardUndone
      <4>1. CASE q = r
        BY <3>3, <4>1 DEF CardAt
      <4>2. CASE q # r
        <5>1. PICK u \in Callbacks : CardAt(u, "commit") /\ callback[u].ref = q
          BY <2>1, <3>2, <3>4, <4>2 DEF CardInv, RefundsBooked, CardUndone
        <5>. QED  BY <2>1, <3>3, <5>1 DEF CardAt
      <4>. QED  BY <4>1, <4>2
    <3>9. \A u \in Callbacks : ~CardAt(u, "idle")' =>
              /\ ~CardAt(u, "idle") /\ callback'[u].ref = callback[u].ref
              /\ CardOf(callback[u].ref)' = CardOf(callback[u].ref)
              /\ SavedAs(CardOf(callback[u].ref))' = SavedAs(CardOf(callback[u].ref))
              /\ Storing(u)' = Storing(u)
              /\ (callback'[u] = callback[u] \/ (u = v /\ callback'[u].pc = "commit"))
      <4>. SUFFICES ASSUME NEW u \in Callbacks, ~CardAt(u, "idle")'
                    PROVE  /\ ~CardAt(u, "idle") /\ callback'[u].ref = callback[u].ref
                           /\ CardOf(callback[u].ref)' = CardOf(callback[u].ref)
                           /\ SavedAs(CardOf(callback[u].ref))' = SavedAs(CardOf(callback[u].ref))
                           /\ Storing(u)' = Storing(u)
                           /\ (callback'[u] = callback[u] \/ (u = v /\ callback'[u].pc = "commit"))
        OBVIOUS
      <4>1. /\ ~CardAt(u, "idle") /\ callback'[u].ref = callback[u].ref
            /\ Storing(u)' = Storing(u)
            /\ (callback'[u] = callback[u] \/ (u = v /\ callback'[u].pc = "commit"))
        <5>1. CASE u = v
          BY <2>1, <3>3, <5>1 DEF CardAt, Storing
        <5>2. CASE u # v
          BY <3>3, <5>2 DEF CardAt, Storing
        <5>. QED  BY <5>1, <5>2
      <4>2. callback[u].ref \in References /\ cardCharge[callback[u].ref].at \in {"paid", "refunded"}
        BY <1>refs, <4>1
      <4>3. CardOf(callback[u].ref)' = CardOf(callback[u].ref)
        BY <3>6, <4>1, <4>2 DEF CardOf
      <4>. QED  BY <3>6, <4>1, <4>3
    <3>10. \A u \in Callbacks :
           /\ ~CardAt(u, "idle")' => /\ callback'[u].ref \in References
                                    /\ cardCharge'[callback'[u].ref].at \in {"paid", "refunded"}
           /\ CardAt(u, "refund")' \/ CardAt(u, "commit")' => callback'[u].ref \notin cardBooks'
           /\ CardAt(u, "commit")' => cardCharge'[callback'[u].ref].at = "refunded"
           /\ Storing(u)' /\ Untouched({"overlap"})' =>
                  SavedAs(CardOf(callback[u].ref))' \subseteq {callback'[u].ref}
           /\ CardAt(u, "tell")' /\ Untouched({"cardDeleted"})' =>
                  SavedAs(CardOf(callback[u].ref))' # {}
      <4>. TAKE u \in Callbacks
      <4>1. CASE CardAt(u, "idle")'
        BY <4>1 DEF CardAt, Storing
      <4>2. CASE ~CardAt(u, "idle")' /\ callback'[u] = callback[u]
        BY <2>1, <3>2, <3>6, <3>9, <4>2, <1>refs DEF CardInv, CardGrounded, CardAt
      <4>3. CASE u = v /\ callback'[u].pc = "commit"
        BY <2>1, <3>2, <3>4, <3>9, <4>3 DEF CardInv, CardGrounded, CardAt, Storing
      <4>. QED  BY <3>9, <4>1, <4>2, <4>3
    <3>11. \A t, u \in Callbacks :
             callback'[u].pc \in {"refund", "commit"} /\ callback'[t].pc \in {"refund", "commit"}
              /\ callback'[u].ref = callback'[t].ref => u = t
      BY <2>1, <3>3 DEF CardAt, CardInv, CardGrounded
    <3>12. \A t, u \in Callbacks :
             Storing(u)' /\ Storing(t)' /\ Untouched({"overlap"})'
              /\ CardOf(callback[u].ref)' = CardOf(callback[t].ref)' =>
                     callback'[u].ref = callback'[t].ref
      BY <3>2, <3>9 DEF Storing, CardAt, CardInv, CardGrounded
    <3>13. \A q \in References : (q \in cardTold => cardCharge[q].at \in {"paid", "refunded"})'
      BY <2>1, <3>6 DEF CardInv, CardGrounded
    <3>14. CardGrounded'
      BY <3>10, <3>11, <3>12, <3>13 DEF CardGrounded
    <3>. QED  BY <3>1, <3>5, <3>7, <3>8, <3>14 DEF CardInv
  <2>. QED  BY <1>10, <2>2, <2>3 DEF CardRefund
<1>11. ASSUME NEW v \in Callbacks, CardCommit(v)
      PROVE  CardInv' /\ CountsDown
  <2>. DEFINE r == callback[v].ref
  <2>1. /\ CardAt(v, "commit") /\ UNCHANGED <<cardCharge, cardTold>>
        /\ r \in References /\ r \notin cardBooks /\ cardCharge[r].at = "refunded"
        /\ Untouched({"overlap"}) => SavedAs(CardOf(r)) \subseteq {r}
    BY <1>11, <1>refs DEF CardCommit, CardInv, CardGrounded, CardAt, Storing
  <2>2. CASE CardEnds(v) /\ Spend("error") /\ UNCHANGED <<cardBooks, savedCards>>
    BY <2>2, <1>kinds, <1>type, BudgetSpent, <2>1, <1>ends, CardSame DEF CardUndone, CardTypeOK
  <2>3. CASE /\ cardBooks' = cardBooks \cup {r} /\ savedCards' = savedCards \cup {r}
             /\ CardStep(v, "tell") /\ UNCHANGED budget
    <3>1. Budgets' /\ CountsDown
      BY <2>3, <1>type, BudgetSame
    <3>2. \A F : Untouched(F)' = Untouched(F)
      BY <2>3 DEF Untouched
    <3>3. /\ callback'[v].pc = "tell" /\ callback'[v].ref = r
          /\ \A u \in Callbacks \ {v} : callback'[u] = callback[u]
          /\ CardTypeOK'
      BY <2>1, <2>3, <1>type, <1>go DEF CardTypeOK, CallbackSteps
    <3>4. /\ \A q : CardOf(q)' = CardOf(q)
          /\ \A c : SavedAs(c)' = SavedAs(c) \cup (IF CardOf(r) = c THEN {r} ELSE {})
      BY <2>1, <2>3 DEF CardOf, SavedAs
    <3>5. \A u \in Callbacks :
              /\ callback'[u].ref = callback[u].ref
              /\ CardOf(callback[u].ref)' = CardOf(callback[u].ref)
              /\ SavedAs(CardOf(callback[u].ref))' =
                     SavedAs(CardOf(callback[u].ref)) \cup
                         (IF CardOf(r) = CardOf(callback[u].ref) THEN {r} ELSE {})
      <4>. TAKE u \in Callbacks
      <4>1. callback'[u].ref = callback[u].ref /\ CardOf(callback[u].ref)' = CardOf(callback[u].ref)
        BY <2>1, <3>3 DEF CardOf
      <4>2. SavedAs(CardOf(callback[u].ref))' = {q \in savedCards' : CardOf(q)' = CardOf(callback[u].ref)'}
        BY DEF SavedAs
      <4>3. \A q : CardOf(q)' = CardOf(q)
        BY <3>4
      <4>. QED  BY <2>3, <4>1, <4>2, <4>3 DEF SavedAs
    <3>6. CardsBacked' /\ ToldIsSaved'
      BY <2>1, <2>3, <3>2, <3>4 DEF CardInv, CardsBacked, ToldIsSaved
    <3>7. CardsAlone'
      BY <3>2, <3>4, <2>1, <2>3 DEF CardsAlone, SavedAs, CardInv
    <3>8. RefundsBooked'
      BY <3>3, <2>1, <2>3, <3>2 DEF CardInv, RefundsBooked, CardAt, CardUndone
    <3>9. \A u \in Callbacks \ {v} : callback[u].pc \in {"refund", "commit"} => callback[u].ref # r
      BY <2>1 DEF CardInv, CardGrounded, CardAt
    <3>10. \A u \in Callbacks :
           /\ ~CardAt(u, "idle")' => /\ callback'[u].ref \in References
                                    /\ cardCharge'[callback'[u].ref].at \in {"paid", "refunded"}
           /\ CardAt(u, "refund")' \/ CardAt(u, "commit")' => callback'[u].ref \notin cardBooks'
           /\ CardAt(u, "commit")' => cardCharge'[callback'[u].ref].at = "refunded"
           /\ Storing(u)' /\ Untouched({"overlap"})' =>
                  SavedAs(CardOf(callback[u].ref))' \subseteq {callback'[u].ref}
           /\ CardAt(u, "tell")' /\ Untouched({"cardDeleted"})' =>
                  SavedAs(CardOf(callback[u].ref))' # {}
      <4>. TAKE u \in Callbacks
      <4>1. CASE u = v
        BY <2>1, <3>3, <3>5, <4>1 DEF CardAt, Storing
      <4>2. CASE u # v
        BY <3>3, <4>2, <2>1, <2>3, <3>9, <3>2, <3>5 DEF CardInv, CardGrounded, CardAt, Storing
      <4>. QED  BY <4>1, <4>2
    <3>11. \A t, u \in Callbacks :
             callback'[u].pc \in {"refund", "commit"} /\ callback'[t].pc \in {"refund", "commit"}
              /\ callback'[u].ref = callback'[t].ref => u = t
      BY <3>3 DEF CardInv, CardGrounded
    <3>12. \A t, u \in Callbacks :
             Storing(u)' /\ Storing(t)' /\ Untouched({"overlap"})'
              /\ CardOf(callback[u].ref)' = CardOf(callback[t].ref)' =>
                     callback'[u].ref = callback'[t].ref
      BY <3>3, <3>2, <3>5 DEF Storing, CardInv, CardGrounded
    <3>13. \A q \in References : (q \in cardTold => cardCharge[q].at \in {"paid", "refunded"})'
      BY <2>1 DEF CardInv, CardGrounded
    <3>14. CardGrounded'
      BY <3>10, <3>11, <3>12, <3>13 DEF CardGrounded
    <3>. QED  BY <3>1, <3>3, <3>6, <3>7, <3>8, <3>14 DEF CardInv
  <2>. QED  BY <1>11, <2>2, <2>3 DEF CardCommit
<1>. QED  BY <1>1, <1>2, <1>3, <1>4, <1>5, <1>6, <1>7, <1>8, <1>9, <1>10, <1>11 DEF CardNext

---------------------------------------------------------------------------
(* The accounts.                                                           *)

SlotKind == [op : Ops \cup {"none"}, pc : {"idle", "read", "written"}, two : BOOLEAN,
             n : Nat, right : BOOLEAN]
Under(s) == slot[s].pc # "idle"
Trying(s) == slot[s].op \in {"login", "changeAsk"}

\* A wrong PIN, and a code to change one, are only had where there is a PIN.
PinThere ==
    /\ \A s \in Slots : /\ slot[s].pc = "idle" => slot[s] = Idle
                        /\ slot[s].pc = "written" => slot[s].op \in {"setPin", "reset"} \/ Trying(s)
                        /\ Under(s) /\ (Trying(s) \/ slot[s].op = "changeDo") => profile.pin
    /\ "pin_change" \in code => profile.pin
    /\ tally.login > 0 \/ tally.change > 0 \/ tally.gone => profile.pin

\* What a request under way has found is still so.
FreshOf(s) ==
    /\ Doing(s, "setPin", "read") => ~profile.pin
    /\ Under(s) /\ (Trying(s) \/ slot[s].op \in {"flag", "unflag"}) => profile.status # "DELETED"

OneRequest ==
    Untouched({"overlap"}) =>
        /\ \A s, t \in Slots : Under(s) /\ Under(t) => s = t
        /\ \A s \in Slots : FreshOf(s)
        /\ tally.gone => profile.status = "DELETED"

\* Codes and passes that will let a PIN be changed, in Redis or in a request.
HeldReset == IF "pin_reset" \in code \/ \E s \in Slots : Doing(s, "verify", "read") /\ slot[s].n = 1
             THEN 1 ELSE 0
HeldChange == IF "pin_change" \in code \/ \E s \in Slots : Doing(s, "changeDo", "read")
              THEN 1 ELSE 0
HeldPass == IF "pin reset" \in pass /\ ~\E s \in Slots : Doing(s, "reset", "written")
            THEN 1 ELSE 0
CodesCounted ==
    Untouched({"overlap", "error", "redis"}) => tally.codes >= HeldReset + HeldChange + HeldPass

AccountOpens ==
    Untouched({"error"}) /\ profile.pin /\ ~tally.early =>
        welcome \/ \E s \in Slots : Doing(s, "setPin", "written")

Closed == \/ profile.status \in {"FLAGGED", "DELETED"}
          \/ \E s \in Slots : slot[s].pc = "written" /\ Trying(s)
          \/ ~Untouched({"error"})
PinsCounted ==
    Untouched({"overlap", "expiry", "redis"}) =>
        /\ tally.login <= count.login /\ tally.change <= count.change
        /\ \A s \in Slots : /\ Doing(s, "login", "read") => slot[s].n = count.login
                            /\ Doing(s, "changeAsk", "read") => slot[s].n = count.change
        /\ tally.login >= LoginLimit => Closed
        /\ tally.change >= ChangeLimit => Closed

AccountInv == /\ Budgets /\ AccountTypeOK /\ PinThere /\ OneRequest /\ CodesCounted
              /\ AccountOpens /\ PinsCounted

ProfileKind == [there : BOOLEAN, pin : BOOLEAN, two : BOOLEAN,
                status : {"PENDING", "ACTIVE", "FLAGGED", "DELETED"}]

CountKind == [login : Nat, change : Nat, resend : Nat, forgot : Nat, pause : BOOLEAN]
TallyKind == [login : Nat, change : Nat, codes : Int, gone : BOOLEAN, early : BOOLEAN]

Begun(s, op, right) == \E seen \in Found(op) : BeginRequest(s, op, right, seen)

LEMMA ProfilesFirst ==
    /\ NoProfile \in ProfileKind
    /\ [there |-> TRUE, pin |-> TRUE, status |-> "ACTIVE", two |-> FALSE] \in ProfileKind
  BY DEF NoProfile, ProfileKind

LEMMA AccountStarts == ASSUME budget = Budget, AccountInit PROVE AccountInv
<1>1. Budgets
  BY BudgetsInit
<1>2. Idle \in SlotKind
  BY DEF Idle, SlotKind
<1>3. AccountTypeOK
  <2>1. slot \in [Slots -> SlotKind]
    BY <1>2 DEF AccountInit
  <2>2. profile \in [there : BOOLEAN, pin : BOOLEAN, two : BOOLEAN,
                     status : {"PENDING", "ACTIVE", "FLAGGED", "DELETED"}]
        /\ welcome \in BOOLEAN
    BY ProfilesFirst DEF AccountInit, ProfileKind
  <2>3. count \in CountKind
        /\ tally \in [login : Nat, change : Nat, codes : Int, gone : BOOLEAN,
                      early : BOOLEAN]
    BY DEF AccountInit, CountKind
  <2>4. code \in SUBSET Purposes /\ pass \in SUBSET Passes /\ served \in Nat
        /\ refresh \in {"none", "live", "revoked"}
    BY DEF AccountInit
  <2>. QED  BY <2>1, <2>2, <2>3, <2>4 DEF AccountTypeOK, SlotKind, CountKind
<1>4. \A s \in Slots : slot[s] = Idle
  BY DEF AccountInit
<1>5. \A s \in Slots : ~Under(s) /\ slot[s].op = "none"
  BY <1>4 DEF Under, Idle
<1>6. PinThere
  BY <1>4, <1>5 DEF PinThere, Idle, AccountInit, Trying, Under
<1>7. OneRequest
  BY <1>5 DEF OneRequest, FreshOf, Under, AccountInit, Doing
<1>8. CodesCounted
  BY <1>5 DEF HeldReset, HeldChange, HeldPass, AccountInit, Doing, CodesCounted
<1>9. AccountOpens
  BY DEF AccountOpens, AccountInit, NoProfile
<1>10. PinsCounted
  BY <1>5, AccountsAssumption DEF PinsCounted, AccountInit, Doing
<1>. QED  BY <1>1, <1>3, <1>6, <1>7, <1>8, <1>9, <1>10 DEF AccountInv

LEMMA AccountSays == ASSUME AccountInv PROVE AccountKept /\ WrongPinsLock
<1>1. DeletedStays
  BY DEF AccountInv, OneRequest, DeletedStays
<1>2. CodeOnce
  <2>1. tally.codes \in Int
    BY DEF AccountInv, AccountTypeOK
  <2>2. HeldReset \in {0, 1} /\ HeldChange \in {0, 1} /\ HeldPass \in {0, 1}
    BY DEF HeldReset, HeldChange, HeldPass
  <2>. QED  BY <2>1, <2>2 DEF AccountInv, CodesCounted, CodeOnce
<1>3. PinOpensAccount
  BY DEF AccountInv, AccountOpens, AccountTypeOK, Doing, PinOpensAccount
<1>4. WrongPinsLock
  <2>1. tally \in TallyKind /\ count \in CountKind /\ LoginLimit \in Nat /\ ChangeLimit \in Nat
    BY AccountsAssumption DEF AccountInv, AccountTypeOK, TallyKind, CountKind
  <2>2. ASSUME NEW c \in {"login", "change"}, tally[c] >= Limits[c], tally[c] <= count[c]
        PROVE  count[c] >= Limits[c]
    BY <2>1, <2>2 DEF TallyKind, CountKind, Limits
  <2>. QED  BY <2>2 DEF WrongPinsLock, AccountInv, PinsCounted, Limits, Closed
<1>. QED  BY <1>1, <1>2, <1>3, <1>4 DEF AccountKept

\* Redis keeps what it is given, or something of it, and what it kept.
LEMMA CachesSay ==
    ASSUME NEW p, NEW codes, NEW passes, NEW counts, Caches(p, codes, passes, counts)
    PROVE  /\ UNCHANGED budget \/ Spend("redis")
           /\ Spend("redis") \/ (code' = codes /\ pass' = passes /\ count' = counts)
           /\ code' \in {codes, code, code \ {p}} /\ pass' \in {passes, pass}
           /\ count \in CountKind /\ counts \in CountKind => count' \in CountKind
<1>1. UNCHANGED budget \/ Spend("redis")
  BY DEF Caches
<1>2. Spend("redis") \/ (code' = codes /\ pass' = passes /\ count' = counts)
  BY DEF Caches
<1>3. code' \in {codes, code, code \ {p}} /\ pass' \in {passes, pass}
  BY DEF Caches
<1>4. count \in CountKind /\ counts \in CountKind => count' \in CountKind
  BY DEF Caches, CountKind
<1>. QED  BY <1>1, <1>2, <1>3, <1>4

LEMMA AccountKinds ==
    ASSUME AccountInv
    PROVE  /\ slot \in [Slots -> SlotKind] /\ profile \in ProfileKind /\ tally \in TallyKind
           /\ count \in CountKind /\ code \in SUBSET Purposes /\ pass \in SUBSET Passes
           /\ welcome \in BOOLEAN /\ refresh \in {"none", "live", "revoked"} /\ served \in Nat
  BY DEF AccountInv, AccountTypeOK, SlotKind, ProfileKind, TallyKind, CountKind

\* What a request does in Redis, and to the budget.
LEMMA RequestKeeps ==
    ASSUME AccountInv, NEW s \in Slots, RequestStep(s)
    PROVE  /\ code' \in SUBSET Purposes /\ pass' \in SUBSET Passes /\ count' \in CountKind
           /\ "pin_change" \in code' => "pin_change" \in code \/ InitiatePinChange(s)
           /\ UNCHANGED budget \/ Spend("redis") \/ Spend("error")
<1>. DEFINE Good == /\ code' \in SUBSET Purposes /\ pass' \in SUBSET Passes
                    /\ count' \in CountKind
                    /\ "pin_change" \in code' => "pin_change" \in code \/ InitiatePinChange(s)
                    /\ UNCHANGED budget \/ Spend("redis") \/ Spend("error")
<1>. SUFFICES Good
  OBVIOUS
<1>1. /\ slot \in [Slots -> SlotKind] /\ count \in CountKind
      /\ code \in SUBSET Purposes /\ pass \in SUBSET Passes
  BY AccountKinds
<1>2. ASSUME NEW p, NEW codes \in SUBSET Purposes, NEW passes \in SUBSET Passes,
             NEW counts \in CountKind, Caches(p, codes, passes, counts),
             "pin_change" \in codes => "pin_change" \in code \/ InitiatePinChange(s)
      PROVE  Good
  BY <1>1, <1>2, CachesSay
<1>3. ASSUME UNCHANGED <<code, pass, count, budget>> PROVE Good
  BY <1>1, <1>3
<1>. HIDE DEF Good
<1>. DEFINE n == slot[s].n + 1
<1>4. n \in Nat
  BY <1>1 DEF SlotKind
<1>5. CASE Resend(s)
  <2>. DEFINE counts == [count EXCEPT !.resend = n, !.pause = TRUE]
  <2>. HIDE DEF n
  <2>1. counts \in CountKind
    BY <1>1, <1>4 DEF CountKind
  <2>2. Caches("signup", code \cup {"signup"}, pass, counts)
    BY <1>5 DEF Resend, Mails, n
  <2>. HIDE DEF counts
  <2>. QED  BY <1>1, <1>2, <2>1, <2>2 DEF Purposes
<1>6. CASE ForgotPin(s)
  <2>. DEFINE counts == [count EXCEPT !.forgot = n]
  <2>1. counts \in CountKind
    BY <1>1, <1>4 DEF CountKind
  <2>2. Caches("pin_reset", code \cup {"pin_reset"}, pass, counts)
    BY <1>6 DEF ForgotPin, Mails
  <2>. HIDE DEF counts
  <2>. QED  BY <1>1, <1>2, <2>1, <2>2 DEF Purposes
<1>7. CASE VerifyOtp(s)
  BY <1>7, <1>1, <1>2 DEF VerifyOtp, UsesCode, Passes
<1>8. CASE CompleteSignUp(s)
  BY <1>8, <1>1, <1>2, <1>3 DEF CompleteSignUp
<1>9. CASE \/ SetPin(s) \/ SetPinRest(s) \/ ResetPin(s) \/ DisableTwoFactor(s) \/ DeleteAccount(s)
           \/ FlagUser(s) \/ UnflagUser(s) \/ \E op \in {"login", "changeAsk"} : LockAccount(s, op)
  BY <1>3, <1>9 DEF SetPin, SetPinRest, ResetPin, DisableTwoFactor, DeleteAccount, FlagUser,
    UnflagUser, LockAccount
<1>10. CASE ResetDone(s)
  BY <1>10, <1>1, <1>2 DEF ResetDone
<1>11. CASE ConfirmPinChange(s)
  <2>. DEFINE counts == [count EXCEPT !.change = 0]
  <2>1. counts \in CountKind
    BY <1>1 DEF CountKind
  <2>2. Caches("pin_change", code \ {"pin_change"}, pass, counts)
    BY <1>11 DEF ConfirmPinChange, UsesCode
  <2>. HIDE DEF counts
  <2>. QED  BY <1>1, <1>2, <2>1, <2>2
<1>12. ASSUME NEW op \in {"login", "changeAsk"}, WrongPin(s, op) PROVE Good
  <2>. DEFINE counts == [count EXCEPT ![Counter(op)] = n]
  <2>1. counts \in CountKind
    BY <1>1, <1>4 DEF CountKind, Counter
  <2>2. Caches("none", code, pass, counts)
    BY <1>12 DEF WrongPin, CountsAs
  <2>. HIDE DEF counts
  <2>. QED  BY <1>1, <1>2, <2>1, <2>2
<1>13. CASE LogIn(s)
  <2>. DEFINE counts == [count EXCEPT !.login = 0]
  <2>1. counts \in CountKind
    BY <1>1 DEF CountKind
  <2>2. \/ Caches("none", code, pass, counts)
        \/ Caches("login_2fa", code \cup {"login_2fa"}, pass, counts)
    BY <1>13 DEF LogIn, CountsAs, Mails
  <2>. HIDE DEF counts
  <2>. QED  BY <1>1, <1>2, <2>1, <2>2 DEF Purposes
<1>14. CASE InitiatePinChange(s)
  <2>. DEFINE counts == [count EXCEPT !.change = 0]
  <2>1. counts \in CountKind
    BY <1>1 DEF CountKind
  <2>2. Caches("pin_change", code \cup {"pin_change"}, pass, counts)
    BY <1>14 DEF InitiatePinChange, Mails
  <2>. HIDE DEF counts
  <2>. QED  BY <1>1, <1>2, <1>14, <2>1, <2>2 DEF Purposes
<1>15. CASE LogInTwoFactor(s) \/ InitiateTwoFactor(s) \/ VerifyTwoFactor(s)
  BY <1>15, <1>1, <1>2 DEF LogInTwoFactor, InitiateTwoFactor, VerifyTwoFactor, UsesCode, Mails,
    Purposes
<1>16. CASE RequestFails(s)
  BY <1>1, <1>16 DEF RequestFails, Good
<1>. QED  BY <1>5, <1>6, <1>7, <1>8, <1>9, <1>10, <1>11, <1>12, <1>13, <1>14, <1>15, <1>16 DEF
  RequestStep

LEMMA AccountCounts == ASSUME AccountInv, AccountNext PROVE Budgets' /\ CountsDown
<1>. DEFINE Names == {"overlap", "error", "expiry", "redis"}
<1>. Budgets /\ Names \subseteq Kinds
  BY AccountsAssumption DEF AccountInv
<1>1. CASE UNCHANGED budget
  BY <1>1, BudgetSame
<1>2. ASSUME NEW f \in Names, Spend(f) PROVE Budgets' /\ CountsDown
  BY <1>2, BudgetSpent
<1>3. UNCHANGED budget \/ \E f \in Names : Spend(f)
  <2>1. ASSUME NEW s \in Slots, RequestStep(s) PROVE UNCHANGED budget \/ \E f \in Names : Spend(f)
    BY <2>1, RequestKeeps
  <2>. QED  BY <2>1 DEF AccountNext, SignUp, LogOut, Expires, PauseEnds, BeginRequest
<1>. QED  BY <1>1, <1>2, <1>3

\* What is counted outside Redis.
LEMMA TallySteps ==
    ASSUME AccountInv, NEW s \in Slots, RequestStep(s)
    PROVE  tally' \in TallyKind /\ profile' \in ProfileKind
<1>1. tally \in TallyKind /\ profile \in ProfileKind
  BY AccountKinds
<1>2. profile' \in ProfileKind
  BY <1>1 DEF RequestStep, Resend, VerifyOtp, CompleteSignUp, SetPin, SetPinRest, ForgotPin,
    ResetPin, ResetDone, ConfirmPinChange, LogIn, InitiatePinChange, WrongPin, LockAccount,
    LogInTwoFactor, InitiateTwoFactor, VerifyTwoFactor, DisableTwoFactor, DeleteAccount, FlagUser,
    UnflagUser, RequestFails, ProfileKind
<1>3. SUFFICES tally' \in TallyKind
  BY <1>2
<1>4. CASE UNCHANGED tally
  BY <1>1, <1>4
<1>5. CASE ResetPin(s)
  <2>. DEFINE early == tally.early \/ ~profile.pin
              codes == tally.codes - 1
  <2>1. tally' = [tally EXCEPT !.codes = codes, !.early = early] \/ UNCHANGED tally
    BY <1>5 DEF ResetPin
  <2>2. early \in BOOLEAN /\ codes \in Int
    BY <1>1 DEF TallyKind
  <2>. HIDE DEF early, codes
  <2>. QED  BY <1>1, <2>1, <2>2 DEF TallyKind
<1>6. CASE DeleteAccount(s)
  <2>. DEFINE gone == tally.gone \/ profile.pin
  <2>1. tally' = [tally EXCEPT !.gone = gone]
    BY <1>6 DEF DeleteAccount
  <2>2. gone \in BOOLEAN
    BY <1>1 DEF TallyKind, ProfileKind
  <2>. HIDE DEF gone
  <2>. QED  BY <1>1, <2>1, <2>2 DEF TallyKind
<1>7. CASE ForgotPin(s) \/ ConfirmPinChange(s) \/ InitiatePinChange(s) \/ LogIn(s) \/ UnflagUser(s)
  <2>. DEFINE more == tally.codes + 1
              less == tally.codes - 1
  <2>1. more \in Int /\ less \in Int
    BY <1>1 DEF TallyKind
  <2>2. \/ tally' = [tally EXCEPT !.codes = more]
        \/ tally' = [tally EXCEPT !.codes = less, !.change = 0]
        \/ tally' = [tally EXCEPT !.change = 0, !.codes = more]
        \/ tally' = [tally EXCEPT !.login = 0]
        \/ tally' = [tally EXCEPT !.login = 0, !.change = 0]
    BY <1>7 DEF ForgotPin, ConfirmPinChange, InitiatePinChange, LogIn, UnflagUser
  <2>. HIDE DEF more, less
  <2>3. [tally EXCEPT !.codes = more] \in TallyKind
    BY <1>1, <2>1 DEF TallyKind
  <2>4. [tally EXCEPT !.codes = less, !.change = 0] \in TallyKind
    BY <1>1, <2>1 DEF TallyKind
  <2>5. [tally EXCEPT !.change = 0, !.codes = more] \in TallyKind
    BY <1>1, <2>1 DEF TallyKind
  <2>6. [tally EXCEPT !.login = 0] \in TallyKind
    BY <1>1 DEF TallyKind
  <2>7. [tally EXCEPT !.login = 0, !.change = 0] \in TallyKind
    BY <1>1 DEF TallyKind
  <2>. QED  BY <2>2, <2>3, <2>4, <2>5, <2>6, <2>7
<1>8. ASSUME NEW op \in {"login", "changeAsk"}, WrongPin(s, op) PROVE tally' \in TallyKind
  BY <1>1, <1>8 DEF WrongPin, TallyKind, Counter
<1>. QED  BY <1>4, <1>5, <1>6, <1>7, <1>8 DEF RequestStep, Resend, VerifyOtp, CompleteSignUp,
  SetPin, SetPinRest, ResetDone, LockAccount, LogInTwoFactor, InitiateTwoFactor, VerifyTwoFactor,
  DisableTwoFactor, FlagUser, RequestFails

LEMMA RequestMoves ==
    ASSUME AccountInv, NEW s \in Slots, RequestStep(s)
    PROVE  /\ Under(s) /\ UNCHANGED served
           /\ \/ Ends(s)
              \/ /\ Writes(s) /\ slot[s].pc = "read"
                 /\ slot[s].op \in {"setPin", "reset"} \/ Trying(s)
  BY DEF RequestStep, Resend, VerifyOtp, CompleteSignUp, SetPin, SetPinRest, ForgotPin, ResetPin,
    ResetDone, ConfirmPinChange, LogIn, InitiatePinChange, WrongPin, LockAccount, LogInTwoFactor,
    InitiateTwoFactor, VerifyTwoFactor, DisableTwoFactor, DeleteAccount, FlagUser, UnflagUser,
    RequestFails, Doing, Under, Trying

LEMMA CountReset ==
    ASSUME count \in CountKind, NEW c \in {"login", "change", "resend", "forgot"}
    PROVE  [count EXCEPT ![c] = 0] \in CountKind
<1>1. CASE c = "login"
  BY <1>1 DEF CountKind
<1>2. CASE c = "change"
  BY <1>2 DEF CountKind
<1>3. CASE c = "resend"
  BY <1>3 DEF CountKind
<1>4. CASE c = "forgot"
  BY <1>4 DEF CountKind
<1>. QED  BY <1>1, <1>2, <1>3, <1>4

LEMMA AccountTypes == ASSUME AccountInv, AccountNext PROVE AccountTypeOK'
<1>1. /\ slot \in [Slots -> SlotKind] /\ profile \in ProfileKind /\ tally \in TallyKind
      /\ count \in CountKind /\ code \in SUBSET Purposes /\ pass \in SUBSET Passes
      /\ welcome \in BOOLEAN /\ refresh \in {"none", "live", "revoked"} /\ served \in Nat
  BY AccountKinds
<1>2. ASSUME profile' \in ProfileKind, count' \in CountKind, tally' \in TallyKind,
             code' \in SUBSET Purposes, pass' \in SUBSET Passes, slot' \in [Slots -> SlotKind],
             welcome' \in BOOLEAN, refresh' \in {"none", "live", "revoked"}, served' \in Nat
      PROVE  AccountTypeOK'
  BY <1>2 DEF AccountTypeOK, SlotKind, ProfileKind, TallyKind, CountKind
<1>3. CASE SignUp \/ LogOut
  BY <1>1, <1>2, <1>3 DEF SignUp, LogOut, Purposes
<1>4. CASE Expires \/ PauseEnds
  <2>1. \/ UNCHANGED count \/ count' = [count EXCEPT !.pause = FALSE]
        \/ \E c \in {"login", "change", "resend", "forgot"} : count' = [count EXCEPT ![c] = 0]
    BY <1>4 DEF Expires, PauseEnds, Limits
  <2>2. count' \in CountKind
    BY <1>1, <2>1, CountReset DEF CountKind
  <2>. QED  BY <1>1, <1>2, <1>4, <2>2 DEF Expires, PauseEnds
<1>5. ASSUME NEW s \in Slots, NEW op \in Ops, NEW right \in BOOLEAN, NEW seen \in Found(op),
             BeginRequest(s, op, right, seen)
      PROVE  AccountTypeOK'
  <2>1. seen.count \in CountKind
    <3>1. \/ seen.count = count \/ seen.count = [count EXCEPT !.pause = FALSE]
          \/ \E c \in {"login", "change", "resend", "forgot"} : seen.count = [count EXCEPT ![c] = 0]
      <4>1. CASE seen = Kept
        BY <4>1 DEF Kept
      <4>2. CASE op \in {"resend", "forgot", "login", "changeAsk", "verify"} /\ seen # Kept
        BY <4>2 DEF Found, Kept
      <4>. QED  BY <4>1, <4>2 DEF Found
    <3>2. [count EXCEPT !.pause = FALSE] \in CountKind
      BY <1>1 DEF CountKind
    <3>. QED  BY <1>1, <3>1, <3>2, CountReset
  <2>2. CountOf(op, seen) \in Nat
    BY <2>1 DEF CountOf, CountKind
  <2>3. slot' \in [Slots -> SlotKind]
    <3>. DEFINE x == [op |-> op, pc |-> "read", two |-> profile.two, right |-> right,
                      n |-> CountOf(op, seen)]
    <3>1. slot' = [slot EXCEPT ![s] = x]
      BY <1>5 DEF BeginRequest
    <3>2. x \in SlotKind
      BY <1>1, <2>2 DEF SlotKind, ProfileKind
    <3>. HIDE DEF x
    <3>. QED  BY <1>1, <3>1, <3>2
  <2>4. UNCHANGED <<profile, welcome, code, pass, count, refresh, tally>> /\ served' = served + 1
    BY <1>5 DEF BeginRequest
  <2>. QED  BY <1>1, <1>2, <2>3, <2>4
<1>6. ASSUME NEW s \in Slots, RequestStep(s) PROVE AccountTypeOK'
  <2>1. Idle \in SlotKind
    BY DEF Idle, SlotKind
  <2>2. slot' \in [Slots -> SlotKind]
    BY <1>1, <1>6, <2>1, RequestMoves DEF Ends, Writes, SlotKind
  <2>3. refresh' \in {"none", "live", "revoked"}
    BY <1>1, <1>6 DEF RequestStep, Resend, VerifyOtp, CompleteSignUp, SetPin, SetPinRest, ForgotPin,
      ResetPin, ResetDone, ConfirmPinChange, LogIn, InitiatePinChange, WrongPin, LockAccount,
      LogInTwoFactor, InitiateTwoFactor, VerifyTwoFactor, DisableTwoFactor, DeleteAccount, FlagUser,
      UnflagUser, RequestFails
  <2>4. welcome' \in BOOLEAN
    BY <1>1, <1>6 DEF RequestStep, Resend, VerifyOtp, CompleteSignUp, SetPin, SetPinRest, ForgotPin,
      ResetPin, ResetDone, ConfirmPinChange, LogIn, InitiatePinChange, WrongPin, LockAccount,
      LogInTwoFactor, InitiateTwoFactor, VerifyTwoFactor, DisableTwoFactor, DeleteAccount, FlagUser,
      UnflagUser, RequestFails
  <2>. QED  BY <1>1, <1>2, <1>6, <2>2, <2>3, <2>4, RequestKeeps, TallySteps, RequestMoves
<1>. QED  BY <1>3, <1>4, <1>5, <1>6 DEF AccountNext

\* What the parts of the invariant know of the requests.
LEMMA SlotFacts2 ==
    ASSUME AccountInv
    PROVE  /\ slot \in [Slots -> SlotKind]
           /\ \A s \in Slots : /\ Ends(s) => /\ slot'[s] = Idle /\ ~Under(s)'
                                             /\ slot'[s].op = "none"
                               /\ Writes(s) => /\ slot'[s].pc = "written"
                                               /\ slot'[s].op = slot[s].op
                               /\ Ends(s) \/ Writes(s) =>
                                      \A t \in Slots \ {s} : slot'[t] = slot[t]
           /\ \A s \in Slots : slot[s].op # "none" => Under(s)
           /\ profile \in ProfileKind
           /\ tally \in TallyKind
           /\ count \in CountKind
<1>1. /\ slot \in [Slots -> SlotKind] /\ profile \in ProfileKind /\ tally \in TallyKind
      /\ count \in CountKind
  BY AccountKinds
<1>2. Idle.op = "none" /\ Idle.pc = "idle"
  BY DEF Idle
<1>3. \A s \in Slots : slot[s].op # "none" => Under(s)
  BY <1>2 DEF AccountInv, PinThere, Under
<1>4. ASSUME NEW s \in Slots, Ends(s)
      PROVE  /\ slot'[s] = Idle /\ ~Under(s)' /\ slot'[s].op = "none"
             /\ \A t \in Slots \ {s} : slot'[t] = slot[t]
  BY <1>1, <1>2, <1>4 DEF Ends, Under
<1>5. ASSUME NEW s \in Slots, Writes(s)
      PROVE  /\ slot'[s].pc = "written" /\ slot'[s].op = slot[s].op
             /\ \A t \in Slots \ {s} : slot'[t] = slot[t]
  BY <1>1, <1>5 DEF Writes, SlotKind
<1>. QED  BY <1>1, <1>3, <1>4, <1>5

\* A right to proceed.
LEMMA Begins ==
    ASSUME AccountInv, NEW s \in Slots, NEW op \in Ops, NEW right \in BOOLEAN,
           Begun(s, op, right)
    PROVE  /\ slot'[s].op = op /\ slot'[s].pc = "read"
           /\ \A t \in Slots \ {s} : slot'[t] = slot[t]
           /\ ~Under(s)
           /\ op = "setPin" => ~profile.pin
           /\ op \in {"login", "changeAsk"} => profile.pin /\ profile.status # "DELETED"
           /\ op = "changeDo" => "pin_change" \in code
           /\ op = "flag" => profile.status # "DELETED"
           /\ op = "unflag" => profile.status = "FLAGGED"
           /\ op = "verify" /\ slot'[s].n = 1 => "pin_reset" \in code
           /\ op = "login" /\ ~Spend("overlap") /\ ~Spend("redis") => slot'[s].n = count.login
           /\ op = "changeAsk" /\ ~Spend("overlap") /\ ~Spend("redis") =>
                  slot'[s].n = count.change
           /\ ~Spend("overlap") => \A t \in Slots : ~Under(t)
           /\ UNCHANGED <<profile, welcome, code, pass, count, refresh, tally>>
<1>1. slot \in [Slots -> SlotKind] /\ count \in CountKind
  BY SlotFacts2
<1>2. PICK seen \in Found(op) : BeginRequest(s, op, right, seen)
  BY DEF Begun
<1>. DEFINE x == [op |-> op, pc |-> "read", two |-> profile.two, right |-> right,
                  n |-> CountOf(op, seen)]
<1>3. /\ slot' = [slot EXCEPT ![s] = x] /\ slot[s].pc = "idle" /\ Proceeds(op, seen)
      /\ UNCHANGED <<profile, welcome, code, pass, count, refresh, tally>>
      /\ ~Spend("overlap") => \A t \in Slots : slot[t].pc = "idle"
      /\ ~Spend("overlap") /\ ~Spend("redis") => seen = Kept
  BY <1>2 DEF BeginRequest
<1>4. x.op = op /\ x.pc = "read" /\ x.n = CountOf(op, seen)
  OBVIOUS
<1>. HIDE DEF x
<1>5. slot'[s] = x /\ \A t \in Slots \ {s} : slot'[t] = slot[t]
  BY <1>1, <1>3
<1>6. ~Under(s) /\ (~Spend("overlap") => \A t \in Slots : ~Under(t))
  BY <1>3 DEF Under
<1>7. /\ op = "setPin" => ~profile.pin
      /\ op \in {"login", "changeAsk"} => profile.pin /\ profile.status # "DELETED"
      /\ op = "changeDo" => "pin_change" \in code
      /\ op = "flag" => profile.status # "DELETED"
      /\ op = "unflag" => profile.status = "FLAGGED"
  BY <1>3 DEF Proceeds, Usable
<1>8. op = "verify" /\ slot'[s].n = 1 => "pin_reset" \in code
  BY <1>4, <1>5 DEF Found, Kept, CountOf
<1>9. ASSUME ~Spend("overlap"), ~Spend("redis")
      PROVE  /\ op = "login" => slot'[s].n = count.login
             /\ op = "changeAsk" => slot'[s].n = count.change
  BY <1>1, <1>3, <1>4, <1>5, <1>9 DEF CountOf, Kept
<1>. QED  BY <1>3, <1>4, <1>5, <1>6, <1>7, <1>8, <1>9

\* The steps by what they do to the requests.
LEMMA SlotMoves ==
    ASSUME AccountInv, AccountNext
    PROVE  \/ UNCHANGED slot
           \/ \E s \in Slots : Under(s) /\ Ends(s)
           \/ \E s \in Slots : /\ Writes(s) /\ slot[s].pc = "read"
                               /\ slot[s].op \in {"setPin", "reset"} \/ Trying(s)
           \/ \E s \in Slots, op \in Ops, right \in BOOLEAN : Begun(s, op, right)
<1>1. CASE SignUp \/ LogOut \/ Expires \/ PauseEnds
  BY <1>1 DEF SignUp, LogOut, Expires, PauseEnds
<1>. QED  BY <1>1, RequestMoves DEF AccountNext, Begun

LEMMA PinStays ==
    ASSUME AccountInv, AccountNext
    PROVE  /\ profile.pin => profile'.pin
           /\ "pin_change" \in code' => profile'.pin
           /\ tally'.login > 0 \/ tally'.change > 0 \/ tally'.gone => profile'.pin
<1>. DEFINE Had == \/ "pin_change" \in code
                   \/ tally.login > 0 \/ tally.change > 0 \/ tally.gone
<1>1. Had => profile.pin
  BY DEF AccountInv, PinThere
<1>2. profile \in ProfileKind /\ tally \in TallyKind
  BY SlotFacts2
<1>3. ASSUME profile.pin => profile'.pin,
             "pin_change" \in code' => "pin_change" \in code \/ profile.pin,
             tally'.login > 0 \/ tally'.change > 0 \/ tally'.gone => Had \/ profile.pin
      PROVE  /\ profile.pin => profile'.pin
             /\ "pin_change" \in code' => profile'.pin
             /\ tally'.login > 0 \/ tally'.change > 0 \/ tally'.gone => profile'.pin
  BY <1>1, <1>3
<1>4. CASE SignUp \/ LogOut \/ Expires \/ PauseEnds
           \/ \E s \in Slots, op \in Ops, right \in BOOLEAN : Begun(s, op, right)
  BY <1>3, <1>4 DEF SignUp, LogOut, Expires, PauseEnds, Begun, BeginRequest
<1>5. ASSUME NEW s \in Slots, RequestStep(s)
      PROVE  /\ profile.pin => profile'.pin
             /\ "pin_change" \in code' => "pin_change" \in code \/ profile.pin
             /\ tally'.login > 0 \/ tally'.change > 0 \/ tally'.gone => Had \/ profile.pin
  <2>1. Under(s) /\ (Trying(s) \/ slot[s].op = "changeDo") => profile.pin
    BY DEF AccountInv, PinThere
  <2>2. profile.pin => profile'.pin
    BY <1>2, <1>5 DEF RequestStep, Resend, VerifyOtp, CompleteSignUp, SetPin, SetPinRest, ForgotPin,
      ResetPin, ResetDone, ConfirmPinChange, LogIn, InitiatePinChange, WrongPin, LockAccount,
      LogInTwoFactor, InitiateTwoFactor, VerifyTwoFactor, DisableTwoFactor, DeleteAccount, FlagUser,
      UnflagUser, RequestFails, ProfileKind
  <2>3. "pin_change" \in code' => "pin_change" \in code \/ profile.pin
    BY <1>5, <2>1, RequestKeeps DEF InitiatePinChange, Doing, Under, Trying
  <2>4. tally'.login > 0 \/ tally'.change > 0 \/ tally'.gone => Had \/ profile.pin
    <3>1. CASE UNCHANGED tally
      BY <3>1
    <3>2. ASSUME NEW op \in {"login", "changeAsk"}, WrongPin(s, op) PROVE profile.pin
      BY <2>1, <3>2 DEF WrongPin, Doing, Under, Trying
    <3>3. CASE LogIn(s) \/ InitiatePinChange(s) \/ ConfirmPinChange(s)
      BY <2>1, <3>3 DEF LogIn, InitiatePinChange, ConfirmPinChange, Doing, Under, Trying
    <3>4. CASE DeleteAccount(s)
      <4>. DEFINE gone == tally.gone \/ profile.pin
      <4>1. tally' = [tally EXCEPT !.gone = gone]
        BY <3>4 DEF DeleteAccount
      <4>2. gone => tally.gone \/ profile.pin
        OBVIOUS
      <4>. HIDE DEF gone
      <4>. QED  BY <1>2, <4>1, <4>2 DEF TallyKind
    <3>5. CASE UnflagUser(s)
      BY <1>2, <3>5 DEF UnflagUser, TallyKind
    <3>6. CASE ForgotPin(s) \/ ResetPin(s)
      BY <1>2, <3>6 DEF ForgotPin, ResetPin, TallyKind
    <3>. QED  BY <1>5, <3>1, <3>2, <3>3, <3>4, <3>5, <3>6 DEF RequestStep, Resend, VerifyOtp,
      CompleteSignUp, SetPin, SetPinRest, ResetDone, LockAccount, LogInTwoFactor, InitiateTwoFactor,
      VerifyTwoFactor, DisableTwoFactor, FlagUser, RequestFails
  <2>. QED  BY <2>2, <2>3, <2>4
<1>. QED  BY <1>3, <1>4, <1>5 DEF AccountNext, Begun

LEMMA PinThereNext == ASSUME AccountInv, AccountNext PROVE PinThere'
<1>. DEFINE Fine(t) == /\ slot[t].pc = "idle" => slot[t] = Idle
                       /\ slot[t].pc = "written" => slot[t].op \in {"setPin", "reset"} \/ Trying(t)
                       /\ Under(t) /\ (Trying(t) \/ slot[t].op = "changeDo") => profile.pin
            FineNow(t) == /\ slot'[t].pc = "idle" => slot'[t] = Idle
                          /\ slot'[t].pc = "written" =>
                                 slot'[t].op \in {"setPin", "reset", "login", "changeAsk"}
                          /\ slot'[t].pc # "idle" /\ slot'[t].op \in {"login", "changeAsk", "changeDo"} =>
                                 profile'.pin
<1>1. \A t \in Slots : Fine(t)
  BY DEF AccountInv, PinThere
<1>2. profile.pin => profile'.pin
  BY PinStays
<1>3. \A t \in Slots : slot'[t] = slot[t] => FineNow(t)
  BY <1>1, <1>2 DEF Trying, Under
<1>4. UNCHANGED slot => \A t \in Slots : FineNow(t)
  BY <1>3
<1>5. ASSUME NEW s \in Slots, Ends(s) PROVE \A t \in Slots : FineNow(t)
  BY <1>5, SlotFacts2, <1>3 DEF Idle
<1>6. ASSUME NEW s \in Slots, Writes(s), slot[s].pc = "read",
             slot[s].op \in {"setPin", "reset"} \/ Trying(s)
      PROVE  \A t \in Slots : FineNow(t)
  BY <1>6, SlotFacts2, <1>1, <1>2, <1>3 DEF Trying, Under
<1>7. ASSUME NEW s \in Slots, NEW op \in Ops, NEW right \in BOOLEAN, Begun(s, op, right)
      PROVE  \A t \in Slots : FineNow(t)
  BY <1>7, Begins, <1>2, <1>3 DEF AccountInv, PinThere
<1>8. \A t \in Slots : FineNow(t)
  BY <1>3, <1>4, <1>5, <1>6, <1>7, SlotMoves
<1>. QED  BY <1>8, PinStays DEF PinThere, Trying, Under

\* What a step of a request does to it and to the others.
LEMMA OneStep ==
    ASSUME AccountInv, NEW s \in Slots, RequestStep(s)
    PROVE  /\ Under(s) /\ (Ends(s) \/ Writes(s))
           /\ \A t \in Slots \ {s} : slot'[t] = slot[t]
           /\ \/ slot'[s].pc = "idle"
              \/ slot'[s].pc = "written" /\ slot'[s].op = slot[s].op
           /\ Untouched({"overlap"}) => \A t \in Slots \ {s} : slot[t].pc = "idle"
  BY RequestMoves, SlotFacts2 DEF AccountInv, OneRequest, Under

LEMMA OneRequestNext == ASSUME AccountInv, AccountNext PROVE OneRequest'
<1>. USE DEF TallyKind, CountKind
<1>. SUFFICES ASSUME Untouched({"overlap"})'
              PROVE  /\ \A s, t \in Slots : slot'[s].pc # "idle" /\ slot'[t].pc # "idle" => s = t
                     /\ \A s \in Slots : FreshOf(s)'
                     /\ tally'.gone => profile'.status = "DELETED"
  BY DEF OneRequest, Under
<1>1. /\ Untouched({"overlap"}) /\ ~Spend("overlap")
  BY AccountCounts, AccountsAssumption, UntouchedBack, BudgetSpent DEF AccountInv
<1>2. /\ \A s, t \in Slots : slot[s].pc # "idle" /\ slot[t].pc # "idle" => s = t
      /\ \A s \in Slots : FreshOf(s)
      /\ tally.gone => profile.status = "DELETED" /\ profile.pin
  BY <1>1 DEF AccountInv, OneRequest, PinThere, Under
<1>3. profile \in ProfileKind
      /\ tally \in TallyKind
  BY SlotFacts2
<1>4. CASE SignUp \/ LogOut \/ Expires \/ PauseEnds
  BY <1>4, <1>2 DEF SignUp, LogOut, Expires, PauseEnds, FreshOf, Doing, Under, Trying
<1>5. ASSUME NEW s \in Slots, NEW op \in Ops, NEW right \in BOOLEAN, Begun(s, op, right)
      PROVE  /\ \A r, t \in Slots : slot'[r].pc # "idle" /\ slot'[t].pc # "idle" => r = t
             /\ \A t \in Slots : FreshOf(t)'
             /\ tally'.gone => profile'.status = "DELETED"
  BY <1>1, <1>5, Begins, <1>2 DEF Under, FreshOf, Doing, Trying
<1>6. ASSUME NEW s \in Slots, RequestStep(s)
      PROVE  /\ \A r, t \in Slots : slot'[r].pc # "idle" /\ slot'[t].pc # "idle" => r = t
             /\ \A t \in Slots : FreshOf(t)'
             /\ tally'.gone => profile'.status = "DELETED"
  <2>1. /\ slot[s].pc # "idle"
        /\ \A t \in Slots \ {s} : slot'[t] = slot[t]
        /\ \/ slot'[s].pc = "idle"
           \/ slot'[s].pc = "written" /\ slot'[s].op = slot[s].op
    BY <1>6, OneStep DEF Under
  <2>2. \A t \in Slots \ {s} : slot'[t].pc = "idle"
    BY <1>2, <2>1
  <2>3. \A t \in Slots \ {s} : FreshOf(t)'
    BY <2>2 DEF FreshOf, Doing, Under
  <2>4. FreshOf(s)'
    <3>1. CASE slot'[s].pc = "idle"
      BY <3>1 DEF FreshOf, Doing, Under
    <3>2. CASE slot'[s].pc = "written" /\ slot'[s].op = slot[s].op
      <4>1. ASSUME slot[s].op \in {"login", "changeAsk", "flag", "unflag"}
            PROVE  UNCHANGED profile
        <5>1. ~Ends(s)
          BY <3>2, SlotFacts2 DEF Under
        <5>2. SetPin(s) \/ ResetPin(s) \/ \E op \in {"login", "changeAsk"} : WrongPin(s, op)
          BY <1>6, <5>1 DEF RequestStep, Resend, VerifyOtp, CompleteSignUp, SetPinRest, ForgotPin,
            ResetDone, ConfirmPinChange, LogIn, InitiatePinChange, LockAccount, LogInTwoFactor,
            InitiateTwoFactor, VerifyTwoFactor, DisableTwoFactor, DeleteAccount, FlagUser,
            UnflagUser, RequestFails
        <5>. QED  BY <4>1, <5>2 DEF SetPin, ResetPin, WrongPin, Doing
      <4>2. slot'[s].op = slot[s].op /\ slot'[s].pc = "written"
        BY <3>2
      <4>. QED  BY <1>2, <2>1, <4>1, <4>2 DEF FreshOf, Doing, Under, Trying
    <3>. QED  BY <2>1, <3>1, <3>2
  <2>5. tally'.gone => profile'.status = "DELETED"
    <3>1. CASE DeleteAccount(s)
      BY <1>3, <3>1 DEF DeleteAccount, ProfileKind
    <3>2. CASE SetPin(s)
      BY <1>2, <3>2 DEF SetPin, FreshOf
    <3>3. CASE FlagUser(s) \/ UnflagUser(s) \/ \E op \in {"login", "changeAsk"} : LockAccount(s, op)
      BY <1>2, <3>3, <1>3 DEF FlagUser, UnflagUser, LockAccount, FreshOf, Doing, Under, Trying
    <3>4. CASE \/ Resend(s) \/ VerifyOtp(s) \/ CompleteSignUp(s) \/ SetPinRest(s)
               \/ ResetDone(s) \/ LogInTwoFactor(s) \/ InitiateTwoFactor(s) \/ VerifyTwoFactor(s)
               \/ DisableTwoFactor(s) \/ RequestFails(s)
      <4>1. UNCHANGED tally
        BY <3>4 DEF Resend, VerifyOtp, CompleteSignUp, SetPinRest, ResetDone, LogInTwoFactor,
          InitiateTwoFactor, VerifyTwoFactor, DisableTwoFactor, RequestFails
      <4>2. profile'.status = profile.status
        BY <1>3, <3>4 DEF Resend, VerifyOtp, CompleteSignUp, SetPinRest, ResetDone, LogInTwoFactor,
          InitiateTwoFactor, VerifyTwoFactor, DisableTwoFactor, RequestFails, ProfileKind
      <4>. QED  BY <1>2, <4>1, <4>2
    <3>5. CASE \/ ForgotPin(s) \/ ResetPin(s) \/ ConfirmPinChange(s) \/ LogIn(s)
               \/ InitiatePinChange(s)
      BY <1>3, <3>5, <1>2 DEF ForgotPin, ResetPin, ConfirmPinChange, LogIn, InitiatePinChange,
        ProfileKind
    <3>6. CASE \E op \in {"login", "changeAsk"} : WrongPin(s, op)
      BY <1>3, <3>6, <1>2 DEF WrongPin, Counter
    <3>. QED  BY <1>6, <3>1, <3>2, <3>3, <3>4, <3>5, <3>6 DEF RequestStep
  <2>. QED  BY <2>2, <2>3, <2>4, <2>5
<1>. QED  BY <1>4, <1>5, <1>6 DEF AccountNext, Begun

LEMMA AccountOpensNext == ASSUME AccountInv, AccountNext PROVE AccountOpens'
<1>. USE DEF TallyKind, CountKind
<1>. DEFINE Opened == \/ welcome
                      \/ \E s \in Slots : slot[s].op = "setPin" /\ slot[s].pc = "written"
            OpenedNow == \/ welcome'
                         \/ \E s \in Slots : slot'[s].op = "setPin" /\ slot'[s].pc = "written"
<1>. SUFFICES ASSUME Untouched({"error"})'
              PROVE  profile'.pin /\ ~tally'.early => OpenedNow
  BY DEF AccountOpens, Doing
<1>1. Untouched({"error"}) /\ ~Spend("error")
  BY AccountCounts, AccountsAssumption, UntouchedBack, BudgetSpent DEF AccountInv
<1>2. profile.pin /\ ~tally.early => Opened
  BY <1>1 DEF AccountInv, AccountOpens, Doing
<1>3. /\ profile \in ProfileKind
      /\ tally \in TallyKind
      /\ slot \in [Slots -> SlotKind]
  BY SlotFacts2
<1>4. ASSUME UNCHANGED slot, profile'.pin = profile.pin, tally'.early = tally.early,
             UNCHANGED welcome
      PROVE  profile'.pin /\ ~tally'.early => OpenedNow
  BY <1>2, <1>4
<1>5. ASSUME NEW s \in Slots, ~(slot[s].op = "setPin" /\ slot[s].pc = "written"),
             \A t \in Slots \ {s} : slot'[t] = slot[t],
             profile'.pin /\ ~tally'.early => profile.pin /\ ~tally.early,
             UNCHANGED welcome
      PROVE  profile'.pin /\ ~tally'.early => OpenedNow
  BY <1>2, <1>5
<1>6. CASE SignUp \/ LogOut \/ Expires \/ PauseEnds
  BY <1>4, <1>6 DEF SignUp, LogOut, Expires, PauseEnds
<1>7. ASSUME NEW s \in Slots, NEW op \in Ops, NEW right \in BOOLEAN, Begun(s, op, right)
      PROVE  profile'.pin /\ ~tally'.early => OpenedNow
  BY <1>7, Begins, <1>5 DEF Under
<1>8. ASSUME NEW s \in Slots, RequestStep(s)
      PROVE  profile'.pin /\ ~tally'.early => OpenedNow
  <2>0. (Ends(s) \/ Writes(s)) => \A t \in Slots \ {s} : slot'[t] = slot[t]
    BY SlotFacts2
  <2>1. CASE SetPin(s)
    BY <2>1, SlotFacts2, <1>2 DEF SetPin, Doing
  <2>2. CASE SetPinRest(s)
    BY <2>2 DEF SetPinRest
  <2>3. CASE ResetPin(s)
    <3>1. slot[s].pc = "read" /\ (Ends(s) \/ Writes(s)) /\ UNCHANGED welcome
      BY <2>3 DEF ResetPin, Doing
    <3>2. profile'.pin /\ ~tally'.early => profile.pin /\ ~tally.early
      <4>1. CASE UNCHANGED <<profile, tally>>
        BY <4>1
      <4>2. CASE tally' = [tally EXCEPT !.codes = @ - 1, !.early = @ \/ ~profile.pin]
        <5>. DEFINE early == tally.early \/ ~profile.pin
                    codes == tally.codes - 1
        <5>1. tally' = [tally EXCEPT !.codes = codes, !.early = early]
          BY <4>2
        <5>2. early \in BOOLEAN
          BY <1>3 DEF ProfileKind
        <5>. HIDE DEF early, codes
        <5>3. tally'.early = early
          BY <1>3, <5>1
        <5>. QED  BY <1>3, <5>3 DEF early, ProfileKind
      <4>. QED  BY <2>3, <4>1, <4>2 DEF ResetPin
    <3>. QED  BY <1>5, <2>0, <3>1, <3>2
  <2>4. CASE ConfirmPinChange(s)
    BY <2>4, <1>3, <1>5, <2>0 DEF ConfirmPinChange, AccountInv, PinThere, Doing, Under
  <2>5. CASE \/ Resend(s) \/ VerifyOtp(s) \/ CompleteSignUp(s)
             \/ ResetDone(s) \/ LogInTwoFactor(s) \/ InitiateTwoFactor(s) \/ VerifyTwoFactor(s)
             \/ DisableTwoFactor(s) \/ FlagUser(s)
    <3>1. UNCHANGED <<tally, welcome>> /\ Ends(s)
          /\ ~(slot[s].op = "setPin" /\ slot[s].pc = "written")
      BY <2>5 DEF Resend, VerifyOtp, CompleteSignUp, ResetDone, LogInTwoFactor, InitiateTwoFactor,
        VerifyTwoFactor, DisableTwoFactor, FlagUser, Doing
    <3>2. profile'.pin = profile.pin
      BY <1>3, <2>5 DEF Resend, VerifyOtp, CompleteSignUp, ResetDone, LogInTwoFactor,
        InitiateTwoFactor, VerifyTwoFactor, DisableTwoFactor, FlagUser, ProfileKind
    <3>. QED  BY <1>5, <2>0, <3>1, <3>2
  <2>6. CASE ForgotPin(s) \/ LogIn(s) \/ InitiatePinChange(s) \/ DeleteAccount(s) \/ UnflagUser(s)
    BY <2>6, <1>3, <1>5, <2>0 DEF ForgotPin, LogIn, InitiatePinChange, DeleteAccount, UnflagUser,
      Doing, ProfileKind
  <2>7. ASSUME NEW op \in {"login", "changeAsk"}, WrongPin(s, op) \/ LockAccount(s, op)
        PROVE  profile'.pin /\ ~tally'.early => OpenedNow
    BY <2>7, <1>3, <1>5, <2>0 DEF WrongPin, LockAccount, Doing, ProfileKind, Counter
  <2>. QED  BY <1>8, <2>1, <2>2, <2>3, <2>4, <2>5, <2>6, <2>7, <1>1 DEF RequestStep, RequestFails
<1>. QED  BY <1>6, <1>7, <1>8 DEF AccountNext, Begun

LEMMA CodesCountedNext == ASSUME AccountInv, AccountNext PROVE CodesCounted'
<1>. USE DEF TallyKind, CountKind
<1>. DEFINE R == "pin_reset" \in code
                 \/ \E s \in Slots : slot[s].op = "verify" /\ slot[s].pc = "read" /\ slot[s].n = 1
            C == "pin_change" \in code
                 \/ \E s \in Slots : slot[s].op = "changeDo" /\ slot[s].pc = "read"
            P == /\ "pin reset" \in pass
                 /\ ~\E s \in Slots : slot[s].op = "reset" /\ slot[s].pc = "written"
            R1 == "pin_reset" \in code'
                  \/ \E s \in Slots : slot'[s].op = "verify" /\ slot'[s].pc = "read" /\ slot'[s].n = 1
            C1 == "pin_change" \in code'
                  \/ \E s \in Slots : slot'[s].op = "changeDo" /\ slot'[s].pc = "read"
            P1 == /\ "pin reset" \in pass'
                  /\ ~\E s \in Slots : slot'[s].op = "reset" /\ slot'[s].pc = "written"
            Bit(b) == IF b THEN 1 ELSE 0
            Counted == tally.codes >= Bit(R) + Bit(C) + Bit(P)
            Counted1 == tally'.codes >= Bit(R1) + Bit(C1) + Bit(P1)
<1>. SUFFICES ASSUME Untouched({"overlap", "error", "redis"})' PROVE Counted1
  BY DEF CodesCounted, HeldReset, HeldChange, HeldPass, Doing
<1>1. /\ Untouched({"overlap", "error", "redis"}) /\ Untouched({"overlap"})
      /\ ~Spend("overlap") /\ ~Spend("error") /\ ~Spend("redis")
  <2>1. Budgets /\ {"overlap", "error", "redis"} \subseteq Kinds /\ CountsDown
    BY AccountCounts, AccountsAssumption DEF AccountInv
  <2>2. Untouched({"overlap", "error", "redis"})
    BY <2>1, UntouchedBack
  <2>3. \A f \in {"overlap", "error", "redis"} : Spend(f) => ~Untouched({"overlap", "error", "redis"})'
    BY <2>1, BudgetSpent
  <2>4. Untouched({"overlap"})
    BY <2>2 DEF Untouched
  <2>. QED  BY <2>2, <2>3, <2>4
<1>2. Counted
  BY <1>1 DEF AccountInv, CodesCounted, HeldReset, HeldChange, HeldPass, Doing
<1>3. tally.codes \in Int /\ slot \in [Slots -> SlotKind]
      /\ tally \in TallyKind
  BY SlotFacts2
<1>4. ASSUME R1 => R, C1 => C, P1 => P, tally'.codes = tally.codes PROVE Counted1
  <2>. HIDE DEF R, C, P, R1, C1, P1
  <2>. QED  BY <1>2, <1>3, <1>4
<1>5. CASE SignUp \/ LogOut \/ Expires \/ PauseEnds
  BY <1>5, <1>4 DEF SignUp, LogOut, Expires, PauseEnds
<1>6. ASSUME NEW s \in Slots, NEW op \in Ops, NEW right \in BOOLEAN, Begun(s, op, right)
      PROVE  Counted1
  <2>1. /\ slot'[s].op = op /\ slot'[s].pc = "read" /\ slot[s].pc = "idle"
        /\ \A t \in Slots \ {s} : slot'[t] = slot[t]
        /\ op = "changeDo" => "pin_change" \in code
        /\ op = "verify" /\ slot'[s].n = 1 => "pin_reset" \in code
    BY <1>6, Begins DEF Under
  <2>2. UNCHANGED <<code, pass, tally>>
    BY <1>6, Begins
  <2>3. R1 => R
    BY <2>1, <2>2
  <2>4. C1 => C
    BY <2>1, <2>2
  <2>5. P1 => P
    BY <2>1, <2>2
  <2>. QED  BY <1>4, <2>2, <2>3, <2>4, <2>5
<1>7. ASSUME NEW s \in Slots, RequestStep(s) PROVE Counted1
  <2>1. /\ slot[s].pc # "idle" /\ slot'[s].pc \in {"idle", "written"}
        /\ \A t \in Slots \ {s} : slot'[t] = slot[t] /\ slot[t].pc = "idle"
    BY <1>1, <1>7, OneStep DEF Under
  <2>2. /\ R1 <=> "pin_reset" \in code'
        /\ C1 <=> "pin_change" \in code'
    BY <2>1
  <2>31. ASSUME NEW p, NEW codes, NEW passes, NEW counts, Caches(p, codes, passes, counts)
         PROVE  code' = codes /\ pass' = passes
    BY <1>1, <2>31, CachesSay
  <2>3. P1 => "pin reset" \in pass'
    OBVIOUS
  <2>4. P <=> "pin reset" \in pass /\ ~(slot[s].op = "reset" /\ slot[s].pc = "written")
    BY <2>1
  <2>5. \/ UNCHANGED code
        \/ \E p \in Purposes \ {"pin_change", "pin_reset"} : code' = code \cup {p}
        \/ \E p \in Purposes : code' = code \ {p}
        => (R1 => R) /\ (C1 => C)
    BY <2>2
  <2>. HIDE DEF R, C, P, R1, C1, P1
  <2>6. CASE /\ \/ UNCHANGED code
                \/ \E p \in Purposes \ {"pin_change", "pin_reset"} : code' = code \cup {p}
                \/ \E p \in Purposes : code' = code \ {p}
             /\ UNCHANGED pass \/ pass' = pass \cup {"registration"} \/ \E p \in Passes : pass' = pass \ {p}
             /\ ~(slot[s].op = "reset" /\ slot[s].pc = "written")
             /\ tally'.codes = tally.codes
    BY <2>3, <2>4, <2>6, <1>4, <2>5
  <2>7. CASE \/ Resend(s) \/ CompleteSignUp(s) \/ SetPin(s) \/ SetPinRest(s)
             \/ LogInTwoFactor(s) \/ InitiateTwoFactor(s) \/ VerifyTwoFactor(s)
             \/ DisableTwoFactor(s) \/ FlagUser(s)
    <3>1. UNCHANGED tally /\ ~(slot[s].op = "reset" /\ slot[s].pc = "written")
      BY <2>7 DEF Resend, CompleteSignUp, SetPin, SetPinRest, LogInTwoFactor, InitiateTwoFactor,
        VerifyTwoFactor, DisableTwoFactor, FlagUser, Doing
    <3>2. UNCHANGED pass \/ \E p \in Passes : pass' = pass \ {p}
      BY <2>7, <2>31 DEF Mails, UsesCode, Resend, CompleteSignUp, SetPin, SetPinRest,
        LogInTwoFactor, InitiateTwoFactor, VerifyTwoFactor, DisableTwoFactor, FlagUser, Passes
    <3>3. \/ UNCHANGED code
          \/ \E p \in Purposes \ {"pin_change", "pin_reset"} : code' = code \cup {p}
          \/ \E p \in Purposes : code' = code \ {p}
      BY <2>7, <2>31 DEF Resend, CompleteSignUp, SetPin, SetPinRest, LogInTwoFactor,
        InitiateTwoFactor, VerifyTwoFactor, DisableTwoFactor, FlagUser, Purposes, Mails, UsesCode
    <3>. QED  BY <2>6, <3>1, <3>2, <3>3
  <2>8. CASE LogIn(s) \/ DeleteAccount(s) \/ UnflagUser(s)
    BY <2>8, <1>3, <2>6, <2>31 DEF LogIn, DeleteAccount, UnflagUser, Doing, Mails, CountsAs, Purposes
  <2>9. ASSUME NEW op \in {"login", "changeAsk"}, WrongPin(s, op) \/ LockAccount(s, op)
        PROVE  Counted1
    BY <2>9, <1>3, <2>6, <2>31 DEF WrongPin, CountsAs, LockAccount, Doing, Counter
  <2>10. CASE VerifyOtp(s)
    <3>1. UNCHANGED tally /\ slot[s].op = "verify" /\ slot[s].pc = "read"
      BY <2>10 DEF VerifyOtp, Doing
    <3>2. CASE slot[s].n = 1 /\ UsesCode("pin_reset", pass \cup {"pin reset"}, count)
      <4>1. R /\ ~R1
        BY <2>2, <2>31, <3>1, <3>2 DEF R, UsesCode
      <4>2. C1 => C
        BY <2>2, <2>31, <3>2 DEF C, UsesCode
      <4>. QED  BY <1>2, <1>3, <3>1, <4>1, <4>2
    <3>3. CASE slot[s].n = 0 /\ UsesCode("signup", pass \cup {"registration"}, count)
      BY <2>6, <2>31, <3>1, <3>3 DEF UsesCode, Purposes
    <3>. QED  BY <2>10, <3>2, <3>3 DEF VerifyOtp
  <2>11. CASE ForgotPin(s)
    <3>1. /\ code' = code \cup {"pin_reset"} /\ UNCHANGED pass
          /\ tally' = [tally EXCEPT !.codes = tally.codes + 1]
          /\ slot[s].op = "forgot"
      BY <2>11, <2>31 DEF ForgotPin, Mails, Doing
    <3>2. tally'.codes = tally.codes + 1
      BY <1>3, <3>1
    <3>3. C1 => C
      BY <2>2, <3>1 DEF C
    <3>4. P1 => P
      BY <2>3, <2>4, <3>1
    <3>. QED  BY <1>2, <1>3, <3>2, <3>3, <3>4
  <2>12. CASE ResetPin(s)
    <3>1. slot[s].op = "reset" /\ slot[s].pc = "read" /\ UNCHANGED <<code, pass>>
      BY <2>12 DEF ResetPin, Doing
    <3>2. (R1 => R) /\ (C1 => C)
      BY <2>5, <3>1
    <3>3. CASE "pin reset" \notin pass /\ UNCHANGED tally
      BY <2>6, <3>1, <3>3
    <3>4. CASE "pin reset" \in pass /\ Writes(s)
               /\ tally' = [tally EXCEPT !.codes = @ - 1, !.early = @ \/ ~profile.pin]
      <4>1. P
        BY <2>4, <3>1, <3>4
      <4>2. slot'[s].pc = "written" /\ slot'[s].op = "reset"
        BY <3>1, <3>4, SlotFacts2
      <4>3. ~P1
        BY <4>2 DEF P1
      <4>4. tally'.codes = tally.codes - 1
        <5>. DEFINE early == tally.early \/ ~profile.pin
        <5>1. tally' = [tally EXCEPT !.codes = tally.codes - 1, !.early = early]
          BY <3>4
        <5>. HIDE DEF early
        <5>. QED  BY <1>3, <5>1
      <4>. QED  BY <1>2, <1>3, <3>2, <4>1, <4>3, <4>4
    <3>. QED  BY <2>12, <3>3, <3>4 DEF ResetPin
  <2>13. CASE ResetDone(s)
    <3>1. code' = code /\ pass' = pass \ {"pin reset"} /\ UNCHANGED tally
      BY <2>13, <2>31 DEF ResetDone
    <3>2. (R1 => R) /\ (C1 => C)
      BY <2>5, <3>1
    <3>3. ~P1
      BY <2>3, <3>1
    <3>. QED  BY <1>4, <3>1, <3>2, <3>3
  <2>14. CASE ConfirmPinChange(s)
    <3>1. /\ slot[s].op = "changeDo" /\ slot[s].pc = "read" /\ code' = code \ {"pin_change"}
          /\ UNCHANGED pass
          /\ tally' = [tally EXCEPT !.codes = tally.codes - 1, !.change = 0]
      BY <2>14, <2>31 DEF ConfirmPinChange, Doing, UsesCode
    <3>2. tally'.codes = tally.codes - 1
      BY <1>3, <3>1
    <3>3. C
      BY <3>1 DEF C
    <3>4. ~C1 /\ (R1 => R)
      BY <2>2, <3>1 DEF R
    <3>5. P1 => P
      BY <2>3, <2>4, <3>1
    <3>. QED  BY <1>2, <1>3, <3>2, <3>3, <3>4, <3>5
  <2>15. CASE InitiatePinChange(s)
    <3>1. /\ code' = code \cup {"pin_change"} /\ UNCHANGED pass
          /\ tally' = [tally EXCEPT !.change = 0, !.codes = tally.codes + 1]
          /\ slot[s].op = "changeAsk"
      BY <2>15, <2>31 DEF InitiatePinChange, Mails, Doing
    <3>2. tally'.codes = tally.codes + 1
      BY <1>3, <3>1
    <3>3. R1 => R
      BY <2>2, <3>1 DEF R
    <3>4. P1 => P
      BY <2>3, <2>4, <3>1
    <3>. QED  BY <1>2, <1>3, <3>2, <3>3, <3>4
  <2>. QED  BY <1>7, <2>7, <2>8, <2>9, <2>10, <2>11, <2>12, <2>13, <2>14, <2>15, <1>1 DEF RequestStep, RequestFails
<1>. QED  BY <1>5, <1>6, <1>7 DEF AccountNext, Begun

LEMMA PinsCountedNext == ASSUME AccountInv, AccountNext PROVE PinsCounted'
<1>. USE DEF TallyKind, CountKind
<1>. DEFINE Shut == \/ profile.status \in {"FLAGGED", "DELETED"}
                    \/ \E s \in Slots : /\ slot[s].pc = "written"
                                        /\ slot[s].op \in {"login", "changeAsk"}
                    \/ ~Untouched({"error"})
            Shut1 == \/ profile'.status \in {"FLAGGED", "DELETED"}
                     \/ \E s \in Slots : /\ slot'[s].pc = "written"
                                         /\ slot'[s].op \in {"login", "changeAsk"}
                     \/ ~Untouched({"error"})'
            Tallied == /\ tally.login <= count.login /\ tally.change <= count.change
                       /\ tally.login >= LoginLimit => Shut
                       /\ tally.change >= ChangeLimit => Shut
            Tallied1 == /\ tally'.login <= count'.login /\ tally'.change <= count'.change
                        /\ tally'.login >= LoginLimit => Shut1
                        /\ tally'.change >= ChangeLimit => Shut1
            Known(t) == /\ slot[t].op = "login" /\ slot[t].pc = "read" => slot[t].n = count.login
                        /\ slot[t].op = "changeAsk" /\ slot[t].pc = "read" => slot[t].n = count.change
            Known1(t) == /\ slot'[t].op = "login" /\ slot'[t].pc = "read" => slot'[t].n = count'.login
                         /\ slot'[t].op = "changeAsk" /\ slot'[t].pc = "read" => slot'[t].n = count'.change
<1>. SUFFICES ASSUME Untouched({"overlap", "expiry", "redis"})'
              PROVE  Tallied1 /\ \A t \in Slots : Known1(t)
  BY DEF PinsCounted, Doing, Closed, Trying
<1>1. /\ Untouched({"overlap", "expiry", "redis"}) /\ Untouched({"overlap"})
      /\ ~Spend("overlap") /\ ~Spend("expiry") /\ ~Spend("redis")
      /\ ~Untouched({"error"}) \/ Spend("error") => ~Untouched({"error"})'
  <2>1. Budgets /\ {"overlap", "expiry", "redis", "error"} \subseteq Kinds /\ CountsDown
    BY AccountCounts, AccountsAssumption DEF AccountInv
  <2>2. Untouched({"overlap", "expiry", "redis"})
    BY <2>1, UntouchedBack
  <2>3. \A f \in {"overlap", "expiry", "redis"} : Spend(f) => ~Untouched({"overlap", "expiry", "redis"})'
    BY <2>1, BudgetSpent
  <2>4. Untouched({"overlap"})
    BY <2>2 DEF Untouched
  <2>5. ~Untouched({"error"}) => ~Untouched({"error"})'
    BY <2>1, UntouchedBack
  <2>6. Spend("error") => ~Untouched({"error"})'
    BY <2>1, BudgetSpent
  <2>. QED  BY <2>2, <2>3, <2>4, <2>5, <2>6
<1>2. Tallied /\ \A t \in Slots : Known(t)
  BY <1>1 DEF AccountInv, PinsCounted, Doing, Closed, Trying
<1>3. /\ tally.login \in Nat /\ tally.change \in Nat
      /\ count.login \in Nat /\ count.change \in Nat
      /\ tally \in TallyKind
      /\ count \in CountKind
      /\ profile \in ProfileKind
  BY SlotFacts2
<1>4. LoginLimit \in Nat \ {0} /\ ChangeLimit \in Nat \ {0}
  BY AccountsAssumption
<1>5. CASE SignUp \/ LogOut \/ PauseEnds
  BY <1>1, <1>5, <1>3, <1>2 DEF SignUp, LogOut, PauseEnds
<1>6. CASE Expires
  BY <1>1, <1>6 DEF Expires
<1>7. ASSUME NEW s \in Slots, NEW op \in Ops, NEW right \in BOOLEAN, Begun(s, op, right)
      PROVE  Tallied1 /\ \A t \in Slots : Known1(t)
  BY <1>1, <1>7, Begins, <1>2 DEF Under
<1>8. ASSUME NEW s \in Slots, RequestStep(s) PROVE Tallied1 /\ \A t \in Slots : Known1(t)
  <2>1. /\ slot[s].pc # "idle" /\ slot'[s].pc \in {"idle", "written"}
        /\ \A t \in Slots \ {s} : slot'[t] = slot[t] /\ slot[t].pc = "idle"
    BY <1>1, <1>8, OneStep DEF Under
  <2>2. \A t \in Slots : Known1(t)
    BY <2>1
  <2>3. Shut <=> \/ profile.status \in {"FLAGGED", "DELETED"}
                 \/ slot[s].pc = "written" /\ slot[s].op \in {"login", "changeAsk"}
                 \/ ~Untouched({"error"})
    BY <2>1
  <2>4. profile'.status \in {"FLAGGED", "DELETED"} \/ ~Untouched({"error"}) => Shut1
    BY <1>1
  <2>5. slot'[s].pc = "written" /\ slot'[s].op \in {"login", "changeAsk"} => Shut1
    OBVIOUS
  <2>41. RequestFails(s) => Shut1
    BY <1>1 DEF RequestFails
  <2>42. ASSUME NEW p, NEW codes, NEW passes, NEW counts, Caches(p, codes, passes, counts)
         PROVE  count' = counts
    BY <1>1, <2>42, CachesSay
  <2>. HIDE DEF Shut, Shut1
  <2>6. ASSUME profile'.status = profile.status,
               slot[s].pc = "read" \/ slot[s].op \notin {"login", "changeAsk"},
               \/ tally'.login = 0
               \/ tally'.login = tally.login /\ count'.login = count.login,
               \/ tally'.change = 0
               \/ tally'.change = tally.change /\ count'.change = count.change,
               count'.login \in Nat, count'.change \in Nat
        PROVE  Tallied1
    BY <2>3, <2>4, <2>6, <1>2, <1>4
  <2>7. CASE \/ Resend(s) \/ VerifyOtp(s) \/ CompleteSignUp(s) \/ SetPinRest(s) \/ ForgotPin(s)
             \/ ResetPin(s) \/ ResetDone(s) \/ LogInTwoFactor(s) \/ InitiateTwoFactor(s)
             \/ VerifyTwoFactor(s) \/ DisableTwoFactor(s)
    <3>1. slot[s].op \notin {"login", "changeAsk"}
      BY <2>7 DEF Resend, VerifyOtp, CompleteSignUp, SetPinRest, ForgotPin, ResetPin, ResetDone,
        LogInTwoFactor, InitiateTwoFactor, VerifyTwoFactor, DisableTwoFactor, Doing
    <3>2. profile'.status = profile.status
      BY <1>3, <2>7 DEF Resend, VerifyOtp, CompleteSignUp, SetPinRest, ForgotPin, ResetPin,
        ResetDone, LogInTwoFactor, InitiateTwoFactor, VerifyTwoFactor, DisableTwoFactor, ProfileKind
    <3>3. tally'.login = tally.login /\ tally'.change = tally.change
      <4>1. CASE ForgotPin(s)
        BY <1>3, <4>1 DEF ForgotPin
      <4>2. CASE ResetPin(s)
        <5>. DEFINE early == tally.early \/ ~profile.pin
                    codes == tally.codes - 1
        <5>1. UNCHANGED tally \/ tally' = [tally EXCEPT !.codes = codes, !.early = early]
          BY <4>2 DEF ResetPin
        <5>. HIDE DEF early, codes
        <5>. QED  BY <1>3, <5>1
      <4>3. CASE ~(ForgotPin(s) \/ ResetPin(s))
        BY <2>7, <4>3 DEF Resend, VerifyOtp, CompleteSignUp, SetPinRest, ResetDone, LogInTwoFactor,
          InitiateTwoFactor, VerifyTwoFactor, DisableTwoFactor
      <4>. QED  BY <4>1, <4>2, <4>3
    <3>4. count'.login = count.login /\ count'.change = count.change
      <4>1. CASE Resend(s)
        <5>. DEFINE n == slot[s].n + 1
        <5>1. count' = [count EXCEPT !.resend = n, !.pause = TRUE]
          BY <2>42, <4>1 DEF Resend, Mails
        <5>. HIDE DEF n
        <5>. QED  BY <1>3, <5>1
      <4>2. CASE ForgotPin(s)
        <5>. DEFINE n == slot[s].n + 1
        <5>1. count' = [count EXCEPT !.forgot = n]
          BY <2>42, <4>2 DEF ForgotPin, Mails
        <5>. HIDE DEF n
        <5>. QED  BY <1>3, <5>1
      <4>3. CASE ~(Resend(s) \/ ForgotPin(s))
        BY <2>7, <2>42, <4>3 DEF VerifyOtp, CompleteSignUp, SetPinRest, ResetPin, ResetDone,
          LogInTwoFactor, InitiateTwoFactor, VerifyTwoFactor, DisableTwoFactor, Mails, UsesCode
      <4>. QED  BY <4>1, <4>2, <4>3
    <3>. QED  BY <2>2, <1>3, <2>6, <3>1, <3>2, <3>3, <3>4
  <2>8. CASE SetPin(s)
    BY <1>1, <2>8, <2>2, <1>2, <1>3, <1>4 DEF SetPin, AccountInv, OneRequest, FreshOf, PinThere
  <2>9. CASE ConfirmPinChange(s)
    BY <2>9, <2>42, <1>3, <2>2, <2>6 DEF ConfirmPinChange, UsesCode, Doing, ProfileKind
  <2>10. CASE LogIn(s)
    BY <1>3, <2>10, <2>42, <2>2, <2>6 DEF LogIn, CountsAs, Mails, Doing
  <2>11. CASE InitiatePinChange(s)
    BY <2>11, <2>42, <1>3, <2>2, <2>6 DEF InitiatePinChange, Mails, Doing
  <2>12. CASE UnflagUser(s)
    BY <1>3, <2>12, <2>2, <1>4 DEF UnflagUser
  <2>13. CASE DeleteAccount(s) \/ FlagUser(s) \/ \E op \in {"login", "changeAsk"} : LockAccount(s, op)
    <3>1. Shut1
      BY <1>3, <2>4, <2>13 DEF DeleteAccount, FlagUser, LockAccount, ProfileKind
    <3>2. tally'.login = tally.login /\ tally'.change = tally.change /\ UNCHANGED count
      <4>1. CASE DeleteAccount(s)
        <5>. DEFINE gone == tally.gone \/ profile.pin
        <5>1. tally' = [tally EXCEPT !.gone = gone] /\ UNCHANGED count
          BY <4>1 DEF DeleteAccount
        <5>. HIDE DEF gone
        <5>. QED  BY <1>3, <5>1
      <4>2. CASE FlagUser(s) \/ \E op \in {"login", "changeAsk"} : LockAccount(s, op)
        BY <4>2 DEF FlagUser, LockAccount
      <4>. QED  BY <2>13, <4>1, <4>2
    <3>. QED  BY <2>2, <1>2, <3>1, <3>2
  <2>14. ASSUME NEW op \in {"login", "changeAsk"}, WrongPin(s, op) PROVE Tallied1
    <3>1. slot[s].op = op /\ slot[s].pc = "read" /\ UNCHANGED profile /\ slot[s].n \in Nat
      BY <2>14, SlotFacts2 DEF WrongPin, Doing, SlotKind
    <3>2. Known(s)
      BY <1>2
    <3>3. Shut => profile.status \in {"FLAGGED", "DELETED"} \/ ~Untouched({"error"})
      BY <2>3, <3>1
    <3>4. Shut => Shut1
      BY <2>4, <3>1, <3>3
    <3>5. Writes(s) => Shut1
      BY <2>5, <2>14, <3>1, SlotFacts2
    <3>6. CASE op = "login"
      <4>1. /\ count' = [count EXCEPT !.login = slot[s].n + 1]
            /\ tally' = [tally EXCEPT !.login = tally.login + 1]
            /\ slot[s].n + 1 >= LoginLimit => Writes(s)
        BY <2>14, <2>42, <3>6 DEF WrongPin, CountsAs, Counter, Reached, Limits
      <4>2. /\ count'.login = slot[s].n + 1 /\ tally'.login = tally.login + 1
            /\ count'.change = count.change /\ tally'.change = tally.change
        BY <1>3, <4>1
      <4>3. slot[s].n = count.login
        BY <3>1, <3>2, <3>6
      <4>4. tally'.login <= count'.login
        BY <1>2, <1>3, <4>2, <4>3
      <4>5. tally'.login >= LoginLimit => Shut1
        BY <1>2, <1>3, <1>4, <3>5, <4>1, <4>2, <4>3
      <4>6. tally'.change >= ChangeLimit => Shut1
        BY <1>2, <3>4, <4>2
      <4>. QED  BY <1>2, <4>2, <4>4, <4>5, <4>6
    <3>7. CASE op = "changeAsk"
      <4>1. /\ count' = [count EXCEPT !.change = slot[s].n + 1]
            /\ tally' = [tally EXCEPT !.change = tally.change + 1]
            /\ slot[s].n + 1 >= ChangeLimit => Writes(s)
        BY <2>14, <2>42, <3>7 DEF WrongPin, CountsAs, Counter, Reached, Limits
      <4>2. /\ count'.change = slot[s].n + 1 /\ tally'.change = tally.change + 1
            /\ count'.login = count.login /\ tally'.login = tally.login
        BY <1>3, <4>1
      <4>3. slot[s].n = count.change
        BY <3>1, <3>2, <3>7
      <4>4. tally'.change <= count'.change
        BY <1>2, <1>3, <4>2, <4>3
      <4>5. tally'.change >= ChangeLimit => Shut1
        BY <1>2, <1>3, <1>4, <3>5, <4>1, <4>2, <4>3
      <4>6. tally'.login >= LoginLimit => Shut1
        BY <1>2, <3>4, <4>2
      <4>. QED  BY <1>2, <4>2, <4>4, <4>5, <4>6
    <3>. QED  BY <3>6, <3>7
  <2>15. CASE RequestFails(s)
    BY <1>2, <2>2, <2>15, <2>41 DEF RequestFails
  <2>16. Tallied1
    BY <1>8, <2>7, <2>8, <2>9, <2>10, <2>11, <2>12, <2>13, <2>14, <2>15 DEF RequestStep
  <2>. QED  BY <2>2, <2>16
<1>. QED  BY <1>5, <1>6, <1>7, <1>8 DEF AccountNext, Begun

LEMMA AccountSteps == ASSUME AccountInv, AccountNext PROVE AccountInv' /\ CountsDown
  BY AccountCounts, AccountTypes, PinThereNext, OneRequestNext, CodesCountedNext, AccountOpensNext,
    PinsCountedNext DEF AccountInv

---------------------------------------------------------------------------
(* Quotations: their numbers.                                              *)

\* A thousandth of a product is rounded by no more than a half.
LEMMA RoundedBounds ==
    ASSUME NEW n \in Nat
    PROVE  /\ Rounded(n, 1000) \in Nat
           /\ 2000 * Rounded(n, 1000) <= 2 * n + 1000
           /\ 2 * n - 1000 < 2000 * Rounded(n, 1000)
           /\ Rounded(n, 10 * 10000) \in Nat
           /\ 200000 * Rounded(n, 10 * 10000) <= 2 * n + 100000
           /\ 2 * n - 100000 < 200000 * Rounded(n, 10 * 10000)
           /\ Rounded(n, 200 * 1000) \in Nat
           /\ 400000 * Rounded(n, 200 * 1000) <= 2 * n + 200000
           /\ 2 * n - 200000 < 400000 * Rounded(n, 200 * 1000)
           /\ Rounded(n, 200) \in Nat
           /\ Rounded(n, 10) \in Nat
  BY DEF Rounded

LEMMA RoundedTenth == ASSUME NEW n \in Nat PROVE Rounded(n, 10) \in Nat
  BY DEF Rounded

LEMMA Products ==
    ASSUME NEW a \in Int, NEW b \in Int, NEW c \in Nat
    PROVE  /\ a <= b => c * a <= c * b
           /\ a * b \in Int /\ c * (a * b) = c * a * b
           /\ a \in Nat => c * a \in Nat
           /\ \A d \in Int : c * (d * a) = d * (c * a)
           /\ \A d \in Int : c * (a + d) = c * a + c * d
  OBVIOUS

\* What a purchase costs at its price, and what it sets aside.
LEMMA PurchaseCovered ==
    ASSUME NEW c \in Nat, NEW k \in Nat, NEW price \in Nat
    PROVE  price <= 10 * Rounded(k, 1000) =>
               10 * (Rounded(c * k * 201, 200 * 1000) - Rounded(c * k, 200 * 1000))
                   + 5 * c + 10 >= c * price
<1>. DEFINE x == c * k
            cp == c * price
<1>1. x \in Nat /\ cp \in Nat
  BY Products
<1>. DEFINE y == x * 201
<1>2. y \in Nat /\ y = 201 * x
  <2>. HIDE DEF x
  <2>. QED  BY <1>1
<1>3. ASSUME price <= 10 * Rounded(k, 1000)
      PROVE  10 * (Rounded(y, 200 * 1000) - Rounded(x, 200 * 1000)) + 5 * c + 10 >= cp
  <2>. DEFINE g == Rounded(k, 1000)
              t == Rounded(y, 200 * 1000)
              f == Rounded(x, 200 * 1000)
              cg == c * g
  <2>1. g \in Nat /\ 2000 * g <= 2 * k + 1000 /\ price <= 10 * g
    BY <1>3, RoundedBounds
  <2>2. t \in Nat /\ 2 * y - 200000 < 400000 * t
    <3>. HIDE DEF x, y
    <3>. QED  BY <1>2, RoundedBounds
  <2>3. f \in Nat /\ 400000 * f <= 2 * x + 200000
    <3>. HIDE DEF x, y
    <3>. QED  BY <1>1, RoundedBounds
  <2>. HIDE DEF g, t, f
  <2>4. cg \in Nat
    BY <2>1, Products
  <2>5. 2000 * cg <= 2 * x + 1000 * c
    BY <2>1, Products
  <2>6. cp <= 10 * cg
    BY <2>1, Products
  <2>7. 10 * (t - f) + 5 * c + 10 >= cp
    <3>. HIDE DEF x, y, cp, cg
    <3>. QED  BY <1>1, <1>2, <2>2, <2>3, <2>4, <2>5, <2>6
  <2>. QED  BY <2>7 DEF t, f
<1>. QED  BY <1>3

\* What a sale or a swap brings at its price, and what it pays out.
LEMMA SaleCovered ==
    ASSUME NEW c \in Nat, NEW k \in Nat, NEW price \in Nat
    PROVE  /\ price >= 10 * Rounded(k, 1000) =>
                  10 * Rounded(c * k, 1000) <= c * price + 5 * c + 10
           /\ price >= 10 * Rounded(k, 10 * 10000) =>
                  10 * Rounded(c * k, 10 * 10000) <= c * price + 5 * c + 10
<1>. DEFINE x == c * k
            cp == c * price
<1>1. x \in Nat /\ cp \in Nat
  BY Products
<1>2. ASSUME price >= 10 * Rounded(k, 1000)
      PROVE  10 * Rounded(c * k, 1000) <= c * price + 5 * c + 10
  <2>. DEFINE g == Rounded(k, 1000)
              t == Rounded(x, 1000)
              cg == c * g
  <2>1. g \in Nat /\ 2 * k - 1000 <= 2000 * g /\ 10 * g <= price
    BY <1>2, RoundedBounds
  <2>2. t \in Nat /\ 2000 * t <= 2 * x + 1000
    <3>. HIDE DEF x
    <3>. QED  BY <1>1, RoundedBounds
  <2>. HIDE DEF g, t
  <2>3. cg \in Nat
    BY <2>1, Products
  <2>4. 2 * x - 1000 * c <= 2000 * cg
    BY <2>1, Products
  <2>5. 10 * cg <= cp
    BY <2>1, Products
  <2>6. 10 * t <= cp + 5 * c + 10
    <3>. HIDE DEF x, cp, cg
    <3>. QED  BY <1>1, <2>2, <2>3, <2>4, <2>5
  <2>. QED  BY <2>6 DEF t
<1>3. ASSUME price >= 10 * Rounded(k, 10 * 10000)
      PROVE  10 * Rounded(c * k, 10 * 10000) <= c * price + 5 * c + 10
  <2>. DEFINE g == Rounded(k, 10 * 10000)
              t == Rounded(x, 10 * 10000)
              cg == c * g
  <2>1. g \in Nat /\ 2 * k - 100000 <= 200000 * g /\ 10 * g <= price
    BY <1>3, RoundedBounds
  <2>2. t \in Nat /\ 200000 * t <= 2 * x + 100000
    <3>. HIDE DEF x
    <3>. QED  BY <1>1, RoundedBounds
  <2>. HIDE DEF g, t
  <2>3. cg \in Nat
    BY <2>1, Products
  <2>4. 2 * x - 100000 * c <= 200000 * cg
    BY <2>1, Products
  <2>5. 10 * cg <= cp
    BY <2>1, Products
  <2>6. 10 * t <= cp + 5 * c + 10
    <3>. HIDE DEF x, cp, cg
    <3>. QED  BY <1>1, <2>2, <2>3, <2>4, <2>5
  <2>. QED  BY <2>6 DEF t
<1>. QED  BY <1>2, <1>3

LEMMA BufferPercent ==
    ASSUME NEW type, NEW minor \in Nat
    PROVE  Buffer(type, minor) \in 0..99
<1>. DEFINE fits(t) == t.type \in {type, "any"} /\ minor >= t.min /\ minor <= t.max
            found == {i \in DOMAIN BufferTiers : fits(BufferTiers[i])}
            first == CHOOSE i \in found : \A k \in found : i <= k
            percent == IF found # {} THEN BufferTiers[first].percent ELSE BufferDefault
<1>1. found \in SUBSET Nat /\ \A i \in found : BufferTiers[i].percent \in 0..99
  <2>. DEFINE Tiers == [type : {"buy", "sell", "any"}, min : Nat, max : Nat, percent : 0..99]
  <2>1. BufferTiers \in Seq(Tiers)
    BY QuotesAssumption
  <2>2. \A t \in Tiers : t.percent \in 0..99
    OBVIOUS
  <2>. HIDE DEF Tiers, fits
  <2>3. DOMAIN BufferTiers = 1..Len(BufferTiers) /\ Len(BufferTiers) \in Nat
        /\ \A i \in 1..Len(BufferTiers) : BufferTiers[i] \in Tiers
    BY <2>1
  <2>4. \A i \in found : i \in 1..Len(BufferTiers)
    BY <2>3
  <2>. HIDE DEF found
  <2>5. found \in SUBSET Nat
    BY <2>3, <2>4
  <2>6. \A i \in found : BufferTiers[i].percent \in 0..99
    BY <2>2, <2>3, <2>4
  <2>. QED  BY <2>5, <2>6
<1>2. ASSUME found # {} PROVE first \in found
  <2>1. \E i \in found : \A k \in found : i <= k
    <3>. HIDE DEF found
    <3>. QED  BY <1>1, <1>2, LeastOf
  <2>. HIDE DEF found
  <2>. QED  BY <2>1
<1>3. percent \in 0..99
  <2>. HIDE DEF found, first
  <2>. QED  BY <1>1, <1>2, QuotesAssumption
<1>4. Buffer(type, minor) = IF BufferCap > 0 /\ percent > BufferCap THEN BufferCap ELSE percent
  BY DEF Buffer
<1>. HIDE DEF percent
<1>. QED  BY <1>3, <1>4, QuotesAssumption

\* The numbers of a quotation: what is booked is covered at every price that it lets pass.
OfferKind == [coins : Nat, units : CoinUnits \cup {0}, minor : Nat, fee : Nat,
              total : Nat, guard : Nat]
Covers(price) ==
    /\ side = "buy" =>
           10 * (offer.total - offer.fee) + 5 * offer.coins + 10 >= offer.coins * price
    /\ side \in {"sell", "swap"} =>
           10 * offer.total <= offer.coins * price + 5 * offer.coins + 10
OfferSound == \A price \in Prices : Guarded(price) => Covers(price)

LEMMA OfferNumbers ==
    ASSUME NEW coins \in Nat \ {0}, NEW units \in CoinUnits, NEW market \in Nat,
           side \in Sides
    PROVE  /\ Offer(coins, units, market) \in OfferKind
           /\ Offer(coins, units, market).coins = coins
           /\ Offer(coins, units, market).units = units
           /\ Offer(coins, units, market).minor = Minor(coins, units)
<1>. DEFINE minor == Minor(coins, units)
<1>1. minor \in Nat /\ units \in Nat /\ units \in CoinUnits \cup {0}
  BY QuotesAssumption, Products DEF Minor
<1>. HIDE DEF minor
<1>2. ASSUME NEW guard \in Nat, NEW fee \in Nat, NEW total \in Nat
      PROVE  [coins |-> coins, units |-> units, minor |-> minor, guard |-> guard,
              fee |-> fee, total |-> total] \in OfferKind
  BY <1>1, <1>2 DEF OfferKind
<1>3. \A n \in Nat : /\ Rounded(n, 1000) \in Nat /\ Rounded(n, 10 * 10000) \in Nat
                     /\ Rounded(n, 200 * 1000) \in Nat /\ Rounded(n, 200) \in Nat
                     /\ Rounded(n, 10) \in Nat
  BY RoundedBounds
<1>4. \A a, b \in Nat : a * b \in Nat
  BY Products
<1>5. CASE side = "buy"
  <2>. DEFINE percent == 100 + Buffer("buy", minor)
              guard == Rounded(market * percent, 1000)
              fee == Rounded(coins * market * percent, 200 * 1000)
              total == Rounded(coins * market * percent * 201, 200 * 1000)
  <2>1. percent \in Nat
    BY <1>1, BufferPercent
  <2>2. Offer(coins, units, market) =
            [coins |-> coins, units |-> units, minor |-> minor, guard |-> guard,
             fee |-> fee, total |-> total]
    BY <1>5 DEF Offer, BuyOffer, minor
  <2>. HIDE DEF percent
  <2>3. guard \in Nat /\ fee \in Nat /\ total \in Nat
    BY <1>4, <2>1, <1>3
  <2>. HIDE DEF guard, fee, total
  <2>. QED  BY <1>2, <2>2, <2>3 DEF minor
<1>6. CASE side = "sell"
  <2>. DEFINE percent == 100 - Buffer("sell", minor)
              guard == Rounded(market * percent, 1000)
              fee == Rounded(minor, 200)
              total == Rounded(coins * market * percent, 1000)
  <2>1. percent \in Nat
    BY <1>1, BufferPercent
  <2>2. Offer(coins, units, market) =
            [coins |-> coins, units |-> units, minor |-> minor, guard |-> guard,
             fee |-> fee, total |-> total]
    BY <1>6 DEF Offer, SellOffer, minor
  <2>. HIDE DEF percent
  <2>3. guard \in Nat /\ fee \in Nat /\ total \in Nat
    <3>1. market * percent \in Nat /\ coins * market \in Nat
      BY <1>4, <2>1
    <3>2. coins * market * percent \in Nat
      BY <1>4, <2>1, <3>1
    <3>. QED  BY <1>1, <1>3, <3>1, <3>2
  <2>. HIDE DEF guard, fee, total
  <2>. QED  BY <1>2, <2>2, <2>3 DEF minor
<1>7. CASE side = "swap"
  <2>. DEFINE out == Rounded(coins * market, 10)
              percents == (100 - Buffer("sell", minor)) * (100 - Buffer("buy", out))
              guard == Rounded(market * percents, 10 * 10000)
              fee == Rounded(minor, 200)
              total == Rounded(coins * market * percents, 10 * 10000)
  <2>0. out \in Nat
    BY <1>3, <1>4
  <2>2. Offer(coins, units, market) =
            [coins |-> coins, units |-> units, minor |-> minor, guard |-> guard,
             fee |-> fee, total |-> total]
    BY <1>7 DEF Offer, SwapOffer, minor
  <2>. HIDE DEF out
  <2>1. percents \in Nat
    <3>1. 100 - Buffer("sell", minor) \in Nat /\ 100 - Buffer("buy", out) \in Nat
      BY <1>1, <2>0, BufferPercent
    <3>. QED  BY <1>4, <3>1
  <2>. HIDE DEF percents
  <2>3. guard \in Nat /\ fee \in Nat /\ total \in Nat
    BY <1>4, <2>1, <1>1, <1>3
  <2>. HIDE DEF guard, fee, total
  <2>. QED  BY <1>2, <2>2, <2>3 DEF minor
<1>8. CASE side = "send"
  <2>. DEFINE fee == minor \div 200
              total == minor + (minor \div 200)
  <2>1. fee \in Nat /\ total \in Nat
    BY <1>1
  <2>2. Offer(coins, units, market) =
            [coins |-> coins, units |-> units, minor |-> minor, guard |-> 0,
             fee |-> fee, total |-> total]
    BY <1>8 DEF Offer, SendOffer, minor
  <2>. HIDE DEF fee, total
  <2>. QED  BY <1>2, <2>1, <2>2 DEF minor
<1>. QED  BY <1>5, <1>6, <1>7, <1>8 DEF Sides

LEMMA OfferCovers ==
    ASSUME NEW coins \in Nat \ {0}, NEW units \in CoinUnits, NEW market \in Nat,
           side \in Sides, NEW price \in Nat, offer' = Offer(coins, units, market),
           side' = side, Guarded(price)'
    PROVE  Covers(price)'
<1>. DEFINE minor == Minor(coins, units)
<1>1. minor \in Nat
  BY QuotesAssumption, Products DEF Minor
<1>2. offer'.coins = coins
  BY OfferNumbers
<1>. HIDE DEF minor
<1>3. \A a, b \in Nat : a * b \in Nat
  BY Products
<1>4. CASE side = "buy"
  <2>. DEFINE percent == 100 + Buffer("buy", minor)
              k == market * percent
  <2>1. percent \in Nat
    BY <1>1, BufferPercent
  <2>2. /\ offer'.guard = Rounded(k, 1000)
        /\ offer'.fee = Rounded(coins * market * percent, 200 * 1000)
        /\ offer'.total = Rounded(coins * market * percent * 201, 200 * 1000)
    BY <1>4 DEF Offer, BuyOffer, minor
  <2>. HIDE DEF percent
  <2>3. k \in Nat /\ coins * market * percent = coins * k
    BY <2>1, Products, <1>3
  <2>. HIDE DEF k
  <2>4. price <= 10 * Rounded(k, 1000)
    BY <1>4, <2>2 DEF Guarded
  <2>5. /\ offer'.fee = Rounded(coins * k, 200 * 1000)
        /\ offer'.total = Rounded(coins * k * 201, 200 * 1000)
    BY <2>2, <2>3
  <2>. QED  BY <1>2, <1>4, <2>3, <2>4, <2>5, PurchaseCovered DEF Covers
<1>5. CASE side = "sell"
  <2>. DEFINE percent == 100 - Buffer("sell", minor)
              k == market * percent
  <2>1. percent \in Nat
    BY <1>1, BufferPercent
  <2>2. /\ offer'.guard = Rounded(k, 1000)
        /\ offer'.total = Rounded(coins * market * percent, 1000)
    BY <1>5 DEF Offer, SellOffer, minor
  <2>. HIDE DEF percent
  <2>3. k \in Nat /\ coins * market * percent = coins * k
    BY <2>1, Products, <1>3
  <2>. HIDE DEF k
  <2>4. price >= 10 * Rounded(k, 1000)
    BY <1>5, <2>2 DEF Guarded
  <2>5. offer'.total = Rounded(coins * k, 1000)
    BY <2>2, <2>3
  <2>. QED  BY <1>2, <1>5, <2>3, <2>4, <2>5, SaleCovered DEF Covers
<1>6. CASE side = "swap"
  <2>. DEFINE out == Rounded(coins * market, 10)
              percents == (100 - Buffer("sell", minor)) * (100 - Buffer("buy", out))
              k == market * percents
  <2>0. out \in Nat
    <3>. DEFINE n == coins * market
    <3>1. n \in Nat
      BY <1>3
    <3>. HIDE DEF n
    <3>2. Rounded(n, 10) \in Nat
      BY <3>1, RoundedTenth
    <3>. QED  BY <3>2 DEF n
  <2>2. /\ offer'.guard = Rounded(k, 10 * 10000)
        /\ offer'.total = Rounded(coins * market * percents, 10 * 10000)
    BY <1>6 DEF Offer, SwapOffer, minor
  <2>. HIDE DEF out
  <2>1. percents \in Nat
    <3>. DEFINE a == 100 - Buffer("sell", minor)
                b == 100 - Buffer("buy", out)
    <3>1. a \in Nat /\ b \in Nat
      BY <1>1, <2>0, BufferPercent
    <3>. HIDE DEF a, b
    <3>2. a * b \in Nat
      BY <1>3, <3>1
    <3>. QED  BY <3>2 DEF a, b
  <2>. HIDE DEF percents
  <2>3. k \in Nat /\ coins * market * percents = coins * k
    BY <2>1, Products, <1>3
  <2>. HIDE DEF k
  <2>4. price >= 10 * Rounded(k, 10 * 10000)
    BY <1>6, <2>2 DEF Guarded
  <2>5. offer'.total = Rounded(coins * k, 10 * 10000)
    BY <2>2, <2>3
  <2>. QED  BY <1>2, <1>6, <2>3, <2>4, <2>5, SaleCovered DEF Covers
<1>7. CASE side = "send"
  BY <1>7 DEF Covers
<1>. QED  BY <1>4, <1>5, <1>6, <1>7 DEF Sides
---------------------------------------------------------------------------
(* Quotations: who reads and writes them.                                  *)

EntryKind == [there : BOOLEAN, payee : Payees \cup {"none"}, pin : BOOLEAN]
AskKind == [pc : {"new", "read", "checked", "reserved", "posted", "done"}, copy : EntryKind]
MadeKind == [count : Nat, posts : Nat, payee : Payees \cup {"none"},
             units : CoinUnits \cup {0}, price : Prices \cup {0}, row : BOOLEAN]

\* Before there is a quotation there is nothing.
Unquoted ==
    offer = NoOffer =>
        /\ quote = NoQuote /\ shown = "none" /\ agreed = "none" /\ made = NoTrade
        /\ \A a \in Asks : asked[a].pc = "new"

\* One confirmation makes the transaction, and it alone posts the order.
OneOrder ==
    /\ made.count <= 1 /\ made.posts <= 1
    /\ made.count = 0 => /\ made.posts = 0
                         /\ \A a \in Asks : asked[a].pc \notin {"reserved", "posted"}
    /\ \A a, b \in Asks : asked[a].pc = "reserved" /\ asked[b].pc = "reserved" => a = b
    /\ \A a \in Asks : asked[a].pc = "reserved" => made.posts = 0
    /\ \A a \in Asks : asked[a].pc \in {"checked", "reserved", "posted"} => a.kind = "confirm"

\* Confirmations that have read the quotation.
Sure(a) == a.kind = "confirm" /\ asked[a].pc \in {"read", "checked"}
PayeeNamed ==
    Untouched({"overlap"}) /\ side \in {"buy", "sell"} =>
        /\ made.count = 0 => /\ quote.there /\ ~late => quote.payee = shown
                             /\ \A a \in Asks : Sure(a) => asked[a].copy.payee = shown
        /\ made.count = 1 => made.payee = shown
PayeeAgreed ==
    Untouched({"overlap", "changed"}) =>
        /\ made.count = 0 => /\ quote.there /\ quote.pin => quote.payee = agreed
                             /\ \A a \in Asks : Sure(a) => asked[a].copy.payee = agreed
        /\ made.count = 1 => made.payee = agreed

\* The numbers of the transaction.
OfferKept ==
    /\ offer.minor = Minor(offer.coins, offer.units)
    /\ offer # NoOffer => OfferSound
    /\ made.count = 1 /\ Untouched({"relisted"}) => made.units = offer.units
    /\ made.count = 1 \/ (\E a \in Asks : asked[a].pc = "checked") =>
           made.price \in Prices /\ Guarded(made.price)

QuotesInv == /\ Budgets /\ QuotesTypeOK /\ Unquoted /\ OneOrder /\ PayeeNamed
             /\ PayeeAgreed /\ OfferKept

LEMMA QuotesNumbers ==
    /\ \A price \in Prices \cup {0} : price \in Nat
    /\ \A units \in CoinUnits \cup {0} : units \in Nat
    /\ CoinAmounts \subseteq Nat \ {0} /\ QuotedUnits \in CoinUnits
    /\ QuotedPrice \in Prices /\ QuotedPrice \in Nat
    /\ {"overlap", "changed", "relisted", "refusal"} \subseteq Kinds
    /\ Budget["overlap"] > 0 /\ Budget["changed"] > 0
  BY QuotesAssumption

LEMMA QuotesTyped ==
    QuotesTypeOK <=>
        /\ side \in Sides /\ offer \in OfferKind /\ quote \in EntryKind
        /\ asked \in [Asks -> AskKind] /\ late \in BOOLEAN /\ cooling \in BOOLEAN
        /\ shown \in Payees \cup {"none"} /\ agreed \in Payees \cup {"none"}
        /\ made \in MadeKind
  BY DEF QuotesTypeOK, OfferKind, EntryKind, AskKind, MadeKind

LEMMA QuotesTypedNext ==
    /\ side' \in Sides /\ offer' \in OfferKind /\ quote' \in EntryKind
    /\ asked' \in [Asks -> AskKind] /\ late' \in BOOLEAN /\ cooling' \in BOOLEAN
    /\ shown' \in Payees \cup {"none"} /\ agreed' \in Payees \cup {"none"}
    /\ made' \in MadeKind
    => QuotesTypeOK'
  BY DEF QuotesTypeOK, OfferKind, EntryKind, AskKind, MadeKind

LEMMA QuotesLiterals ==
    /\ NoOffer \in OfferKind /\ NoQuote \in EntryKind /\ NoTrade \in MadeKind
    /\ NoOffer.coins = 0 /\ NoOffer.minor = 0 /\ NoOffer.units = 0
    /\ NoQuote.there = FALSE /\ NoQuote.payee = "none" /\ NoQuote.pin = FALSE
    /\ NoTrade.count = 0 /\ NoTrade.posts = 0
  BY DEF NoOffer, OfferKind, NoQuote, EntryKind, NoTrade, MadeKind

LEMMA QuotesStarts == ASSUME budget = Budget, QuotesInit PROVE QuotesInv
<1>1. Budgets
  BY BudgetsInit
<1>2. /\ \A pc \in {"new"} : [pc |-> pc, copy |-> NoQuote] \in AskKind
  BY QuotesLiterals DEF AskKind
<1>3. \A a \in Asks : asked[a].pc = "new"
  BY DEF QuotesInit
<1>4. QuotesTypeOK
  BY <1>2, QuotesTyped, QuotesLiterals DEF QuotesInit
<1>5. Unquoted /\ OneOrder
  BY <1>3, QuotesLiterals DEF Unquoted, OneOrder, QuotesInit
<1>6. PayeeNamed /\ PayeeAgreed
  BY <1>3, QuotesLiterals DEF PayeeNamed, PayeeAgreed, QuotesInit, Sure
<1>7. OfferKept
  BY <1>3, QuotesLiterals DEF OfferKept, QuotesInit, Minor
<1>. QED  BY <1>1, <1>4, <1>5, <1>6, <1>7 DEF QuotesInv

LEMMA QuotesSays == ASSUME QuotesInv PROVE QuoteKept /\ QuoteCovers
<1>1. made \in MadeKind /\ offer \in OfferKind
  BY QuotesTyped DEF QuotesInv
<1>2. QuoteKept
  BY DEF QuotesInv, QuoteKept, OneOrder, OfferKept, PayeeNamed, PayeeAgreed
<1>3. ASSUME made.count = 1 PROVE Covers(made.price)
  BY <1>3, QuotesLiterals DEF QuotesInv, Unquoted, OfferKept, OfferSound
<1>4. QuoteCovers
  <2>1. offer.coins \in Nat /\ offer.total \in Nat /\ offer.fee \in Nat
    BY <1>1 DEF OfferKind
  <2>2. made.price \in Nat
    BY <1>1, QuotesNumbers DEF MadeKind
  <2>. DEFINE value == offer.coins * made.price
  <2>3. value \in Nat
    BY <2>1, <2>2, Products
  <2>4. ASSUME made.count = 1
        PROVE  /\ side = "buy" =>
                      10 * (offer.total - offer.fee) + (5 * offer.coins + 10) >= value
               /\ side \in {"sell", "swap"} =>
                      10 * offer.total <= value + (5 * offer.coins + 10)
    <3>1. /\ side = "buy" =>
                 10 * (offer.total - offer.fee) + 5 * offer.coins + 10 >= value
          /\ side \in {"sell", "swap"} =>
                 10 * offer.total <= value + 5 * offer.coins + 10
      BY <1>3, <2>4 DEF Covers
    <3>. HIDE DEF value
    <3>. QED  BY <2>1, <2>3, <3>1
  <2>. QED  BY <2>4 DEF QuoteCovers
<1>. QED  BY <1>2, <1>4

LEMMA QuoteTurns ==
    ASSUME QuotesInv, NEW a \in Asks, NEW copy \in EntryKind,
           NEW pc \in {"new", "read", "checked", "reserved", "posted", "done"},
           Turns(a, pc, copy)
    PROVE  /\ asked' \in [Asks -> AskKind]
           /\ asked'[a].pc = pc /\ asked'[a].copy = copy
           /\ \A b \in Asks : b # a => asked'[b] = asked[b]
<1>. DEFINE x == [pc |-> pc, copy |-> copy]
<1>1. asked \in [Asks -> AskKind]
  BY QuotesTyped DEF QuotesInv
<1>2. x \in AskKind /\ x.pc = pc /\ x.copy = copy
  BY DEF AskKind
<1>3. asked' = [asked EXCEPT ![a] = x]
  BY DEF Turns
<1>. HIDE DEF x
<1>. QED  BY <1>1, <1>2, <1>3

LEMMA QuoteAnswers ==
    ASSUME QuotesInv, NEW a \in Asks, Answers(a)
    PROVE  /\ asked' \in [Asks -> AskKind]
           /\ asked'[a].pc = "done"
           /\ \A b \in Asks : b # a => asked'[b] = asked[b]
  BY QuotesLiterals, QuoteTurns DEF Answers

\* Whatever goes on there is a quotation.
LEMMA Quoted ==
    ASSUME QuotesInv, quote.there \/ \E a \in Asks : asked[a].pc # "new"
    PROVE  offer # NoOffer
  BY QuotesLiterals DEF QuotesInv, Unquoted

\* What the transaction and the numbers have to do with.
LEMMA OrderStays ==
    ASSUME QuotesInv, UNCHANGED <<side, offer, made>>, Budgets', CountsDown,
           \A b \in Asks : asked'[b].pc \in {"checked", "reserved", "posted"} =>
               asked'[b].pc = asked[b].pc
    PROVE  OneOrder' /\ OfferKept'
<1>1. OneOrder'
  BY DEF QuotesInv, OneOrder
<1>2. Untouched({"relisted"})' => Untouched({"relisted"})
  BY UntouchedBack, QuotesNumbers DEF QuotesInv
<1>3. \A price : Guarded(price)' <=> Guarded(price)
  BY DEF Guarded
<1>4. \A price : Covers(price)' <=> Covers(price)
  BY DEF Covers
<1>5. OfferSound' <=> OfferSound
  BY <1>3, <1>4 DEF OfferSound
<1>6. OfferKept'
  BY <1>2, <1>5 DEF QuotesInv, OfferKept, Guarded, Minor
<1>. QED  BY <1>1, <1>6

\* Whom it pays, where nothing but confirmations takes part.
LEMMA PayeesStay ==
    ASSUME QuotesInv, UNCHANGED <<side, shown, agreed>>, Budgets', CountsDown,
           made'.count = made.count, made'.payee = made.payee, late => late',
           quote' = quote \/ ~quote'.there,
           \A b \in Asks : Sure(b)' =>
               \/ Sure(b) /\ asked'[b].copy = asked[b].copy
               \/ asked'[b].copy = quote /\ quote.there /\ quote.pin /\ ~late
    PROVE  PayeeNamed' /\ PayeeAgreed'
  BY UntouchedBack, QuotesNumbers, QuotesTyped DEF QuotesInv, PayeeNamed, PayeeAgreed

\* Requests that read the quotation, answer, or find it too old.
LEMMA QuietStep ==
    ASSUME QuotesInv, UNCHANGED <<side, offer, made, shown, agreed, budget>>,
           offer # NoOffer, late' \in BOOLEAN, cooling' \in BOOLEAN, quote' \in EntryKind,
           asked' \in [Asks -> AskKind], late => late', quote' = quote \/ ~quote'.there,
           \A b \in Asks :
               \/ asked'[b] = asked[b]
               \/ asked'[b].pc = "done"
               \/ /\ asked'[b].pc = "read" /\ asked'[b].copy = quote /\ quote.there
                  /\ ~late /\ (b.kind = "confirm" => quote.pin)
    PROVE  QuotesInv' /\ CountsDown
<1>1. Budgets' /\ CountsDown
  BY BudgetSame DEF QuotesInv
<1>2. QuotesTypeOK'
  BY QuotesTyped, QuotesTypedNext DEF QuotesInv
<1>3. Unquoted'
  BY DEF Unquoted
<1>4. OneOrder' /\ OfferKept'
  BY <1>1, OrderStays
<1>5. \A b \in Asks : Sure(b)' =>
          \/ Sure(b) /\ asked'[b].copy = asked[b].copy
          \/ asked'[b].copy = quote /\ quote.there /\ quote.pin /\ ~late
  BY DEF Sure
<1>6. PayeeNamed' /\ PayeeAgreed'
  BY <1>1, <1>5, PayeesStay
<1>. QED  BY <1>1, <1>2, <1>3, <1>4, <1>6 DEF QuotesInv

LEMMA QuietSteps ==
    ASSUME QuotesInv,
           \/ \E a \in Asks : \/ AskLate(a) \/ PreviewSwap(a) \/ PreviewRead(a) \/ PinRead(a)
                              \/ QuoteConfirmRead(a)
           \/ CoolingEnds \/ QuoteExpires \/ QuoteEvicted
    PROVE  QuotesInv' /\ CountsDown
<1>1. /\ quote \in EntryKind /\ late \in BOOLEAN /\ cooling \in BOOLEAN
      /\ asked \in [Asks -> AskKind]
  BY QuotesTyped DEF QuotesInv
<1>2. CASE CoolingEnds \/ QuoteExpires \/ QuoteEvicted
  <2>1. offer # NoOffer \/ CoolingEnds
    BY <1>2, Quoted DEF QuoteExpires, QuoteEvicted
  <2>2. UNCHANGED <<side, offer, made, shown, agreed, budget, asked>>
    BY <1>2 DEF CoolingEnds, QuoteExpires, QuoteEvicted
  <2>3. late' \in BOOLEAN /\ cooling' \in BOOLEAN /\ quote' \in EntryKind
        /\ (late => late') /\ (quote' = quote \/ ~quote'.there)
    BY <1>1, <1>2, QuotesLiterals DEF CoolingEnds, QuoteExpires, QuoteEvicted
  <2>4. CASE offer # NoOffer
    BY <1>1, <2>2, <2>3, <2>4, QuietStep
  <2>5. CASE offer = NoOffer
    <3>1. UNCHANGED <<quote, late>>
      BY <2>1, <2>5 DEF CoolingEnds
    <3>2. Budgets' /\ CountsDown
      BY <2>2, BudgetSame DEF QuotesInv
    <3>3. QuotesTypeOK' /\ Unquoted'
      BY <2>2, <2>3, <3>1, QuotesTyped, QuotesTypedNext DEF QuotesInv, Unquoted
    <3>4. OneOrder' /\ OfferKept'
      BY <2>2, <3>2, OrderStays
    <3>5. \A b \in Asks : Sure(b)' => Sure(b)
      BY <2>2 DEF Sure
    <3>6. PayeeNamed' /\ PayeeAgreed'
      BY <2>2, <3>1, <3>2, <3>5, PayeesStay
    <3>. QED  BY <3>2, <3>3, <3>4, <3>6 DEF QuotesInv
  <2>. QED  BY <2>4, <2>5
<1>3. ASSUME NEW a \in Asks, AskLate(a) \/ PreviewSwap(a) PROVE QuotesInv' /\ CountsDown
  BY <1>3, Quoted, QuoteAnswers, <1>1, QuotesLiterals, QuietStep DEF AskLate, PreviewSwap
<1>4. ASSUME NEW a \in Asks, PreviewRead(a) \/ PinRead(a) \/ QuoteConfirmRead(a)
      PROVE  QuotesInv' /\ CountsDown
  <2>1. offer # NoOffer
    BY <1>4, Quoted DEF PreviewRead, PinRead, QuoteConfirmRead
  <2>2. /\ UNCHANGED <<side, offer, made, shown, agreed, budget, late, cooling, quote>>
        /\ quote.there /\ ~late
        /\ \/ Answers(a)
           \/ Turns(a, "read", quote) /\ (a.kind = "confirm" => quote.pin)
    BY <1>4 DEF PreviewRead, PinRead, QuoteConfirmRead, Comes
  <2>3. CASE Answers(a)
    BY <2>3, QuoteAnswers, <1>1, <2>1, <2>2, QuietStep
  <2>4. CASE Turns(a, "read", quote) /\ (a.kind = "confirm" => quote.pin)
    BY <1>1, <2>4, QuoteTurns, <2>1, <2>2, QuietStep
  <2>. QED  BY <2>2, <2>3, <2>4
<1>. QED  BY <1>2, <1>3, <1>4

LEMMA GetQuoteSteps ==
    ASSUME QuotesInv, NEW coins \in CoinAmounts, GetQuote(coins, QuotedUnits, QuotedPrice)
    PROVE  QuotesInv' /\ CountsDown
<1>1. /\ offer = NoOffer /\ offer' = Offer(coins, QuotedUnits, QuotedPrice)
      /\ quote' = [NoQuote EXCEPT !.there = TRUE] /\ cooling' = (side = "send")
      /\ UNCHANGED <<side, late, asked, shown, agreed, made, budget>>
  BY DEF GetQuote
<1>2. /\ coins \in Nat \ {0} /\ QuotedUnits \in CoinUnits /\ QuotedPrice \in Nat
      /\ side \in Sides
  BY QuotesNumbers, QuotesTyped DEF QuotesInv
<1>3. /\ offer' \in OfferKind /\ offer'.coins = coins /\ offer'.units = QuotedUnits
      /\ offer'.minor = Minor(coins, QuotedUnits)
  BY <1>1, <1>2, OfferNumbers
<1>4. quote' \in EntryKind /\ quote'.payee = "none" /\ ~quote'.pin
  BY <1>1, QuotesLiterals DEF EntryKind
<1>5. Budgets' /\ CountsDown
  BY <1>1, BudgetSame DEF QuotesInv
<1>6. offer' # NoOffer
  BY <1>2, <1>3, QuotesLiterals
<1>7. /\ shown = "none" /\ agreed = "none" /\ made.count = 0 /\ made.posts = 0
      /\ \A a \in Asks : asked[a].pc = "new"
  BY <1>1, QuotesLiterals DEF QuotesInv, Unquoted
<1>8. QuotesTypeOK' /\ Unquoted'
  BY <1>1, <1>3, <1>4, <1>6, QuotesTyped, QuotesTypedNext DEF QuotesInv, Unquoted
<1>9. OneOrder'
  BY <1>1 DEF QuotesInv, OneOrder
<1>10. PayeeNamed' /\ PayeeAgreed'
  BY <1>1, <1>4, <1>7 DEF PayeeNamed, PayeeAgreed, Sure
<1>11. OfferKept'
  BY QuotesNumbers, <1>1, <1>2, OfferCovers, <1>3, <1>7 DEF OfferSound, OfferKept
<1>. QED  BY <1>5, <1>8, <1>9, <1>10, <1>11 DEF QuotesInv

\* Requests that put back the quotation they have read.
LEMMA WriteSteps ==
    ASSUME QuotesInv, NEW a \in Asks, PreviewWrite(a) \/ PinWrite(a)
    PROVE  QuotesInv' /\ CountsDown
<1>. DEFINE copy == asked[a].copy
            payee == PayeeOf[a.nr]
<1>0. /\ quote \in EntryKind /\ late \in BOOLEAN /\ cooling \in BOOLEAN /\ copy \in EntryKind
      /\ asked \in [Asks -> AskKind] /\ made \in MadeKind /\ side \in Sides
      /\ shown \in Payees \cup {"none"} /\ agreed \in Payees \cup {"none"}
      /\ offer \in OfferKind
  BY QuotesTyped DEF QuotesInv, AskKind
<1>. HIDE DEF copy
<1>1. payee \in Payees
  BY DEF Asks, Payees
<1>. HIDE DEF payee
<1>2. /\ asked[a].pc = "read" /\ a.kind \in {"preview", "pin"} /\ Answers(a)
      /\ UNCHANGED <<side, offer, late, cooling, made>>
  BY DEF PreviewWrite, PinWrite
<1>3. /\ asked' \in [Asks -> AskKind] /\ asked'[a].pc = "done"
      /\ \A b \in Asks : b # a => asked'[b] = asked[b]
  BY <1>2, QuoteAnswers
<1>4. offer' # NoOffer
  BY <1>2, Quoted
<1>5. \A b \in Asks : /\ Sure(b)' => Sure(b) /\ asked'[b].copy = asked[b].copy
                      /\ Sure(b) => Confirming
  BY <1>2, <1>3 DEF Sure, Confirming
<1>6. ASSUME PreviewWrite(a)
      PROVE  /\ Budgets' /\ CountsDown
             /\ Untouched({"overlap"})' => quote = copy /\ ~Confirming
             /\ Untouched({"overlap", "changed"})' => quote = copy /\ ~Confirming /\ ~copy.pin
  <2>. DEFINE G == (IF quote # copy \/ Confirming THEN {"overlap"} ELSE {})
                       \cup IF copy.pin THEN {"changed"} ELSE {}
  <2>1. NoteAll(G)
    BY <1>6 DEF PreviewWrite, copy
  <2>2. (quote # copy \/ Confirming => "overlap" \in G) /\ (copy.pin => "changed" \in G)
    OBVIOUS
  <2>. HIDE DEF G
  <2>3. /\ Budgets' /\ CountsDown
        /\ \A F : \A f \in F : f \in G /\ f \in Kinds /\ Budget[f] > 0 => ~Untouched(F)'
    BY <2>1, BudgetNotedAll DEF QuotesInv
  <2>4. /\ "overlap" \in G => ~Untouched({"overlap"})' /\ ~Untouched({"overlap", "changed"})'
        /\ "changed" \in G => ~Untouched({"overlap", "changed"})'
    BY <2>3, QuotesNumbers
  <2>. QED  BY <2>2, <2>3, <2>4
<1>7. ASSUME PinWrite(a)
      PROVE  /\ Budgets' /\ CountsDown
             /\ Untouched({"overlap"})' => quote = copy /\ ~Confirming
             /\ Untouched({"overlap", "changed"})' => quote = copy /\ ~Confirming
  BY <1>7, QuotesNumbers, BudgetNoted DEF PinWrite, copy, QuotesInv
<1>8. Budgets' /\ CountsDown
  BY <1>6, <1>7
<1>9. OneOrder' /\ OfferKept'
  BY <1>2, <1>3, <1>8, OrderStays
<1>10. Unquoted'
  BY <1>4 DEF Unquoted
<1>11. quote' \in EntryKind /\ shown' \in Payees \cup {"none"} /\ agreed' \in Payees \cup {"none"}
  <2>1. CASE PreviewWrite(a)
    BY <1>0, <1>1, <2>1 DEF EntryKind, PreviewWrite, Renewed, copy, payee
  <2>2. CASE PinWrite(a)
    BY <1>0, <2>2 DEF EntryKind, PinWrite, copy
  <2>. QED  BY <2>1, <2>2
<1>12. QuotesTypeOK'
  BY <1>0, <1>2, <1>3, <1>11, QuotesTypedNext
<1>13. /\ Untouched({"overlap"})' => Untouched({"overlap"})
       /\ Untouched({"overlap", "changed"})' => Untouched({"overlap", "changed"})
  BY <1>8, UntouchedBack, QuotesNumbers DEF QuotesInv
<1>14. ASSUME PreviewWrite(a)
       PROVE  /\ late \/ side = "buy" \/ quote' = [copy EXCEPT !.payee = payee]
              /\ side = "buy" => quote' = [copy EXCEPT !.payee = payee]
              /\ quote' = [copy EXCEPT !.payee = payee] \/ quote' = quote
              /\ shown' = (IF made.count = 0 THEN payee ELSE shown)
              /\ UNCHANGED agreed
  BY <1>0, <1>14 DEF PreviewWrite, Renewed, Rewrites, copy, payee
<1>15. ASSUME PinWrite(a)
       PROVE  /\ quote'.payee = copy.payee /\ quote'.there = copy.there
              /\ agreed' = (IF made.count = 0 THEN copy.payee ELSE agreed)
              /\ UNCHANGED shown
  BY <1>15, <1>0 DEF PinWrite, copy, EntryKind
<1>16. /\ [copy EXCEPT !.payee = payee].payee = payee
       /\ [copy EXCEPT !.payee = payee].pin = copy.pin
       /\ [copy EXCEPT !.payee = payee].there = copy.there
  BY <1>0 DEF EntryKind
<1>17. PayeeNamed'
  <2>. SUFFICES ASSUME Untouched({"overlap"})', side \in {"buy", "sell"}
                PROVE  /\ made.count = 0 =>
                              /\ quote'.there /\ ~late => quote'.payee = shown'
                              /\ \A b \in Asks : Sure(b)' => asked'[b].copy.payee = shown'
                       /\ made.count = 1 => made.payee = shown'
    BY <1>2 DEF PayeeNamed
  <2>1. /\ made.count = 0 => (quote.there /\ ~late => quote.payee = shown)
        /\ made.count = 1 => made.payee = shown
    BY <1>13 DEF QuotesInv, PayeeNamed
  <2>2. quote = copy /\ ~Confirming
    BY <1>6, <1>7
  <2>3. \A b \in Asks : ~Sure(b)'
    BY <1>5, <2>2
  <2>4. CASE PreviewWrite(a)
    <3>1. ~late => quote'.payee = payee
      BY <1>14, <1>16, <2>4
    <3>2. shown' = (IF made.count = 0 THEN payee ELSE shown)
      BY <1>14, <2>4
    <3>3. made.count = 0 => (quote'.there /\ ~late => quote'.payee = shown')
      BY <3>1, <3>2
    <3>4. made.count = 1 => made.payee = shown'
      BY <2>1, <3>2
    <3>. QED  BY <2>3, <3>3, <3>4
  <2>5. CASE PinWrite(a)
    BY <1>15, <2>2, <2>5, <2>1, <2>3
  <2>. QED  BY <2>4, <2>5
<1>18. PayeeAgreed'
  <2>. SUFFICES ASSUME Untouched({"overlap", "changed"})'
                PROVE  /\ made.count = 0 =>
                              /\ quote'.there /\ quote'.pin => quote'.payee = agreed'
                              /\ \A b \in Asks : Sure(b)' => asked'[b].copy.payee = agreed'
                       /\ made.count = 1 => made.payee = agreed'
    BY <1>2 DEF PayeeAgreed
  <2>1. /\ made.count = 0 => (quote.there /\ quote.pin => quote.payee = agreed)
        /\ made.count = 1 => made.payee = agreed
    BY <1>13 DEF QuotesInv, PayeeAgreed
  <2>2. quote = copy /\ ~Confirming
    BY <1>6, <1>7
  <2>3. \A b \in Asks : ~Sure(b)'
    BY <1>5, <2>2
  <2>4. CASE PreviewWrite(a)
    BY <1>6, <2>4, <1>14, <1>16, <2>2, <2>1, <2>3
  <2>5. CASE PinWrite(a)
    BY <1>15, <2>5, <2>1, <2>3
  <2>. QED  BY <2>4, <2>5
<1>. QED  BY <1>8, <1>9, <1>10, <1>12, <1>17, <1>18 DEF QuotesInv

\* The check sets the price, for as long as there is no transaction.
LEMMA CheckSteps ==
    ASSUME QuotesInv, NEW c \in Asks, NEW market \in Prices, QuoteConfirmCheck(c, market)
    PROVE  QuotesInv' /\ CountsDown
<1>. DEFINE copy == asked[c].copy
<1>0. /\ quote \in EntryKind /\ late \in BOOLEAN /\ cooling \in BOOLEAN /\ copy \in EntryKind
      /\ asked \in [Asks -> AskKind] /\ made \in MadeKind
  BY QuotesTyped DEF QuotesInv, AskKind
<1>1. /\ c.kind = "confirm" /\ asked[c].pc = "read"
      /\ UNCHANGED <<side, offer, quote, late, cooling, shown, agreed, budget>>
  BY DEF QuoteConfirmCheck
<1>2. offer # NoOffer
  BY <1>1, Quoted
<1>3. CASE Answers(c) /\ UNCHANGED made
  BY <1>3, QuoteAnswers, <1>0, <1>1, <1>2, QuietStep
<1>4. CASE /\ Guarded(market) /\ Turns(c, "checked", copy)
           /\ made' = IF made.count = 0 THEN [made EXCEPT !.price = market] ELSE made
  <2>1. /\ asked' \in [Asks -> AskKind] /\ asked'[c].pc = "checked" /\ asked'[c].copy = copy
        /\ \A b \in Asks : b # c => asked'[b] = asked[b]
    <3>. HIDE DEF copy
    <3>. QED  BY <1>0, <1>4, QuoteTurns
  <2>2. /\ made' \in MadeKind /\ made'.count = made.count /\ made'.posts = made.posts
        /\ made'.payee = made.payee /\ made'.units = made.units
        /\ made.count = 0 => made'.price = market
        /\ made.count # 0 => made'.price = made.price
    BY <1>0, <1>4 DEF MadeKind
  <2>3. Budgets' /\ CountsDown
    BY <1>1, BudgetSame DEF QuotesInv
  <2>4. QuotesTypeOK' /\ Unquoted'
    BY <1>1, <1>2, <2>1, <2>2, QuotesTyped, QuotesTypedNext DEF QuotesInv, Unquoted
  <2>5. OneOrder'
    BY <1>1, <2>1, <2>2 DEF QuotesInv, OneOrder
  <2>6. PayeeNamed' /\ PayeeAgreed'
    BY <1>1, <2>1, <2>2, <2>3, PayeesStay DEF Sure
  <2>7. OfferKept'
    <3>1. Untouched({"relisted"})' => Untouched({"relisted"})
      BY <2>3, UntouchedBack, QuotesNumbers DEF QuotesInv
    <3>2. /\ \A price : Guarded(price)' <=> Guarded(price)
          /\ \A price : Covers(price)' <=> Covers(price)
      BY <1>1 DEF Guarded, Covers
    <3>3. OfferSound'
      BY <1>2, <3>2 DEF QuotesInv, OfferKept, OfferSound
    <3>4. made'.price \in Prices /\ Guarded(made'.price)
      <4>1. CASE made.count = 0
        BY <1>4, <2>2, <4>1
      <4>2. CASE made.count # 0
        BY <1>0, <4>2, <2>2 DEF QuotesInv, OneOrder, MadeKind, OfferKept
      <4>. QED  BY <4>1, <4>2
    <3>5. Guarded(made.price)'
      BY <1>1, <3>4 DEF Guarded
    <3>. QED  BY <1>1, <2>2, <3>1, <3>3, <3>4, <3>5 DEF QuotesInv, OfferKept, Minor
  <2>. QED  BY <2>3, <2>4, <2>5, <2>6, <2>7 DEF QuotesInv
<1>. QED  BY <1>3, <1>4 DEF QuoteConfirmCheck

\* The transaction: one of them, of a confirmation that has read the quotation.
LEMMA ReserveSteps ==
    ASSUME QuotesInv, NEW c \in Asks, NEW units \in CoinUnits, QuoteConfirmReserve(c, units)
    PROVE  QuotesInv' /\ CountsDown
<1>. DEFINE payee == asked[c].copy.payee
<1>0. /\ quote \in EntryKind /\ late \in BOOLEAN /\ cooling \in BOOLEAN
      /\ payee \in Payees \cup {"none"} /\ made \in MadeKind /\ offer \in OfferKind
  BY QuotesTyped DEF QuotesInv, AskKind, EntryKind
<1>1. /\ asked[c].pc = "checked"
      /\ UNCHANGED <<side, offer, late, cooling, shown, agreed>>
  BY DEF QuoteConfirmReserve
<1>2. offer # NoOffer
  BY <1>1, Quoted
<1>3. c.kind = "confirm" /\ Sure(c)
  BY <1>1 DEF QuotesInv, OneOrder, Sure
<1>4. NoQuote \in EntryKind /\ ~NoQuote.there
  BY QuotesLiterals
<1>5. CASE Taken
  BY <1>5, QuoteAnswers, <1>0, <1>1, <1>2, <1>4, QuietStep DEF QuoteConfirmReserve
<1>6. CASE ~Taken
  <2>1. /\ made' = [made EXCEPT !.count = made.count + 1, !.units = units, !.payee = payee]
        /\ IF units # offer.units THEN Spend("relisted") ELSE UNCHANGED budget
        /\ \/ Turns(c, "reserved", NoQuote) /\ UNCHANGED quote
           \/ Answers(c) /\ (quote' = NoQuote \/ quote' = quote)
    BY <1>6 DEF QuoteConfirmReserve
  <2>2. made.count = 0
    BY <1>0, <1>6 DEF Taken, MadeKind
  <2>3. /\ made' \in MadeKind /\ made'.count = 1 /\ made'.posts = made.posts
        /\ made'.payee = payee /\ made'.units = units /\ made'.price = made.price
    <3>. DEFINE n == made.count + 1
    <3>1. n \in Nat /\ n = 1
      BY <2>2
    <3>2. made' = [made EXCEPT !.count = n, !.units = units, !.payee = payee]
      BY <2>1
    <3>. HIDE DEF n, payee
    <3>. QED  BY <1>0, <3>1, <3>2 DEF MadeKind
  <2>4. /\ asked' \in [Asks -> AskKind] /\ asked'[c].pc \in {"reserved", "done"}
        /\ \A b \in Asks : b # c => asked'[b] = asked[b]
        /\ quote' \in EntryKind
    <3>1. CASE Turns(c, "reserved", NoQuote) /\ UNCHANGED quote
      BY <1>0, <1>4, <3>1, QuoteTurns
    <3>2. CASE Answers(c) /\ (quote' = NoQuote \/ quote' = quote)
      BY <1>0, <1>4, <3>2, QuoteAnswers
    <3>. QED  BY <2>1, <3>1, <3>2
  <2>5. Budgets' /\ CountsDown
    BY <2>1, BudgetSame, BudgetSpent, QuotesNumbers DEF QuotesInv
  <2>6. QuotesTypeOK' /\ Unquoted'
    BY <1>1, <1>2, <2>3, <2>4, QuotesTyped, QuotesTypedNext DEF QuotesInv, Unquoted
  <2>7. OneOrder'
    BY <2>2, <1>3, <2>3, <2>4 DEF QuotesInv, OneOrder
  <2>8. PayeeNamed'
    BY <1>1, <2>3, <2>5, UntouchedBack, QuotesNumbers, <1>3, <2>2 DEF PayeeNamed, QuotesInv
  <2>9. PayeeAgreed'
    BY <2>3, <2>5, UntouchedBack, QuotesNumbers, <1>1, <1>3, <2>2 DEF PayeeAgreed, QuotesInv
  <2>10. OfferKept'
    <3>1. Untouched({"relisted"})' => units = offer.units
      BY BudgetSpent, QuotesNumbers, <2>1 DEF QuotesInv
    <3>2. /\ \A price : Guarded(price)' <=> Guarded(price)
          /\ \A price : Covers(price)' <=> Covers(price)
      BY <1>1 DEF Guarded, Covers
    <3>3. OfferSound'
      BY <1>2, <3>2 DEF QuotesInv, OfferKept, OfferSound
    <3>4. made.price \in Prices /\ Guarded(made.price)
      BY <1>1 DEF QuotesInv, OfferKept
    <3>5. Guarded(made.price)'
      BY <1>1, <2>3, <3>4 DEF Guarded
    <3>. QED  BY <1>1, <2>3, <3>1, <3>3, <3>4, <3>5 DEF QuotesInv, OfferKept, Minor
  <2>. QED  BY <2>5, <2>6, <2>7, <2>8, <2>9, <2>10 DEF QuotesInv
<1>. QED  BY <1>5, <1>6

\* What follows it: the order, and the end of the quotation.
LEMMA FollowSteps ==
    ASSUME QuotesInv, NEW c \in Asks, QuoteConfirmPost(c) \/ QuoteConfirmForget(c)
    PROVE  QuotesInv' /\ CountsDown
<1>0. /\ quote \in EntryKind /\ late \in BOOLEAN /\ cooling \in BOOLEAN
      /\ made \in MadeKind /\ offer \in OfferKind
  BY QuotesTyped DEF QuotesInv
<1>1. NoQuote \in EntryKind /\ ~NoQuote.there
  BY QuotesLiterals
<1>2. /\ asked[c].pc \in {"reserved", "posted"}
      /\ UNCHANGED <<side, offer, late, cooling, shown, agreed>>
  BY DEF QuoteConfirmPost, QuoteConfirmForget
<1>3. offer # NoOffer
  BY <1>2, Quoted
<1>4. made.count = 1 /\ c.kind = "confirm"
  BY <1>0, <1>2 DEF QuotesInv, OneOrder, MadeKind
<1>5. /\ made' \in MadeKind /\ made'.count = made.count /\ made'.payee = made.payee
      /\ made'.units = made.units /\ made'.price = made.price
      /\ QuoteConfirmPost(c) => made'.posts = made.posts + 1
      /\ QuoteConfirmForget(c) => made'.posts = made.posts
  <2>1. CASE QuoteConfirmPost(c)
    <3>. DEFINE n == made.posts + 1
    <3>1. n \in Nat
      BY <1>0 DEF MadeKind
    <3>2. made' = [made EXCEPT !.posts = n]
      BY <2>1 DEF QuoteConfirmPost
    <3>3. ~QuoteConfirmForget(c)
      BY <2>1 DEF QuoteConfirmPost, QuoteConfirmForget
    <3>4. made' \in MadeKind /\ made'.posts = n
      <4>. HIDE DEF n
      <4>. QED  BY <1>0, <3>1, <3>2 DEF MadeKind
    <3>5. /\ made'.count = made.count /\ made'.payee = made.payee
          /\ made'.units = made.units /\ made'.price = made.price
      <4>. HIDE DEF n
      <4>. QED  BY <1>0, <3>2 DEF MadeKind
    <3>. QED  BY <3>3, <3>4, <3>5
  <2>2. CASE QuoteConfirmForget(c)
    BY <2>2, <1>0 DEF QuoteConfirmForget, QuoteConfirmPost, MadeKind
  <2>. QED  BY <2>1, <2>2
<1>6. /\ asked' \in [Asks -> AskKind]
      /\ \/ asked'[c].pc = "done"
         \/ asked'[c].pc = "posted" /\ asked[c].pc = "reserved"
      /\ \A b \in Asks : b # c => asked'[b] = asked[b]
      /\ quote' \in EntryKind /\ (quote' = quote \/ ~quote'.there)
      /\ UNCHANGED budget \/ Spend("refusal")
  <2>1. CASE Answers(c) /\ (quote' = NoQuote \/ quote' = quote) /\ (UNCHANGED budget \/ Spend("refusal"))
    BY <1>0, <1>1, <2>1, QuoteAnswers
  <2>2. CASE /\ asked[c].pc = "reserved" /\ Turns(c, "posted", NoQuote) /\ UNCHANGED <<quote, budget>>
    BY <1>0, <1>1, <2>2, QuoteTurns
  <2>. QED  BY <2>1, <2>2 DEF QuoteConfirmPost, QuoteConfirmForget
<1>7. Budgets' /\ CountsDown
  BY <1>6, BudgetSame, BudgetSpent, QuotesNumbers DEF QuotesInv
<1>8. QuotesTypeOK' /\ Unquoted'
  BY <1>2, <1>3, <1>5, <1>6, QuotesTyped, QuotesTypedNext DEF QuotesInv, Unquoted
<1>9. OneOrder'
  <2>1. /\ made.posts <= 1
        /\ \A a, b \in Asks : asked[a].pc = "reserved" /\ asked[b].pc = "reserved" => a = b
        /\ \A a \in Asks : asked[a].pc = "reserved" => made.posts = 0
        /\ \A a \in Asks : asked[a].pc \in {"checked", "reserved", "posted"} => a.kind = "confirm"
    BY DEF QuotesInv, OneOrder
  <2>2. \A a \in Asks : asked'[a].pc = "reserved" => asked[a].pc = "reserved" /\ a # c
    BY <1>6
  <2>3. CASE QuoteConfirmPost(c)
    BY <2>3, <2>1, <2>2, <1>5, <1>4, <1>6 DEF QuoteConfirmPost, OneOrder
  <2>4. CASE QuoteConfirmForget(c)
    BY <1>5, <2>4, <1>4, <1>6, <2>1, <2>2 DEF OneOrder
  <2>. QED  BY <2>3, <2>4
<1>10. PayeeNamed' /\ PayeeAgreed'
  BY <1>6, <1>2, <1>5, <1>7, PayeesStay DEF Sure
<1>11. OfferKept'
  <2>1. Untouched({"relisted"})' => Untouched({"relisted"})
    BY <1>7, UntouchedBack, QuotesNumbers DEF QuotesInv
  <2>2. /\ \A price : Guarded(price)' <=> Guarded(price)
        /\ \A price : Covers(price)' <=> Covers(price)
    BY <1>2 DEF Guarded, Covers
  <2>3. OfferSound'
    BY <1>3, <2>2 DEF QuotesInv, OfferKept, OfferSound
  <2>4. made.price \in Prices /\ Guarded(made.price)
    BY <1>4 DEF QuotesInv, OfferKept
  <2>5. Guarded(made.price)'
    BY <1>2, <1>5, <2>4 DEF Guarded
  <2>. QED  BY <1>2, <1>4, <1>5, <2>1, <2>3, <2>4, <2>5 DEF QuotesInv, OfferKept, Minor
<1>. QED  BY <1>7, <1>8, <1>9, <1>10, <1>11 DEF QuotesInv

LEMMA QuotesSteps == ASSUME QuotesInv, QuotesNext PROVE QuotesInv' /\ CountsDown
  BY QuietSteps, GetQuoteSteps, WriteSteps, CheckSteps, ReserveSteps, FollowSteps DEF QuotesNext

---------------------------------------------------------------------------
(* Settings.                                                               *)

AdminSteps == {"idle", "create", "update", "delete", "terms", "bulkTerms", "patch",
               "bulkPatch", "commit", "bulkCommit", "read", "put"}
Replacing == {"update", "patch", "bulkPatch", "commit", "bulkCommit"}
AdminShape == [pc : AdminSteps, new : SUBSET RangeRows, row : SUBSET Rows,
               given : SUBSET {"from", "to", "group"}, read : Contents]
AdminKind == {x \in AdminShape : x.pc \in Replacing => x.new # {}}
AdminsTyped == admin \in [Admins -> AdminKind]

\* The terms never run ahead of the requests.
Termers == {a \in Admins : admin[a].pc \in {"terms", "bulkTerms"}}
TermsCounted == terms + Cardinality(Termers) <= ops

\* One request at a time, and then what it has read is what is stored.
OneAtDesk ==
    Untouched({"adminsOverlap"}) =>
        /\ \A a, b \in Admins : admin[a].pc # "idle" /\ admin[b].pc # "idle" => a = b
        /\ \A a \in Admins : admin[a].pc = "put" =>
               admin[a].read = Stored \/ (family = "rates" /\ admin[a].read = Nothing)

\* What a request is about to write, fits the rows.
Fit(pc, new, row, given) ==
    /\ pc = "create" =>
           \A r \in new : /\ r.from <= r.to /\ Free(r, UsedRows)
                          /\ \A s \in new : s # r => Apart(r, s)
    /\ pc \in Replacing =>
           \E i \in Rows, r \in RangeRows :
               /\ row = {i} /\ new = {r} /\ r.from <= r.to /\ Free(r, UsedRows \ {i})
               /\ pc = "update" => /\ range[i] # NoRow
                                   /\ "group" \in given \/ r.group = range[i].group
                                   /\ "from" \in given \/ r.from = range[i].from
                                   /\ "to" \in given \/ r.to = range[i].to
RowsFit ==
    /\ \A i \in UsedRows : range[i].from <= range[i].to
    /\ \A i, k \in UsedRows : i # k => Apart(range[i], range[k])
RowsApart ==
    Untouched({"adminsOverlap", "unchecked"}) =>
        /\ RowsFit
        /\ \A a \in Admins : Fit(admin[a].pc, admin[a].new, admin[a].row, admin[a].given)

RangeFaults == {"adminsOverlap", "lateFill", "error", "patched"}
TermFaults == {"adminsOverlap", "lateFill", "error", "newTerms"}

\* What is cached and no longer so is about to be replaced.
CachedTrue ==
    /\ Untouched({"patched"}) => \A a \in Admins : admin[a].pc \notin {"patch", "commit"}
    /\ Untouched({"newTerms"}) => \A a \in Admins : admin[a].pc = "terms" => family = "rates"
    /\ \A a \in Admins : admin[a].pc = "bulkTerms" => family = "rates"
    /\ Untouched(RangeFaults) /\ cached.full /\ cached.range # range =>
           \E a \in Admins : admin[a].pc \in {"read", "put"}
    /\ Untouched(TermFaults) /\ cached.full /\ cached.terms # terms =>
           family = "rates" /\ \E a \in Admins : admin[a].pc \in {"read", "put"}

SettingsInv == /\ Budgets /\ SettingsTypeOK /\ AdminsTyped /\ TermsCounted /\ OneAtDesk
               /\ RowsApart /\ CachedTrue

LEMMA SettingsKinds ==
    /\ {"adminsOverlap"} \in SUBSET Kinds /\ {"adminsOverlap", "unchecked"} \in SUBSET Kinds
    /\ {"patched"} \in SUBSET Kinds /\ {"newTerms"} \in SUBSET Kinds
    /\ RangeFaults \in SUBSET Kinds /\ TermFaults \in SUBSET Kinds
  BY SettingsAssumption DEF RangeFaults, TermFaults

LEMMA SettingsBack ==
    ASSUME Budgets, CountsDown
    PROVE  /\ Untouched({"adminsOverlap"})' => Untouched({"adminsOverlap"})
           /\ Untouched({"adminsOverlap", "unchecked"})' => Untouched({"adminsOverlap", "unchecked"})
           /\ Untouched({"patched"})' => Untouched({"patched"})
           /\ Untouched({"newTerms"})' => Untouched({"newTerms"})
           /\ Untouched(RangeFaults)' => Untouched(RangeFaults)
           /\ Untouched(TermFaults)' => Untouched(TermFaults)
  BY SettingsKinds, UntouchedBack

LEMMA FaultsApart ==
    /\ Untouched({"adminsOverlap", "unchecked"}) => Untouched({"adminsOverlap"})
    /\ Untouched(RangeFaults) => Untouched({"adminsOverlap"}) /\ Untouched({"patched"})
    /\ Untouched(TermFaults) => Untouched({"adminsOverlap"}) /\ Untouched({"newTerms"})
  BY DEF Untouched, RangeFaults, TermFaults

LEMMA ContentsKinds ==
    /\ NoRow \notin RangeRows /\ Nothing \in Contents /\ ~Nothing.full
    /\ SettingsTypeOK => Stored \in Contents
    /\ Stored.full /\ Stored.range = range /\ Stored.terms = terms
    /\ Resting \in AdminKind /\ Resting.pc = "idle"
    /\ \A p \in AdminSteps \ Replacing :
                             /\ [Resting EXCEPT !.pc = p] \in AdminKind
                             /\ [Resting EXCEPT !.pc = p].pc = p
                             /\ [Resting EXCEPT !.pc = p].new = {}
                             /\ [Resting EXCEPT !.pc = p].row = {}
                             /\ [Resting EXCEPT !.pc = p].read = Nothing
<1>1. NoRow \notin RangeRows
  BY SettingsAssumption DEF NoRow, RangeRows
<1>2. [i \in Rows |-> NoRow] \in Tables /\ 0 \in 0..MaxOps
  BY SettingsAssumption DEF Tables
<1>3. Nothing \in Contents /\ ~Nothing.full
  BY <1>2 DEF Nothing, Contents
<1>4. SettingsTypeOK => Stored \in Contents
  BY DEF SettingsTypeOK, Stored, Contents
<1>5. Stored.full /\ Stored.range = range /\ Stored.terms = terms
  BY DEF Stored
<1>6. Resting \in AdminKind /\ Resting.pc = "idle" /\ Resting.new = {} /\ Resting.row = {}
      /\ Resting.read = Nothing
  BY <1>3 DEF Resting, AdminKind, AdminShape, Replacing, AdminSteps
<1>7. \A p \in AdminSteps \ Replacing :
                             /\ [Resting EXCEPT !.pc = p] \in AdminKind
                             /\ [Resting EXCEPT !.pc = p].pc = p
                             /\ [Resting EXCEPT !.pc = p].new = {}
                             /\ [Resting EXCEPT !.pc = p].row = {}
                             /\ [Resting EXCEPT !.pc = p].read = Nothing
  BY <1>6 DEF AdminKind, AdminShape, Replacing
<1>. QED  BY <1>1, <1>3, <1>4, <1>5, <1>6, <1>7

\* Two ranges with their ends in order overlap if they share an amount.
LEMMA OverlapMeans ==
    ASSUME NEW r \in RangeRows, NEW s \in RangeRows, r.from <= r.to, s.from <= s.to
    PROVE  /\ Overlap(r, s) <=> r.from <= s.to /\ s.from <= r.to
           /\ Apart(r, s) <=> Apart(s, r)
  BY DEF RangeRows, Overlap, Apart

LEMMA SettingsStarts == ASSUME budget = Budget, SettingsInit PROVE SettingsInv
<1>1. Budgets
  BY BudgetsInit
<1>2. /\ family \in Families /\ range = Nothing.range /\ terms = 0 /\ cached = Stored
      /\ admin = [a \in Admins |-> Resting] /\ ops = 0
      /\ reader = [filling |-> FALSE, read |-> Nothing]
  BY DEF SettingsInit
<1>3. range = [i \in Rows |-> NoRow] /\ range \in Tables /\ 0 \in 0..MaxOps
  BY <1>2, SettingsAssumption DEF Nothing, Tables
<1>4. AdminsTyped /\ \A a \in Admins : admin[a] = Resting
  BY <1>2, ContentsKinds DEF AdminsTyped
<1>5. Stored \in Contents
  BY <1>2, <1>3 DEF Stored, Contents
<1>6. SettingsTypeOK
  BY <1>4, ContentsKinds, <1>2, <1>3, <1>5 DEF SettingsTypeOK, AdminKind, AdminShape, Replacing,
    AdminSteps
<1>7. Termers = {}
  BY <1>4, ContentsKinds DEF Termers
<1>8. TermsCounted
  BY <1>2, <1>7, FS_EmptySet DEF TermsCounted
<1>9. UsedRows = {}
  BY <1>3 DEF UsedRows
<1>. QED  BY <1>1, <1>2, <1>4, <1>6, <1>8, <1>9, ContentsKinds DEF SettingsInv, OneAtDesk,
  RowsApart, RowsFit, Fit, Replacing, CachedTrue

LEMMA SettingsSays == ASSUME SettingsInv PROVE SettingsTypeOK /\ RangesDisjoint /\ CacheCurrent
<1>1. RangesDisjoint
  <2>. SUFFICES ASSUME Untouched({"adminsOverlap", "unchecked"}), NEW i \in UsedRows,
                       NEW k \in UsedRows \ {i}, NEW n \in range[i].from..range[i].to,
                       range[i].group = range[k].group,
                       range[k].from <= n, n <= range[k].to
                PROVE  FALSE
    BY DEF SettingsInv, RowsApart, RowsFit, RangesDisjoint
  <2>1. range[i] \in RangeRows /\ range[k] \in RangeRows
    BY DEF SettingsInv, SettingsTypeOK, UsedRows, Tables
  <2>2. range[i].from <= range[i].to /\ range[k].from <= range[k].to
        /\ Apart(range[i], range[k])
    BY DEF SettingsInv, RowsApart, RowsFit
  <2>3. ~(range[i].from <= range[k].to /\ range[k].from <= range[i].to)
    BY <2>1, <2>2, OverlapMeans DEF Apart
  <2>4. /\ range[i].from \in Nat /\ range[i].to \in Nat /\ n \in Int
        /\ range[k].from \in Nat /\ range[k].to \in Nat
    BY <2>1 DEF RangeRows
  <2>. QED  BY <2>3, <2>4
<1>2. CacheCurrent
  BY DEF SettingsInv, CachedTrue, CacheCurrent, RangeFaults, TermFaults
<1>. QED  BY <1>1, <1>2 DEF SettingsInv

LEMMA AdminMoves ==
    ASSUME SettingsInv, NEW a \in Admins, NEW x \in AdminKind, admin' = [admin EXCEPT ![a] = x]
    PROVE  /\ AdminsTyped' /\ admin'[a] = x /\ \A b \in Admins \ {a} : admin'[b] = admin[b]
           /\ Cardinality(Termers) \in Nat /\ Cardinality(Termers)' \in Nat
           /\ Cardinality(Termers)' <= Cardinality(Termers) + 1
           /\ x.pc \notin {"terms", "bulkTerms"} =>
                  /\ Cardinality(Termers)' <= Cardinality(Termers)
                  /\ admin[a].pc \in {"terms", "bulkTerms"} =>
                         Cardinality(Termers)' = Cardinality(Termers) - 1
<1>1. AdminsTyped' /\ admin'[a] = x /\ \A b \in Admins \ {a} : admin'[b] = admin[b]
  BY DEF SettingsInv, AdminsTyped
<1>2. IsFiniteSet(Termers) /\ IsFiniteSet(Termers')
  BY SettingsAssumption, FS_Subset DEF Termers
<1>3. Cardinality(Termers) \in Nat /\ Cardinality(Termers)' \in Nat
  BY <1>2, FS_CardinalityType
<1>4. CASE x.pc \notin {"terms", "bulkTerms"} /\ a \in Termers
  BY <1>1, <1>4, <1>2, FS_RemoveElement, <1>3 DEF Termers
<1>5. CASE x.pc \notin {"terms", "bulkTerms"} /\ a \notin Termers
  <2>1. Termers' = Termers
    BY <1>1, <1>5 DEF Termers
  <2>2. Cardinality(Termers)' = Cardinality(Termers)
    BY <2>1
  <2>3. admin[a].pc \notin {"terms", "bulkTerms"}
    BY <1>5 DEF Termers
  <2>. QED  BY <1>1, <1>3, <1>5, <2>2, <2>3
<1>6. CASE x.pc \in {"terms", "bulkTerms"}
  <2>1. Termers' = Termers \cup {a}
    BY <1>1, <1>6 DEF Termers
  <2>2. Cardinality(Termers') <= Cardinality(Termers) + 1
    BY <1>2, <1>3, <2>1, FS_AddElement
  <2>. QED  BY <1>1, <1>3, <1>6, <2>2
<1>. QED  BY <1>4, <1>5, <1>6

LEMMA SettingsTyped ==
    ASSUME AdminsTyped
    PROVE  SettingsTypeOK <=>
               /\ family \in Families /\ range \in Tables /\ terms \in 0..MaxOps
               /\ cached \in Contents /\ ops \in 0..MaxOps
               /\ reader \in [filling : BOOLEAN, read : Contents]
  BY DEF AdminsTyped, SettingsTypeOK, AdminKind, AdminShape, Replacing, AdminSteps

LEMMA SettingsTypedNext ==
    ASSUME AdminsTyped'
    PROVE  SettingsTypeOK' <=>
               /\ family' \in Families /\ range' \in Tables /\ terms' \in 0..MaxOps
               /\ cached' \in Contents /\ ops' \in 0..MaxOps
               /\ reader' \in [filling : BOOLEAN, read : Contents]
  BY DEF AdminsTyped, SettingsTypeOK, AdminKind, AdminShape, Replacing, AdminSteps

\* The rows are what they were, and so is what is stored.
LEMMA RowsSame ==
    ASSUME UNCHANGED range
    PROVE  /\ UsedRows' = UsedRows
           /\ RowsFit' <=> RowsFit
           /\ \A pc, new, row, given : Fit(pc, new, row, given)' <=> Fit(pc, new, row, given)
<1>1. UsedRows' = UsedRows
  BY DEF UsedRows
<1>2. \A r, rows : Free(r, rows)' <=> Free(r, rows)
  BY DEF Free
<1>3. RowsFit' <=> RowsFit
  BY <1>1 DEF RowsFit
<1>4. \A pc, new, row, given : Fit(pc, new, row, given)' <=> Fit(pc, new, row, given)
  <2>. TAKE pc, new, row, given
  <2>. QED  BY <1>1, <1>2 DEF Fit, Replacing
<1>. QED  BY <1>1, <1>3, <1>4

Opening == {"create", "update", "delete", "terms", "bulkTerms", "patch", "bulkPatch", "read"}

LEMMA BeginSteps ==
    ASSUME SettingsInv, NEW a \in Admins, NEW pc \in Opening, NEW new \in SUBSET RangeRows,
           NEW row \in SUBSET Rows, NEW given \in SUBSET {"from", "to", "group"}, NEW notes,
           Begin(a, pc, new, row, given, notes),
           RowsFit /\ "unchecked" \notin notes => Fit(pc, new, row, given),
           pc \in Replacing => new # {}, pc = "patch" => "patched" \in notes,
           pc = "terms" => family = "rates" \/ "newTerms" \in notes,
           pc = "bulkTerms" => family = "rates"
    PROVE  SettingsInv' /\ CountsDown
<1>. DEFINE x == [Resting EXCEPT !.pc = pc, !.new = new, !.row = row, !.given = given]
            busy == \E b \in Admins : admin[b].pc # "idle"
            all == notes \cup IF busy THEN {"adminsOverlap"} ELSE {}
<1>1. /\ admin[a].pc = "idle" /\ ops < MaxOps /\ ops' = ops + 1
      /\ admin' = [admin EXCEPT ![a] = x] /\ NoteAll(all)
      /\ UNCHANGED <<family, range, terms, cached, reader>>
  BY DEF Begin
<1>2. /\ x \in AdminKind /\ x.pc = pc /\ x.new = new /\ x.row = row /\ x.given = given
  BY ContentsKinds DEF AdminKind, AdminShape, Replacing, Opening, AdminSteps
<1>3. Budgets' /\ CountsDown
      /\ \A f \in {"adminsOverlap", "unchecked", "patched", "newTerms", "lateFill"} :
             f \in all => \A F : f \in F => ~Untouched(F)'
  <2>1. /\ Budgets' /\ CountsDown
        /\ \A F : \A f \in F : f \in all /\ f \in Kinds /\ Budget[f] > 0 => ~Untouched(F)'
    <3>. HIDE DEF all
    <3>. QED  BY <1>1, BudgetNotedAll DEF SettingsInv
  <2>. QED  BY <2>1, SettingsAssumption
<1>. HIDE DEF x
<1>4. /\ AdminsTyped' /\ admin'[a] = x /\ \A b \in Admins \ {a} : admin'[b] = admin[b]
      /\ Cardinality(Termers) \in Nat /\ Cardinality(Termers)' \in Nat
      /\ Cardinality(Termers)' <= Cardinality(Termers) + 1
  BY <1>1, <1>2, AdminMoves
<1>5. SettingsTypeOK'
  BY <1>1, SettingsAssumption, <1>4, SettingsTyped, SettingsTypedNext DEF SettingsInv,
    SettingsTypeOK
<1>6. TermsCounted'
  BY <1>1, <1>4 DEF SettingsInv, SettingsTypeOK, TermsCounted
<1>7. Untouched({"adminsOverlap"})' => Untouched({"adminsOverlap"}) /\ ~busy
  BY <1>3, SettingsBack DEF SettingsInv
<1>8. OneAtDesk'
  BY <1>4, <1>7, <1>2 DEF OneAtDesk, Opening, Replacing
<1>9. RowsApart'
  <2>. SUFFICES ASSUME Untouched({"adminsOverlap", "unchecked"})' PROVE RowsApart'
    BY DEF RowsApart
  <2>1. Untouched({"adminsOverlap", "unchecked"}) /\ Untouched({"adminsOverlap"})'
        /\ "unchecked" \notin notes
    <3>1. "unchecked" \notin all
      BY <1>3
    <3>2. Untouched({"adminsOverlap", "unchecked"})
      BY <1>3, SettingsBack DEF SettingsInv
    <3>. QED  BY <3>1, <3>2 DEF Untouched
  <2>2. RowsFit /\ Fit(pc, new, row, given)
    BY <2>1 DEF SettingsInv, RowsApart
  <2>3. RowsFit' /\ Fit(pc, new, row, given)'
    BY <1>1, <2>2, RowsSame
  <2>4. \A b \in Admins \ {a} : Fit(admin[b].pc, admin[b].new, admin[b].row, admin[b].given)'
    BY <1>4, <1>7, <2>1 DEF Fit, Replacing
  <2>. QED  BY <1>2, <1>4, <2>3, <2>4 DEF RowsApart
<1>10. CachedTrue'
  <2>1. Untouched({"patched"})' => Untouched({"patched"}) /\ "patched" \notin notes
    BY <1>3, SettingsBack DEF SettingsInv
  <2>2. Untouched({"newTerms"})' => Untouched({"newTerms"}) /\ "newTerms" \notin notes
    BY <1>3, SettingsBack DEF SettingsInv
  <2>3. \A b \in Admins : admin'[b].pc = IF b = a THEN pc ELSE admin[b].pc
    BY <1>2, <1>4
  <2>4. \A b \in Admins : admin[b].pc \in {"read", "put"} => admin'[b].pc \in {"read", "put"}
    BY <1>1, <2>3
  <2>5. /\ Untouched(RangeFaults)' => Untouched(RangeFaults)
        /\ Untouched(TermFaults)' => Untouched(TermFaults)
    BY <1>3, SettingsBack DEF SettingsInv
  <2>6. CachedTrue
    BY DEF SettingsInv
  <2>. QED  BY <1>1, <2>1, <2>2, <2>3, <2>4, <2>5, <2>6 DEF CachedTrue, Opening, Replacing
<1>. QED  BY <1>3, <1>4, <1>5, <1>6, <1>8, <1>9, <1>10 DEF SettingsInv

LEMMA CandidatesAre ==
    /\ \A r \in Candidates : r \in RangeRows
    /\ \A r \in RangeRows : /\ r.from \in Nat /\ r.to \in Nat
                            /\ Ordered(r) => r.from <= r.to
  BY SettingsAssumption DEF Candidates, RangeRows, Ordered

LEMMA CreateSteps ==
    ASSUME SettingsInv, NEW a \in Admins,
           CreateFee(a) \/ CreateRepayment(a) \/ CreateTier(a)
    PROVE  SettingsInv' /\ CountsDown
<1>1. PICK r \in Candidates, notes \in SUBSET {"unchecked"} :
          /\ Create(a, r, notes)
          /\ Free(r, UsedRows) \/ "unchecked" \in notes
  BY DEF CreateFee, CreateRepayment, CreateTier
<1>2. r \in RangeRows /\ r.from <= r.to /\ Begin(a, "create", {r}, {}, {}, notes)
  BY <1>1, CandidatesAre DEF Create
<1>3. RowsFit /\ "unchecked" \notin notes => Fit("create", {r}, {}, {})
  BY <1>1, <1>2 DEF Fit, Replacing
<1>4. "create" \in Opening /\ {r} \in SUBSET RangeRows /\ {} \in SUBSET Rows
      /\ {} \in SUBSET {"from", "to", "group"}
  BY <1>2 DEF Opening, Replacing
<1>. QED  BY <1>2, <1>3, <1>4, BeginSteps

LEMMA BulkSteps ==
    ASSUME SettingsInv, NEW a \in Admins, BulkCreateFees(a) \/ BulkCreateRepayments(a)
    PROVE  SettingsInv' /\ CountsDown
<1>1. PICK r \in Candidates, s \in Candidates :
          /\ Ordered(r) /\ Ordered(s) /\ Apart(r, s) /\ Free(r, UsedRows) /\ Free(s, UsedRows)
          /\ Begin(a, "create", {r, s}, {}, {}, {})
  BY DEF BulkCreateFees, BulkCreateRepayments, BulkCreate
<1>2. r \in RangeRows /\ s \in RangeRows /\ r.from <= r.to /\ s.from <= s.to
  BY <1>1, CandidatesAre
<1>3. Apart(s, r)
  BY <1>1, <1>2, OverlapMeans
<1>4. Fit("create", {r, s}, {}, {})
  BY <1>1, <1>2, <1>3 DEF Fit, Replacing
<1>5. "create" \in Opening /\ {r, s} \in SUBSET RangeRows /\ {} \in SUBSET Rows
      /\ {} \in SUBSET {"from", "to", "group"}
  BY <1>2 DEF Opening, Replacing
<1>. QED  BY <1>1, <1>4, <1>5, BeginSteps

LEMMA UpdatedRow ==
    ASSUME NEW row \in RangeRows, NEW given, NEW new \in RangeRows
    PROVE  LET r == Updated(row, given, new)
           IN  /\ r \in RangeRows
               /\ r.from = IF "from" \in given THEN new.from ELSE row.from
               /\ r.to = IF "to" \in given THEN new.to ELSE row.to
               /\ r.group = IF "group" \in given THEN new.group ELSE row.group
  BY DEF Updated, RangeRows

LEMMA UpdateSteps ==
    ASSUME SettingsInv, NEW a \in Admins, UpdateRange(a)
    PROVE  SettingsInv' /\ CountsDown
<1>. DEFINE R(i, given, sought) == Updated(range[i], given, sought)
<1>1. PICK i \in UsedRows, given \in SUBSET {"from", "to", "group"}, sought \in Candidates :
          /\ Free(R(i, given, sought), UsedRows \ {i})
          /\ Begin(a, "update", {R(i, given, sought)}, {i}, given,
                   IF R(i, given, sought).from < R(i, given, sought).to
                   THEN {} ELSE {"unchecked"})
  BY DEF UpdateRange
<1>. DEFINE r == R(i, given, sought)
            notes == IF r.from < r.to THEN {} ELSE {"unchecked"}
<1>2. range[i] \in RangeRows /\ range[i] # NoRow /\ i \in Rows /\ sought \in RangeRows
  BY CandidatesAre DEF UsedRows, SettingsInv, SettingsTypeOK, Tables
<1>3. /\ r \in RangeRows
      /\ "group" \in given \/ r.group = range[i].group
      /\ "from" \in given \/ r.from = range[i].from
      /\ "to" \in given \/ r.to = range[i].to
  BY <1>2, UpdatedRow
<1>4. /\ Free(r, UsedRows \ {i}) /\ Begin(a, "update", {r}, {i}, given, notes)
  BY <1>1
<1>. HIDE DEF r
<1>5. RowsFit /\ "unchecked" \notin notes => Fit("update", {r}, {i}, given)
  <2>. SUFFICES ASSUME r.from < r.to PROVE Fit("update", {r}, {i}, given)
    OBVIOUS
  <2>1. r.from <= r.to
    BY <1>3, CandidatesAre
  <2>. QED  BY <1>2, <1>3, <1>4, <2>1 DEF Fit, Replacing
<1>6. "update" \in Opening /\ {r} \in SUBSET RangeRows /\ {i} \in SUBSET Rows
  BY <1>2, <1>3 DEF Opening, Replacing
<1>. HIDE DEF notes
<1>. QED  BY <1>4, <1>5, <1>6, BeginSteps

LEMMA PatchSteps ==
    ASSUME SettingsInv, NEW a \in Admins, PatchTier(a) \/ BulkPatch(a)
    PROVE  SettingsInv' /\ CountsDown
<1>1. PICK pc \in {"patch", "bulkPatch"}, notes \in SUBSET {"patched"} :
          Patch(a, pc, notes) /\ (pc = "patch" => "patched" \in notes)
  BY DEF PatchTier, BulkPatch
<1>. DEFINE all(i, r) == notes \cup IF Free(r, UsedRows \ {i}) THEN {} ELSE {"unchecked"}
<1>2. PICK i \in UsedRows, r \in Candidates :
          Ordered(r) /\ Begin(a, pc, {r}, {i}, {}, all(i, r))
  BY <1>1 DEF Patch
<1>. DEFINE n == all(i, r)
<1>3. i \in Rows /\ r \in RangeRows /\ r.from <= r.to
  BY <1>2, CandidatesAre DEF UsedRows
<1>4. "unchecked" \notin n => Free(r, UsedRows \ {i})
  OBVIOUS
<1>5. RowsFit /\ "unchecked" \notin n => Fit(pc, {r}, {i}, {})
  BY <1>3, <1>4 DEF Fit, Replacing
<1>6. pc \in Opening /\ {r} \in SUBSET RangeRows /\ {i} \in SUBSET Rows
      /\ {} \in SUBSET {"from", "to", "group"} /\ pc # "terms" /\ pc # "bulkTerms"
  BY <1>3 DEF Opening, Replacing
<1>7. pc = "patch" => "patched" \in n
  BY <1>1
<1>. HIDE DEF n
<1>8. Begin(a, pc, {r}, {i}, {}, n)
  BY <1>2 DEF n
<1>. QED  BY <1>5, <1>6, <1>7, <1>8, BeginSteps

LEMMA OtherSteps ==
    ASSUME SettingsInv, NEW a \in Admins,
           \/ DeleteRange(a) \/ UpdateTerms(a) \/ UpdateRate(a) \/ BulkUpdateRates(a)
           \/ InitializeRates(a)
    PROVE  SettingsInv' /\ CountsDown
<1>1. PICK pc \in {"delete", "terms", "bulkTerms", "read"}, row \in SUBSET Rows, notes \in SUBSET {"newTerms"} :
          /\ Begin(a, pc, {}, row, {}, notes)
          /\ pc = "terms" => family = "rates" \/ "newTerms" \in notes
          /\ pc = "bulkTerms" => family = "rates"
  <2>1. CASE DeleteRange(a)
    <3>1. PICK i \in UsedRows : Begin(a, "delete", {}, {i}, {}, {})
      BY <2>1 DEF DeleteRange
    <3>2. {i} \in SUBSET Rows
      BY DEF UsedRows
    <3>. QED  BY <3>1, <3>2
  <2>2. CASE ~DeleteRange(a)
    BY <2>2 DEF UpdateTerms, UpdateRate, BulkUpdateRates, InitializeRates
  <2>. QED  BY <2>1, <2>2
<1>2. Fit(pc, {}, row, {})
  BY DEF Fit, Replacing
<1>3. pc \in Opening /\ {} \in SUBSET RangeRows /\ {} \in SUBSET {"from", "to", "group"} /\ pc # "patch"
      /\ pc \notin Replacing
  BY DEF Opening, Replacing
<1>. QED  BY <1>1, <1>2, <1>3, BeginSteps

\* A request that has written the ranges.
LEMMA Rewritten ==
    ASSUME SettingsInv, NEW a \in Admins, NEW p \in {"read", "idle"},
           admin[a].pc \in {"create", "update", "delete", "commit", "bulkCommit"}, Goes(a, p),
           UNCHANGED <<family, terms, cached, reader, ops, budget>>, range' \in Tables,
           range' = range \/ p = "read" \/ admin[a].pc = "commit",
           Untouched({"adminsOverlap", "unchecked"}) => RowsFit'
    PROVE  SettingsInv' /\ CountsDown
<1>. DEFINE x == [Resting EXCEPT !.pc = p]
<1>1. x \in AdminKind /\ x.pc = p /\ admin' = [admin EXCEPT ![a] = x]
  BY ContentsKinds DEF AdminSteps, Replacing, Goes
<1>. HIDE DEF x
<1>2. /\ AdminsTyped' /\ admin'[a] = x /\ \A b \in Admins \ {a} : admin'[b] = admin[b]
      /\ Cardinality(Termers) \in Nat /\ Cardinality(Termers)' \in Nat
      /\ Cardinality(Termers)' <= Cardinality(Termers)
  BY <1>1, AdminMoves
<1>3. Budgets' /\ CountsDown /\ \A F : Untouched(F)' <=> Untouched(F)
  BY BudgetSame DEF SettingsInv, Untouched
<1>4. SettingsTypeOK'
  BY <1>2, SettingsTyped, SettingsTypedNext DEF SettingsInv
<1>5. TermsCounted'
  BY <1>2 DEF SettingsInv, SettingsTypeOK, TermsCounted
<1>6. Untouched({"adminsOverlap"}) => \A b \in Admins \ {a} : admin'[b].pc = "idle"
  BY <1>2 DEF SettingsInv, OneAtDesk
<1>7. OneAtDesk'
  BY <1>1, <1>2, <1>3, <1>6 DEF OneAtDesk
<1>8. RowsApart'
  BY <1>1, <1>2, <1>3, <1>6, FaultsApart DEF RowsApart, Fit, Replacing
<1>9. CachedTrue'
  <2>1. CachedTrue
    BY DEF SettingsInv
  <2>2. \A b \in Admins : admin[b].pc \in {"read", "put"} => admin'[b].pc \in {"read", "put"}
    BY <1>2
  <2>3. /\ Untouched({"patched"})' => \A b \in Admins : admin'[b].pc \notin {"patch", "commit"}
        /\ Untouched({"newTerms"})' => \A b \in Admins : admin'[b].pc = "terms" => family' = "rates"
        /\ \A b \in Admins : admin'[b].pc = "bulkTerms" => family' = "rates"
    BY <1>1, <1>2, <1>3, <2>1 DEF CachedTrue
  <2>4. Untouched(RangeFaults)' => range' = range \/ p = "read"
    BY <1>3, <2>1, FaultsApart DEF CachedTrue
  <2>5. Untouched(RangeFaults)' /\ cached'.full /\ cached'.range # range' =>
            \E b \in Admins : admin'[b].pc \in {"read", "put"}
    BY <1>1, <1>2, <1>3, <2>1, <2>2, <2>4 DEF CachedTrue
  <2>6. Untouched(TermFaults)' /\ cached'.full /\ cached'.terms # terms' =>
            family' = "rates" /\ \E b \in Admins : admin'[b].pc \in {"read", "put"}
    BY <1>3, <2>1, <2>2 DEF CachedTrue
  <2>. QED  BY <2>3, <2>5, <2>6 DEF CachedTrue
<1>. QED  BY <1>2, <1>3, <1>4, <1>5, <1>7, <1>8, <1>9 DEF SettingsInv

LEMMA RowReplaced ==
    ASSUME SettingsTypeOK, RowsFit, NEW i \in Rows, NEW r \in RangeRows \cup {NoRow},
           r # NoRow => r.from <= r.to /\ Free(r, UsedRows \ {i}),
           range' = [range EXCEPT ![i] = r]
    PROVE  range' \in Tables /\ RowsFit'
<1>1. /\ range' \in Tables /\ range'[i] = r
      /\ \A k \in Rows \ {i} : range'[k] = range[k]
  BY DEF SettingsTypeOK, Tables
<1>2. \A k \in UsedRows' \ {i} : k \in UsedRows /\ range'[k] = range[k] /\ range[k] \in RangeRows
  BY <1>1 DEF UsedRows, SettingsTypeOK, Tables
<1>3. i \in UsedRows' => r # NoRow /\ r \in RangeRows
  BY <1>1 DEF UsedRows
<1>4. \A k \in UsedRows' \ {i} : i \in UsedRows' => Apart(r, range[k]) /\ Apart(range[k], r)
  BY <1>2, <1>3, OverlapMeans DEF Free, Apart, RowsFit
<1>5. \A k, l \in UsedRows' : k # l => Apart(range'[k], range'[l])
  BY <1>1, <1>2, <1>4 DEF RowsFit
<1>6. \A k \in UsedRows' : range'[k].from <= range'[k].to
  BY <1>1, <1>2, <1>3 DEF RowsFit
<1>. QED  BY <1>1, <1>5, <1>6 DEF RowsFit

LEMMA WriteNewSteps ==
    ASSUME SettingsInv, NEW a \in Admins, WriteNew(a)
    PROVE  SettingsInv' /\ CountsDown
<1>. DEFINE new == admin[a].new
            put == CHOOSE f \in Injection(new, UnusedRows) : TRUE
<1>1. /\ admin[a].pc = "create"
      /\ UNCHANGED <<family, terms, cached, reader, ops, budget>>
      /\ \/ /\ range' = [i \in Rows |-> IF \E r \in new : put[r] = i
                                        THEN CHOOSE r \in new : put[r] = i
                                        ELSE range[i]]
            /\ Goes(a, "read")
         \/ Goes(a, "idle") /\ range' = range
  BY DEF WriteNew, AfterWrite
<1>2. range \in Tables /\ new \subseteq RangeRows
  BY DEF SettingsInv, SettingsTypeOK
<1>. HIDE DEF put, new
<1>3. CASE range' = range /\ Goes(a, "idle")
  BY <1>3, RowsSame, <1>1, <1>2, Rewritten DEF SettingsInv, RowsApart
<1>4. CASE /\ range' = [i \in Rows |-> IF \E r \in new : put[r] = i
                                        THEN CHOOSE r \in new : put[r] = i
                                        ELSE range[i]]
           /\ Goes(a, "read")
  <2>1. \A i \in Rows : \/ range'[i] \in new /\ put[range'[i]] = i
                        \/ range'[i] = range[i]
    BY <1>4
  <2>2. range' \in Tables
    BY <1>2, <2>1, <1>4 DEF Tables
  <2>3. ASSUME Untouched({"adminsOverlap", "unchecked"}) PROVE RowsFit'
    <3>1. RowsFit /\ Fit(admin[a].pc, new, admin[a].row, admin[a].given)
      BY <2>3 DEF SettingsInv, RowsApart, new
    <3>2. \A r \in new : /\ r \in RangeRows /\ r.from <= r.to /\ Free(r, UsedRows)
                         /\ \A s \in new : s # r => Apart(r, s)
      BY <1>1, <1>2, <3>1 DEF Fit, Replacing
    <3>3. \A i \in UsedRows' : \/ range'[i] \in new /\ put[range'[i]] = i
                               \/ range'[i] = range[i] /\ i \in UsedRows /\ range[i] \in RangeRows
      BY <1>2, <2>1 DEF UsedRows, Tables
    <3>4. \A i \in UsedRows' : range'[i].from <= range'[i].to /\ range'[i] \in RangeRows
      BY <3>1, <3>2, <3>3 DEF RowsFit
    <3>5. ASSUME NEW i \in UsedRows', NEW k \in UsedRows', i # k
          PROVE  Apart(range'[i], range'[k])
      <4>1. CASE range'[i] \in new /\ put[range'[i]] = i /\ range'[k] \in new /\ put[range'[k]] = k
        BY <3>2, <3>5, <4>1
      <4>2. CASE range'[i] \in new /\ range'[k] = range[k] /\ k \in UsedRows
        BY <3>2, <4>2 DEF Free, Apart
      <4>3. CASE range'[k] \in new /\ range'[i] = range[i] /\ i \in UsedRows
        BY <3>2, <4>3, <3>4, OverlapMeans DEF Free, Apart
      <4>4. CASE range'[k] = range[k] /\ k \in UsedRows /\ range'[i] = range[i] /\ i \in UsedRows
        BY <3>1, <3>5, <4>4 DEF RowsFit
      <4>. QED  BY <3>3, <4>1, <4>2, <4>3, <4>4
    <3>. QED  BY <3>4, <3>5 DEF RowsFit
  <2>. QED  BY <1>1, <1>4, <2>2, <2>3, Rewritten
<1>. QED  BY <1>1, <1>3, <1>4

LEMMA WriteOldSteps ==
    ASSUME SettingsInv, NEW a \in Admins, WriteOld(a)
    PROVE  SettingsInv' /\ CountsDown
<1>. DEFINE new == CHOOSE r \in admin[a].new : TRUE
            given == admin[a].given
            M(i) == Updated(range[i], given, new)
<1>1. PICK i \in admin[a].row :
          /\ admin[a].pc \in {"update", "delete"}
          /\ UNCHANGED <<family, terms, cached, reader, ops, budget>>
          /\ \/ Goes(a, "idle") /\ range' = range
             \/ /\ range[i] # NoRow /\ Goes(a, "read")
                /\ range' = [range EXCEPT ![i] = IF admin[a].pc = "update" THEN M(i) ELSE NoRow]
  BY DEF WriteOld, AfterWrite
<1>2. range \in Tables /\ admin[a] \in AdminKind /\ SettingsTypeOK
  BY DEF SettingsInv, SettingsTypeOK, AdminsTyped
<1>3. i \in Rows /\ admin[a].new \subseteq RangeRows
      /\ (admin[a].pc = "update" => new \in admin[a].new)
  BY <1>1, <1>2 DEF AdminKind, AdminShape, Replacing
<1>4. CASE Goes(a, "idle") /\ range' = range
  BY <1>4, RowsSame, <1>1, <1>2, Rewritten DEF SettingsInv, RowsApart
<1>5. CASE /\ range[i] # NoRow /\ Goes(a, "read") /\ admin[a].pc = "delete"
           /\ range' = [range EXCEPT ![i] = NoRow]
  <2>1. range' = [range EXCEPT ![i] = NoRow]
    BY <1>5
  <2>2. range' \in Tables
    BY <1>2, <1>3, <2>1 DEF Tables
  <2>3. ASSUME Untouched({"adminsOverlap", "unchecked"}) PROVE RowsFit'
    BY <2>3, <1>2, <1>3, <2>1, RowReplaced DEF SettingsInv, RowsApart
  <2>. QED  BY <1>1, <1>5, <2>2, <2>3, Rewritten
<1>6. CASE /\ range[i] # NoRow /\ Goes(a, "read") /\ admin[a].pc = "update"
           /\ range' = [range EXCEPT ![i] = M(i)]
  <2>. DEFINE r == M(i)
  <2>1. range[i] \in RangeRows /\ new \in RangeRows
    BY <1>2, <1>3, <1>6 DEF Tables
  <2>2. /\ r \in RangeRows
        /\ r.group = IF "group" \in given THEN new.group ELSE range[i].group
        /\ r.from = IF "from" \in given THEN new.from ELSE range[i].from
        /\ r.to = IF "to" \in given THEN new.to ELSE range[i].to
    BY <2>1, UpdatedRow
  <2>3. range' = [range EXCEPT ![i] = r]
    BY <1>6
  <2>. HIDE DEF r, M
  <2>4. range' \in Tables
    BY <1>2, <1>3, <2>2, <2>3 DEF Tables
  <2>5. ASSUME Untouched({"adminsOverlap", "unchecked"}) PROVE RowsFit'
    <3>1. RowsFit /\ Fit("update", admin[a].new, admin[a].row, given)
      BY <1>6, <2>5 DEF SettingsInv, RowsApart
    <3>2. PICK k \in Rows, s \in RangeRows :
               /\ admin[a].row = {k} /\ admin[a].new = {s} /\ s.from <= s.to
               /\ Free(s, UsedRows \ {k}) /\ range[k] # NoRow
               /\ "group" \in given \/ s.group = range[k].group
               /\ "from" \in given \/ s.from = range[k].from
               /\ "to" \in given \/ s.to = range[k].to
      BY <3>1 DEF Fit, Replacing
    <3>3. k = i /\ new = s
      BY <1>1, <1>3, <1>6, <3>2
    <3>4. r.from = s.from /\ r.to = s.to /\ r.group = s.group
      BY <2>2, <3>2, <3>3
    <3>5. r = s
      BY <2>2, <3>4 DEF RangeRows
    <3>. QED  BY <1>2, <1>3, <2>3, <3>1, <3>2, <3>3, <3>5, RowReplaced
  <2>. QED  BY <1>1, <1>6, <2>4, <2>5, Rewritten
<1>. QED  BY <1>1, <1>4, <1>5, <1>6

LEMMA PatchCommitSteps ==
    ASSUME SettingsInv, NEW a \in Admins, PatchCommit(a)
    PROVE  SettingsInv' /\ CountsDown
<1>. DEFINE r == CHOOSE x \in admin[a].new : TRUE
<1>1. PICK i \in admin[a].row, p \in {"idle", "read"} :
          /\ admin[a].pc \in {"commit", "bulkCommit"} /\ Goes(a, p)
          /\ p = "read" \/ admin[a].pc = "commit"
          /\ UNCHANGED <<family, terms, cached, reader, ops, budget>>
          /\ \/ range[i] = NoRow /\ range' = range
             \/ range[i] # NoRow /\ range' = [range EXCEPT ![i] = r]
  BY DEF PatchCommit, AfterWrite
<1>2. range \in Tables /\ admin[a] \in AdminKind /\ SettingsTypeOK
  BY DEF SettingsInv, SettingsTypeOK, AdminsTyped
<1>3. i \in Rows /\ admin[a].new \subseteq RangeRows /\ r \in admin[a].new
  BY <1>1, <1>2 DEF AdminKind, AdminShape, Replacing
<1>. HIDE DEF r
<1>4. CASE range[i] = NoRow /\ range' = range
  BY <1>4, RowsSame, <1>1, <1>2, Rewritten DEF SettingsInv, RowsApart
<1>5. CASE range[i] # NoRow /\ range' = [range EXCEPT ![i] = r]
  <2>1. range' \in Tables
    BY <1>2, <1>3, <1>5 DEF Tables
  <2>2. ASSUME Untouched({"adminsOverlap", "unchecked"}) PROVE RowsFit'
    <3>1. RowsFit /\ Fit(admin[a].pc, admin[a].new, admin[a].row, admin[a].given)
      BY <2>2 DEF SettingsInv, RowsApart
    <3>2. PICK k \in Rows, s \in RangeRows :
               /\ admin[a].row = {k} /\ admin[a].new = {s} /\ s.from <= s.to
               /\ Free(s, UsedRows \ {k})
      BY <1>1, <3>1 DEF Fit, Replacing
    <3>3. k = i /\ r = s
      BY <1>1, <1>3, <3>2
    <3>. QED  BY <1>2, <1>3, <1>5, <3>1, <3>2, <3>3, RowReplaced
  <2>. QED  BY <1>1, <1>5, <2>1, <2>2, Rewritten
<1>. QED  BY <1>1, <1>4, <1>5

LEMMA WriteTermsSteps ==
    ASSUME SettingsInv, NEW a \in Admins, WriteTerms(a)
    PROVE  SettingsInv' /\ CountsDown
<1>1. PICK p \in {"idle", "read", "put"} :
          /\ admin[a].pc \in {"terms", "bulkTerms"} /\ Goes(a, p) /\ terms' = terms + 1
          /\ UNCHANGED <<family, range, cached, reader, ops, budget>>
          /\ p = "put" <=> admin[a].pc = "bulkTerms"
          /\ p = "idle" => admin[a].pc = "terms" /\ family # "rates"
  BY DEF WriteTerms, AfterWrite
<1>. DEFINE x == [Resting EXCEPT !.pc = p]
<1>2. x \in AdminKind /\ x.pc = p /\ x.read = Nothing /\ admin' = [admin EXCEPT ![a] = x]
  BY <1>1, ContentsKinds DEF AdminSteps, Replacing, Goes
<1>. HIDE DEF x
<1>3. /\ AdminsTyped' /\ admin'[a] = x /\ \A b \in Admins \ {a} : admin'[b] = admin[b]
      /\ Cardinality(Termers) \in Nat /\ Cardinality(Termers)' \in Nat
      /\ Cardinality(Termers)' = Cardinality(Termers) - 1
  BY <1>1, <1>2, AdminMoves
<1>4. Budgets' /\ CountsDown /\ \A F : Untouched(F)' <=> Untouched(F)
  BY <1>1, BudgetSame DEF SettingsInv, Untouched
<1>5. terms' \in 0..MaxOps /\ TermsCounted'
  BY <1>1, <1>3, SettingsAssumption DEF SettingsInv, SettingsTypeOK, TermsCounted
<1>6. SettingsTypeOK'
  BY <1>1, <1>3, <1>5, SettingsTyped, SettingsTypedNext DEF SettingsInv
<1>7. Untouched({"adminsOverlap"}) => \A b \in Admins \ {a} : admin'[b].pc = "idle"
  BY <1>1, <1>3 DEF SettingsInv, OneAtDesk
<1>8. CachedTrue
  BY DEF SettingsInv
<1>9. OneAtDesk'
  BY <1>1, <1>2, <1>3, <1>4, <1>7, <1>8 DEF OneAtDesk, CachedTrue
<1>10. RowsApart'
  BY <1>1, <1>4, RowsSame, <1>2, <1>3, <1>7, FaultsApart DEF SettingsInv, RowsApart, Fit, Replacing
<1>11. CachedTrue'
  BY <1>1, <1>3, <1>2, <1>4, <1>8, FaultsApart DEF CachedTrue
<1>. QED  BY <1>3, <1>4, <1>5, <1>6, <1>9, <1>10, <1>11 DEF SettingsInv

\* A step that writes no row: requests go on or end, and the cache may be written.
LEMMA Recached ==
    ASSUME SettingsInv, Budgets', CountsDown, UNCHANGED <<family, range, terms, ops>>,
           AdminsTyped', cached' \in Contents, reader' \in [filling : BOOLEAN, read : Contents],
           \A b \in Admins :
               \/ admin'[b] = admin[b]
               \/ admin'[b].pc = "idle"
               \/ admin[b].pc = "read" /\ admin'[b].pc = "put" /\ admin'[b].read = Stored
               \/ /\ \/ admin[b].pc = "patch" /\ admin'[b].pc = "commit"
                     \/ admin[b].pc = "bulkPatch" /\ admin'[b].pc = "bulkCommit"
                  /\ admin'[b].new = admin[b].new /\ admin'[b].row = admin[b].row,
           Untouched(RangeFaults)' /\ cached'.full /\ cached'.range # range =>
               \E b \in Admins : admin'[b].pc \in {"read", "put"},
           Untouched(TermFaults)' /\ cached'.full /\ cached'.terms # terms =>
               family = "rates" /\ \E b \in Admins : admin'[b].pc \in {"read", "put"}
    PROVE  SettingsInv'
<1>1. /\ Untouched({"adminsOverlap"})' => Untouched({"adminsOverlap"})
      /\ Untouched({"adminsOverlap", "unchecked"})' => Untouched({"adminsOverlap", "unchecked"})
      /\ Untouched({"patched"})' => Untouched({"patched"})
      /\ Untouched({"newTerms"})' => Untouched({"newTerms"})
  BY SettingsBack DEF SettingsInv
<1>2. SettingsTypeOK'
  BY SettingsTyped, SettingsTypedNext DEF SettingsInv
<1>3. TermsCounted'
  BY SettingsAssumption, FS_Subset, FS_CardinalityType DEF Termers, SettingsInv, SettingsTypeOK,
    TermsCounted
<1>4. \A b \in Admins : admin'[b].pc # "idle" => admin[b].pc # "idle"
  OBVIOUS
<1>5. OneAtDesk'
  <2>1. Stored' = Stored
    BY DEF Stored
  <2>. QED  BY <1>1, <1>4, <2>1 DEF SettingsInv, OneAtDesk
<1>6. RowsApart'
  <2>. SUFFICES ASSUME Untouched({"adminsOverlap", "unchecked"})' PROVE RowsApart'
    BY DEF RowsApart
  <2>1. RowsFit /\ \A b \in Admins : Fit(admin[b].pc, admin[b].new, admin[b].row, admin[b].given)
    BY <1>1 DEF SettingsInv, RowsApart
  <2>2. ASSUME NEW b \in Admins
        PROVE  Fit(admin'[b].pc, admin'[b].new, admin'[b].row, admin'[b].given)
    BY <2>1 DEF Fit, Replacing
  <2>3. RowsFit' /\ \A b \in Admins : Fit(admin[b].pc, admin[b].new, admin[b].row, admin[b].given)'
    BY <2>1, <2>2, RowsSame
  <2>. QED  BY <2>3 DEF RowsApart
<1>7. CachedTrue'
  BY <1>1 DEF SettingsInv, CachedTrue
<1>. QED  BY <1>2, <1>3, <1>5, <1>6, <1>7 DEF SettingsInv

LEMMA RefreshSteps ==
    ASSUME SettingsInv, NEW a \in Admins, PatchRefresh(a) \/ RefreshRead(a)
    PROVE  SettingsInv' /\ CountsDown
<1>1. admin[a] \in AdminKind /\ admin \in [Admins -> AdminKind] /\ SettingsTypeOK
      /\ Stored \in Contents /\ cached \in Contents
      /\ reader \in [filling : BOOLEAN, read : Contents]
  BY ContentsKinds DEF SettingsInv, AdminsTyped, SettingsTypeOK
<1>2. UNCHANGED budget => Budgets' /\ CountsDown /\ \A F : Untouched(F)' <=> Untouched(F)
  BY BudgetSame DEF SettingsInv, Untouched
<1>3. CachedTrue
  BY DEF SettingsInv
<1>4. CASE PatchRefresh(a)
  <2>. DEFINE p == IF admin[a].pc = "patch" THEN "commit" ELSE "bulkCommit"
              x == [admin[a] EXCEPT !.pc = p]
  <2>1. /\ admin[a].pc \in {"patch", "bulkPatch"}
        /\ admin' = [admin EXCEPT ![a] = x]
        /\ UNCHANGED <<family, range, terms, reader, ops>>
    BY <1>1, <1>4 DEF PatchRefresh
  <2>2. /\ x \in AdminKind /\ x.pc = p /\ x.new = admin[a].new /\ x.row = admin[a].row
    BY <1>1, <2>1 DEF AdminKind, AdminShape, Replacing, AdminSteps
  <2>. HIDE DEF x
  <2>3. AdminsTyped' /\ admin'[a] = x /\ \A b \in Admins \ {a} : admin'[b] = admin[b]
    BY <2>1, <2>2, AdminMoves
  <2>4. \A b \in Admins :
               \/ admin'[b] = admin[b]
               \/ /\ \/ admin[b].pc = "patch" /\ admin'[b].pc = "commit"
                     \/ admin[b].pc = "bulkPatch" /\ admin'[b].pc = "bulkCommit"
                  /\ admin'[b].new = admin[b].new /\ admin'[b].row = admin[b].row
    BY <2>1, <2>2, <2>3
  <2>5. CASE cached' = Stored /\ UNCHANGED budget
    BY <2>5, ContentsKinds, <1>1, <1>2, <2>1, <2>3, <2>4, Recached
  <2>6. CASE Spend("error") /\ UNCHANGED cached
    BY SettingsAssumption, <2>6, BudgetSpent, <1>1, <2>1, <2>3, <2>4, Recached DEF SettingsInv,
      RangeFaults, TermFaults
  <2>. QED  BY <1>4, <2>5, <2>6 DEF PatchRefresh
<1>5. CASE RefreshRead(a)
  <2>. DEFINE x == [admin[a] EXCEPT !.pc = "put", !.read = Stored]
  <2>1. /\ admin[a].pc = "read" /\ UNCHANGED <<family, range, terms, cached, reader, ops, budget>>
        /\ admin' = [admin EXCEPT ![a] = x]
    BY <1>1, <1>5 DEF RefreshRead
  <2>2. x \in AdminKind /\ x.pc = "put" /\ x.read = Stored
    BY <1>1 DEF AdminKind, AdminShape, Replacing, AdminSteps
  <2>. HIDE DEF x
  <2>3. AdminsTyped' /\ admin'[a] = x /\ \A b \in Admins \ {a} : admin'[b] = admin[b]
    BY <2>1, <2>2, AdminMoves
  <2>4. \A b \in Admins :
               \/ admin'[b] = admin[b]
               \/ admin[b].pc = "read" /\ admin'[b].pc = "put" /\ admin'[b].read = Stored
    BY <2>1, <2>2, <2>3
  <2>5. \A b \in Admins : admin[b].pc \in {"read", "put"} => admin'[b].pc \in {"read", "put"}
    BY <2>4
  <2>6. /\ Untouched(RangeFaults)' /\ cached'.full /\ cached'.range # range =>
               \E b \in Admins : admin'[b].pc \in {"read", "put"}
        /\ Untouched(TermFaults)' /\ cached'.full /\ cached'.terms # terms =>
               family = "rates" /\ \E b \in Admins : admin'[b].pc \in {"read", "put"}
    BY <1>2, <1>3, <2>1, <2>5 DEF CachedTrue
  <2>. QED  BY <1>1, <1>2, <2>1, <2>3, <2>4, <2>6, Recached
<1>. QED  BY <1>4, <1>5

LEMMA RefreshPutSteps ==
    ASSUME SettingsInv, NEW a \in Admins, RefreshPut(a)
    PROVE  SettingsInv' /\ CountsDown
<1>. DEFINE read == admin[a].read
            x == [Resting EXCEPT !.pc = "idle"]
<1>1. /\ admin[a].pc = "put" /\ admin' = [admin EXCEPT ![a] = x]
      /\ UNCHANGED <<family, range, terms, reader, ops>>
      /\ \/ /\ cached' = IF family \notin {"fees", "repayment"} THEN read
                         ELSE IF cached.full THEN [cached EXCEPT !.range = read.range]
                         ELSE Stored
            /\ UNCHANGED budget
         \/ Spend("error") /\ (UNCHANGED cached \/ cached' = Stored)
  BY DEF RefreshPut, Goes
<1>2. x \in AdminKind /\ x.pc = "idle"
  BY ContentsKinds DEF AdminSteps, Replacing
<1>. HIDE DEF x
<1>3. AdminsTyped' /\ admin'[a] = x /\ \A b \in Admins \ {a} : admin'[b] = admin[b]
  BY <1>1, <1>2, AdminMoves
<1>4. \A b \in Admins : admin'[b] = admin[b] \/ admin'[b].pc = "idle"
  BY <1>2, <1>3
<1>5. /\ Stored \in Contents /\ cached \in Contents /\ read \in Contents
      /\ reader \in [filling : BOOLEAN, read : Contents] /\ range \in Tables
  BY ContentsKinds DEF SettingsInv, SettingsTypeOK
<1>6. CASE Spend("error") /\ (UNCHANGED cached \/ cached' = Stored)
  BY SettingsAssumption, <1>6, BudgetSpent, <1>1, <1>3, <1>4, <1>5, Recached DEF SettingsInv,
    RangeFaults, TermFaults
<1>7. CASE /\ cached' = IF family \notin {"fees", "repayment"} THEN read
                        ELSE IF cached.full THEN [cached EXCEPT !.range = read.range]
                        ELSE Stored
           /\ UNCHANGED budget
  <2>1. Budgets' /\ CountsDown /\ \A F : Untouched(F)' <=> Untouched(F)
    BY <1>7, BudgetSame DEF SettingsInv, Untouched
  <2>2. cached' \in Contents
    BY <1>5, <1>7 DEF Contents
  <2>3. ASSUME Untouched({"adminsOverlap"})
        PROVE  /\ read = Stored \/ (family = "rates" /\ read = Nothing)
               /\ \A b \in Admins : admin[b].pc \in {"read", "put"} => b = a
    BY <1>1, <2>3 DEF SettingsInv, OneAtDesk
  <2>4. CachedTrue
    BY DEF SettingsInv
  <2>5. Untouched(RangeFaults)' => ~cached'.full \/ cached'.range = range
    <3>. SUFFICES ASSUME Untouched({"adminsOverlap"}) PROVE ~cached'.full \/ cached'.range = range
      BY <2>1, FaultsApart
    <3>1. CASE read = Stored
      BY <1>5, <1>7, <3>1, ContentsKinds DEF Contents
    <3>2. CASE family = "rates" /\ read = Nothing
      BY <1>7, <3>2, ContentsKinds
    <3>. QED  BY <2>3, <3>1, <3>2
  <2>6. Untouched(TermFaults)' /\ cached'.full => cached'.terms = terms
    <3>. SUFFICES ASSUME Untouched({"adminsOverlap"}), Untouched(TermFaults), cached'.full
                  PROVE  cached'.terms = terms
      BY <2>1, FaultsApart
    <3>1. CASE family \notin {"fees", "repayment"}
      BY <1>7, <2>3, <3>1, ContentsKinds
    <3>2. CASE family \in {"fees", "repayment"} /\ ~cached.full
      BY <1>7, <3>2, ContentsKinds
    <3>3. CASE family \in {"fees", "repayment"} /\ cached.full
      BY <1>5, <1>7, <3>3, <2>4 DEF Contents, CachedTrue
    <3>. QED  BY <3>1, <3>2, <3>3
  <2>. QED  BY <1>1, <1>3, <1>4, <1>5, <2>1, <2>2, <2>5, <2>6, Recached
<1>. QED  BY <1>1, <1>6, <1>7

LEMMA LookupSteps ==
    ASSUME SettingsInv, LookupMisses \/ LookupFills \/ CacheLost
    PROVE  SettingsInv' /\ CountsDown
<1>1. /\ Stored \in Contents /\ Nothing \in Contents /\ cached \in Contents
      /\ reader \in [filling : BOOLEAN, read : Contents] /\ AdminsTyped
  BY ContentsKinds DEF SettingsInv, SettingsTypeOK
<1>2. UNCHANGED <<family, range, terms, ops, admin>> /\ AdminsTyped'
  BY <1>1 DEF LookupMisses, LookupFills, CacheLost, AdminsTyped, AdminKind, AdminShape, Contents
<1>3. CASE LookupMisses
  <2>1. reader' = [filling |-> TRUE, read |-> Stored] /\ UNCHANGED cached
        /\ (UNCHANGED budget \/ Spend("error"))
    BY <1>3 DEF LookupMisses
  <2>2. Budgets' /\ CountsDown
        /\ \A F \in {RangeFaults, TermFaults} : Untouched(F)' => Untouched(F)
    BY <2>1, BudgetSame, BudgetSpent, SettingsAssumption, SettingsBack DEF SettingsInv
  <2>. QED  BY <1>1, <1>2, <2>1, <2>2, Recached DEF SettingsInv, CachedTrue
<1>4. CASE LookupFills
  <2>. DEFINE awry == reader.read # Stored
  <2>0. CASE reader' = [filling |-> FALSE, read |-> Nothing] /\ UNCHANGED <<cached, budget>>
    BY <2>0, BudgetSame, <1>1, <1>2, Recached DEF SettingsInv, Untouched, CachedTrue
  <2>1. CASE /\ cached' = reader.read /\ reader' = [filling |-> FALSE, read |-> Nothing]
             /\ Note(awry, "lateFill")
    <3>2. "lateFill" \in Kinds /\ Budget["lateFill"] > 0 /\ awry \in BOOLEAN
      BY SettingsAssumption
    <3>. HIDE DEF awry
    <3>3. Budgets' /\ CountsDown /\ (awry => \A F : "lateFill" \in F => ~Untouched(F)')
      BY <2>1, <3>2, BudgetNoted DEF SettingsInv
    <3>4. awry => ~Untouched(RangeFaults)' /\ ~Untouched(TermFaults)'
      BY <3>3 DEF RangeFaults, TermFaults
    <3>5. ~awry => cached'.range = range /\ cached'.terms = terms
      BY <2>1, ContentsKinds DEF awry
    <3>6. cached' \in Contents /\ reader' \in [filling : BOOLEAN, read : Contents]
      BY <1>1, <2>1
    <3>. QED  BY <1>2, <3>3, <3>4, <3>5, <3>6, Recached
  <2>. QED  BY <1>4, <2>0, <2>1 DEF LookupFills
<1>5. CASE CacheLost
  BY SettingsAssumption, <1>5, BudgetSpent, <1>1, <1>2, ContentsKinds, Recached DEF SettingsInv,
    CacheLost
<1>. QED  BY <1>3, <1>4, <1>5

LEMMA RestartSteps == ASSUME SettingsInv, Restart PROVE SettingsInv' /\ CountsDown
<1>1. /\ \/ Spend("crash") /\ cached' = Stored
         \/ Spend("error") /\ UNCHANGED cached
      /\ admin' = [a \in Admins |-> Resting]
      /\ reader' = [filling |-> FALSE, read |-> Nothing]
      /\ UNCHANGED <<family, range, terms, ops>>
  BY DEF Restart
<1>2. {"crash", "error"} \subseteq Kinds
  BY SettingsAssumption
<1>3. Budgets' /\ CountsDown
  BY <1>1, <1>2, BudgetSpent DEF SettingsInv
<1>4. /\ Stored \in Contents /\ Nothing \in Contents /\ Stored.range = range
      /\ Stored.terms = terms /\ cached \in Contents
  BY ContentsKinds DEF SettingsInv, SettingsTypeOK
<1>8. Spend("error") => ~Untouched(RangeFaults)' /\ ~Untouched(TermFaults)'
  BY <1>2, BudgetSpent DEF SettingsInv, RangeFaults, TermFaults
<1>5. \A b \in Admins : admin'[b] = Resting /\ admin'[b].pc = "idle"
  BY <1>1, ContentsKinds
<1>6. AdminsTyped'
  BY <1>1, ContentsKinds DEF AdminsTyped, AdminKind, AdminShape, Contents
<1>7. reader' \in [filling : BOOLEAN, read : Contents]
  BY <1>1, <1>4
<1>. QED  BY <1>1, <1>3, <1>4, <1>5, <1>6, <1>7, <1>8, Recached

LEMMA SettingsSteps == ASSUME SettingsInv, SettingsNext PROVE SettingsInv' /\ CountsDown
<1>1. CASE LookupMisses \/ LookupFills \/ CacheLost
  BY <1>1, LookupSteps
<1>2. CASE Restart
  BY <1>2, RestartSteps
<1>3. CASE \E a \in Admins :
         \/ CreateFee(a) \/ CreateRepayment(a) \/ CreateTier(a)
         \/ BulkCreateFees(a) \/ BulkCreateRepayments(a)
         \/ UpdateRange(a) \/ DeleteRange(a) \/ PatchTier(a) \/ BulkPatch(a)
         \/ UpdateTerms(a) \/ UpdateRate(a) \/ BulkUpdateRates(a)
         \/ InitializeRates(a)
         \/ WriteNew(a) \/ WriteOld(a) \/ WriteTerms(a)
         \/ PatchRefresh(a) \/ PatchCommit(a) \/ RefreshRead(a) \/ RefreshPut(a)
  BY <1>3, CreateSteps, BulkSteps, UpdateSteps, PatchSteps, OtherSteps, WriteNewSteps,
    WriteOldSteps, WriteTermsSteps, RefreshSteps, PatchCommitSteps, RefreshPutSteps
<1>. QED  BY <1>1, <1>2, <1>3 DEF SettingsNext

---------------------------------------------------------------------------
(* The administrators, their roles and the caches of both.                 *)

\* A request under way, and rows of administrators.
DeskRecords ==
    [pc : {"idle", "begun", "read", "put", "written"},
     op : {"none", "create", "change", "delete", "assign", "revoke", "suspend"},
     r : SomeTitle, a : Officers \cup {"none"}, to : RoleRecords, seen : RoleRecords]
OfficerRecords == [there : BOOLEAN, active : BOOLEAN, title : SomeTitle]
FillRecords == [of : {"none"} \cup Titles \cup Officers, role : RoleRecords,
                title : SomeTitle]

\* What a request is about, and how far one of its kind gets.
DeskShape ==
    \A d \in Desks :
        /\ desk[d].op \in {"create", "change", "delete", "assign"} => desk[d].r \in Titles
        /\ desk[d].op \in {"assign", "revoke", "suspend"} => desk[d].a \in Officers
        /\ desk[d].op \in {"revoke", "suspend"} => desk[d].r = "none"
        /\ desk[d].pc = "read" => desk[d].op \in {"create", "change", "delete"}
        /\ desk[d].pc = "put" => desk[d].op \in {"create", "change"}

NoOverlap == Untouched({"requestsOverlap"})
Told == Untouched({"requestsOverlap", "redis"})

\* Without an overlap a request is alone, and no getter is on its way.
Alone ==
    NoOverlap => /\ \A d, e \in Desks : desk[d].pc # "idle" /\ desk[e].pc # "idle" => d = e
                 /\ filler # NoFill => \A d \in Desks : desk[d].pc = "idle"

\* What has been read of a row is still what is in it,
RowsUnmoved ==
    NoOverlap =>
        /\ \A d \in Desks : desk[d].pc = "read" => desk[d].seen = roles[desk[d].r]
        /\ filler.of \in Titles => filler.role \in {NoRole, roles[filler.of]}
        /\ filler.of \in Officers /\ filler.title # "none"
               => filler.title = officer[filler.of].title
        /\ \A d \in Desks : desk[d].pc = "written" /\ desk[d].r # "none"
               => desk[d].a \in Officers /\ officer[desk[d].a].title = desk[d].r

\* and what a transaction is about to change is what the cache has got of it.
PutBeforeCommit ==
    Told => \A d \in Desks :
        desk[d].pc = "put" => roleKept[desk[d].r] \in {NoRole, roles[desk[d].r]}

\* The cache is two versions behind only for a deletion under way, or one cut short.
Deleting(r) ==
    \E d \in Desks : desk[d].op = "delete" /\ desk[d].r = r /\ desk[d].pc \in {"begun", "read"}
CutShort == ~Untouched({"requestDies", "restart"})
KeptBehind ==
    Told => \A r \in Titles :
        \/ roleKept[r] \in {NoRole, roles[r], before[r]}
        \/ roles[r] = GoneRole /\ (Deleting(r) \/ CutShort)

\* An entry that names another role than the row is about to be written over.
Remapping(a) ==
    \E d \in Desks : /\ desk[d].pc = "written" /\ desk[d].a = a
                     /\ desk[d].r = officer[a].title
Orderly == Untouched({"requestsOverlap", "requestDies", "redis"})
MappingFollows ==
    Orderly => \A a \in Officers :
        \/ officer[a].title = "none" \/ mapping[a] \in {"none", officer[a].title}
        \/ Remapping(a)

StaffInv ==
    /\ StaffTypeOK /\ DeskShape /\ Budgets
    /\ Alone /\ RowsUnmoved /\ PutBeforeCommit /\ KeptBehind /\ MappingFollows

LEMMA StaffTypes ==
    StaffTypeOK <=>
        /\ roles \in [Titles -> RoleRecords] /\ before \in [Titles -> RoleRecords]
        /\ roleKept \in [Titles -> RoleRecords]
        /\ officer \in [Officers -> OfficerRecords] /\ mapping \in [Officers -> SomeTitle]
        /\ desk \in [Desks -> DeskRecords] /\ filler \in FillRecords /\ acts \in Nat
BY DEF StaffTypeOK, OfficerRecords, DeskRecords, FillRecords

LEMMA RoleValues ==
    /\ NoRole \in RoleRecords /\ GoneRole \in RoleRecords /\ NewRole \in RoleRecords
    /\ ~NoRole.there /\ ~GoneRole.there
    /\ NoRole # NewRole /\ FreeDesk \in DeskRecords /\ NoFill \in FillRecords
    /\ FreeDesk.pc = "idle" /\ FreeDesk.op = "none" /\ FreeDesk.r = "none"
    /\ NoFill.of = "none" /\ NoFill.title = "none" /\ NoFill.role = NoRole
BY DEF NoRole, GoneRole, NewRole, RoleRecords, FreeDesk, DeskRecords, NoFill, FillRecords, SomeTitle

\* Adding a request.
LEMMA TakeStep ==
    ASSUME StaffInv, NEW d \in Desks,
           NEW op \in {"create", "change", "delete", "assign", "revoke", "suspend"},
           NEW r \in SomeTitle, NEW a \in Officers \cup {"none"}, NEW to \in RoleRecords,
           Take(d, op, r, a, to),
           op \in {"create", "change", "delete", "assign"} => r \in Titles,
           op \in {"assign", "revoke", "suspend"} => a \in Officers,
           op \in {"revoke", "suspend"} => r = "none"
    PROVE  /\ desk[d].pc = "idle" /\ acts' \in Nat /\ Budgets' /\ CountsDown
           /\ desk' \in [Desks -> DeskRecords] /\ DeskShape'
           /\ desk'[d].pc = "begun" /\ desk'[d].op = op /\ desk'[d].r = r
           /\ desk'[d].a = a
           /\ \A e \in Desks \ {d} : desk'[e] = desk[e]
           /\ NoOverlap' => /\ NoOverlap /\ filler = NoFill
                            /\ \A e \in Desks : desk[e].pc = "idle"
<1>1. desk \in [Desks -> DeskRecords] /\ acts \in Nat /\ Budgets
  BY StaffTypes DEF StaffInv
<1>2. PICK run : run = [FreeDesk EXCEPT !.pc = "begun", !.op = op, !.r = r, !.a = a,
                                        !.to = to]
  OBVIOUS
<1>3. desk' = [desk EXCEPT ![d] = run] /\ desk[d].pc = "idle" /\ acts' \in Nat
  BY <1>1, <1>2 DEF Take
<1>4. /\ run \in DeskRecords /\ run.pc = "begun" /\ run.op = op /\ run.r = r /\ run.a = a
  BY <1>2, RoleValues DEF DeskRecords, FreeDesk
<1>5. /\ desk' \in [Desks -> DeskRecords] /\ desk'[d] = run
      /\ \A e \in Desks \ {d} : desk'[e] = desk[e]
  BY <1>1, <1>3, <1>4
<1>6. "requestsOverlap" \in Kinds
  BY StaffAssumption
<1>7. CASE Busy \/ filler # NoFill
  BY <1>7, <1>1, <1>6, BudgetSpent, <1>3, <1>4, <1>5 DEF Take, NoOverlap, DeskShape, StaffInv
<1>8. CASE ~(Busy \/ filler # NoFill)
  BY <1>8, <1>1, BudgetSame, <1>3, <1>4, <1>5 DEF Take, NoOverlap, Untouched, DeskShape, StaffInv,
    Busy
<1>. QED  BY <1>7, <1>8

\* What has been cut short stays so, and what is orderly was so.
LEMMA OrderBack ==
    ASSUME Budgets, CountsDown
    PROVE  /\ NoOverlap' => NoOverlap
           /\ Told' => Told /\ NoOverlap /\ NoOverlap'
           /\ Orderly' => Orderly /\ Told /\ NoOverlap /\ NoOverlap'
           /\ CutShort => CutShort'
<1>1. {"requestsOverlap", "requestDies", "restart", "redis"} \subseteq Kinds
  BY StaffAssumption
<1>2. /\ {"requestsOverlap"} \in SUBSET Kinds
      /\ {"requestsOverlap", "redis"} \in SUBSET Kinds
      /\ {"requestsOverlap", "requestDies", "redis"} \in SUBSET Kinds
      /\ {"requestDies", "restart"} \in SUBSET Kinds
  BY <1>1
<1>3. NoOverlap' => NoOverlap
  BY <1>2, UntouchedBack DEF NoOverlap
<1>4. Orderly' => Orderly
  BY <1>2, UntouchedBack DEF Orderly
<1>5. Untouched({"requestDies", "restart"})' => Untouched({"requestDies", "restart"})
  BY <1>2, UntouchedBack
<1>6. Told' => Told
  BY <1>2, UntouchedBack DEF Told
<1>7. (Orderly' => Told') /\ (Told' => NoOverlap')
  BY DEF Orderly, Told, NoOverlap, Untouched
<1>. QED  BY <1>3, <1>4, <1>5, <1>6, <1>7 DEF CutShort

\* A request begins: what is left to show is what it did to the roles.
LEMMA TakeKeeps ==
    ASSUME StaffInv, NEW d \in Desks,
           NEW op \in {"create", "change", "delete", "assign", "revoke", "suspend"},
           NEW r \in SomeTitle, NEW a \in Officers \cup {"none"}, NEW to \in RoleRecords,
           Take(d, op, r, a, to),
           op \in {"create", "change", "delete", "assign"} => r \in Titles,
           op \in {"assign", "revoke", "suspend"} => a \in Officers,
           op \in {"revoke", "suspend"} => r = "none",
           UNCHANGED <<officer, mapping, filler>>,
           roles' \in [Titles -> RoleRecords], before' \in [Titles -> RoleRecords],
           roleKept' \in [Titles -> RoleRecords], KeptBehind'
    PROVE  StaffInv'
<1>1. /\ acts' \in Nat /\ Budgets' /\ CountsDown
      /\ desk' \in [Desks -> DeskRecords] /\ DeskShape' /\ desk'[d].pc = "begun"
      /\ \A e \in Desks \ {d} : desk'[e] = desk[e]
      /\ NoOverlap' => filler = NoFill /\ \A e \in Desks : desk[e].pc = "idle"
  BY TakeStep
<1>2. StaffTypeOK'
  BY StaffTypes, <1>1 DEF StaffInv, StaffTypeOK, OfficerRecords, DeskRecords, FillRecords
<1>3. NoOverlap' => /\ filler' = NoFill
                    /\ \A e \in Desks : desk'[e].pc = IF e = d THEN "begun" ELSE "idle"
  BY <1>1
<1>4. Alone' /\ PutBeforeCommit'
  BY <1>1, <1>3, OrderBack DEF Alone, PutBeforeCommit, StaffInv
<1>5. RowsUnmoved'
  BY <1>3, RoleValues, StaffAssumption DEF RowsUnmoved
<1>6. MappingFollows'
  BY <1>1, OrderBack DEF MappingFollows, StaffInv, Remapping
<1>. QED  BY <1>1, <1>2, <1>4, <1>5, <1>6 DEF StaffInv

\* A request that leaves the roles and their cache as they are.
LEMMA TakeQuiet ==
    ASSUME StaffInv, NEW d \in Desks,
           NEW op \in {"create", "change", "delete", "assign", "revoke", "suspend"},
           NEW r \in SomeTitle, NEW a \in Officers \cup {"none"}, NEW to \in RoleRecords,
           Take(d, op, r, a, to),
           op \in {"create", "change", "delete", "assign"} => r \in Titles,
           op \in {"assign", "revoke", "suspend"} => a \in Officers,
           op \in {"revoke", "suspend"} => r = "none",
           UNCHANGED <<officer, mapping, filler, roles, before, roleKept>>
    PROVE  StaffInv'
<1>1. /\ Budgets' /\ CountsDown
      /\ NoOverlap' => NoOverlap /\ \A e \in Desks : desk[e].pc = "idle"
  BY TakeStep
<1>2. KeptBehind'
  BY <1>1, OrderBack DEF KeptBehind, Deleting, StaffInv
<1>3. /\ roles' \in [Titles -> RoleRecords] /\ before' \in [Titles -> RoleRecords]
      /\ roleKept' \in [Titles -> RoleRecords]
  BY StaffTypes DEF StaffInv
<1>. QED  BY <1>2, <1>3, TakeKeeps

LEMMA CreateRoleKeeps ==
    ASSUME StaffInv, NEW d \in Desks, NEW r \in Titles, CreateRole(d, r)
    PROVE  StaffInv'
  BY RoleValues, TakeQuiet DEF SomeTitle, CreateRole

LEMMA UpdateRoleKeeps ==
    ASSUME StaffInv, NEW d \in Desks, NEW r \in Titles, UpdateRole(d, r)
    PROVE  StaffInv'
<1>1. r \in SomeTitle
  BY DEF SomeTitle
<1>2. roles[r] \in RoleRecords
  BY StaffTypes DEF StaffInv
<1>3. /\ [roles[r] EXCEPT !.version = @ + 1] \in RoleRecords
      /\ [roles[r] EXCEPT !.active = ~@] \in RoleRecords
  <2>1. PICK x : x = ~roles[r].active
    OBVIOUS
  <2>2. x \in BOOLEAN
    BY <2>1
  <2>3. [roles[r] EXCEPT !.active = x] \in RoleRecords
    BY <1>2, <2>2 DEF RoleRecords
  <2>4. [roles[r] EXCEPT !.version = @ + 1] \in RoleRecords
    BY <1>2 DEF RoleRecords
  <2>. QED  BY <2>1, <2>3, <2>4
<1>4. PICK to \in RoleRecords : Take(d, "change", r, "none", to)
  BY <1>3 DEF UpdateRole
<1>. QED  BY <1>1, <1>4, TakeQuiet DEF UpdateRole

LEMMA DeleteRoleKeeps ==
    ASSUME StaffInv, NEW d \in Desks, NEW r \in Titles, DeleteRole(d, r)
    PROVE  StaffInv'
<1>1. r \in SomeTitle /\ GoneRole \in RoleRecords
  BY RoleValues DEF SomeTitle
<1>2. Take(d, "delete", r, "none", GoneRole)
  BY DEF DeleteRole
<1>3. /\ Budgets' /\ CountsDown
      /\ desk'[d].pc = "begun" /\ desk'[d].op = "delete" /\ desk'[d].r = r
      /\ NoOverlap' => NoOverlap /\ \A e \in Desks : desk[e].pc = "idle"
  BY <1>1, <1>2, TakeStep
<1>4. /\ roles' \in [Titles -> RoleRecords] /\ before' \in [Titles -> RoleRecords]
      /\ roleKept' \in [Titles -> RoleRecords]
  BY <1>1, StaffTypes DEF StaffInv, DeleteRole
<1>5. KeptBehind'
  <2>1. SUFFICES ASSUME Told', NEW t \in Titles
                 PROVE  \/ roleKept'[t] \in {NoRole, roles'[t], before'[t]}
                        \/ roles'[t] = GoneRole /\ (Deleting(t)' \/ CutShort')
    BY DEF KeptBehind
  <2>2. CASE t = r
    BY <1>3, <2>2, StaffTypes DEF Deleting, DeleteRole, StaffInv
  <2>3. CASE t # r
    BY <2>3, StaffTypes, <1>3, <2>1, OrderBack DEF DeleteRole, StaffInv, Deleting, KeptBehind
  <2>. QED  BY <2>2, <2>3
<1>. QED  BY <1>1, <1>2, <1>4, <1>5, TakeKeeps DEF DeleteRole

LEMMA AssignRoleKeeps ==
    ASSUME StaffInv, NEW d \in Desks, NEW a \in Officers, NEW r \in Titles,
           AssignRole(d, a, r)
    PROVE  StaffInv'
<1>1. r \in SomeTitle /\ NoRole \in RoleRecords
  BY RoleValues DEF SomeTitle
<1>2. /\ Take(d, "assign", r, a, NoRole)
      /\ UNCHANGED <<roles, before, officer, mapping, filler>>
  BY DEF AssignRole
<1>3. /\ Budgets' /\ CountsDown
      /\ NoOverlap' => NoOverlap /\ \A e \in Desks : desk[e].pc = "idle"
  BY <1>1, <1>2, TakeStep
<1>4. KnownRole(r) \in {roles[r], roleKept[r]} /\ roles[r] \in RoleRecords
      /\ roleKept[r] \in RoleRecords
  BY StaffTypes DEF KnownRole, StaffInv
<1>5. PICK seen \in {roles[r], roleKept[r]} :
          roleKept' \in {[roleKept EXCEPT ![r] = seen], roleKept}
  BY <1>4 DEF AssignRole, PutRole
<1>6. /\ roles' \in [Titles -> RoleRecords] /\ before' \in [Titles -> RoleRecords]
      /\ roleKept' \in [Titles -> RoleRecords]
  BY <1>2, <1>4, <1>5, StaffTypes DEF StaffInv
<1>7. KeptBehind'
  BY <1>2, <1>4, <1>5, StaffTypes, <1>3, OrderBack DEF KeptBehind, StaffInv, Deleting
<1>. QED  BY <1>1, <1>2, <1>6, <1>7, TakeKeeps

LEMMA OfficerRequestKeeps ==
    ASSUME StaffInv, NEW d \in Desks, NEW a \in Officers,
           RevokeRole(d, a) \/ SetAccountStatus(d, a)
    PROVE  StaffInv'
<1>1. "none" \in SomeTitle /\ NoRole \in RoleRecords
  BY RoleValues DEF SomeTitle
<1>2. CASE RevokeRole(d, a)
  BY <1>1, <1>2, TakeQuiet DEF RevokeRole
<1>3. CASE SetAccountStatus(d, a)
  BY <1>1, <1>3, TakeQuiet DEF SetAccountStatus
<1>. QED  BY <1>2, <1>3

\* A request at work moves on, or leaves.
LEMMA DeskStep ==
    ASSUME StaffInv, NEW d \in Desks, NEW next \in DeskRecords,
           desk' = [desk EXCEPT ![d] = next]
    PROVE  /\ desk' \in [Desks -> DeskRecords] /\ desk'[d] = next
           /\ \A e \in Desks \ {d} : desk'[e] = desk[e]
BY StaffTypes DEF StaffInv

LEMMA LeaveStep ==
    ASSUME StaffInv, NEW d \in Desks, Leaves(d)
    PROVE  /\ desk' \in [Desks -> DeskRecords] /\ DeskShape'
           /\ desk'[d].pc = "idle" /\ desk'[d].op = "none" /\ desk'[d].r = "none"
           /\ \A e \in Desks \ {d} : desk'[e] = desk[e]
  BY RoleValues, DeskStep DEF Leaves, DeskShape, StaffInv

LEMMA MoveStep ==
    ASSUME StaffInv, NEW d \in Desks, NEW from \in {"begun", "read", "put", "written"},
           NEW to \in {"begun", "read", "put", "written"}, Moves(d, from, to)
    PROVE  /\ desk[d].pc = from /\ desk' \in [Desks -> DeskRecords] /\ desk'[d].pc = to
           /\ desk'[d].op = desk[d].op /\ desk'[d].r = desk[d].r
           /\ desk'[d].a = desk[d].a /\ desk'[d].seen = desk[d].seen
           /\ \A e \in Desks \ {d} : desk'[e] = desk[e]
<1>1. desk \in [Desks -> DeskRecords] /\ desk[d] \in DeskRecords
  BY StaffTypes DEF StaffInv
<1>2. PICK next : next = [desk[d] EXCEPT !.pc = to]
  OBVIOUS
<1>3. /\ next \in DeskRecords /\ next.pc = to /\ next.op = desk[d].op
      /\ next.r = desk[d].r /\ next.a = desk[d].a /\ next.seen = desk[d].seen
  BY <1>1, <1>2 DEF DeskRecords
<1>4. desk' = [desk EXCEPT ![d] = next] /\ desk[d].pc = from
  BY <1>2 DEF Moves
<1>5. /\ desk' \in [Desks -> DeskRecords] /\ desk'[d] = next
      /\ \A e \in Desks \ {d} : desk'[e] = desk[e]
  BY <1>3, <1>4, DeskStep
<1>. QED  BY <1>3, <1>4, <1>5

\* A step that spends nothing leaves what is known of mishaps as it is.
LEMMA SameOrder ==
    ASSUME StaffInv, UNCHANGED budget
    PROVE  /\ Budgets' /\ NoOverlap' = NoOverlap /\ Told' = Told /\ Orderly' = Orderly
           /\ CutShort' = CutShort /\ (Told => NoOverlap)
BY BudgetSame DEF StaffInv, NoOverlap, Told, Orderly, CutShort, Untouched

\* What Redis may not have taken: then the caches are not said to follow.
LEMMA RedisStep ==
    ASSUME StaffInv, UNCHANGED budget \/ Spend("redis")
    PROVE  /\ Budgets' /\ CountsDown /\ (NoOverlap' => NoOverlap)
           /\ Told' => Told /\ NoOverlap /\ NoOverlap'
           /\ Orderly' => Orderly /\ Told /\ NoOverlap /\ NoOverlap'
           /\ CutShort => CutShort'
           /\ Spend("redis") => ~Told' /\ ~Orderly'
  BY BudgetSame, BudgetSpent, StaffAssumption, OrderBack DEF StaffInv, Told, Orderly

\* At a request's step, nothing else is going on.
LEMMA OnlyOne ==
    ASSUME StaffInv, NoOverlap, NEW d \in Desks, desk[d].pc # "idle"
    PROVE  filler = NoFill /\ \A e \in Desks \ {d} : desk[e].pc = "idle"
BY DEF StaffInv, Alone

\* Of a step of a request that goes on: what it leaves to be shown.
LEMMA StillAlone ==
    ASSUME StaffInv, Budgets', CountsDown, UNCHANGED filler, NEW d \in Desks,
           desk[d].pc # "idle", \A e \in Desks \ {d} : desk'[e] = desk[e]
    PROVE  /\ Alone'
           /\ NoOverlap' => /\ NoOverlap /\ filler' = NoFill
                            /\ \A e \in Desks \ {d} : desk'[e].pc = "idle"
  BY OrderBack, OnlyOne DEF Alone, StaffInv

LEMMA RoleRefreshReadKeeps ==
    ASSUME StaffInv, NEW d \in Desks, RoleRefreshRead(d)
    PROVE  StaffInv'
<1>1. /\ UNCHANGED <<roles, before, officer, roleKept, mapping, filler, acts, budget>>
      /\ desk[d].pc = "begun" /\ desk[d].op \in {"create", "change", "delete"}
  BY DEF RoleRefreshRead
<1>2. /\ desk \in [Desks -> DeskRecords] /\ desk[d] \in DeskRecords
      /\ desk[d].r \in Titles
  BY <1>1, StaffTypes DEF StaffInv, DeskShape
<1>3. roles[desk[d].r] \in RoleRecords
  BY <1>2, StaffTypes DEF StaffInv
<1>4. PICK next : next = [desk[d] EXCEPT !.pc = "read", !.seen = roles[desk[d].r]]
  OBVIOUS
<1>5. /\ next \in DeskRecords /\ next.pc = "read" /\ next.seen = roles[desk[d].r]
      /\ next.op = desk[d].op /\ next.r = desk[d].r /\ next.a = desk[d].a
  BY <1>2, <1>3, <1>4 DEF DeskRecords
<1>6. desk' = [desk EXCEPT ![d] = next]
  <2>1. desk' = [desk EXCEPT ![d].pc = "read", ![d].seen = roles[desk[d].r]]
    BY DEF RoleRefreshRead
  <2>2. PICK mid : mid = [desk EXCEPT ![d] = [desk[d] EXCEPT !.pc = "read"]]
    OBVIOUS
  <2>3. mid[d] = [desk[d] EXCEPT !.pc = "read"]
    BY <1>2, <2>2
  <2>4. desk' = [mid EXCEPT ![d] = [mid[d] EXCEPT !.seen = roles[desk[d].r]]]
    BY <2>1, <2>2
  <2>. QED  BY <1>2, <1>4, <2>2, <2>3, <2>4 DEF DeskRecords
<1>7. /\ desk' \in [Desks -> DeskRecords] /\ desk'[d] = next
      /\ \A e \in Desks \ {d} : desk'[e] = desk[e]
  BY <1>5, <1>6, DeskStep
<1>8. /\ Alone' /\ Budgets' /\ NoOverlap' = NoOverlap /\ Orderly' = Orderly
      /\ CutShort' = CutShort /\ Told' = Told /\ (Told => NoOverlap)
      /\ NoOverlap' => NoOverlap /\ filler' = NoFill
                       /\ \A e \in Desks \ {d} : desk'[e].pc = "idle"
  BY <1>1, <1>7, StillAlone, SameOrder, BudgetSame DEF StaffInv
<1>9. StaffTypeOK'
  BY <1>1, <1>7, StaffTypes DEF StaffInv, StaffTypeOK, OfficerRecords, DeskRecords, FillRecords
<1>10. DeskShape'
  BY <1>1, <1>5, <1>7 DEF DeskShape, StaffInv
<1>11. RowsUnmoved'
  BY <1>1, <1>5, <1>7, <1>8, RoleValues, StaffAssumption DEF RowsUnmoved
<1>12. PutBeforeCommit'
  BY <1>5, <1>7, <1>8 DEF PutBeforeCommit
<1>13. KeptBehind'
  <2>1. ASSUME NEW t \in Titles, Deleting(t) PROVE Deleting(t)'
    BY <1>1, <1>5, <1>7, <2>1 DEF Deleting
  <2>. QED  BY <1>1, <1>8, <2>1 DEF StaffInv, KeptBehind
<1>14. MappingFollows'
  <2>1. ASSUME NEW x \in Officers, Remapping(x) PROVE Remapping(x)'
    BY <1>1, <1>7, <2>1 DEF Remapping
  <2>. QED  BY <1>1, <1>8, <2>1 DEF StaffInv, MappingFollows
<1>. QED  BY <1>8, <1>9, <1>10, <1>11, <1>12, <1>13, <1>14 DEF StaffInv

LEMMA RoleRefreshPutKeeps ==
    ASSUME StaffInv, NEW d \in Desks, RoleRefreshPut(d)
    PROVE  StaffInv'
<1>1. /\ UNCHANGED <<roles, before, officer, mapping, filler, acts>>
      /\ desk[d].pc = "read" /\ (UNCHANGED budget \/ Spend("redis"))
  BY DEF RoleRefreshPut
<1>2. /\ desk[d] \in DeskRecords /\ desk[d].r \in Titles
      /\ desk[d].op \in {"create", "change", "delete"}
  BY <1>1, StaffTypes DEF StaffInv, DeskShape
<1>3. PICK new : new = IF desk[d].seen.there THEN desk[d].seen ELSE NoRole
  OBVIOUS
<1>4. new \in RoleRecords /\ new \in {NoRole, desk[d].seen}
  BY <1>2, <1>3, RoleValues DEF DeskRecords
<1>5. \/ roleKept' = [roleKept EXCEPT ![desk[d].r] = new]
      \/ UNCHANGED roleKept /\ Spend("redis")
  BY <1>3 DEF RoleRefreshPut, PutRole
<1>6. /\ roleKept' \in [Titles -> RoleRecords]
      /\ roleKept'[desk[d].r] = new \/ Spend("redis")
      /\ \A t \in Titles \ {desk[d].r} : roleKept'[t] = roleKept[t]
  BY <1>2, <1>4, <1>5, StaffTypes DEF StaffInv
<1>7. /\ desk' \in [Desks -> DeskRecords] /\ DeskShape'
      /\ \A e \in Desks \ {d} : desk'[e] = desk[e]
      /\ \/ desk'[d].pc = "put" /\ desk'[d].r = desk[d].r
         \/ desk'[d].pc = "idle" /\ desk[d].op = "delete"
  <2>1. CASE desk[d].op = "delete"
    BY <2>1, LeaveStep DEF RoleRefreshPut
  <2>2. CASE desk[d].op # "delete"
    BY <2>2, MoveStep, <1>2 DEF RoleRefreshPut, DeskShape, StaffInv
  <2>. QED  BY <2>1, <2>2
<1>8. /\ Alone' /\ Budgets' /\ (CutShort => CutShort')
      /\ Told' => Told /\ NoOverlap /\ NoOverlap' /\ ~Spend("redis")
      /\ Orderly' => Orderly
      /\ NoOverlap' => NoOverlap /\ filler' = NoFill
                       /\ \A e \in Desks \ {d} : desk'[e].pc = "idle"
  BY <1>1, <1>7, StillAlone, RedisStep
<1>9. StaffTypeOK'
  BY <1>1, <1>6, <1>7, StaffTypes DEF StaffInv, StaffTypeOK, OfficerRecords, DeskRecords,
    FillRecords
<1>10. NoOverlap => new \in {NoRole, roles[desk[d].r]}
  BY <1>1, <1>4 DEF StaffInv, RowsUnmoved
<1>11. RowsUnmoved'
  BY <1>1, <1>7, <1>8, RoleValues, StaffAssumption DEF RowsUnmoved
<1>12. PutBeforeCommit'
  BY <1>1, <1>6, <1>7, <1>8, <1>10 DEF PutBeforeCommit
<1>13. KeptBehind'
  <2>1. SUFFICES ASSUME Told', NEW t \in Titles
                 PROVE  \/ roleKept'[t] \in {NoRole, roles'[t], before'[t]}
                        \/ roles'[t] = GoneRole /\ (Deleting(t)' \/ CutShort')
    BY DEF KeptBehind
  <2>2. CASE t = desk[d].r
    BY <1>1, <1>6, <1>8, <1>10, <2>1, <2>2
  <2>3. CASE t # desk[d].r
    BY <1>7, <2>3, <1>1, <1>6, <1>8, <2>1 DEF Deleting, StaffInv, KeptBehind
  <2>. QED  BY <2>2, <2>3
<1>14. MappingFollows'
  <2>1. ASSUME NEW x \in Officers, Remapping(x) PROVE Remapping(x)'
    BY <1>1, <1>7, <2>1 DEF Remapping
  <2>. QED  BY <1>1, <1>8, <2>1 DEF StaffInv, MappingFollows
<1>. QED  BY <1>7, <1>8, <1>9, <1>11, <1>12, <1>13, <1>14 DEF StaffInv

LEMMA RoleCommitKeeps ==
    ASSUME StaffInv, NEW d \in Desks, RoleCommit(d)
    PROVE  StaffInv'
<1>1. /\ UNCHANGED <<officer, roleKept, mapping, filler, acts, budget>>
      /\ desk[d].pc = "put" /\ Leaves(d)
      /\ roles' = [roles EXCEPT ![desk[d].r] = desk[d].to]
      /\ before' = [before EXCEPT ![desk[d].r] = roles[desk[d].r]]
  BY DEF RoleCommit
<1>2. /\ desk[d] \in DeskRecords /\ desk[d].r \in Titles /\ desk[d].to \in RoleRecords
  BY <1>1, StaffTypes DEF StaffInv, DeskShape, DeskRecords
<1>3. /\ roles' \in [Titles -> RoleRecords] /\ before' \in [Titles -> RoleRecords]
      /\ before'[desk[d].r] = roles[desk[d].r]
      /\ \A t \in Titles \ {desk[d].r} : roles'[t] = roles[t] /\ before'[t] = before[t]
  BY <1>1, <1>2, StaffTypes DEF StaffInv
<1>4. /\ desk' \in [Desks -> DeskRecords] /\ DeskShape'
      /\ desk'[d].pc = "idle"
      /\ \A e \in Desks \ {d} : desk'[e] = desk[e]
  BY <1>1, LeaveStep
<1>5. /\ Alone' /\ Budgets' /\ NoOverlap' = NoOverlap /\ Orderly' = Orderly
      /\ CutShort' = CutShort /\ Told' = Told /\ (Told => NoOverlap)
      /\ NoOverlap' => filler' = NoFill /\ \A e \in Desks : desk'[e].pc = "idle"
  BY <1>1, <1>4, StillAlone, SameOrder, BudgetSame DEF StaffInv
<1>6. StaffTypeOK'
  BY <1>1, <1>3, <1>4, StaffTypes DEF StaffInv, StaffTypeOK, OfficerRecords, DeskRecords,
    FillRecords
<1>7. RowsUnmoved' /\ PutBeforeCommit'
  BY <1>5, RoleValues, StaffAssumption DEF RowsUnmoved, PutBeforeCommit
<1>8. KeptBehind'
  <2>1. SUFFICES ASSUME Told', NEW t \in Titles
                 PROVE  \/ roleKept'[t] \in {NoRole, roles'[t], before'[t]}
                        \/ roles'[t] = GoneRole /\ (Deleting(t)' \/ CutShort')
    BY DEF KeptBehind
  <2>2. CASE t = desk[d].r
    BY <1>1, <1>3, <1>5, <2>1, <2>2 DEF StaffInv, PutBeforeCommit
  <2>3. CASE t # desk[d].r
    BY <1>1, <1>4, <1>3, <1>5, <2>1, <2>3 DEF Deleting, StaffInv, KeptBehind
  <2>. QED  BY <2>2, <2>3
<1>9. MappingFollows'
  <2>1. ASSUME NEW x \in Officers, Remapping(x) PROVE Remapping(x)'
    BY <1>1, <1>4, <2>1 DEF Remapping
  <2>. QED  BY <1>1, <1>5, <2>1 DEF StaffInv, MappingFollows
<1>. QED  BY <1>4, <1>5, <1>6, <1>7, <1>8, <1>9 DEF StaffInv

\* The row of one administrator, written.
LEMMA OfficerStep ==
    ASSUME StaffInv, NEW d \in Desks, WriteOfficer(d)
    PROVE  LET a == desk[d].a
           IN  /\ officer' \in [Officers -> OfficerRecords]
               /\ \A x \in Officers : x # a => officer'[x] = officer[x]
               /\ desk[d].op = "assign" /\ desk'[d].pc = "written"
                      => a \in Officers /\ officer'[a].title = desk[d].r
               /\ desk[d].op = "revoke" => a \in Officers /\ officer'[a].title = "none"
               /\ desk[d].op = "suspend" \/ desk'[d].pc = "idle"
                      => \A x \in Officers : officer'[x].title = officer[x].title
               /\ desk[d].op \in {"assign", "revoke", "suspend"}
               /\ desk'[d].pc = "idle" \/ Moves(d, "begun", "written")
<1> DEFINE a == desk[d].a
<1>1. /\ desk[d] \in DeskRecords /\ officer \in [Officers -> OfficerRecords]
      /\ desk[d].op \in {"assign", "revoke", "suspend"}
      /\ a \in Officers
  BY StaffTypes DEF StaffInv, WriteOfficer, DeskShape
<1>2. officer[a] \in OfficerRecords /\ desk[d].r \in SomeTitle
  BY <1>1 DEF DeskRecords
<1>3. CASE /\ desk[d].op = "assign" /\ Moves(d, "begun", "written")
           /\ officer' = [officer EXCEPT ![a].there = TRUE, ![a].title = desk[d].r]
  <2>1. PICK mid : mid = [officer EXCEPT ![a] = [officer[a] EXCEPT !.there = TRUE]]
    OBVIOUS
  <2>2. mid[a] = [officer[a] EXCEPT !.there = TRUE]
    BY <1>1, <2>1
  <2>3. PICK new : new = [mid[a] EXCEPT !.title = desk[d].r]
    OBVIOUS
  <2>4. officer' = [mid EXCEPT ![a] = new]
    BY <1>3, <2>1, <2>3
  <2>5. new \in OfficerRecords /\ new.title = desk[d].r
    BY <1>2, <2>2, <2>3 DEF OfficerRecords
  <2>6. /\ officer' \in [Officers -> OfficerRecords] /\ officer'[a] = new
        /\ \A x \in Officers : x # a => officer'[x] = officer[x]
    BY <1>1, <2>1, <2>4, <2>5
  <2>7. desk'[d].pc = "written"
    BY <1>3, MoveStep
  <2>. QED  BY <1>1, <1>3, <2>5, <2>6, <2>7
<1>4. CASE desk[d].op = "assign" /\ Leaves(d) /\ UNCHANGED officer
  BY <1>4, LeaveStep, <1>1
<1>5. CASE /\ desk[d].op = "revoke" /\ Moves(d, "begun", "written")
           /\ officer' = [officer EXCEPT ![a].title = "none"]
  <2>1. PICK new : new = [officer[a] EXCEPT !.title = "none"]
    OBVIOUS
  <2>2. new \in OfficerRecords /\ new.title = "none"
    BY <1>2, <2>1 DEF OfficerRecords, SomeTitle
  <2>3. /\ officer' \in [Officers -> OfficerRecords] /\ officer'[a] = new
        /\ \A x \in Officers : x # a => officer'[x] = officer[x]
    BY <1>1, <1>5, <2>1, <2>2
  <2>4. desk'[d].pc = "written"
    BY <1>5, MoveStep
  <2>. QED  BY <1>1, <1>5, <2>2, <2>3, <2>4
<1>6. CASE /\ desk[d].op = "suspend" /\ Moves(d, "begun", "written")
           /\ officer' = [officer EXCEPT ![a].active = ~@]
  <2>1. PICK on : on = ~officer[a].active
    OBVIOUS
  <2>2. on \in BOOLEAN
    BY <2>1
  <2>3. PICK new : new = [officer[a] EXCEPT !.active = on]
    OBVIOUS
  <2>4. new \in OfficerRecords /\ new.title = officer[a].title
    BY <1>2, <2>2, <2>3 DEF OfficerRecords
  <2>5. officer' = [officer EXCEPT ![a] = new]
    BY <1>6, <2>1, <2>3
  <2>6. /\ officer' \in [Officers -> OfficerRecords] /\ officer'[a] = new
        /\ \A x \in Officers : x # a => officer'[x] = officer[x]
    BY <1>1, <2>4, <2>5
  <2>7. desk'[d].pc = "written"
    BY <1>6, MoveStep
  <2>. QED  BY <1>1, <1>6, <2>4, <2>6, <2>7
<1>. QED  BY <1>3, <1>4, <1>5, <1>6 DEF WriteOfficer

LEMMA WriteOfficerKeeps ==
    ASSUME StaffInv, NEW d \in Desks, WriteOfficer(d)
    PROVE  StaffInv'
<1> DEFINE a == desk[d].a
<1>1. /\ UNCHANGED <<roles, before, roleKept, mapping, filler, acts, budget>>
      /\ desk[d].pc = "begun"
  BY DEF WriteOfficer
<1>2. /\ officer' \in [Officers -> OfficerRecords]
      /\ \A x \in Officers : x # a => officer'[x] = officer[x]
      /\ desk[d].op = "assign" /\ desk'[d].pc = "written"
             => a \in Officers /\ officer'[a].title = desk[d].r
      /\ desk[d].op = "revoke" => a \in Officers /\ officer'[a].title = "none"
      /\ desk[d].op = "suspend" \/ desk'[d].pc = "idle"
             => \A x \in Officers : officer'[x].title = officer[x].title
      /\ desk[d].op \in {"assign", "revoke", "suspend"}
      /\ desk'[d].pc = "idle" \/ Moves(d, "begun", "written")
  BY OfficerStep
<1>3. /\ desk' \in [Desks -> DeskRecords] /\ DeskShape'
      /\ \A e \in Desks \ {d} : desk'[e] = desk[e]
      /\ \/ desk'[d].pc = "idle"
         \/ /\ desk'[d].pc = "written" /\ desk'[d].r = desk[d].r
            /\ desk'[d].a = desk[d].a /\ desk'[d].op = desk[d].op
  <2>1. CASE Leaves(d)
    BY <2>1, LeaveStep
  <2>2. CASE Moves(d, "begun", "written")
    BY <2>2, MoveStep DEF DeskShape, StaffInv
  <2>. QED  BY <1>2, <2>1, <2>2 DEF WriteOfficer
<1>4. /\ Alone' /\ Budgets' /\ NoOverlap' = NoOverlap /\ Orderly' = Orderly
      /\ CutShort' = CutShort /\ Told' = Told /\ (Told => NoOverlap)
      /\ NoOverlap' => filler' = NoFill /\ \A e \in Desks \ {d} : desk'[e].pc = "idle"
  BY <1>1, <1>3, StillAlone, SameOrder, BudgetSame DEF StaffInv
<1>5. StaffTypeOK'
  BY <1>1, <1>2, <1>3, StaffTypes DEF StaffInv, StaffTypeOK, OfficerRecords, DeskRecords,
    FillRecords
<1>6. desk[d].r # "none" => desk[d].op = "assign"
  BY <1>2 DEF StaffInv, DeskShape
<1>7. RowsUnmoved'
  BY <1>2, <1>3, <1>4, <1>6, RoleValues, StaffAssumption DEF RowsUnmoved
<1>8. PutBeforeCommit'
  BY <1>3, <1>4 DEF PutBeforeCommit
<1>9. KeptBehind'
  <2>1. ASSUME NEW t \in Titles, Deleting(t) PROVE Deleting(t)'
    BY <1>2, <1>3, <2>1 DEF Deleting
  <2>. QED  BY <1>1, <1>4, <2>1 DEF StaffInv, KeptBehind
<1>10. MappingFollows'
  <2>1. SUFFICES ASSUME Orderly', NEW x \in Officers
                 PROVE  \/ officer'[x].title = "none"
                        \/ mapping'[x] \in {"none", officer'[x].title}
                        \/ Remapping(x)'
    BY DEF MappingFollows
  <2>2. Orderly /\ NoOverlap
    BY <1>4, <2>1 DEF Orderly, NoOverlap, Untouched
  <2>3. ~Remapping(x)
    BY <1>1, <2>2, OnlyOne DEF Remapping
  <2>4. \/ officer[x].title = "none" \/ mapping[x] \in {"none", officer[x].title}
    BY <2>2, <2>3 DEF StaffInv, MappingFollows
  <2>5. CASE officer'[x].title = officer[x].title
    BY <1>1, <2>4, <2>5
  <2>6. CASE officer'[x].title # officer[x].title
    BY <1>2, <1>3, <2>6 DEF Remapping
  <2>. QED  BY <2>5, <2>6
<1>. QED  BY <1>3, <1>4, <1>5, <1>7, <1>8, <1>9, <1>10 DEF StaffInv

LEMMA PutMappingKeeps ==
    ASSUME StaffInv, NEW d \in Desks, PutMapping(d)
    PROVE  StaffInv'
<1> DEFINE a == desk[d].a
           r == desk[d].r
<1>1. /\ UNCHANGED <<roles, before, officer, roleKept, filler, acts>>
      /\ desk[d].pc = "written" /\ Leaves(d) /\ (UNCHANGED budget \/ Spend("redis"))
      /\ mapping' = Mapped(a, r) \/ (UNCHANGED mapping /\ Spend("redis"))
  BY Zenon DEF PutMapping
<1>2. /\ desk[d] \in DeskRecords /\ r \in SomeTitle
      /\ mapping \in [Officers -> SomeTitle]
  BY StaffTypes DEF StaffInv, DeskRecords
<1>3. /\ mapping' \in [Officers -> SomeTitle]
      /\ \/ Spend("redis")
         \/ \A x \in Officers : mapping'[x] = IF x = a /\ r # "none" THEN r ELSE mapping[x]
  BY <1>1, <1>2 DEF Mapped
<1>4. /\ desk' \in [Desks -> DeskRecords] /\ DeskShape'
      /\ desk'[d].pc = "idle"
      /\ \A e \in Desks \ {d} : desk'[e] = desk[e]
  BY <1>1, LeaveStep
<1>5. /\ Alone' /\ Budgets' /\ (CutShort => CutShort')
      /\ Told' => Told /\ NoOverlap /\ NoOverlap'
      /\ Orderly' => Orderly /\ NoOverlap /\ ~Spend("redis")
      /\ NoOverlap' => filler' = NoFill /\ \A e \in Desks : desk'[e].pc = "idle"
  BY <1>1, <1>4, StillAlone, RedisStep
<1>6. StaffTypeOK'
  BY <1>1, <1>3, <1>4, StaffTypes DEF StaffInv, StaffTypeOK, OfficerRecords, DeskRecords,
    FillRecords
<1>7. RowsUnmoved' /\ PutBeforeCommit'
  BY <1>5, RoleValues, StaffAssumption DEF RowsUnmoved, PutBeforeCommit
<1>8. KeptBehind'
  <2>1. ASSUME NEW t \in Titles, Deleting(t) PROVE Deleting(t)'
    BY <1>1, <1>4, <2>1 DEF Deleting
  <2>. QED  BY <1>1, <1>5, <2>1 DEF StaffInv, KeptBehind
<1>9. MappingFollows'
  <2>1. SUFFICES ASSUME Orderly', NEW x \in Officers
                 PROVE  \/ officer'[x].title = "none"
                        \/ mapping'[x] \in {"none", officer'[x].title}
    BY DEF MappingFollows
  <2>2. Orderly /\ NoOverlap
    BY <1>5, <2>1
  <2>3. r # "none" => officer[a].title = r
    BY <1>1, <2>2 DEF StaffInv, RowsUnmoved
  <2>4. CASE x = a /\ r # "none"
    BY <1>1, <1>3, <1>5, <2>1, <2>3, <2>4
  <2>5. CASE ~(x = a /\ r # "none")
    BY <1>1, <1>5, <2>1, <2>2, <2>5, OnlyOne, <1>3 DEF Remapping, StaffInv, MappingFollows
  <2>. QED  BY <2>4, <2>5
<1>. QED  BY <1>4, <1>5, <1>6, <1>7, <1>8, <1>9 DEF StaffInv

\* A request that dies is one of the cases the properties set aside.
LEMMA StaffErrorKeeps ==
    ASSUME StaffInv, NEW d \in Desks, StaffError(d)
    PROVE  StaffInv'
<1>1. /\ UNCHANGED <<roles, before, officer, roleKept, mapping, filler, acts>>
      /\ desk[d].pc # "idle" /\ Spend("requestDies") /\ Leaves(d)
  BY DEF StaffError
<1>2. "requestDies" \in Kinds
  BY StaffAssumption
<1>3. /\ Budgets' /\ CountsDown /\ CutShort' /\ ~Orderly'
  BY <1>1, <1>2, BudgetSpent, StaffAssumption DEF StaffInv, CutShort, Orderly
<1>4. /\ NoOverlap' => NoOverlap
      /\ Told' => Told /\ NoOverlap'
  BY <1>3, OrderBack DEF StaffInv
<1>5. /\ desk' \in [Desks -> DeskRecords] /\ DeskShape'
      /\ desk'[d].pc = "idle"
      /\ \A e \in Desks \ {d} : desk'[e] = desk[e]
  BY <1>1, LeaveStep
<1>6. NoOverlap' => filler' = NoFill /\ \A e \in Desks : desk'[e].pc = "idle"
  BY <1>1, <1>4, <1>5, OnlyOne
<1>7. StaffTypeOK'
  BY <1>1, <1>5, StaffTypes DEF StaffInv, StaffTypeOK, OfficerRecords, DeskRecords, FillRecords
<1>8. Alone' /\ RowsUnmoved' /\ PutBeforeCommit'
  BY <1>4, <1>6, RoleValues, StaffAssumption DEF Alone, RowsUnmoved, PutBeforeCommit
<1>9. KeptBehind'
  BY <1>1, <1>3, <1>4 DEF StaffInv, KeptBehind
<1>10. MappingFollows'
  BY <1>3 DEF MappingFollows
<1>. QED  BY <1>3, <1>5, <1>7, <1>8, <1>9, <1>10 DEF StaffInv

LEMMA GuardMissesKeeps ==
    ASSUME StaffInv, GuardMisses
    PROVE  StaffInv'
<1>1. /\ UNCHANGED <<roles, before, officer, roleKept, mapping, desk, acts>>
      /\ filler = NoFill
  BY DEF GuardMisses
<1>2. /\ filler' \in FillRecords
      /\ filler'.of \in Titles => filler'.role \in {NoRole, roles[filler'.of]}
      /\ filler'.of \in Officers /\ filler'.title # "none"
             => filler'.title = officer[filler'.of].title
  <2>1. CASE \E r \in Titles : filler' = [NoFill EXCEPT !.of = r, !.role = roles[r]]
    <3>1. PICK r \in Titles : filler' = [NoFill EXCEPT !.of = r, !.role = roles[r]]
      BY <2>1
    <3>2. roles[r] \in RoleRecords
      BY StaffTypes DEF StaffInv
    <3>. QED  BY <3>1, <3>2 DEF NoFill, FillRecords, SomeTitle
  <2>2. CASE \E a \in Officers : filler' = [NoFill EXCEPT !.of = a,
                                                          !.title = officer[a].title]
    <3>1. PICK a \in Officers : filler' = [NoFill EXCEPT !.of = a,
                                                         !.title = officer[a].title]
      BY <2>2
    <3>2. officer[a].title \in SomeTitle
      BY StaffTypes DEF StaffInv, OfficerRecords
    <3>3. NoRole \in RoleRecords
      BY RoleValues
    <3>. QED  BY <3>1, <3>2, <3>3 DEF NoFill, FillRecords
  <2>. QED  BY <2>1, <2>2 DEF GuardMisses
<1>3. /\ Budgets' /\ CountsDown
      /\ NoOverlap' => NoOverlap /\ \A e \in Desks : desk'[e].pc = "idle"
  <2>1. CASE Busy
    BY <2>1, BudgetSpent, StaffAssumption DEF GuardMisses, StaffInv, NoOverlap
  <2>2. CASE ~Busy
    BY <2>2, <1>1, RedisStep DEF GuardMisses, Busy
  <2>. QED  BY <2>1, <2>2
<1>4. /\ Told' => Told /\ NoOverlap'
      /\ Orderly' => Orderly /\ NoOverlap /\ NoOverlap'
      /\ CutShort => CutShort'
  BY <1>3, OrderBack DEF StaffInv
<1>5. StaffTypeOK' /\ DeskShape'
  BY <1>1, <1>2, StaffTypes DEF StaffInv, StaffTypeOK, OfficerRecords, DeskRecords, FillRecords,
    DeskShape
<1>6. Alone' /\ RowsUnmoved' /\ PutBeforeCommit'
  BY <1>1, <1>2, <1>3, <1>4 DEF Alone, RowsUnmoved, PutBeforeCommit
<1>7. KeptBehind'
  BY <1>1, <1>3, <1>4 DEF Deleting, StaffInv, KeptBehind
<1>8. MappingFollows'
  BY <1>1, <1>4 DEF Remapping, StaffInv, MappingFollows
<1>. QED  BY <1>3, <1>5, <1>6, <1>7, <1>8 DEF StaffInv

LEMMA GuardFillsKeeps ==
    ASSUME StaffInv, GuardFills
    PROVE  StaffInv'
<1>1. /\ UNCHANGED <<roles, before, officer, desk, acts, budget>>
      /\ filler # NoFill /\ filler' = NoFill
  BY DEF GuardFills
<1>2. filler \in FillRecords /\ filler.role \in RoleRecords /\ filler.title \in SomeTitle
  BY StaffTypes DEF StaffInv, FillRecords
<1>3. /\ roleKept' \in [Titles -> RoleRecords] /\ mapping' \in [Officers -> SomeTitle]
      /\ \A t \in Titles : \/ roleKept'[t] = roleKept[t]
                           \/ t = filler.of /\ roleKept'[t] \in {NoRole, filler.role}
      /\ \A x \in Officers : \/ mapping'[x] = mapping[x]
                             \/ /\ x = filler.of /\ filler.title # "none"
                                /\ mapping'[x] = filler.title
  <2>1. roleKept \in [Titles -> RoleRecords] /\ mapping \in [Officers -> SomeTitle]
    BY StaffTypes DEF StaffInv
  <2>2. CASE UNCHANGED mapping /\ roleKept' = PutRole(filler.of, filler.role)
    <3>1. PICK new : new = IF filler.role.there THEN filler.role ELSE NoRole
      OBVIOUS
    <3>2. roleKept' = [roleKept EXCEPT ![filler.of] = new]
      BY <2>2, <3>1 DEF PutRole
    <3>3. new \in RoleRecords /\ new \in {NoRole, filler.role}
      BY <1>2, <3>1, RoleValues
    <3>. QED  BY <2>1, <2>2, <3>2, <3>3
  <2>3. CASE UNCHANGED roleKept /\ mapping' = Mapped(filler.of, filler.title)
    BY <1>2, <2>1, <2>3 DEF Mapped
  <2>4. CASE UNCHANGED <<roleKept, mapping>>
    BY <2>1, <2>4
  <2>. QED  BY <2>2, <2>3, <2>4 DEF GuardFills
<1>4. /\ Budgets' /\ NoOverlap' = NoOverlap /\ Orderly' = Orderly /\ CutShort' = CutShort
      /\ Told' = Told /\ (Told => NoOverlap)
  BY <1>1, SameOrder
<1>5. NoOverlap' => \A e \in Desks : desk'[e].pc = "idle"
  BY <1>1, <1>4 DEF StaffInv, Alone
<1>6. StaffTypeOK' /\ DeskShape'
  BY <1>1, <1>3, StaffTypes, RoleValues DEF StaffInv, StaffTypeOK, OfficerRecords, DeskRecords,
    FillRecords, DeskShape
<1>7. Alone' /\ RowsUnmoved' /\ PutBeforeCommit'
  BY <1>1, <1>4, <1>5, RoleValues, StaffAssumption DEF Alone, RowsUnmoved, PutBeforeCommit
<1>8. KeptBehind'
  BY <1>1, <1>3, <1>4 DEF Deleting, StaffInv, RowsUnmoved, KeptBehind
<1>9. MappingFollows'
  BY <1>1, <1>3, <1>4 DEF Remapping, Orderly, NoOverlap, Untouched, StaffInv, RowsUnmoved,
    MappingFollows
<1>. QED  BY <1>4, <1>6, <1>7, <1>8, <1>9 DEF StaffInv

LEMMA StaffEvictedKeeps ==
    ASSUME StaffInv, StaffEvicted
    PROVE  StaffInv'
<1>1. /\ UNCHANGED <<roles, before, officer, desk, filler, acts>> /\ Spend("evicted")
  BY DEF StaffEvicted
<1>2. /\ roleKept' \in [Titles -> RoleRecords] /\ mapping' \in [Officers -> SomeTitle]
      /\ \A t \in Titles : roleKept'[t] \in {NoRole, roleKept[t]}
      /\ \A x \in Officers : mapping'[x] \in {"none", mapping[x]}
  BY StaffTypes, RoleValues DEF StaffInv, StaffEvicted, SomeTitle
<1>3. Budgets' /\ CountsDown
  BY <1>1, BudgetSpent, StaffAssumption DEF StaffInv
<1>4. /\ NoOverlap' => NoOverlap
      /\ Told' => Told
      /\ Orderly' => Orderly /\ NoOverlap /\ NoOverlap'
      /\ CutShort => CutShort'
  BY <1>3, OrderBack DEF StaffInv
<1>5. StaffTypeOK' /\ DeskShape'
  BY <1>1, <1>2, StaffTypes DEF StaffInv, StaffTypeOK, OfficerRecords, DeskRecords, FillRecords,
    DeskShape
<1>6. Alone' /\ RowsUnmoved'
  BY <1>1, <1>4 DEF StaffInv, Alone, RowsUnmoved
<1>7. PutBeforeCommit'
  BY <1>1, <1>2, <1>4 DEF StaffInv, PutBeforeCommit, DeskShape
<1>8. KeptBehind'
  BY <1>1, <1>2, <1>4 DEF Deleting, StaffInv, KeptBehind
<1>9. MappingFollows'
  BY <1>1, <1>2, <1>4 DEF Remapping, StaffInv, MappingFollows
<1>. QED  BY <1>3, <1>5, <1>6, <1>7, <1>8, <1>9 DEF StaffInv

LEMMA StaffRestartKeeps ==
    ASSUME StaffInv, StaffRestart
    PROVE  StaffInv'
<1>1. /\ UNCHANGED <<roles, before, officer, acts>>
      /\ desk' = [d \in Desks |-> FreeDesk] /\ filler' = NoFill
  BY DEF StaffRestart
<1>2. /\ roleKept' \in [Titles -> RoleRecords] /\ mapping' \in [Officers -> SomeTitle]
      /\ \A t \in Titles : roleKept'[t] \in {roles[t], roleKept[t]}
      /\ \/ Spend("redis") /\ UNCHANGED mapping
         \/ /\ Spend("restart")
            /\ \A x \in Officers : mapping'[x] = IF officer[x].title # "none"
                                                 THEN officer[x].title ELSE mapping[x]
  BY StaffTypes DEF StaffInv, OfficerRecords, StaffRestart
<1>3. /\ Budgets' /\ CountsDown
      /\ Spend("restart") => CutShort'
      /\ Spend("redis") => ~Told' /\ ~Orderly'
  BY <1>2, BudgetSpent, StaffAssumption DEF StaffInv, CutShort, Told, Orderly
<1>4. (NoOverlap' => NoOverlap) /\ (Told' => Told)
  BY <1>3, OrderBack DEF StaffInv
<1>5. /\ desk' \in [Desks -> DeskRecords]
      /\ \A d \in Desks : /\ desk'[d].pc = "idle" /\ desk'[d].op = "none"
  BY <1>1, RoleValues
<1>6. StaffTypeOK' /\ DeskShape'
  BY <1>1, <1>2, <1>5, StaffTypes, RoleValues DEF StaffInv, StaffTypeOK, OfficerRecords,
    DeskRecords, FillRecords, DeskShape
<1>7. Alone' /\ RowsUnmoved' /\ PutBeforeCommit'
  BY <1>1, <1>5, RoleValues, StaffAssumption DEF Alone, RowsUnmoved, PutBeforeCommit
<1>8. KeptBehind'
  BY <1>1, <1>2, <1>3, <1>4 DEF StaffInv, KeptBehind
<1>9. MappingFollows'
  BY <1>1, <1>2, <1>3 DEF MappingFollows
<1>. QED  BY <1>3, <1>6, <1>7, <1>8, <1>9 DEF StaffInv

LEMMA StaffInvInit == StaffInit /\ budget = Budget => StaffInv
<1>. SUFFICES ASSUME StaffInit, budget = Budget PROVE StaffInv
  OBVIOUS
<1>1. PICK r \in Titles, a \in Officers :
          /\ roles = [t \in Titles |-> IF t = r THEN NewRole ELSE NoRole]
          /\ before = roles /\ roleKept = roles
          /\ officer = [o \in Officers |-> [there |-> o = a, active |-> TRUE,
                                            title |-> IF o = a THEN r ELSE "none"]]
          /\ mapping = [o \in Officers |-> officer[o].title]
          /\ desk = [d \in Desks |-> FreeDesk] /\ filler = NoFill /\ acts = 0
  BY DEF StaffInit
<1>2. roles \in [Titles -> RoleRecords]
  BY <1>1, RoleValues
<1>3. /\ officer \in [Officers -> OfficerRecords]
      /\ \A o \in Officers : officer[o].title \in SomeTitle
  BY <1>1 DEF OfficerRecords, SomeTitle
<1>4. mapping \in [Officers -> SomeTitle] /\ \A o \in Officers : mapping[o] = officer[o].title
  BY <1>1, <1>3
<1>5. /\ desk \in [Desks -> DeskRecords] /\ filler \in FillRecords
      /\ \A d \in Desks : desk[d].pc = "idle" /\ desk[d].op = "none"
  BY <1>1, RoleValues
<1>6. StaffTypeOK
  BY <1>1, <1>2, <1>3, <1>4, <1>5, StaffTypes
<1>7. Budgets
  BY <1>1, BudgetsInit
<1>8. DeskShape /\ Alone /\ PutBeforeCommit /\ MappingFollows
  BY <1>4, <1>5 DEF DeskShape, Alone, PutBeforeCommit, MappingFollows
<1>9. RowsUnmoved
  BY <1>1, <1>5, RoleValues, StaffAssumption DEF RowsUnmoved
<1>10. KeptBehind
  BY <1>1 DEF KeptBehind
<1>. QED  BY <1>6, <1>7, <1>8, <1>9, <1>10 DEF StaffInv

LEMMA StaffInvNext == StaffInv /\ [StaffNext]_staffVars => StaffInv'
<1>. SUFFICES ASSUME StaffInv, [StaffNext]_staffVars PROVE StaffInv'
  OBVIOUS
<1>1. CASE UNCHANGED staffVars
  <2>1. UNCHANGED <<roles, before, officer, roleKept, mapping, desk, filler, acts, budget>>
    BY <1>1 DEF staffVars
  <2>2. /\ Budgets' /\ NoOverlap' = NoOverlap /\ Orderly' = Orderly
        /\ CutShort' = CutShort /\ Told' = Told
    BY <2>1, SameOrder
  <2>3. StaffTypeOK' /\ DeskShape' /\ Alone' /\ RowsUnmoved' /\ PutBeforeCommit'
    BY <2>1, <2>2 DEF StaffInv, StaffTypeOK, DeskShape, Alone, RowsUnmoved, PutBeforeCommit
  <2>4. KeptBehind' /\ MappingFollows'
    BY <2>1, <2>2 DEF StaffInv, KeptBehind, MappingFollows, Deleting, Remapping
  <2>. QED  BY <2>2, <2>3, <2>4 DEF StaffInv
<1>2. CASE GuardMisses \/ GuardFills \/ StaffEvicted \/ StaffRestart
  BY <1>2, GuardMissesKeeps, GuardFillsKeeps, StaffEvictedKeeps, StaffRestartKeeps
<1>3. ASSUME NEW d \in Desks,
             \/ RoleRefreshRead(d) \/ RoleRefreshPut(d) \/ RoleCommit(d)
             \/ WriteOfficer(d) \/ PutMapping(d) \/ StaffError(d)
      PROVE  StaffInv'
  BY <1>3, RoleRefreshReadKeeps, RoleRefreshPutKeeps, RoleCommitKeeps, WriteOfficerKeeps,
    PutMappingKeeps, StaffErrorKeeps
<1>4. ASSUME NEW d \in Desks, NEW r \in Titles,
             CreateRole(d, r) \/ UpdateRole(d, r) \/ DeleteRole(d, r)
      PROVE  StaffInv'
  BY <1>4, CreateRoleKeeps, UpdateRoleKeeps, DeleteRoleKeeps
<1>5. ASSUME NEW d \in Desks, NEW r \in Titles, NEW a \in Officers, AssignRole(d, a, r)
      PROVE  StaffInv'
  BY <1>5, AssignRoleKeeps
<1>6. ASSUME NEW d \in Desks, NEW a \in Officers, RevokeRole(d, a) \/ SetAccountStatus(d, a)
      PROVE  StaffInv'
  BY <1>6, OfficerRequestKeeps
<1>. QED  BY <1>1, <1>2, <1>3, <1>4, <1>5, <1>6 DEF StaffNext

LEMMA StaffInvCaches == StaffInv => StaffCaches
<1>. SUFFICES ASSUME StaffInv PROVE StaffCaches
  OBVIOUS
<1>1. RoleOneBehind
  BY DEF Deleting, Busy, StaffInv, KeptBehind, Told, RoleOneBehind, DeletionUnseen, CutShort
<1>2. HolderConfirmed
  <2>1. ASSUME Orderly, ~Busy, NEW a \in Officers, officer[a].title # "none"
        PROVE  RoleConfirmed(a, officer[a].title)
    BY <2>1 DEF Remapping, Busy, StaffInv, MappingFollows, RoleConfirmed, KeptTitle
  <2>. QED  BY <2>1 DEF HolderConfirmed, Orderly
<1>. QED  BY <1>1, <1>2 DEF StaffCaches

LEMMA StaffStarts == ASSUME budget = Budget, StaffInit PROVE StaffInv
  BY StaffInvInit

LEMMA StaffSteps == ASSUME StaffInv, StaffNext PROVE StaffInv'
  BY StaffInvNext

LEMMA StaffSays == ASSUME StaffInv PROVE StaffTypeOK /\ StaffCaches
  BY StaffInvCaches DEF StaffInv
===========================================================================
