-------------------------- MODULE Services_proofs --------------------------
(***************************************************************************)
(* Theorems about the smaller services, each a behaviour of its own steps  *)
(* from its own initial states, for every value of the constants and every *)
(* budget of mishaps.                                                      *)
(***************************************************************************)
EXTENDS UrgentLiquidity, Addresses, Liquidity, Vault, Bills, Ledger_proofs,
        SequenceTheorems

---------------------------------------------------------------------------
(* Mishaps are counted down.                                               *)

Budgets == budget \in [Kinds -> Nat] /\ \A f \in Kinds : budget[f] <= Budget[f]

\* What every step does to the budget.
CountsDown == \A f \in Kinds : budget'[f] <= budget[f]

LEMMA BudgetSpent ==
    ASSUME Budgets, NEW f \in Kinds, Spend(f)
    PROVE  /\ Budgets' /\ CountsDown
           /\ \A F : f \in F /\ F \subseteq Kinds => ~Untouched(F)'
<1>1. budget[f] \in Nat /\ budget[f] > 0 /\ Budget[f] \in Nat
      /\ budget[f] <= Budget[f]
  BY MishapsAssumption DEF Budgets, Spend
<1>2. budget' = [budget EXCEPT ![f] = budget[f] - 1]
  BY DEF Spend
<1>3. budget' \in [Kinds -> Nat] /\ budget'[f] = budget[f] - 1
  BY <1>1, <1>2 DEF Budgets
<1>4. \A g \in Kinds : budget'[g] <= budget[g] /\ budget'[g] <= Budget[g]
  <2>. TAKE g \in Kinds
  <2>1. budget[g] \in Nat /\ Budget[g] \in Nat /\ budget[g] <= Budget[g]
    BY MishapsAssumption DEF Budgets
  <2>2. CASE g = f
    BY <1>1, <1>3, <2>1, <2>2
  <2>3. CASE g # f
    BY <1>2, <2>1, <2>3 DEF Budgets
  <2>. QED  BY <2>2, <2>3
<1>5. budget'[f] # Budget[f]
  BY <1>1, <1>3
<1>. QED  BY <1>3, <1>4, <1>5 DEF Budgets, CountsDown, Untouched

LEMMA BudgetNotedAll ==
    ASSUME Budgets, NEW G, NoteAll(G)
    PROVE  Budgets' /\ CountsDown
  BY MishapsAssumption DEF Budgets, NoteAll, CountsDown

LEMMA BudgetNoted ==
    ASSUME Budgets, NEW P, NEW f \in Kinds, Note(P, f)
    PROVE  Budgets' /\ CountsDown
BY BudgetNotedAll DEF Note

LEMMA BudgetSame ==
    ASSUME Budgets, UNCHANGED budget
    PROVE  Budgets' /\ CountsDown
BY DEF Budgets, CountsDown

\* What has not happened yet has not happened before.
LEMMA UntouchedBack ==
    ASSUME Budgets, CountsDown, NEW F \in SUBSET Kinds, Untouched(F)'
    PROVE  Untouched(F)
<1>1. ASSUME NEW f \in F PROVE budget[f] = Budget[f]
  BY MishapsAssumption DEF Budgets, CountsDown, Untouched
<1>. QED  BY <1>1 DEF Untouched

\* All mishaps together are counted too.
LEMMA SpentGrows ==
    ASSUME Budgets, NEW f \in Kinds, Spend(f)
    PROVE  /\ Spent(Kinds) \in Nat /\ Spent(Kinds)' = Spent(Kinds) + 1
           /\ Spent(Kinds)' <= MaxFaults
<1> DEFINE gone == [g \in Kinds |-> Budget[g] - budget[g]]
           then == [g \in Kinds |-> Budget[g] - budget'[g]]
<1>1. \A g \in Kinds : gone[g] \in Nat
  BY MishapsAssumption DEF Budgets
<1>2. \A g \in Kinds : budget'[g] \in Nat
  BY BudgetSpent DEF Budgets
<1>3. \A g \in Kinds : gone[g] \in Int /\ then[g] \in Int
  BY <1>2, MishapsAssumption DEF Budgets
<1>4. \A g \in Kinds \ {f} : then[g] = gone[g]
  BY DEF Spend
<1>5. then[f] = gone[f] + 1
  <2>1. budget'[f] = budget[f] - 1 /\ budget[f] \in Nat /\ Budget[f] \in Nat
    BY MishapsAssumption DEF Budgets, Spend
  <2>. QED  BY <2>1
<1>6. /\ Spent(Kinds) = SumFunctionOnSet(gone, Kinds)
      /\ Spent(Kinds)' = SumFunctionOnSet(then, Kinds)
  BY DEF Spent
<1>7. Spent(Kinds) < MaxFaults
  BY DEF Spend
<1>. HIDE DEF gone, then
<1>8. SumFunctionOnSet(then, Kinds)
        = SumFunctionOnSet(gone, Kinds) + then[f] - gone[f]
  <2>1. IsFiniteSet(Kinds)
    BY MishapsAssumption
  <2>. QED  BY <1>3, <1>4, <2>1, SumChange
<1>9. SumFunctionOnSet(gone, Kinds) \in Nat
  BY <1>1, MishapsAssumption, SumNatural
<1>. QED  BY <1>3, <1>5, <1>6, <1>7, <1>8, <1>9, MishapsAssumption

LEMMA NothingSpent ==
    ASSUME budget = Budget
    PROVE  Budgets /\ Spent(Kinds) = 0
<1>1. Budgets
  BY MishapsAssumption DEF Budgets
<1> DEFINE gone == [g \in Kinds |-> Budget[g] - budget[g]]
<1>2. \A g \in Kinds : gone[g] = 0
  BY MishapsAssumption
<1>3. SumFunctionOnSet(gone, Kinds) = 0
  <2>. HIDE DEF gone
  <2>. QED  BY <1>2, MishapsAssumption, SumZero
<1>. QED  BY <1>1, <1>3 DEF Spent

LEMMA SpentSame ==
    ASSUME UNCHANGED budget
    PROVE  Spent(Kinds)' = Spent(Kinds)
BY DEF Spent

LEMMA SpentNatural == Budgets => Spent(Kinds) \in Nat
<1>. SUFFICES ASSUME Budgets PROVE Spent(Kinds) \in Nat
  OBVIOUS
<1> DEFINE gone == [g \in Kinds |-> Budget[g] - budget[g]]
<1>1. \A g \in Kinds : gone[g] \in Nat
  BY MishapsAssumption DEF Budgets
<1>2. SumFunctionOnSet(gone, Kinds) \in Nat
  <2>. HIDE DEF gone
  <2>. QED  BY <1>1, MishapsAssumption, SumNatural
<1>. QED  BY <1>2 DEF Spent

---------------------------------------------------------------------------
(* Urgent liquidity                                                        *)

Transfers == [loan : Loans, at : {"open", "success", "failed"}, heard : BOOLEAN]
LoanRows == [status : {"none", "PENDING", "PAYSTACK_COMPLETED", "DISBURSED",
                       "FAILED"},
             known : BOOLEAN, transfer : Nat]
SaleRows == [at : {"none", "open", "sold", "cancelled"},
             event : {"none", "waiting", "done"}, tries : 0..LoanAttempts]
AskingPc == {"new", "quoted", "created", "posted", "failed", "done"}

LoanMishaps == {"lostAnswer", "refusal", "error", "again", "spentElsewhere",
                "timeout", "transferFailed", "crash", "early", "shared", "raced"}

LoanWork ==
    /\ loan \in [Loans -> LoanRows]
    /\ asking \in [Loans -> AskingPc]
    /\ sales \in [Loans -> SaleRows]
    /\ transfer \in Seq(Transfers) /\ checked \in SUBSET Loans
    /\ paying = NoOne \/ paying \in [loan : Loans, transfer : Nat]

\* Its transaction is under way.
Under(l) == l \in checked \/ paying.loan = l

\* How far the request, the order and the transaction of a loan are: nothing is
\* known of an order before its request is over, and a transaction under way is
\* of a sold order, of a loan that has no transfer yet.
LoanFollows(l) ==
    /\ asking[l] # "done" => ~loan[l].known /\ loan[l].transfer = 0
    /\ asking[l] \in {"new", "quoted", "created"} => sales[l].at = "none"
    /\ asking[l] = "created" => loan[l].status = "PENDING"
    /\ (sales[l].event = "none") <=> (sales[l].at \in {"none", "open"})
    /\ sales[l].event # "done" => sales[l].tries > 0
    /\ Under(l) => /\ loan[l].known /\ loan[l].transfer = 0
                   /\ sales[l].at = "sold" /\ sales[l].event = "waiting"
    /\ l \in checked => paying.loan # l

\* A step for another loan.
LoanSame(k) ==
    /\ loan'[k] = loan[k] /\ asking'[k] = asking[k] /\ sales'[k] = sales[k]
    /\ k \in checked' => k \in checked
    /\ (paying'.loan = k) => (paying.loan = k)

LEMMA LoanFollowsSame ==
    ASSUME NEW k \in Loans, LoanFollows(k), LoanSame(k)
    PROVE  LoanFollows(k)'
BY DEF LoanFollows, LoanSame, Under

LEMMA NoOnePaying == \A l \in Loans : NoOne.loan # l
BY LoanAssumption DEF NoOne

\* What an error of a webhook's job makes of the webhook.
LEMMA LoanThrowsRow ==
    ASSUME LoanWork, NEW l \in Loans, sales[l].tries > 0, LoanThrows(l)
    PROVE  /\ sales' \in [Loans -> SaleRows]
           /\ \A k \in Loans \ {l} : sales'[k] = sales[k]
           /\ sales'[l].at = sales[l].at
           /\ sales'[l].event \in {"waiting", "done"}
           /\ sales'[l].event = "waiting" => sales'[l].tries > 0
<1> DEFINE event == IF LastLoanTry(l) THEN "done" ELSE "waiting"
           left == sales[l].tries - 1
<1>1. sales[l].tries \in 0..LoanAttempts
  BY DEF LoanWork, SaleRows
<1>2. /\ event \in {"waiting", "done"} /\ left \in 0..LoanAttempts
      /\ event = "waiting" => left > 0
  BY <1>1, LoanAssumption DEF LastLoanTry
<1>3. sales' = [sales EXCEPT ![l].event = event, ![l].tries = left]
  BY DEF LoanThrows
<1>. HIDE DEF event, left
<1>4. /\ sales'[l].at = sales[l].at
      /\ sales'[l].event = event /\ sales'[l].tries = left
      /\ \A k \in Loans \ {l} : sales'[k] = sales[k]
  BY <1>3 DEF LoanWork, SaleRows
<1>5. sales' \in [Loans -> SaleRows]
  BY <1>2, <1>3 DEF LoanWork, SaleRows
<1>. QED  BY <1>2, <1>4, <1>5

LoanOnly(l) == \A k \in Loans \ {l} : LoanSame(k)

LEMMA LoanRequestFollows ==
    ASSUME LoanWork, NEW l \in Loans, LoanFollows(l),
           \/ LoanQuote(l) \/ LoanConfirm(l) \/ LoanPost(l)
           \/ LoanRecord(l) \/ LoanGiveUp(l)
    PROVE  LoanWork' /\ LoanFollows(l)' /\ LoanOnly(l)
<1>. USE DEF LoanWork, LoanFollows, LoanOnly, LoanSame, Under
<1>. USE DEF LoanRows, SaleRows, AskingPc, SetAsking
<1>1. CASE LoanQuote(l)
  BY <1>1 DEF LoanQuote
<1>2. CASE LoanConfirm(l)
  BY <1>2 DEF LoanConfirm
<1>3. CASE LoanPost(l)
  <2>1. CASE sales' = [sales EXCEPT ![l].at = "open"]
    BY <2>1, <1>3 DEF LoanPost
  <2>2. CASE UNCHANGED sales
    BY <1>3, <2>2 DEF LoanPost
  <2>. QED  BY <1>3, <2>1, <2>2 DEF LoanPost
<1>4. CASE LoanRecord(l)
  <2>1. CASE loan' = [loan EXCEPT ![l].known = TRUE]
    <3>1. /\ loan' \in [Loans -> LoanRows] /\ loan'[l].known
          /\ loan'[l].status = loan[l].status
          /\ loan'[l].transfer = loan[l].transfer
          /\ \A k \in Loans \ {l} : loan'[k] = loan[k]
      BY <2>1
    <3>. QED  BY <1>4, <2>1, <3>1 DEF LoanRecord
  <2>2. CASE UNCHANGED loan
    BY <1>4, <2>2 DEF LoanRecord
  <2>. QED  BY <1>4, <2>1, <2>2 DEF LoanRecord
<1>5. CASE LoanGiveUp(l)
  BY <1>5 DEF LoanGiveUp
<1>. QED  BY <1>1, <1>2, <1>3, <1>4, <1>5

LEMMA LoanOrderFollows ==
    ASSUME LoanWork, NEW l \in Loans, LoanFollows(l),
           LoanOrderEnds(l) \/ LoanEventAgain(l)
    PROVE  LoanWork' /\ LoanFollows(l)' /\ LoanOnly(l)
<1>. USE LoanAssumption DEF LoanFollows, LoanOnly, LoanSame, Under
<1>1. CASE LoanOrderEnds(l)
  <2>1. ~Under(l) /\ sales[l].event = "none" /\ sales[l].tries > 0
    BY <1>1 DEF LoanOrderEnds, LoanWork, SaleRows
  <2>. QED  BY <1>1, <2>1 DEF LoanOrderEnds, LoanWork, LoanRows, SaleRows
<1>2. CASE LoanEventAgain(l)
  <2>1. /\ sales' \in [Loans -> SaleRows] /\ sales'[l].at = sales[l].at
        /\ sales'[l].event = "waiting" /\ sales'[l].tries = LoanAttempts
        /\ \A k \in Loans \ {l} : sales'[k] = sales[k]
    <3>1. LoanAttempts \in 0..LoanAttempts
      OBVIOUS
    <3>2. sales' = [sales EXCEPT ![l].event = "waiting", ![l].tries = LoanAttempts]
      BY <1>2 DEF LoanEventAgain
    <3>. QED  BY <3>1, <3>2 DEF LoanWork, SaleRows
  <2>. QED  BY <1>2, <2>1 DEF LoanEventAgain, LoanWork
<1>. QED  BY <1>1, <1>2

LEMMA LoanWebhookFollows ==
    ASSUME LoanWork, NEW l \in Loans, LoanFollows(l), LoanWebhook(l)
    PROVE  LoanWork' /\ LoanFollows(l)' /\ LoanOnly(l)
<1>1. /\ sales[l].event = "waiting" /\ sales[l].tries > 0 /\ ~Under(l)
      /\ UNCHANGED <<asking, transfer, paying>>
  BY DEF LoanWebhook, LoanFollows, Under
<1>2. CASE Handled(l)
  <2>1. /\ sales' \in [Loans -> SaleRows] /\ sales'[l].at = sales[l].at
        /\ sales'[l].event = "done"
        /\ \A k \in Loans \ {l} : sales'[k] = sales[k]
    BY <1>2 DEF Handled, LoanWork, SaleRows
  <2>2. CASE UNCHANGED <<loan, checked>>
    BY <1>1, <2>1, <2>2 DEF LoanWork, LoanFollows, LoanOnly, LoanSame, Under
  <2>3. CASE loan' = [loan EXCEPT ![l].status = "FAILED"] /\ UNCHANGED checked
             /\ loan[l].known
    BY <2>3, <1>1, <2>1 DEF LoanWork, LoanRows, LoanFollows, LoanOnly, LoanSame, Under
  <2>4. sales[l].event = "waiting" /\ sales'[l].event # sales[l].event
    BY <1>1, <2>1
  <2>5. \/ UNCHANGED <<loan, checked>>
        \/ loan' = [loan EXCEPT ![l].status = "FAILED"] /\ UNCHANGED checked
           /\ loan[l].known
    BY <2>4 DEF LoanWebhook, LoanThrows
  <2>. QED  BY <2>2, <2>3, <2>5
<1>3. CASE /\ loan[l].known /\ Payable(l) /\ sales[l].at = "sold"
           /\ checked' = checked \cup {l} /\ UNCHANGED <<loan, sales>>
  BY <1>1, <1>3 DEF Payable, LoanWork, LoanFollows, LoanOnly, LoanSame, Under
<1>4. CASE LoanThrows(l) /\ UNCHANGED <<loan, checked>> /\ sales[l].at = "sold"
  BY <1>1, <1>4, LoanThrowsRow DEF LoanWork, LoanFollows, LoanOnly, LoanSame, Under
<1>. QED  BY <1>2, <1>3, <1>4 DEF LoanWebhook

LEMMA LoanLockFollows ==
    ASSUME LoanWork, NEW l \in Loans, LoanFollows(l), LoanLock(l)
    PROVE  LoanWork' /\ LoanFollows(l)' /\ LoanOnly(l)
<1>1. /\ sales[l].event = "waiting" /\ sales[l].tries > 0 /\ paying.loan # l
      /\ sales[l].at = "sold" /\ loan[l].known /\ loan[l].transfer = 0
      /\ checked' = checked \ {l} /\ UNCHANGED <<loan, asking, transfer>>
  BY DEF LoanLock, LoanFollows, Under
<1>2. CASE /\ paying = NoOne /\ paying' = [loan |-> l, transfer |-> 0]
           /\ UNCHANGED sales
  BY <1>1, <1>2 DEF LoanWork, LoanFollows, LoanOnly, LoanSame, Under
<1>3. CASE LoanThrows(l) /\ UNCHANGED paying
  BY <1>1, <1>3, LoanThrowsRow DEF LoanWork, LoanFollows, LoanOnly, LoanSame, Under
<1>. QED  BY <1>2, <1>3 DEF LoanLock

\* What the worker has in hand is of the loan whose rows it has locked.
LEMMA LoanPayFollows ==
    ASSUME LoanWork, NEW l \in Loans, LoanFollows(l), LoanPay(l)
    PROVE  /\ LoanWork' /\ LoanFollows(l)' /\ LoanOnly(l)
           /\ transfer' # transfer =>
                transfer' = Append(transfer, [loan |-> l, at |-> "open",
                                              heard |-> FALSE])
<1> DEFINE sent == Append(transfer, [loan |-> l, at |-> "open", heard |-> FALSE])
<1>1. /\ sales[l].event = "waiting" /\ sales[l].tries > 0
      /\ sales[l].at = "sold" /\ paying = [loan |-> l, transfer |-> 0]
      /\ loan[l].known /\ loan[l].transfer = 0 /\ l \notin checked
      /\ UNCHANGED <<loan, asking, checked>>
  BY DEF LoanPay, LoanFollows, Under
<1>2. sent \in Seq(Transfers) /\ Len(sent) \in Nat
  BY DEF LoanWork, Transfers
<1>3. CASE LoanThrows(l) /\ paying' = NoOne /\ transfer' \in {sent, transfer}
  BY <1>1, <1>2, <1>3, LoanThrowsRow, NoOnePaying DEF LoanWork, LoanFollows, LoanOnly, LoanSame,
    Under
<1>4. CASE /\ transfer' = sent /\ UNCHANGED sales
           /\ paying' = [paying EXCEPT !.transfer = Len(sent)]
  <2>1. paying' = [loan |-> l, transfer |-> Len(sent)]
    BY <1>1, <1>4
  <2>2. paying' \in [loan : Loans, transfer : Nat] /\ paying'.loan = l
    <3>. HIDE DEF sent
    <3>. QED  BY <1>2, <2>1
  <2>3. /\ transfer' \in Seq(Transfers)
        /\ transfer' = Append(transfer, [loan |-> l, at |-> "open",
                                         heard |-> FALSE])
    BY <1>2, <1>4
  <2>. HIDE DEF sent
  <2>. QED  BY <1>1, <1>4, <2>2, <2>3 DEF LoanWork, LoanFollows, LoanOnly, LoanSame, Under
<1>. QED  BY <1>3, <1>4 DEF LoanPay

LEMMA LoanCommitFollows ==
    ASSUME LoanWork, NEW l \in Loans, LoanFollows(l), LoanCommit(l)
    PROVE  LoanWork' /\ LoanFollows(l)' /\ LoanOnly(l)
<1>1. /\ sales[l].event = "waiting" /\ sales[l].tries > 0 /\ loan[l].known
      /\ sales[l].at = "sold" /\ paying.transfer \in Nat
      /\ paying' = NoOne /\ UNCHANGED <<asking, transfer, checked>>
      /\ l \notin checked
  BY NoOnePaying DEF LoanCommit, LoanFollows, LoanWork, Under
<1>2. CASE /\ loan' = [loan EXCEPT ![l].status = "PAYSTACK_COMPLETED",
                                   ![l].transfer = paying.transfer]
           /\ Handled(l)
  <2>1. /\ sales' \in [Loans -> SaleRows] /\ sales'[l].at = sales[l].at
        /\ sales'[l].event = "done"
        /\ \A k \in Loans \ {l} : sales'[k] = sales[k]
    BY <1>2 DEF Handled, LoanWork, SaleRows
  <2>2. /\ loan' \in [Loans -> LoanRows] /\ loan'[l].known = loan[l].known
        /\ \A k \in Loans \ {l} : loan'[k] = loan[k]
    BY <1>1, <1>2 DEF LoanWork, LoanRows
  <2>. QED  BY <1>1, <2>1, <2>2, NoOnePaying DEF LoanWork, LoanFollows, LoanOnly, LoanSame, Under
<1>3. CASE LoanThrows(l) /\ UNCHANGED loan
  BY <1>1, <1>3, LoanThrowsRow, NoOnePaying DEF LoanWork, LoanFollows, LoanOnly, LoanSame, Under
<1>. QED  BY <1>2, <1>3 DEF LoanCommit

LEMMA LoanTransferFollows ==
    ASSUME LoanWork, \A l \in Loans : LoanFollows(l), NEW t \in DOMAIN transfer,
           LoanTransferEnds(t) \/ LoanTransferHeard(t)
    PROVE  LoanWork' /\ \A l \in Loans : LoanFollows(l)'
<1>1. transfer[t] \in Transfers /\ DOMAIN transfer = 1..Len(transfer)
  BY DEF LoanWork
<1>2. CASE LoanTransferEnds(t)
  <2>1. \A at \in {"success", "failed"} :
            [transfer EXCEPT ![t].at = at] \in Seq(Transfers)
    BY <1>1 DEF LoanWork, Transfers
  <2>. QED  BY <1>2, <2>1 DEF LoanTransferEnds, LoanWork, LoanFollows, Under
<1>3. CASE LoanTransferHeard(t)
  <2>1. [transfer EXCEPT ![t].heard = TRUE] \in Seq(Transfers)
    <3> DEFINE entry == [transfer[t] EXCEPT !.heard = TRUE]
    <3>1. entry \in Transfers
      BY <1>1 DEF Transfers
    <3>2. [transfer EXCEPT ![t] = entry] \in Seq(Transfers)
      <4>. HIDE DEF entry
      <4>. QED  BY <1>1, <3>1 DEF LoanWork
    <3>. QED  BY <3>2
  <2>2. loan' \in [Loans -> LoanRows]
    BY <1>3 DEF LoanTransferHeard, LoanWork, LoanRows
  <2>3. ASSUME NEW l \in Loans PROVE LoanFollows(l)'
    BY <1>3, <1>1 DEF LoanTransferHeard, LoanWork, LoanRows, LoanFollows, Under
  <2>. QED  BY <1>3, <2>1, <2>2, <2>3 DEF LoanTransferHeard, LoanWork
<1>. QED  BY <1>2, <1>3

LEMMA LoanOutsideFollows ==
    ASSUME LoanWork, \A l \in Loans : LoanFollows(l), LoanWalletUsed \/ LoanCrash
    PROVE  LoanWork' /\ \A l \in Loans : LoanFollows(l)'
<1>1. CASE LoanWalletUsed
  BY <1>1 DEF LoanWalletUsed, LoanWork, LoanFollows, Under
<1>2. CASE LoanCrash
  BY <1>2, NoOnePaying DEF LoanCrash, LoanWork, LoanFollows, AskingPc, Under
<1>. QED  BY <1>1, <1>2

LoanFlow == LoanWork /\ \A l \in Loans : LoanFollows(l)

LEMMA LoanFlowInit == LoanInit => LoanFlow
BY LoanAssumption, NoOnePaying DEF LoanInit, LoanFlow, LoanWork, LoanFollows, LoanRows, SaleRows,
  AskingPc, Transfers, Under

LEMMA LoanFlowNext == LoanFlow /\ [LoanNext]_loanVars => LoanFlow'
<1>. SUFFICES ASSUME LoanFlow, [LoanNext]_loanVars PROVE LoanFlow'
  OBVIOUS
<1>1. ASSUME NEW l \in Loans,
             \/ LoanQuote(l) \/ LoanConfirm(l) \/ LoanPost(l)
             \/ LoanRecord(l) \/ LoanGiveUp(l)
             \/ LoanOrderEnds(l) \/ LoanEventAgain(l)
             \/ LoanWebhook(l) \/ LoanLock(l) \/ LoanPay(l) \/ LoanCommit(l)
      PROVE  LoanFlow'
  <2>1. LoanWork' /\ LoanFollows(l)' /\ LoanOnly(l)
    BY <1>1, LoanRequestFollows, LoanOrderFollows, LoanWebhookFollows, LoanLockFollows,
      LoanPayFollows, LoanCommitFollows DEF LoanFlow
  <2>. QED  BY <2>1, LoanFollowsSame DEF LoanFlow, LoanOnly
<1>2. ASSUME NEW t \in DOMAIN transfer,
             LoanTransferEnds(t) \/ LoanTransferHeard(t)
      PROVE  LoanFlow'
  BY <1>2, LoanTransferFollows DEF LoanFlow
<1>3. CASE LoanWalletUsed \/ LoanCrash
  BY <1>3, LoanOutsideFollows DEF LoanFlow
<1>4. CASE UNCHANGED loanVars
  BY <1>4 DEF loanVars, LoanFlow, LoanWork, LoanFollows, Under
<1>. QED  BY <1>1, <1>2, <1>3, <1>4 DEF LoanNext

\* Which step spends what another service takes of the wallet.
LEMMA LoanBudgetNext ==
    ASSUME Budgets, [LoanNext]_loanVars
    PROVE  /\ Budgets' /\ CountsDown
           /\ \/ LoanWalletUsed
              \/ budget'["spentElsewhere"] = budget["spentElsewhere"]
<1> DEFINE Other(f) == f \in LoanMishaps \ {"spentElsewhere"}
<1>1. \A f \in LoanMishaps : f \in Kinds
  BY LoanAssumption DEF LoanMishaps
<1>2. ASSUME NEW f, Other(f), Spend(f)
      PROVE  budget'["spentElsewhere"] = budget["spentElsewhere"]
  BY <1>2 DEF Spend
<1>3. ASSUME NEW f, Other(f), NEW P, Note(P, f)
      PROVE  budget'["spentElsewhere"] = budget["spentElsewhere"]
  BY <1>1, <1>3 DEF Note, NoteAll, LoanMishaps
<1>4. \/ LoanWalletUsed /\ Spend("spentElsewhere")
      \/ UNCHANGED budget
      \/ \E f \in LoanMishaps \ {"spentElsewhere"} :
            Spend(f) \/ \E P \in BOOLEAN : Note(P, f)
  <2>1. ASSUME NEW l \in Loans, LoanConfirm(l)
        PROVE  \E P \in BOOLEAN : Note(P, "shared")
    <3> DEFINE asked == SumFunctionOnSet([k \in Loans |-> Pledge(k)],
                                         LoansPending \cup {l})
               P == asked > collateral.base \/ asked > coLoan.crypto
    <3>1. Note(P, "shared")
      BY <2>1 DEF LoanConfirm
    <3>2. Note(P, "shared") <=> Note(P = TRUE, "shared")
      BY DEF Note
    <3>3. (P = TRUE) \in BOOLEAN
      OBVIOUS
    <3>. HIDE DEF P
    <3>. QED  BY <3>1, <3>2, <3>3
  <2>2. ASSUME NEW l \in Loans, LoanWebhook(l)
        PROVE  \/ UNCHANGED budget
               \/ \E P \in BOOLEAN : Note(P, "early") \/ Note(P, "raced")
    BY <2>2 DEF LoanWebhook
  <2>3. ASSUME NEW l \in Loans,
               \/ LoanQuote(l) \/ LoanPost(l) \/ LoanRecord(l) \/ LoanGiveUp(l)
               \/ LoanOrderEnds(l) \/ LoanEventAgain(l)
               \/ LoanLock(l) \/ LoanPay(l) \/ LoanCommit(l)
        PROVE  \/ UNCHANGED budget
               \/ \E f \in LoanMishaps \ {"spentElsewhere"} : Spend(f)
    BY <2>3 DEF LoanQuote, LoanPost, LoanRecord, LoanGiveUp, LoanOrderEnds, LoanEventAgain,
      LoanLock, LoanPay, LoanCommit, LoanMishaps
  <2>4. ASSUME NEW t \in DOMAIN transfer,
               LoanTransferEnds(t) \/ LoanTransferHeard(t)
        PROVE  UNCHANGED budget \/ Spend("transferFailed")
    BY <2>4 DEF LoanTransferEnds, LoanTransferHeard
  <2>5. CASE LoanWalletUsed \/ LoanCrash
    BY <2>5 DEF LoanWalletUsed, LoanCrash, LoanMishaps
  <2>6. CASE UNCHANGED loanVars
    BY <2>6 DEF loanVars
  <2>. QED  BY <2>1, <2>2, <2>3, <2>4, <2>5, <2>6 DEF LoanNext, LoanMishaps
<1>5. CASE LoanWalletUsed /\ Spend("spentElsewhere")
  BY <1>1, <1>5, BudgetSpent DEF LoanMishaps
<1>6. CASE UNCHANGED budget
  BY <1>6, BudgetSame
<1>7. ASSUME NEW f \in LoanMishaps \ {"spentElsewhere"}, Spend(f)
      PROVE  Budgets' /\ CountsDown
             /\ budget'["spentElsewhere"] = budget["spentElsewhere"]
  BY <1>1, <1>2, <1>7, BudgetSpent
<1>8. ASSUME NEW f \in LoanMishaps \ {"spentElsewhere"},
             NEW P \in BOOLEAN, Note(P, f)
      PROVE  Budgets' /\ CountsDown
             /\ budget'["spentElsewhere"] = budget["spentElsewhere"]
  BY <1>1, <1>3, <1>8, BudgetNoted
<1>. QED  BY <1>4, <1>5, <1>6, <1>7, <1>8

\* A sold order stays sold, and a transfer is only ever added, of such an order.
LEMMA LoanTransfersNext ==
    ASSUME LoanFlow, LoanNext
    PROVE  /\ \A l \in Loans : sales[l].at = "sold" => sales'[l].at = "sold"
           /\ \/ /\ DOMAIN transfer' = DOMAIN transfer
                 /\ \A t \in DOMAIN transfer : transfer'[t].loan = transfer[t].loan
              \/ \E l \in Loans : LoanPay(l) /\
                    transfer' = Append(transfer, [loan |-> l, at |-> "open",
                                                  heard |-> FALSE])
<1>. USE DEF LoanFlow
<1>1. ASSUME NEW l \in Loans, sales[l].tries > 0, LoanThrows(l)
      PROVE  \A k \in Loans : sales'[k].at = sales[k].at
  BY <1>1, LoanThrowsRow
<1>2. ASSUME NEW l \in Loans, Handled(l)
      PROVE  \A k \in Loans : sales'[k].at = sales[k].at
  BY <1>2 DEF Handled, LoanWork, SaleRows
<1>3. ASSUME NEW l \in Loans,
             \/ LoanQuote(l) \/ LoanConfirm(l) \/ LoanRecord(l) \/ LoanGiveUp(l)
      PROVE  UNCHANGED <<sales, transfer>>
  BY <1>3 DEF LoanQuote, LoanConfirm, LoanRecord, LoanGiveUp
<1>4. ASSUME NEW l \in Loans,
             LoanPost(l) \/ LoanOrderEnds(l) \/ LoanEventAgain(l)
      PROVE  /\ UNCHANGED transfer
             /\ \A k \in Loans : sales[k].at = "sold" => sales'[k].at = "sold"
  <2>1. LoanFollows(l)
    OBVIOUS
  <2>2. CASE LoanPost(l)
    BY <2>1, <2>2 DEF LoanPost, LoanFollows, LoanWork, SaleRows
  <2>3. CASE LoanOrderEnds(l)
    BY <2>3 DEF LoanOrderEnds, LoanWork, SaleRows
  <2>4. CASE LoanEventAgain(l)
    BY <2>4 DEF LoanEventAgain, LoanWork, SaleRows
  <2>. QED  BY <1>4, <2>2, <2>3, <2>4
<1>5. ASSUME NEW l \in Loans, LoanWebhook(l) \/ LoanLock(l) \/ LoanCommit(l)
      PROVE  /\ UNCHANGED transfer
             /\ \A k \in Loans : sales'[k].at = sales[k].at
  BY <1>5, <1>1, <1>2 DEF LoanWebhook, LoanLock, LoanCommit, LoanFollows, Under
<1>6. ASSUME NEW l \in Loans, LoanPay(l)
      PROVE  /\ \A k \in Loans : sales'[k].at = sales[k].at
             /\ transfer' # transfer =>
                  transfer' = Append(transfer, [loan |-> l, at |-> "open",
                                                heard |-> FALSE])
  BY <1>6, <1>1, LoanPayFollows DEF LoanPay, LoanFollows, Under
<1>7. ASSUME NEW t \in DOMAIN transfer,
             LoanTransferEnds(t) \/ LoanTransferHeard(t)
      PROVE  /\ UNCHANGED sales
             /\ DOMAIN transfer' = DOMAIN transfer
             /\ \A u \in DOMAIN transfer : transfer'[u].loan = transfer[u].loan
  <2>1. transfer[t] \in Transfers
    BY DEF LoanWork
  <2>. QED
    BY <1>7, <2>1 DEF LoanTransferEnds, LoanTransferHeard, Transfers
<1>8. ASSUME LoanWalletUsed \/ LoanCrash
      PROVE  UNCHANGED <<sales, transfer>>
  BY <1>8 DEF LoanWalletUsed, LoanCrash
<1>. QED  BY <1>3, <1>4, <1>5, <1>6, <1>7, <1>8 DEF LoanNext

\* Paystack's transfers are of orders that were sold.
PaidOfSold == \A t \in DOMAIN transfer : sales[transfer[t].loan].at = "sold"

LEMMA LoanTransferOf ==
    ASSUME LoanFlow
    PROVE  \A t \in DOMAIN transfer : /\ transfer[t].loan \in Loans
                                       /\ t \in Nat \ {0} /\ t <= Len(transfer)
<1>. TAKE t \in DOMAIN transfer
<1>1. transfer \in Seq(Transfers)
  BY DEF LoanFlow, LoanWork
<1>2. transfer[t] \in Transfers /\ t \in 1..Len(transfer)
  BY <1>1
<1>. QED  BY <1>1, <1>2 DEF Transfers

LEMMA PaidOfSoldNext ==
    LoanFlow /\ PaidOfSold /\ [LoanNext]_loanVars => PaidOfSold'
<1>. SUFFICES ASSUME LoanFlow, PaidOfSold, [LoanNext]_loanVars
              PROVE  PaidOfSold'
  OBVIOUS
<1>1. CASE UNCHANGED loanVars
  BY <1>1 DEF loanVars, PaidOfSold
<1>2. ASSUME LoanNext,
             DOMAIN transfer' = DOMAIN transfer,
             \A t \in DOMAIN transfer : transfer'[t].loan = transfer[t].loan
      PROVE  PaidOfSold'
  BY LoanTransferOf, <1>2, LoanTransfersNext DEF PaidOfSold
<1>3. ASSUME LoanNext, NEW l \in Loans, LoanPay(l),
             transfer' = Append(transfer, [loan |-> l, at |-> "open",
                                           heard |-> FALSE])
      PROVE  PaidOfSold'
  <2>1. sales[l].at = "sold"
    BY <1>3 DEF LoanPay, LoanFlow, LoanFollows, Under
  <2>2. /\ DOMAIN transfer' = DOMAIN transfer \cup {Len(transfer) + 1}
        /\ \A t \in DOMAIN transfer : transfer'[t] = transfer[t]
        /\ transfer'[Len(transfer) + 1].loan = l
    BY <1>3 DEF LoanFlow, LoanWork
  <2>3. \A t \in DOMAIN transfer : transfer[t].loan \in Loans
    BY LoanTransferOf
  <2>. QED  BY <1>3, <2>1, <2>2, <2>3, LoanTransfersNext DEF PaidOfSold
<1>. QED  BY <1>1, <1>2, <1>3, LoanTransfersNext

\* Only the commit of its transaction gives a loan its transfer.
LEMMA LoanRowsNext ==
    ASSUME LoanFlow, LoanNext, \A l \in Loans : ~LoanCommit(l)
    PROVE  \A l \in Loans : loan'[l].transfer = loan[l].transfer
<1>. USE DEF LoanFlow, LoanWork
<1>1. ASSUME NEW l \in Loans, LoanRecord(l)
      PROVE  \A k \in Loans : loan'[k].transfer = loan[k].transfer
  <2>1. loan' = [loan EXCEPT ![l].known = TRUE] \/ loan' = loan
    BY <1>1 DEF LoanRecord
  <2>2. ASSUME loan' = [loan EXCEPT ![l].known = TRUE]
        PROVE  \A k \in Loans : loan'[k].transfer = loan[k].transfer
    BY <2>2 DEF LoanRows
  <2>. QED  BY <2>1, <2>2
<1>2. ASSUME NEW l \in Loans, LoanConfirm(l) \/ LoanGiveUp(l)
      PROVE  \A k \in Loans : loan'[k].transfer = loan[k].transfer
  <2>1. \/ loan' = [loan EXCEPT ![l].status = "PENDING"]
        \/ loan' = [loan EXCEPT ![l].status = "FAILED"]
    BY <1>2 DEF LoanConfirm, LoanGiveUp
  <2>2. CASE loan' = [loan EXCEPT ![l].status = "PENDING"]
    BY <2>2 DEF LoanRows
  <2>3. CASE loan' = [loan EXCEPT ![l].status = "FAILED"]
    BY <2>3 DEF LoanRows
  <2>. QED  BY <2>1, <2>2, <2>3
<1>3. ASSUME NEW l \in Loans, LoanWebhook(l)
      PROVE  \A k \in Loans : loan'[k].transfer = loan[k].transfer
  <2>1. loan' = [loan EXCEPT ![l].status = "FAILED"] \/ UNCHANGED loan
    BY <1>3 DEF LoanWebhook
  <2>2. CASE loan' = [loan EXCEPT ![l].status = "FAILED"]
    BY <2>2 DEF LoanRows
  <2>. QED  BY <2>1, <2>2
<1>4. ASSUME NEW t \in DOMAIN transfer, LoanTransferHeard(t)
      PROVE  \A k \in Loans : loan'[k].transfer = loan[k].transfer
  BY <1>4 DEF LoanTransferHeard, LoanRows
<1>5. ASSUME NEW l \in Loans,
             \/ LoanQuote(l) \/ LoanPost(l) \/ LoanOrderEnds(l)
             \/ LoanEventAgain(l) \/ LoanLock(l) \/ LoanPay(l)
      PROVE  UNCHANGED loan
  BY <1>5 DEF LoanQuote, LoanPost, LoanOrderEnds, LoanEventAgain, LoanLock, LoanPay
<1>6. ASSUME NEW t \in DOMAIN transfer, LoanTransferEnds(t)
      PROVE  UNCHANGED loan
  BY <1>6 DEF LoanTransferEnds
<1>7. LoanWalletUsed \/ LoanCrash => UNCHANGED loan
  BY DEF LoanWalletUsed, LoanCrash
<1>. QED  BY <1>1, <1>2, <1>3, <1>4, <1>5, <1>6, <1>7 DEF LoanNext

\* Without the mishaps that undo a transaction whose request Paystack has
\* followed, a loan's only transfer is the one its row names, or the one that
\* its transaction under way is about to write there.
Unsettling == {"timeout", "lostAnswer", "crash"}
PaidByRow ==
    Untouched(Unsettling) =>
      \A t \in DOMAIN transfer : \A l \in Loans :
        transfer[t].loan = l => \/ t = loan[l].transfer
                                \/ paying.loan = l /\ t = paying.transfer

LEMMA PaidByRowNext ==
    LoanFlow /\ Budgets /\ PaidByRow /\ [LoanNext]_loanVars => PaidByRow'
<1>. SUFFICES ASSUME LoanFlow, Budgets, PaidByRow, [LoanNext]_loanVars,
                     Untouched(Unsettling)'
              PROVE  \A t \in DOMAIN transfer' : \A l \in Loans :
                       transfer'[t].loan = l => \/ t = loan'[l].transfer
                                                \/ /\ paying'.loan = l
                                                   /\ t = paying'.transfer
  BY DEF PaidByRow
<1>1. Unsettling \in SUBSET Kinds
  BY LoanAssumption DEF Unsettling
<1>2. Untouched(Unsettling)
  BY <1>1, LoanBudgetNext, UntouchedBack
<1>3. ASSUME NEW t \in DOMAIN transfer, NEW l \in Loans, transfer[t].loan = l
      PROVE  t = loan[l].transfer \/ (paying.loan = l /\ t = paying.transfer)
  BY <1>2, <1>3 DEF PaidByRow
<1>4. \A f \in Unsettling : ~Spend(f)
  BY <1>1, BudgetSpent
<1> DEFINE Kept == /\ DOMAIN transfer' = DOMAIN transfer
                   /\ \A t \in DOMAIN transfer : transfer'[t].loan = transfer[t].loan
                   /\ \A l \in Loans : loan'[l].transfer = loan[l].transfer
<1>5. ASSUME Kept, UNCHANGED paying
      PROVE  \A t \in DOMAIN transfer' : \A l \in Loans :
               transfer'[t].loan = l => \/ t = loan'[l].transfer
                                        \/ /\ paying'.loan = l
                                           /\ t = paying'.transfer
  BY <1>3, <1>5
<1>6. ASSUME NEW l \in Loans,
             \/ LoanQuote(l) \/ LoanConfirm(l) \/ LoanPost(l)
             \/ LoanRecord(l) \/ LoanGiveUp(l)
             \/ LoanOrderEnds(l) \/ LoanEventAgain(l) \/ LoanWebhook(l)
      PROVE  UNCHANGED <<transfer, paying>>
  BY <1>6 DEF LoanQuote, LoanConfirm, LoanPost, LoanRecord, LoanGiveUp, LoanOrderEnds,
    LoanEventAgain, LoanWebhook
<1>7. ASSUME NEW l \in Loans, LoanLock(l)
      PROVE  /\ UNCHANGED transfer
             /\ \/ UNCHANGED paying
                \/ paying = NoOne /\ paying' = [loan |-> l, transfer |-> 0]
  BY <1>7 DEF LoanLock
<1>8. ASSUME NEW l \in Loans, paying = NoOne, Kept
      PROVE  \A t \in DOMAIN transfer' : \A k \in Loans :
               transfer'[t].loan = k => t = loan'[k].transfer
  BY <1>3, <1>8, NoOnePaying
<1>9. ASSUME NEW l \in Loans, LoanPay(l)
      PROVE  \A t \in DOMAIN transfer' : \A k \in Loans :
               transfer'[t].loan = k => \/ t = loan'[k].transfer
                                        \/ /\ paying'.loan = k
                                           /\ t = paying'.transfer
  <2>1. paying = [loan |-> l, transfer |-> 0] /\ UNCHANGED loan
    BY <1>9 DEF LoanPay
  <2>2. ASSUME NEW t \in DOMAIN transfer PROVE t = loan[transfer[t].loan].transfer
    BY LoanTransferOf, <1>3, <2>1
  <2>3. loan[l].transfer = 0
    BY <2>1 DEF LoanFlow, LoanFollows, Under
  <2>4. CASE transfer' = transfer
    BY <2>1, <2>2, <2>4
  <2>5. CASE transfer' # transfer
    <3> DEFINE sent == Append(transfer, [loan |-> l, at |-> "open",
                                         heard |-> FALSE])
    <3>1. /\ transfer' = sent /\ paying' = [paying EXCEPT !.transfer = Len(sent)]
      BY <1>4, <1>9, <2>5 DEF LoanPay, Unsettling
    <3>2. /\ DOMAIN sent = DOMAIN transfer \cup {Len(transfer) + 1}
          /\ Len(sent) = Len(transfer) + 1
          /\ \A t \in DOMAIN transfer : sent[t] = transfer[t]
          /\ sent[Len(transfer) + 1].loan = l
      BY DEF LoanFlow, LoanWork
    <3>3. paying'.loan = l /\ paying'.transfer = Len(transfer) + 1
      <4>. HIDE DEF sent
      <4>. QED  BY <2>1, <3>1, <3>2
    <3>. HIDE DEF sent
    <3>. QED  BY <2>1, <2>2, <3>1, <3>2, <3>3
  <2>. QED  BY <2>4, <2>5
<1>10. ASSUME NEW l \in Loans, LoanCommit(l)
       PROVE  \A t \in DOMAIN transfer' : \A k \in Loans :
                transfer'[t].loan = k => t = loan'[k].transfer
  <2>1. /\ loan' = [loan EXCEPT ![l].status = "PAYSTACK_COMPLETED",
                                ![l].transfer = paying.transfer]
        /\ paying.loan = l /\ UNCHANGED transfer
    BY <1>4, <1>10 DEF LoanCommit, Unsettling
  <2>2. /\ loan'[l].transfer = paying.transfer
        /\ \A k \in Loans \ {l} : loan'[k] = loan[k]
    BY <2>1 DEF LoanFlow, LoanWork, LoanRows
  <2>3. loan[l].transfer = 0
    BY <2>1 DEF LoanFlow, LoanFollows, Under
  <2>4. \A t \in DOMAIN transfer : t # 0
    BY LoanTransferOf
  <2>5. ASSUME NEW t \in DOMAIN transfer, NEW k \in Loans, transfer[t].loan = k
        PROVE  t = loan'[k].transfer
    <3>1. t = loan[k].transfer \/ (paying.loan = k /\ t = paying.transfer)
      BY <1>3, <2>5
    <3>2. t # 0
      BY <2>4
    <3>3. CASE k = l
      BY <2>2, <2>3, <3>1, <3>2, <3>3
    <3>4. CASE k # l
      BY <2>1, <2>2, <3>1, <3>4
    <3>. QED  BY <3>3, <3>4
  <2>. QED  BY <2>1, <2>5
<1>11. ASSUME NEW t \in DOMAIN transfer,
              LoanTransferEnds(t) \/ LoanTransferHeard(t)
       PROVE  /\ UNCHANGED paying /\ DOMAIN transfer' = DOMAIN transfer
              /\ \A u \in DOMAIN transfer : transfer'[u].loan = transfer[u].loan
  <2>1. transfer[t] \in Transfers
    BY DEF LoanFlow, LoanWork
  <2>. QED
    BY <1>11, <2>1 DEF LoanTransferEnds, LoanTransferHeard, Transfers
<1>12. CASE LoanWalletUsed \/ UNCHANGED loanVars
  BY <1>5, <1>12 DEF LoanWalletUsed, loanVars
<1>13. ~LoanCrash
  BY <1>4 DEF LoanCrash, Unsettling
<1>14. CASE LoanNext /\ \A l \in Loans : ~LoanCommit(l)
  BY <1>14, LoanRowsNext, <1>5, <1>6, <1>7, <1>8, <1>9, <1>11, <1>12, <1>13 DEF LoanNext
<1>. QED  BY <1>10, <1>12, <1>14

\* Unless an answer is lost or cannot be written down, a request that has
\* failed has placed no order, and a loan that failed without a transfer none
\* that was sold.
Unwritten == {"lostAnswer", "error"}
Unsold(l) ==
    /\ asking[l] = "failed" => sales[l].at = "none"
    /\ loan[l].status = "FAILED" /\ loan[l].transfer = 0 =>
         sales[l].at \in {"none", "cancelled"}
FailedUnsold == Untouched(Unwritten) => \A l \in Loans : Unsold(l)

LEMMA UnsoldSame ==
    ASSUME NEW k \in Loans, Unsold(k), LoanSame(k)
    PROVE  Unsold(k)'
BY DEF Unsold, LoanSame

LEMMA UnsoldStep ==
    ASSUME LoanFlow, NEW l \in Loans, Unsold(l), \A f \in Unwritten : ~Spend(f),
           \/ LoanQuote(l) \/ LoanConfirm(l) \/ LoanPost(l)
           \/ LoanRecord(l) \/ LoanGiveUp(l)
           \/ LoanOrderEnds(l) \/ LoanEventAgain(l)
           \/ LoanWebhook(l) \/ LoanLock(l) \/ LoanPay(l) \/ LoanCommit(l)
    PROVE  Unsold(l)'
<1>. LoanWork /\ LoanFollows(l)
  BY DEF LoanFlow
<1>1. loan[l] \in LoanRows /\ sales[l] \in SaleRows
  BY DEF LoanWork
<1>2. ASSUME sales[l].tries > 0, LoanThrows(l) PROVE sales'[l].at = sales[l].at
  BY <1>2, LoanThrowsRow
<1>3. ASSUME Handled(l) PROVE sales'[l].at = sales[l].at
  BY <1>1, <1>3 DEF Handled, LoanWork, SaleRows
<1>4. CASE LoanQuote(l) \/ LoanConfirm(l)
  <2>1. sales'[l] = sales[l] /\ asking'[l] # "failed"
    BY <1>4 DEF LoanQuote, LoanConfirm, SetAsking, LoanWork
  <2>2. CASE loan' = loan
    BY <2>1, <2>2 DEF Unsold
  <2>3. CASE loan' = [loan EXCEPT ![l].status = "PENDING"]
    BY <1>1, <2>3, <2>1 DEF LoanWork, LoanRows, Unsold
  <2>. QED  BY <1>4, <2>2, <2>3 DEF LoanQuote, LoanConfirm
<1>5. CASE LoanPost(l)
  BY <1>5 DEF LoanPost, LoanFollows, Unwritten, SetAsking, LoanWork, Unsold
<1>6. CASE LoanRecord(l)
  BY <1>6, <1>1 DEF LoanRecord, Unwritten, LoanWork, LoanRows, Unsold, SetAsking
<1>7. CASE LoanGiveUp(l)
  BY <1>7 DEF LoanGiveUp, Unsold, SetAsking, LoanWork
<1>8. CASE LoanOrderEnds(l) \/ LoanEventAgain(l)
  BY <1>8, <1>1 DEF LoanOrderEnds, LoanEventAgain, LoanWork, SaleRows, Unsold
<1>9. CASE LoanWebhook(l)
  BY <1>9, <1>2, <1>3 DEF LoanWebhook, LoanFollows, Unsold
<1>10. CASE LoanLock(l) \/ LoanPay(l)
  BY <1>10, <1>2 DEF LoanLock, LoanPay, LoanFollows, Unsold, Under
<1>11. CASE LoanCommit(l)
  BY <1>11, <1>2, <1>3, <1>1 DEF LoanCommit, LoanFollows, LoanWork, LoanRows, Unsold, Under
<1>. QED  BY <1>4, <1>5, <1>6, <1>7, <1>8, <1>9, <1>10, <1>11

LEMMA FailedUnsoldNext ==
    LoanFlow /\ Budgets /\ FailedUnsold /\ [LoanNext]_loanVars => FailedUnsold'
<1>. SUFFICES ASSUME LoanFlow, Budgets, FailedUnsold, [LoanNext]_loanVars,
                     Untouched(Unwritten)'
              PROVE  \A l \in Loans : Unsold(l)'
  BY DEF FailedUnsold
<1>1. Unwritten \in SUBSET Kinds
  BY LoanAssumption DEF Unwritten
<1>2. \A l \in Loans : Unsold(l)
  BY <1>1, LoanBudgetNext, UntouchedBack DEF FailedUnsold
<1>3. \A f \in Unwritten : ~Spend(f)
  BY <1>1, BudgetSpent
<1>4. ASSUME NEW l \in Loans,
             \/ LoanQuote(l) \/ LoanConfirm(l) \/ LoanPost(l)
             \/ LoanRecord(l) \/ LoanGiveUp(l)
             \/ LoanOrderEnds(l) \/ LoanEventAgain(l)
             \/ LoanWebhook(l) \/ LoanLock(l) \/ LoanPay(l) \/ LoanCommit(l)
      PROVE  \A k \in Loans : Unsold(k)'
  <2>1. LoanOnly(l)
    BY <1>4, LoanRequestFollows, LoanOrderFollows, LoanWebhookFollows, LoanLockFollows,
      LoanPayFollows, LoanCommitFollows DEF LoanFlow
  <2>2. Unsold(l)'
    BY <1>2, <1>3, <1>4, UnsoldStep
  <2>. QED  BY <1>2, <2>1, <2>2, UnsoldSame DEF LoanOnly
<1>5. ASSUME NEW t \in DOMAIN transfer,
             LoanTransferEnds(t) \/ LoanTransferHeard(t), NEW k \in Loans
      PROVE  Unsold(k)'
  <2>1. t # 0
    BY LoanTransferOf
  <2>2. UNCHANGED <<asking, sales>>
    BY <1>5 DEF LoanTransferEnds, LoanTransferHeard
  <2>3. /\ loan'[k].transfer = loan[k].transfer
        /\ loan'[k].status # loan[k].status => loan[k].transfer = t
    <3>1. CASE LoanTransferEnds(t)
      BY <3>1 DEF LoanTransferEnds
    <3>2. CASE LoanTransferHeard(t)
      BY <3>2 DEF LoanTransferHeard, LoanFlow, LoanWork, LoanRows
    <3>. QED  BY <1>5, <3>1, <3>2
  <2>. QED  BY <1>2, <2>1, <2>2, <2>3 DEF Unsold
<1>6. CASE LoanWalletUsed \/ LoanCrash \/ UNCHANGED loanVars
  BY <1>2, <1>6 DEF LoanWalletUsed, LoanCrash, loanVars, Unsold
<1>. QED  BY <1>4, <1>5, <1>6 DEF LoanNext

\* The wallet and the company's books, as sums over the loans settled.
LoansSold == SumFunctionOnSet([l \in Loans |-> Pledge(l)], LoanSettled)
LoansKept == SumFunctionOnSet([l \in Loans |-> KeptOf(l)], LoanSettled)
TakenElsewhere ==
    Elsewhere * (Budget["spentElsewhere"] - budget["spentElsewhere"])

LoanMoney ==
    /\ collateral \in [base : Nat, kept : Nat]
    /\ coLoan \in [crypto : Int, naira : Nat]
    /\ collateral = [base |-> CollateralBase - LoansSold - TakenElsewhere,
                     kept |-> LoansKept]
    /\ coLoan.crypto + LoansSold \in CryptoInternal
    /\ coLoan.naira = LoansSold * Rate

\* What the transaction that has the rows is about to take of the wallet is there.
PayingCovered == \A l \in Loans : paying.loan = l => collateral.base >= Pledge(l)

\* Of the company's books too, as long as no two transactions were under way.
LoansAlone ==
    Untouched({"raced"}) =>
      /\ coLoan.crypto >= 0
      /\ \A l \in Loans : Under(l) => /\ coLoan.crypto >= Pledge(l)
                                      /\ \A k \in Loans : Under(k) => k = l

LEMMA LoanAmounts ==
    ASSUME NEW l \in Loans
    PROVE  Pledge(l) \in Nat /\ KeptOf(l) \in Nat
  BY LoanAssumption DEF Pledge, KeptOf

LEMMA LoanSums == LoansSold \in Nat /\ LoansKept \in Nat
<1>1. LoanSettled \subseteq Loans /\ IsFiniteSet(LoanSettled)
  BY LoanAssumption, FS_Subset DEF LoanSettled
<1> DEFINE sold == [l \in Loans |-> Pledge(l)]
           kept == [l \in Loans |-> KeptOf(l)]
<1>2. \A l \in LoanSettled : sold[l] \in Nat /\ kept[l] \in Nat
  BY <1>1, LoanAmounts
<1>3. SumFunctionOnSet(sold, LoanSettled) \in Nat
  <2>. HIDE DEF sold, kept
  <2>. QED  BY <1>1, <1>2, SumNatural
<1>4. SumFunctionOnSet(kept, LoanSettled) \in Nat
  <2>. HIDE DEF sold, kept
  <2>. QED  BY <1>1, <1>2, SumNatural
<1>. QED  BY <1>3, <1>4 DEF LoansSold, LoansKept

\* A loan is settled: both sums grow by what it takes.
LEMMA LoanSumsAdd ==
    ASSUME NEW l \in Loans, l \notin LoanSettled,
           LoanSettled' = LoanSettled \cup {l}
    PROVE  /\ LoansSold' = LoansSold + Pledge(l)
           /\ LoansKept' = LoansKept + KeptOf(l)
<1>1. LoanSettled \subseteq Loans /\ IsFiniteSet(LoanSettled)
  BY LoanAssumption, FS_Subset DEF LoanSettled
<1> DEFINE sold == [k \in Loans |-> Pledge(k)]
           kept == [k \in Loans |-> KeptOf(k)]
<1>2. /\ \A k \in LoanSettled \cup {l} : sold[k] \in Int /\ kept[k] \in Int
      /\ sold[l] = Pledge(l) /\ kept[l] = KeptOf(l)
  BY <1>1, LoanAmounts
<1>3. /\ SumFunctionOnSet(sold, LoanSettled \cup {l})
           = sold[l] + SumFunctionOnSet(sold, LoanSettled)
      /\ SumFunctionOnSet(kept, LoanSettled \cup {l})
           = kept[l] + SumFunctionOnSet(kept, LoanSettled)
  <2>. HIDE DEF sold, kept
  <2>. QED  BY <1>1, <1>2, SumAdd
<1>4. /\ LoansSold = SumFunctionOnSet(sold, LoanSettled)
      /\ LoansKept = SumFunctionOnSet(kept, LoanSettled)
      /\ LoansSold' = SumFunctionOnSet(sold, LoanSettled \cup {l})
      /\ LoansKept' = SumFunctionOnSet(kept, LoanSettled \cup {l})
  BY DEF LoansSold, LoansKept, Pledge, KeptOf
<1>5. LoansSold \in Nat /\ LoansKept \in Nat /\ Pledge(l) \in Nat /\ KeptOf(l) \in Nat
  BY LoanSums, LoanAmounts
<1>. HIDE DEF sold, kept
<1>. QED  BY <1>2, <1>3, <1>4, <1>5

LEMMA LoanMoneySame ==
    ASSUME LoanMoney, UNCHANGED <<collateral, coLoan>>,
           LoanSettled' = LoanSettled,
           budget'["spentElsewhere"] = budget["spentElsewhere"]
    PROVE  LoanMoney'
  BY DEF LoansSold, LoansKept, TakenElsewhere, Pledge, KeptOf, LoanMoney

LEMMA LoanMoneyInit ==
    LoanInit /\ budget = Budget => LoanMoney /\ PayingCovered /\ LoansAlone
<1>. SUFFICES ASSUME LoanInit, budget = Budget
              PROVE  LoanMoney /\ PayingCovered /\ LoansAlone
  OBVIOUS
<1>1. LoanSettled = {}
  BY DEF LoanInit, LoanSettled
<1>2. LoansSold = 0 /\ LoansKept = 0
  BY <1>1, SumEmpty DEF LoansSold, LoansKept
<1>3. TakenElsewhere = 0
  BY LoanAssumption, MishapsAssumption DEF TakenElsewhere
<1>4. LoanMoney
  <2>1. coLoan.crypto \in CryptoInternal /\ coLoan.naira = 0
        /\ coLoan = [crypto |-> coLoan.crypto, naira |-> 0]
    BY DEF LoanInit
  <2>2. /\ coLoan \in [crypto : Int, naira : Nat]
        /\ coLoan.crypto + LoansSold \in CryptoInternal
        /\ coLoan.naira = LoansSold * Rate
    BY <1>2, <2>1, LoanAssumption
  <2>. QED  BY <1>2, <1>3, <2>2, LoanAssumption DEF LoanInit, LoanMoney
<1>. QED  BY <1>4, LoanAssumption, NoOnePaying DEF LoanInit, LoanMoney, PayingCovered, LoansAlone,
  Under

LEMMA LoanCommitMoney ==
    ASSUME LoanFlow, Budgets, LoanMoney, PayingCovered, NEW l \in Loans,
           LoanCommit(l)
    PROVE  LoanMoney' /\ PayingCovered'
<1>1. PayingCovered'
  BY NoOnePaying DEF LoanCommit, PayingCovered
<1>2. /\ collateral.base >= Pledge(l)
      /\ loan[l].transfer = 0 /\ loan[l] \in LoanRows
      /\ paying.transfer # 0 /\ paying.loan = l
  BY DEF LoanCommit, PayingCovered, LoanFlow, LoanFollows, LoanWork, Under
<1>3. CASE Spend("timeout") /\ UNCHANGED <<collateral, coLoan, loan>>
  BY <1>3, <1>1, LoanMoneySame DEF Spend, LoanSettled
<1>4. CASE /\ collateral' = [base |-> collateral.base - Pledge(l),
                             kept |-> collateral.kept + KeptOf(l)]
           /\ coLoan' = [crypto |-> coLoan.crypto - Pledge(l),
                         naira |-> coLoan.naira + Pledge(l) * Rate]
           /\ loan' = [loan EXCEPT ![l].status = "PAYSTACK_COMPLETED",
                                   ![l].transfer = paying.transfer]
           /\ UNCHANGED budget
  <2>1. LoanSettled' = LoanSettled \cup {l} /\ l \notin LoanSettled
    BY <1>2, <1>4 DEF LoanFlow, LoanWork, LoanRows, LoanSettled
  <2>2. /\ LoansSold' = LoansSold + Pledge(l)
        /\ LoansKept' = LoansKept + KeptOf(l)
    BY <2>1, LoanSumsAdd
  <2>3. TakenElsewhere' = TakenElsewhere
    BY <1>4 DEF TakenElsewhere
  <2>4. /\ Pledge(l) \in Nat /\ KeptOf(l) \in Nat /\ Rate \in Nat
        /\ LoansSold \in Nat /\ LoansKept \in Nat
        /\ CollateralBase \in Nat
    BY LoanAmounts, LoanSums, LoanAssumption
  <2>5. TakenElsewhere \in Int
    BY LoanAssumption, MishapsAssumption DEF TakenElsewhere, Budgets
  <2>6. /\ collateral.base \in Nat /\ collateral.kept \in Nat
        /\ coLoan.crypto \in Int /\ coLoan.naira \in Nat
        /\ collateral.base >= Pledge(l)
    BY <1>2 DEF LoanMoney
  <2>7. /\ collateral.base = CollateralBase - LoansSold - TakenElsewhere
        /\ collateral.kept = LoansKept
        /\ coLoan.crypto + LoansSold \in CryptoInternal
        /\ coLoan.naira = LoansSold * Rate
    BY DEF LoanMoney
  <2> DEFINE P == Pledge(l)
             K == KeptOf(l)
             S == LoansSold
             T == TakenElsewhere
  <2>8. (S + P) * Rate = S * Rate + P * Rate
    <3>1. P \in Nat /\ S \in Nat /\ Rate \in Nat
      BY <2>4
    <3>. HIDE DEF P, S
    <3>. QED  BY <3>1
  <2>9. P * Rate \in Nat
    BY <2>4
  <2>10. /\ collateral.base - P \in Nat /\ collateral.kept + K \in Nat
         /\ coLoan.crypto - P \in Int /\ coLoan.naira + P * Rate \in Nat
    <3>1. P \in Nat /\ K \in Nat /\ collateral.base >= P
      BY <2>4, <2>6
    <3>. HIDE DEF P, K
    <3>. QED  BY <2>6, <2>9, <3>1
  <2>11. /\ collateral.base - P = CollateralBase - (S + P) - T
         /\ collateral.kept + K = LoansKept + K
         /\ (coLoan.crypto - P) + (S + P) = coLoan.crypto + S
         /\ coLoan.naira + P * Rate = (S + P) * Rate
    <3>1. /\ P \in Nat /\ S \in Nat /\ T \in Int
          /\ collateral.base = CollateralBase - S - T
          /\ coLoan.crypto \in Int /\ coLoan.naira = S * Rate
      BY <2>4, <2>5, <2>6, <2>7
    <3>. HIDE DEF P, S, T
    <3>. QED  BY <2>4, <2>7, <2>8, <3>1
  <2>12. /\ LoansSold' = S + P /\ LoansKept' = LoansKept + K
         /\ TakenElsewhere' = T
    BY <2>2, <2>3
  <2>13. /\ collateral' = [base |-> collateral.base - P,
                           kept |-> collateral.kept + K]
         /\ coLoan' = [crypto |-> coLoan.crypto - P,
                       naira |-> coLoan.naira + P * Rate]
    BY <1>4
  <2>14. LoanMoney'
    <3>1. coLoan.crypto + S \in CryptoInternal
      BY <2>7
    <3>. HIDE DEF P, K, S, T
    <3>. QED  BY <2>10, <2>11, <2>12, <2>13, <3>1 DEF LoanMoney
  <2>. QED  BY <1>1, <2>14
<1>. QED  BY <1>3, <1>4 DEF LoanCommit

LEMMA LoanUsedMoney ==
    ASSUME Budgets, LoanMoney, LoanWalletUsed
    PROVE  LoanMoney' /\ PayingCovered'
<1>1. PayingCovered'
  BY NoOnePaying DEF LoanWalletUsed, PayingCovered
<1>2. LoansSold' = LoansSold /\ LoansKept' = LoansKept
  BY DEF LoanWalletUsed, LoansSold, LoansKept, LoanSettled, Pledge, KeptOf
<1> DEFINE E == Elsewhere
           B == Budget["spentElsewhere"]
           b == budget["spentElsewhere"]
<1>3. /\ E \in Nat /\ B \in Nat /\ b \in Nat
      /\ budget'["spentElsewhere"] = b - 1
  BY LoanAssumption, MishapsAssumption DEF LoanWalletUsed, Spend, Budgets
<1>4. E * (B - (b - 1)) = E * (B - b) + E /\ E * (B - b) \in Int
  <2>. HIDE DEF E, B, b
  <2>. QED  BY <1>3
<1>5. TakenElsewhere' = TakenElsewhere + E /\ TakenElsewhere \in Int
  <2>1. /\ TakenElsewhere = E * (B - b)
        /\ TakenElsewhere' = E * (B - budget'["spentElsewhere"])
    BY DEF TakenElsewhere
  <2>2. TakenElsewhere' = E * (B - (b - 1))
    BY <1>3, <2>1
  <2>. HIDE DEF E, B, b
  <2>. QED  BY <1>4, <2>1, <2>2
<1>6. LoansSold \in Nat /\ CollateralBase \in Nat
  BY LoanSums, LoanAssumption
<1>7. /\ collateral' = [base |-> collateral.base - E, kept |-> collateral.kept]
      /\ collateral.base \in Nat /\ collateral.kept \in Nat
      /\ collateral.base >= E /\ UNCHANGED coLoan
      /\ collateral.base = CollateralBase - LoansSold - TakenElsewhere
  BY DEF LoanWalletUsed, LoanMoney
<1>8. /\ collateral.base - E \in Nat
      /\ collateral.base - E = CollateralBase - LoansSold - TakenElsewhere'
  <2>. HIDE DEF E, B, b
  <2>. QED  BY <1>3, <1>5, <1>6, <1>7
<1>9. LoanMoney'
  <2>. HIDE DEF E, B, b
  <2>. QED  BY <1>2, <1>7, <1>8 DEF LoanMoney
<1>. QED  BY <1>1, <1>9

LEMMA LoanMoneyNext ==
    LoanFlow /\ Budgets /\ LoanMoney /\ PayingCovered /\ [LoanNext]_loanVars
      => LoanMoney' /\ PayingCovered'
<1>. SUFFICES ASSUME LoanFlow, Budgets, LoanMoney, PayingCovered,
                     [LoanNext]_loanVars
              PROVE  LoanMoney' /\ PayingCovered'
  OBVIOUS
<1>1. ASSUME NEW l \in Loans, LoanCommit(l) PROVE LoanMoney' /\ PayingCovered'
  BY <1>1, LoanCommitMoney
<1>2. CASE LoanWalletUsed
  BY <1>2, LoanUsedMoney
<1>3. CASE UNCHANGED loanVars
  BY <1>3, LoanMoneySame DEF loanVars, LoanSettled, PayingCovered
<1>4. CASE LoanNext /\ ~LoanWalletUsed /\ \A l \in Loans : ~LoanCommit(l)
  <2>1. LoanSettled' = LoanSettled
    BY <1>4, LoanRowsNext DEF LoanSettled
  <2>2. ASSUME NEW l \in Loans,
               \/ LoanQuote(l) \/ LoanConfirm(l) \/ LoanPost(l)
               \/ LoanRecord(l) \/ LoanGiveUp(l)
               \/ LoanOrderEnds(l) \/ LoanEventAgain(l) \/ LoanWebhook(l)
        PROVE  UNCHANGED <<collateral, coLoan, paying>>
    BY <2>2 DEF LoanQuote, LoanConfirm, LoanPost, LoanRecord, LoanGiveUp, LoanOrderEnds,
      LoanEventAgain, LoanWebhook
  <2>3. ASSUME NEW l \in Loans, LoanLock(l)
        PROVE  /\ UNCHANGED <<collateral, coLoan>>
               /\ \/ UNCHANGED paying
                  \/ /\ collateral.base >= Pledge(l)
                     /\ paying' = [loan |-> l, transfer |-> 0]
    BY <2>3 DEF LoanLock
  <2>4. ASSUME NEW l \in Loans, LoanPay(l)
        PROVE  /\ UNCHANGED <<collateral, coLoan>>
               /\ paying' = NoOne \/ paying'.loan = paying.loan
    BY <2>4 DEF LoanPay
  <2>5. ASSUME NEW t \in DOMAIN transfer,
               LoanTransferEnds(t) \/ LoanTransferHeard(t)
        PROVE  UNCHANGED <<collateral, coLoan, paying>>
    BY <2>5 DEF LoanTransferEnds, LoanTransferHeard
  <2>6. ASSUME LoanCrash
        PROVE  UNCHANGED <<collateral, coLoan>> /\ paying' = NoOne
    BY <2>6 DEF LoanCrash
  <2>7. UNCHANGED <<collateral, coLoan>>
    BY <1>4, <2>2, <2>3, <2>4, <2>5, <2>6 DEF LoanNext
  <2>8. PayingCovered'
    BY <1>4, <2>2, <2>3, <2>4, <2>5, <2>6, <2>7, NoOnePaying DEF LoanNext, PayingCovered
  <2>9. budget'["spentElsewhere"] = budget["spentElsewhere"]
    BY <1>4, LoanBudgetNext
  <2>. QED  BY <2>1, <2>7, <2>8, <2>9, LoanMoneySame
<1>. QED  BY <1>1, <1>2, <1>3, <1>4

\* Whoever checks while another is under way leaves a note of it; the commit
\* takes no more than its own check found, and the next transaction checks after.
LEMMA LoansAloneNext ==
    LoanFlow /\ Budgets /\ LoanMoney /\ LoansAlone /\ [LoanNext]_loanVars
      => LoansAlone'
<1>. SUFFICES ASSUME LoanFlow, Budgets, LoanMoney, LoansAlone,
                     [LoanNext]_loanVars, Untouched({"raced"})'
              PROVE  LoansAlone'
  BY DEF LoansAlone
<1>1. /\ coLoan.crypto \in Int /\ coLoan.crypto >= 0
      /\ \A l \in Loans : Under(l) => /\ coLoan.crypto >= Pledge(l)
                                      /\ \A k \in Loans : Under(k) => k = l
  <2>1. Untouched({"raced"})
    BY LoanAssumption, LoanBudgetNext, UntouchedBack
  <2>. QED  BY <2>1 DEF LoansAlone, LoanMoney
<1>2. ASSUME UNCHANGED coLoan, \A l \in Loans : Under(l)' => Under(l)
      PROVE  LoansAlone'
  BY <1>1, <1>2 DEF LoansAlone, Pledge
<1>3. ASSUME NEW l \in Loans,
             \/ LoanQuote(l) \/ LoanConfirm(l) \/ LoanPost(l)
             \/ LoanRecord(l) \/ LoanGiveUp(l)
             \/ LoanOrderEnds(l) \/ LoanEventAgain(l)
      PROVE  LoansAlone'
  BY <1>2, <1>3 DEF LoanQuote, LoanConfirm, LoanPost, LoanRecord, LoanGiveUp, LoanOrderEnds,
    LoanEventAgain, Under
<1>4. ASSUME NEW l \in Loans, LoanWebhook(l) PROVE LoansAlone'
  <2>1. CASE UNCHANGED checked
    BY <1>2, <1>4, <2>1 DEF LoanWebhook, Under
  <2>2. CASE checked' # checked
    <3>1. /\ coLoan.crypto >= Pledge(l) /\ checked' = checked \cup {l}
          /\ Note(checked # {} \/ paying # NoOne, "raced")
          /\ UNCHANGED <<coLoan, paying>>
      BY <1>4, <2>2 DEF LoanWebhook
    <3>2. checked = {} /\ paying = NoOne
      BY <3>1, LoanAssumption DEF Note, NoteAll, Untouched
    <3>3. \A k \in Loans : Under(k)' => k = l
      BY <3>1, <3>2, NoOnePaying DEF Under
    <3>. QED  BY <1>1, <3>1, <3>3 DEF LoansAlone, Pledge
  <2>. QED  BY <2>1, <2>2
<1>5. ASSUME NEW l \in Loans, LoanLock(l) \/ LoanPay(l) PROVE LoansAlone'
  <2>1. CASE LoanLock(l)
    BY <1>2, <2>1 DEF LoanLock, Under
  <2>2. CASE LoanPay(l)
    BY <1>2, <2>2, NoOnePaying DEF LoanPay, Under
  <2>. QED  BY <1>5, <2>1, <2>2
<1>6. ASSUME NEW l \in Loans, LoanCommit(l) PROVE LoansAlone'
  <2>1. Under(l) /\ paying' = NoOne /\ UNCHANGED checked /\ l \notin checked
    BY <1>6 DEF LoanCommit, Under, LoanFlow, LoanFollows
  <2>2. \A k \in Loans : ~Under(k)'
    BY <1>1, <2>1, NoOnePaying DEF Under
  <2>3. coLoan' = coLoan \/ coLoan'.crypto = coLoan.crypto - Pledge(l)
    BY <1>6 DEF LoanCommit
  <2>4. coLoan'.crypto >= 0
    BY <1>1, <2>1, <2>3, LoanAmounts
  <2>. QED  BY <2>2, <2>4 DEF LoansAlone
<1>7. ASSUME NEW t \in DOMAIN transfer,
             LoanTransferEnds(t) \/ LoanTransferHeard(t)
      PROVE  LoansAlone'
  BY <1>2, <1>7 DEF LoanTransferEnds, LoanTransferHeard, Under
<1>8. CASE LoanWalletUsed \/ LoanCrash \/ UNCHANGED loanVars
  BY <1>2, <1>8, NoOnePaying DEF LoanWalletUsed, LoanCrash, loanVars, Under
<1>. QED  BY <1>3, <1>4, <1>5, <1>6, <1>7, <1>8 DEF LoanNext

\* The inductive invariant of urgent liquidity.
LoanInv == /\ LoanFlow /\ Budgets /\ PaidOfSold /\ PaidByRow /\ FailedUnsold
           /\ LoanMoney /\ PayingCovered /\ LoansAlone

LEMMA LoanInvInit == LoanInit /\ budget = Budget => LoanInv
<1>. SUFFICES ASSUME LoanInit, budget = Budget PROVE LoanInv
  OBVIOUS
<1>1. Budgets
  BY MishapsAssumption DEF Budgets
<1>2. PaidOfSold /\ PaidByRow /\ FailedUnsold
  BY DEF LoanInit, PaidOfSold, PaidByRow, FailedUnsold, Unsold
<1>. QED  BY <1>1, <1>2, LoanFlowInit, LoanMoneyInit DEF LoanInv

LEMMA LoanInvNext == LoanInv /\ [LoanNext]_loanVars => LoanInv'
BY LoanFlowNext, LoanBudgetNext, PaidOfSoldNext, PaidByRowNext, FailedUnsoldNext, LoanMoneyNext,
  LoansAloneNext DEF LoanInv

\* Types: the wallet and the company's naira stay above zero, and no job is
\* tried more often than it may be, whatever of the mishaps strikes.
THEOREM LoansTyped == LoanSpec => []LoanTypeOK
<1>1. LoanInv => LoanTypeOK
  <2>. SUFFICES ASSUME LoanInv PROVE LoanTypeOK
    OBVIOUS
  <2>1. LoanWork
    BY DEF LoanInv, LoanFlow
  <2>2. \A t \in DOMAIN transfer : transfer[t] \in Transfers
    BY <2>1 DEF LoanWork
  <2>3. collateral \in [base : Nat, kept : Nat] /\ coLoan \in [crypto : Int, naira : Nat]
    BY DEF LoanInv, LoanMoney
  <2>. QED  BY <2>1, <2>2, <2>3 DEF LoanWork, LoanTypeOK, LoanRows, SaleRows, AskingPc, Transfers
<1>. QED  BY <1>1, LoanInvInit, LoanInvNext, PTL DEF LoanSpec

\* What the parts of the invariant say of the payments of one loan.
LEMMA PaymentsFollow ==
    ASSUME LoanInv, NEW l \in Loans
    PROVE  /\ PaymentsOf(l) # {} => sales[l].at = "sold"
           /\ Untouched(Unsettling) => \A t, u \in PaymentsOf(l) : t = u
  BY LoanTransferOf DEF PaymentsOf, LoanInv, LoanFlow, LoanFollows, PaidOfSold, PaidByRow, Under

\* Collateral and books have given what the settled loans sold and nothing
\* else, naira goes out only for collateral that was sold and once, and a loan
\* that failed unpaid has sold nothing: for any number of loans of any amounts,
\* in any interleaving, up to the mishaps the property names. What the
\* company owes is not taken below zero, unless two transactions were under way.
THEOREM LoansAlwaysBooked == LoanSpec => []LoanBooks
<1>1. LoanInv => LoanBooks
  <2>. SUFFICES ASSUME LoanInv PROVE LoanBooks
    OBVIOUS
  <2>1. /\ collateral = [base |-> CollateralBase - LoansSold - TakenElsewhere,
                         kept |-> LoansKept]
        /\ coLoan.crypto + LoansSold \in CryptoInternal
        /\ coLoan.naira = LoansSold * Rate
        /\ Untouched({"raced"}) => coLoan.crypto >= 0
    BY DEF LoanInv, LoanMoney, LoansAlone
  <2>2. ASSUME NEW l \in Loans, Untouched({"lostAnswer", "error"}),
               loan[l].status = "FAILED", l \notin LoanSettled
        PROVE  sales[l].at \in {"none", "cancelled"}
    BY <2>2 DEF LoanInv, FailedUnsold, Unsold, Unwritten, LoanSettled
  <2>3. ASSUME NEW l \in Loans
        PROVE  /\ PaymentsOf(l) # {} => sales[l].at = "sold"
               /\ Untouched({"timeout", "lostAnswer", "crash"}) =>
                    \A t, u \in PaymentsOf(l) : t = u
    BY PaymentsFollow DEF Unsettling
  <2>. QED  BY <2>1, <2>2, <2>3 DEF LoanBooks, LoansSold, LoansKept, TakenElsewhere
<1>. QED  BY <1>1, LoanInvInit, LoanInvNext, PTL DEF LoanSpec

---------------------------------------------------------------------------
(* Wallets and addresses                                                   *)

\* Where the job is: outside its transaction nothing is pending, in it the
\* networks left have no row of this transaction, and one that is being asked
\* for has one, and had none before.
InTx == setup.pc \in {"asking", "posting"}
SetupFlow ==
    /\ ~At("failed") => setup.tries > 0
    /\ ~InTx => pending = NoTx
    /\ setup.pc \in {"none", "queued", "named"} => setup.todo = {}
    /\ InTx => \A n \in setup.todo : pending.wallet /\ pending.rows[n].status = "none"
    /\ At("posting") => /\ setup.net \in Nets \ setup.todo /\ pending.wallet
                        /\ RowFree(setup.net)
                        /\ pending.rows[setup.net].status # "none"

\* An error of the job, as long as it has attempts.
LEMMA JobFailsTo ==
    ASSUME AddressTypeOK, setup.tries > 0, JobFails
    PROVE  /\ setup'.pc \in {"queued", "failed"} /\ setup'.todo = {}
           /\ setup'.net = "none" /\ setup'.tries \in Nat
           /\ setup'.pc # "failed" => setup'.tries > 0
           /\ setup' \in [pc : {"none", "queued", "named", "asking", "posting",
                                "aborted", "committed", "done", "failed"},
                          todo : SUBSET Nets, net : Nets \cup {"none"}, tries : Nat]
<1> DEFINE pc == IF setup.tries > 1 THEN "queued" ELSE "failed"
           left == setup.tries - 1
<1>1. setup.tries \in Nat
  BY DEF AddressTypeOK
<1>2. /\ pc \in {"queued", "failed"} /\ left \in Nat
      /\ pc # "failed" => left > 0
  BY <1>1
<1>3. setup' = [setup EXCEPT !.pc = pc, !.tries = left, !.todo = {},
                             !.net = "none"]
  BY DEF JobFails
<1>. HIDE DEF pc, left
<1>4. setup' = [pc |-> pc, todo |-> {}, net |-> "none", tries |-> left]
  BY <1>3 DEF AddressTypeOK
<1>. QED  BY <1>2, <1>4

LEMMA EmptyRows == NoRows \in RowSets /\ NoTx \in [wallet : BOOLEAN, rows : RowSets]
                   /\ \A key \in Keys : NoRows[key].status = "none"
BY DEF NoRows, NoTx, RowSets

LEMMA SetupFlowInit == AddressInit => AddressTypeOK /\ SetupFlow
BY EmptyRows, AddressesAssumption DEF AddressInit, AddressTypeOK, SetupFlow, InTx, At, NoTx

LEMMA RolledBack ==
    ASSUME AddressTypeOK, Rollback
    PROVE  /\ pending' = NoTx /\ lostTx' \in Nat
           /\ pending = NoTx => lostTx' = lostTx
           /\ pending # NoTx => lostTx' = lostTx + 1
<1>1. lostTx \in Nat
  BY DEF AddressTypeOK
<1>2. CASE pending = NoTx
  BY <1>1, <1>2 DEF Rollback
<1>3. CASE pending # NoTx
  BY <1>1, <1>3 DEF Rollback
<1>. QED  BY <1>2, <1>3

\* A network is still to be asked for.
ToAsk(n) == \/ setup.pc \in {"none", "queued", "named"}
            \/ InTx /\ n \in setup.todo
            \/ At("posting") /\ setup.net = n

\* Every question but a network's first follows a mishap of its own.
AskBounded(n) == /\ Latest(n) <= Spent(Kinds) + 1
                 /\ ToAsk(n) => Latest(n) <= Spent(Kinds)
AsksBounded == Spent(Kinds) <= MaxFaults /\ \A n \in Nets : AskBounded(n)

LEMMA LatestNatural == \A n : Latest(n) \in Nat /\ Latest(n)' \in Nat
<1>. TAKE n
<1>1. IsFiniteSet(1..(MaxFaults + 1))
  BY MishapsAssumption, FS_Interval
<1>2. /\ IsFiniteSet({k \in 1..(MaxFaults + 1) : news[<<n, k>>] # "none"})
      /\ IsFiniteSet({k \in 1..(MaxFaults + 1) : news'[<<n, k>>] # "none"})
  BY <1>1, FS_Subset
<1>. QED  BY <1>2, FS_CardinalityType DEF Latest

\* The rows of the open transaction, one of them written.
LEMMA PendingRow ==
    ASSUME AddressTypeOK, NEW n \in Keys,
           NEW status \in {"none", "PROCESSING", "ACTIVE", "FAILED"},
           NEW id \in Ids \cup {NoId},
           pending' = [pending EXCEPT !.rows[n] = [status |-> status, id |-> id]]
    PROVE  /\ pending' \in [wallet : BOOLEAN, rows : RowSets]
           /\ pending'.wallet = pending.wallet
           /\ pending'.rows[n] = [status |-> status, id |-> id]
           /\ \A key \in Keys \ {n} : pending'.rows[key] = pending.rows[key]
<1> DEFINE entry == [status |-> status, id |-> id]
<1>1. /\ pending.wallet \in BOOLEAN /\ pending.rows \in RowSets
      /\ pending = [wallet |-> pending.wallet, rows |-> pending.rows]
  BY DEF AddressTypeOK
<1>2. entry \in [status : {"none", "PROCESSING", "ACTIVE", "FAILED"},
               id : Ids \cup {NoId}]
  OBVIOUS
<1>. HIDE DEF entry
<1>3. pending' = [wallet |-> pending.wallet,
                  rows |-> [pending.rows EXCEPT ![n] = entry]]
  BY <1>1 DEF entry
<1>4. [pending.rows EXCEPT ![n] = entry] \in RowSets
  BY <1>1, <1>2 DEF RowSets
<1>5. DOMAIN pending.rows = Keys
  BY <1>1 DEF RowSets
<1>6. /\ pending'.rows[n] = entry
      /\ \A key \in Keys \ {n} : pending'.rows[key] = pending.rows[key]
      /\ pending'.wallet = pending.wallet
      /\ pending' \in [wallet : BOOLEAN, rows : RowSets]
  BY <1>1, <1>3, <1>4, <1>5
<1>. QED  BY <1>6 DEF entry

LEMMA PendingStatus ==
    ASSUME AddressTypeOK, NEW n \in Keys,
           pending' = [pending EXCEPT !.rows[n].status = "PROCESSING"]
    PROVE  /\ pending' \in [wallet : BOOLEAN, rows : RowSets]
           /\ pending'.wallet = pending.wallet
           /\ pending'.rows[n].status = "PROCESSING"
           /\ \A key \in Keys \ {n} : pending'.rows[key] = pending.rows[key]
<1> DEFINE status == "PROCESSING"
           id == pending.rows[n].id
<1>1. /\ pending.wallet \in BOOLEAN /\ pending.rows \in RowSets
      /\ pending = [wallet |-> pending.wallet, rows |-> pending.rows]
  BY DEF AddressTypeOK
<1>2. /\ pending.rows[n] = [status |-> pending.rows[n].status, id |-> id]
      /\ id \in Ids \cup {NoId}
  BY <1>1 DEF RowSets
<1>3. [pending.rows[n] EXCEPT !.status = status] = [status |-> status, id |-> id]
  BY <1>2
<1>4. pending' = [pending EXCEPT !.rows[n] =
                    [pending.rows[n] EXCEPT !.status = status]]
  OBVIOUS
<1>5. pending' = [pending EXCEPT !.rows[n] = [status |-> status, id |-> id]]
  BY <1>3, <1>4
<1>6. status \in {"none", "PROCESSING", "ACTIVE", "FAILED"}
  OBVIOUS
<1>7. /\ pending' \in [wallet : BOOLEAN, rows : RowSets]
      /\ pending'.wallet = pending.wallet
      /\ pending'.rows[n] = [status |-> status, id |-> id]
      /\ \A key \in Keys \ {n} : pending'.rows[key] = pending.rows[key]
  <2>. HIDE DEF status, id
  <2>. QED  BY <1>2, <1>5, <1>6, PendingRow
<1>. QED  BY <1>7

LEMMA JobFlow ==
    ASSUME AddressTypeOK, SetupFlow,
           \/ CreateQuidaxSubaccount \/ OpenAccount \/ SyncWallet
           \/ SetupDone \/ TxTimesOut \/ SetupCrash
    PROVE  AddressTypeOK' /\ SetupFlow'
<1>. USE EmptyRows
<1>1. CASE CreateQuidaxSubaccount
  BY <1>1 DEF CreateQuidaxSubaccount, At, To, AddressTypeOK, SetupFlow, InTx
<1>2. CASE OpenAccount
  <2>1. setup.tries > 0
    BY <1>2 DEF OpenAccount, At, SetupFlow
  <2>0. account' \in [opened : BOOLEAN, saved : BOOLEAN]
    <3>1. account \in [opened : BOOLEAN, saved : BOOLEAN]
      BY DEF AddressTypeOK
    <3>2. \/ account' = [opened |-> TRUE, saved |-> TRUE]
          \/ account' = [account EXCEPT !.opened = TRUE]
          \/ account' = account
      BY <1>2 DEF OpenAccount
    <3>3. CASE account' = [account EXCEPT !.opened = TRUE]
      BY <3>1, <3>3
    <3>4. CASE account' = [opened |-> TRUE, saved |-> TRUE]
      BY <3>4
    <3>5. CASE account' = account
      BY <3>1, <3>5
    <3>. QED  BY <3>2, <3>3, <3>4, <3>5
  <2>2. CASE JobFails
    BY <1>2, <2>0, <2>1, <2>2, JobFailsTo DEF OpenAccount, At, SetupFlow, InTx, AddressTypeOK
  <2>3. CASE To("named")
    BY <1>2, <2>3, <2>0, <2>1 DEF OpenAccount, At, To, SetupFlow, InTx, AddressTypeOK
  <2>. QED  BY <1>2, <2>2, <2>3 DEF OpenAccount
<1>3. CASE SyncWallet
  <2>1. /\ setup.tries > 0 /\ pending = NoTx /\ At("named") /\ setup.todo = {}
        /\ UNCHANGED <<account, wallet, addresses, lostTx, news>>
    BY <1>3 DEF SyncWallet, At, SetupFlow, InTx
  <2>2. CASE To("aborted") /\ UNCHANGED pending
    BY <2>1, <2>2 DEF At, To, AddressTypeOK, SetupFlow, InTx
  <2>3. CASE To("asking") /\ UNCHANGED pending
    BY <2>1, <2>3 DEF At, To, AddressTypeOK, SetupFlow, InTx
  <2>4. CASE /\ \E networks \in {{}, Nets} :
                   setup' = [setup EXCEPT !.pc = "asking", !.todo = networks]
             /\ pending' = [NoTx EXCEPT !.wallet = TRUE]
    <3>1. /\ pending' = [wallet |-> TRUE, rows |-> NoRows]
          /\ \A n \in Nets : pending'.rows[n].status = "none"
      BY <2>4 DEF NoTx, Keys, NoRows
    <3>2. pending' \in [wallet : BOOLEAN, rows : RowSets]
      BY <3>1
    <3>3. PICK networks \in {{}, Nets} :
             setup' = [setup EXCEPT !.pc = "asking", !.todo = networks]
      BY <2>4
    <3>4. setup' = [pc |-> "asking", todo |-> networks, net |-> setup.net,
                    tries |-> setup.tries]
      BY <3>3 DEF AddressTypeOK
    <3>5. /\ setup'.pc = "asking" /\ setup'.tries = setup.tries
          /\ setup'.todo \in SUBSET Nets
          /\ setup' \in [pc : {"none", "queued", "named", "asking", "posting",
                               "aborted", "committed", "done", "failed"},
                         todo : SUBSET Nets, net : Nets \cup {"none"}, tries : Nat]
      BY <3>4 DEF AddressTypeOK
    <3>. QED  BY <2>1, <3>1, <3>2, <3>5 DEF At, AddressTypeOK, SetupFlow, InTx
  <2>. QED  BY <1>3, <2>2, <2>3, <2>4 DEF SyncWallet
<1>4. CASE SetupDone
  BY <1>4 DEF SetupDone, At, To, AddressTypeOK, SetupFlow, InTx
<1>5. CASE TxTimesOut
  <2>1. setup.tries > 0
    BY <1>5 DEF TxTimesOut, SetupFlow, At
  <2>2. /\ JobFails /\ Rollback
        /\ UNCHANGED <<account, wallet, addresses, news>>
    BY <1>5 DEF TxTimesOut
  <2>3. pending' = NoTx /\ lostTx' \in Nat
    BY <2>2, RolledBack
  <2>. QED  BY <2>1, <2>2, <2>3, JobFailsTo DEF At, AddressTypeOK, SetupFlow, InTx
<1>6. CASE SetupCrash
  BY <1>6, RolledBack DEF SetupCrash, SetupFlow, At, AddressTypeOK, InTx
<1>. QED  BY <1>1, <1>2, <1>3, <1>4, <1>5, <1>6

LEMMA ClaimFlow ==
    ASSUME AddressTypeOK, SetupFlow, NEW n \in Nets, ClaimRow(n)
    PROVE  AddressTypeOK' /\ SetupFlow'
<1>1. /\ At("asking") /\ InTx /\ n \in setup.todo /\ setup.tries > 0 /\ n \in Keys
      /\ UNCHANGED <<account, wallet, addresses, news>>
  BY DEF ClaimRow, SetupFlow, At, InTx, Keys
<1>2. CASE ~RowFree(n) /\ To("aborted") /\ Rollback
  BY <1>2, RolledBack, <1>1, EmptyRows DEF At, To, AddressTypeOK, SetupFlow, InTx
<1>3. CASE /\ RowFree(n) /\ UNCHANGED lostTx
           /\ setup' = [setup EXCEPT !.pc = "posting", !.net = n, !.todo = @ \ {n}]
           /\ pending' = [pending EXCEPT !.rows[n].status = "PROCESSING"]
  <2>1. setup' = [pc |-> "posting", todo |-> setup.todo \ {n}, net |-> n,
                  tries |-> setup.tries]
    BY <1>3 DEF AddressTypeOK
  <2>3. /\ pending' \in [wallet : BOOLEAN, rows : RowSets]
        /\ pending'.wallet = pending.wallet
        /\ pending'.rows[n].status = "PROCESSING"
        /\ \A key \in Keys \ {n} : pending'.rows[key] = pending.rows[key]
    BY <1>1, <1>3, PendingStatus
  <2>4. setup.todo \in SUBSET Nets /\ setup.tries \in Nat
    BY DEF AddressTypeOK
  <2>5. AddressTypeOK'
    <3>1. setup' \in [pc : {"none", "queued", "named", "asking", "posting",
                            "aborted", "committed", "done", "failed"},
                      todo : SUBSET Nets, net : Nets \cup {"none"}, tries : Nat]
      BY <2>1, <2>4
    <3>. QED  BY <1>1, <1>3, <2>3, <3>1 DEF AddressTypeOK
  <2>6. \A k \in setup.todo \ {n} : pending'.wallet /\ pending'.rows[k].status = "none"
    BY <1>1, <2>3, <2>4 DEF SetupFlow, Keys
  <2>7. pending'.wallet
    BY <1>1, <2>3 DEF SetupFlow
  <2>8. RowFree(n)'
    BY <1>1, <1>3 DEF RowFree
  <2>9. setup'.pc = "posting" /\ setup'.todo = setup.todo \ {n} /\ setup'.net = n
        /\ setup'.tries = setup.tries
    BY <2>1
  <2>10. RowFree(setup.net)'
    BY <2>8, <2>9 DEF RowFree
  <2>11. SetupFlow'
    BY <1>1, <2>3, <2>6, <2>7, <2>9, <2>10 DEF SetupFlow, InTx, At
  <2>. QED  BY <2>5, <2>11
<1>. QED  BY <1>2, <1>3 DEF ClaimRow

\* What the question leaves in the transaction and with Quidax.
LEMMA AskWrites ==
    ASSUME AddressTypeOK, SetupFlow, AsksBounded, Budgets, AskAddress
    PROVE  LET n == setup.net
               id == <<n, Latest(n) + 1>>
           IN  /\ n \in Nets /\ id \in Ids
               /\ setup' = [pc |-> "asking", todo |-> setup.todo, net |-> "none",
                            tries |-> setup.tries]
               /\ \/ UNCHANGED news \/ news' = [news EXCEPT ![id] = "sent"]
               /\ pending' \in [wallet : BOOLEAN, rows : RowSets]
               /\ pending'.wallet = pending.wallet
               /\ \A key \in Keys \ {n} : pending'.rows[key] = pending.rows[key]
               /\ \/ pending'.rows[n].status \in {"PROCESSING", "FAILED"}
                  \/ /\ pending'.rows[n] = [status |-> "ACTIVE", id |-> id]
                     /\ news' = [news EXCEPT ![id] = "sent"]
<1> DEFINE n == setup.net
           id == <<n, Latest(n) + 1>>
<1>1. n \in Nets /\ n \in Keys
  BY DEF AskAddress, SetupFlow, Keys
<1>2. id \in Ids
  <2>1. ToAsk(n)
    BY DEF AskAddress, ToAsk
  <2>2. Latest(n) <= Spent(Kinds) /\ Spent(Kinds) <= MaxFaults
    BY <1>1, <2>1 DEF AsksBounded, AskBounded
  <2>3. Latest(n) \in Nat /\ Spent(Kinds) \in Nat /\ MaxFaults \in Nat
    BY LatestNatural, SpentNatural, MishapsAssumption
  <2>4. Latest(n) + 1 \in 1..(MaxFaults + 1)
    <3>. HIDE DEF n
    <3>. QED  BY <2>2, <2>3
  <2>. QED  BY <1>1, <2>4 DEF Ids
<1>3. setup' = [pc |-> "asking", todo |-> setup.todo, net |-> "none",
                tries |-> setup.tries]
  BY DEF AskAddress, AddressTypeOK
<1> DEFINE Row(status, i) ==
             pending' = [pending EXCEPT !.rows[n] = [status |-> status, id |-> i]]
<1>4. \/ Row("ACTIVE", id) /\ news' = [news EXCEPT ![id] = "sent"]
      \/ \E status \in {"PROCESSING", "FAILED"} :
            /\ Row(status, NoId)
            /\ UNCHANGED news \/ news' = [news EXCEPT ![id] = "sent"]
  BY DEF AskAddress
<1>5. CASE Row("ACTIVE", id) /\ news' = [news EXCEPT ![id] = "sent"]
  <2>1. /\ pending' \in [wallet : BOOLEAN, rows : RowSets]
        /\ pending'.wallet = pending.wallet
        /\ pending'.rows[n] = [status |-> "ACTIVE", id |-> id]
        /\ \A key \in Keys \ {n} : pending'.rows[key] = pending.rows[key]
    <3>. HIDE DEF n, id
    <3>. QED  BY <1>1, <1>2, <1>5, PendingRow
  <2>. QED  BY <1>1, <1>2, <1>3, <1>5, <2>1
<1>6. ASSUME NEW status \in {"PROCESSING", "FAILED"}, Row(status, NoId),
             UNCHANGED news \/ news' = [news EXCEPT ![id] = "sent"]
      PROVE  /\ pending' \in [wallet : BOOLEAN, rows : RowSets]
             /\ pending'.wallet = pending.wallet
             /\ pending'.rows[n].status \in {"PROCESSING", "FAILED"}
             /\ \A key \in Keys \ {n} : pending'.rows[key] = pending.rows[key]
  <2>1. /\ NoId \in Ids \cup {NoId}
        /\ status \in {"none", "PROCESSING", "ACTIVE", "FAILED"}
        /\ pending' = [pending EXCEPT !.rows[n] = [status |-> status, id |-> NoId]]
    BY <1>6
  <2>2. /\ pending' \in [wallet : BOOLEAN, rows : RowSets]
        /\ pending'.wallet = pending.wallet
        /\ pending'.rows[n] = [status |-> status, id |-> NoId]
        /\ \A key \in Keys \ {n} : pending'.rows[key] = pending.rows[key]
    <3>. HIDE DEF n, id
    <3>. QED  BY <1>1, <2>1, PendingRow
  <2>. QED  BY <2>2
<1>7. CASE \E status \in {"PROCESSING", "FAILED"} :
            /\ Row(status, NoId)
            /\ UNCHANGED news \/ news' = [news EXCEPT ![id] = "sent"]
  <2>1. /\ pending' \in [wallet : BOOLEAN, rows : RowSets]
        /\ pending'.wallet = pending.wallet
        /\ pending'.rows[n].status \in {"PROCESSING", "FAILED"}
        /\ \A key \in Keys \ {n} : pending'.rows[key] = pending.rows[key]
        /\ UNCHANGED news \/ news' = [news EXCEPT ![id] = "sent"]
    <3>. HIDE DEF id
    <3>. QED  BY <1>6, <1>7
  <2>. QED  BY <1>1, <1>2, <1>3, <2>1
<1>. QED  BY <1>4, <1>5, <1>7

LEMMA AskFlow ==
    ASSUME AddressTypeOK, SetupFlow, AsksBounded, Budgets, AskAddress
    PROVE  AddressTypeOK' /\ SetupFlow'
<1> DEFINE n == setup.net
           id == <<n, Latest(n) + 1>>
<1>1. /\ n \in Nets \ setup.todo /\ pending.wallet /\ InTx /\ setup.tries > 0
      /\ UNCHANGED <<account, wallet, addresses, lostTx>>
  BY DEF AskAddress, SetupFlow, InTx, At
<1>2. /\ setup' = [pc |-> "asking", todo |-> setup.todo, net |-> "none",
                   tries |-> setup.tries]
      /\ UNCHANGED news \/ news' = [news EXCEPT ![id] = "sent"]
      /\ pending' \in [wallet : BOOLEAN, rows : RowSets]
      /\ pending'.wallet = pending.wallet
      /\ \A key \in Keys \ {n} : pending'.rows[key] = pending.rows[key]
  BY AskWrites
<1>3. setup.todo \in SUBSET Nets /\ setup.tries \in Nat
  BY DEF AddressTypeOK
<1>4. news' \in [Ids -> {"none", "sent", "creating", "done", "lost"}]
  <2>1. news \in [Ids -> {"none", "sent", "creating", "done", "lost"}]
    BY DEF AddressTypeOK
  <2>. HIDE DEF id
  <2>. QED  BY <1>2, <2>1
<1>. HIDE DEF id
<1>5. setup' \in [pc : {"none", "queued", "named", "asking", "posting",
                        "aborted", "committed", "done", "failed"},
                  todo : SUBSET Nets, net : Nets \cup {"none"}, tries : Nat]
  BY <1>2, <1>3
<1>6. AddressTypeOK'
  BY <1>1, <1>2, <1>4, <1>5 DEF AddressTypeOK
<1>7. \A k \in setup.todo : pending.wallet /\ pending.rows[k].status = "none"
                            /\ k \in Keys \ {n}
  BY <1>1, <1>3 DEF SetupFlow, Keys
<1>8. SetupFlow'
  BY <1>1, <1>2, <1>7 DEF SetupFlow, InTx, At
<1>. QED  BY <1>6, <1>8

LEMMA CommitFlow ==
    ASSUME AddressTypeOK, SetupFlow, CommitSetup
    PROVE  AddressTypeOK' /\ SetupFlow'
<1>1. /\ setup' = [setup EXCEPT !.pc = "committed"] /\ pending' = NoTx
      /\ setup.tries > 0 /\ UNCHANGED <<account, lostTx, news>>
  BY DEF CommitSetup, At, To, SetupFlow
<1>2. wallet' \in {"none", "quidax", "made up"}
  BY DEF CommitSetup, AddressTypeOK
<1>3. addresses' \in RowSets
  <2>1. addresses \in RowSets /\ pending.rows \in RowSets
    BY DEF AddressTypeOK
  <2>2. CASE UNCHANGED addresses
    BY <2>1, <2>2
  <2>3. CASE addresses' = [key \in Keys |-> IF pending.rows[key].status = "none"
                                            THEN addresses[key]
                                            ELSE pending.rows[key]]
    BY <2>1, <2>3 DEF RowSets
  <2>. QED  BY <2>2, <2>3 DEF CommitSetup
<1>. QED  BY <1>1, <1>2, <1>3, EmptyRows DEF AddressTypeOK, SetupFlow, InTx, At

\* A row saved by the handler of an address's event.
LEMMA UpsertedRow ==
    ASSUME AddressTypeOK, NEW i \in Ids, addresses' = Upserted(KeyOf(i), i)
    PROVE  /\ KeyOf(i) \in Keys /\ addresses' \in RowSets
           /\ addresses'[KeyOf(i)] = [status |-> "ACTIVE", id |-> i]
           /\ \A key \in Keys \ {KeyOf(i)} : addresses'[key] = addresses[key]
<1>1. KeyOf(i) \in Keys
  BY DEF KeyOf, Keys, Ids
<1>2. addresses \in RowSets
  BY DEF AddressTypeOK
<1> DEFINE entry == [status |-> "ACTIVE", id |-> i]
<1>3. entry \in [status : {"none", "PROCESSING", "ACTIVE", "FAILED"},
               id : Ids \cup {NoId}]
  OBVIOUS
<1>4. addresses' = [addresses EXCEPT ![KeyOf(i)] = entry]
  BY DEF Upserted
<1>. HIDE DEF entry
<1>5. /\ addresses' \in RowSets /\ addresses'[KeyOf(i)] = entry
      /\ \A key \in Keys \ {KeyOf(i)} : addresses'[key] = addresses[key]
  BY <1>1, <1>2, <1>3, <1>4 DEF RowSets
<1>. QED  BY <1>1, <1>5 DEF entry

LEMMA HandlerFlow ==
    ASSUME AddressTypeOK, SetupFlow, NEW i \in Ids, AddressStep(i)
    PROVE  AddressTypeOK' /\ SetupFlow'
<1>1. UNCHANGED <<account, setup, pending, lostTx>>
  BY DEF AddressStep, AddressRead, WalletCreate, AddressSave
<1>2. news' \in [Ids -> {"none", "sent", "creating", "done", "lost"}]
  BY DEF AddressStep, AddressRead, WalletCreate, AddressSave, Heard, AddressTypeOK
<1>3. wallet' \in {"none", "quidax", "made up"}
  BY DEF AddressStep, AddressRead, WalletCreate, AddressSave, AddressTypeOK
<1>4. \/ UNCHANGED addresses
      \/ /\ addresses' = Upserted(KeyOf(i), i)
         /\ pending.rows[KeyOf(i)].status = "none"
  BY DEF AddressStep, AddressRead, WalletCreate, AddressSave
<1>5. addresses' \in RowSets
  BY <1>4, UpsertedRow DEF AddressTypeOK
<1>6. AddressTypeOK'
  BY <1>1, <1>2, <1>3, <1>5 DEF AddressTypeOK
<1>7. At("posting") => RowFree(setup.net)'
  <2>. HAVE At("posting")
  <2>1. setup.net \in Keys /\ addresses[setup.net].status = "none"
        /\ pending.rows[setup.net].status # "none"
    BY DEF SetupFlow, RowFree, Keys
  <2>2. addresses'[setup.net] = addresses[setup.net]
    BY <1>4, <2>1, UpsertedRow
  <2>. QED  BY <1>1, <2>1, <2>2 DEF RowFree
<1>8. SetupFlow'
  BY <1>1, <1>7 DEF SetupFlow, InTx, At
<1>. QED  BY <1>6, <1>8

LEMMA SetupFlowNext ==
    ASSUME AddressTypeOK, SetupFlow, AsksBounded, Budgets,
           [AddressNext]_addressVars
    PROVE  AddressTypeOK' /\ SetupFlow'
<1>1. CASE UNCHANGED addressVars
  BY <1>1 DEF addressVars, AddressTypeOK, SetupFlow, InTx, At, RowFree
<1>2. CASE AddressNext
  BY <1>2, JobFlow, ClaimFlow, AskFlow, CommitFlow, HandlerFlow DEF AddressNext, SetupStep
<1>. QED  BY <1>1, <1>2

\* Only a question makes an address, one at a time, of the network it is about.
Made(i) == news[i] # "none"

LEMMA NewsNext ==
    ASSUME AddressTypeOK, [AddressNext]_addressVars, ~AskAddress
    PROVE  \A i \in Ids : Made(i)' <=> Made(i)
<1>1. CASE UNCHANGED news
  BY <1>1 DEF Made
<1>2. CASE SetupCrash
  BY <1>2 DEF SetupCrash, Made, AddressTypeOK
<1>3. ASSUME NEW i \in Ids, AddressStep(i)
      PROVE  \A k \in Ids : Made(k)' <=> Made(k)
  BY <1>3 DEF AddressStep, AddressRead, WalletCreate, AddressSave, Heard, Made, AddressTypeOK
<1>4. CASE \/ CreateQuidaxSubaccount \/ OpenAccount \/ SyncWallet \/ SetupDone
           \/ CommitSetup \/ TxTimesOut \/ \E n \in Nets : ClaimRow(n)
  <2>1. UNCHANGED news
    BY <1>4 DEF CreateQuidaxSubaccount, OpenAccount, SyncWallet, SetupDone, CommitSetup, TxTimesOut,
      ClaimRow
  <2>. QED  BY <1>1, <2>1
<1>5. UNCHANGED addressVars => UNCHANGED news
  BY DEF addressVars
<1>. QED  BY <1>1, <1>2, <1>3, <1>4, <1>5 DEF AddressNext, SetupStep

LEMMA LatestSame ==
    ASSUME NEW n \in Nets,
           \A k \in 1..(MaxFaults + 1) : Made(<<n, k>>)' <=> Made(<<n, k>>)
    PROVE  Latest(n)' = Latest(n)
  BY DEF Made, Latest

LEMMA LatestKept ==
    ASSUME AddressTypeOK, [AddressNext]_addressVars, ~AskAddress
    PROVE  \A n \in Nets : Latest(n)' = Latest(n)
BY NewsNext, LatestSame DEF Ids

LEMMA LatestAsked ==
    ASSUME AddressTypeOK, NEW m \in Nets, NEW j \in 1..(MaxFaults + 1),
           UNCHANGED news \/ news' = [news EXCEPT ![<<m, j>>] = "sent"]
    PROVE  /\ \A i \in Ids : i # <<m, j>> => (Made(i)' <=> Made(i))
           /\ \A n \in Nets \ {m} : Latest(n)' = Latest(n)
           /\ Latest(m)' <= Latest(m) + 1
<1>1. \A i \in Ids : i # <<m, j>> => (Made(i)' <=> Made(i))
  BY DEF Made, AddressTypeOK
<1>2. ASSUME NEW n \in Nets \ {m} PROVE Latest(n)' = Latest(n)
  BY <1>1, LatestSame DEF Ids
<1>3. Latest(m)' <= Latest(m) + 1
  <2> DEFINE S == {k \in 1..(MaxFaults + 1) : news[<<m, k>>] # "none"}
             T == {k \in 1..(MaxFaults + 1) : news'[<<m, k>>] # "none"}
  <2>1. IsFiniteSet(S)
    <3>1. IsFiniteSet(1..(MaxFaults + 1))
      BY MishapsAssumption, FS_Interval
    <3>. QED  BY <3>1, FS_Subset
  <2>2. T \subseteq S \cup {j}
    BY <1>1 DEF Ids, Made
  <2>3. /\ IsFiniteSet(S \cup {j}) /\ Cardinality(S) \in Nat
        /\ Cardinality(S \cup {j}) <= Cardinality(S) + 1
    <3>. HIDE DEF S, T
    <3>1. /\ IsFiniteSet(S \cup {j}) /\ Cardinality(S) \in Nat
          /\ Cardinality(S \cup {j}) \in {Cardinality(S), Cardinality(S) + 1}
      BY <2>1, FS_AddElement, FS_CardinalityType
    <3>. QED  BY <3>1
  <2>4. Cardinality(T) <= Cardinality(S \cup {j}) /\ Cardinality(T) \in Nat
    <3>. HIDE DEF S, T
    <3>. QED  BY <2>2, <2>3, FS_Subset, FS_CardinalityType
  <2>5. Latest(m) = Cardinality(S) /\ Latest(m)' = Cardinality(T)
    BY DEF Latest
  <2>6. Cardinality(S \cup {j}) \in Nat
    <3>. HIDE DEF S, T
    <3>. QED  BY <2>3, FS_CardinalityType
  <2>. HIDE DEF S, T
  <2>. QED  BY <2>3, <2>4, <2>5, <2>6
<1>. QED  BY <1>1, <1>2, <1>3

LEMMA AskLatest ==
    ASSUME AddressTypeOK, SetupFlow, AsksBounded, Budgets, AskAddress,
           NEW n, n = setup.net
    PROVE  /\ n \in Nets /\ \A i \in Ids : Made(i) => Made(i)'
           /\ \A m \in Nets \ {n} : Latest(m)' = Latest(m)
           /\ Latest(n)' <= Latest(n) + 1
<1>1. /\ n \in Nets /\ <<n, Latest(n) + 1>> \in Ids
      /\ UNCHANGED news \/ news' = [news EXCEPT ![<<n, Latest(n) + 1>>] = "sent"]
  BY AskWrites
<1>2. PICK j \in 1..(MaxFaults + 1) : j = Latest(n) + 1
  BY <1>1 DEF Ids
<1>3. UNCHANGED news \/ news' = [news EXCEPT ![<<n, j>>] = "sent"]
  BY <1>1, <1>2
<1>4. /\ \A i \in Ids : i # <<n, j>> => (Made(i)' <=> Made(i))
      /\ \A m \in Nets \ {n} : Latest(m)' = Latest(m)
      /\ Latest(n)' <= Latest(n) + 1
  BY <1>1, <1>3, LatestAsked
<1>5. Made(<<n, j>>) => Made(<<n, j>>)'
  BY <1>1, <1>2, <1>3 DEF Made, AddressTypeOK
<1>6. \A i \in Ids : Made(i) => Made(i)'
  BY <1>4, <1>5
<1>. QED  BY <1>1, <1>4, <1>6

AddressMishaps == {"lostAnswer", "refusal", "timeout", "crash"}

LEMMA SpentNext ==
    ASSUME Budgets, Spent(Kinds) <= MaxFaults, [AddressNext]_addressVars
    PROVE  /\ Budgets' /\ CountsDown
           /\ Spent(Kinds) \in Nat /\ Spent(Kinds)' \in Nat
           /\ Spent(Kinds) <= Spent(Kinds)' /\ Spent(Kinds)' <= MaxFaults
           /\ TxTimesOut \/ SetupCrash => Spent(Kinds)' = Spent(Kinds) + 1
<1>1. AddressMishaps \subseteq Kinds /\ MaxFaults \in Nat
  BY AddressesAssumption, MishapsAssumption DEF AddressMishaps
<1>2. Spent(Kinds) \in Nat
  BY SpentNatural
<1>3. UNCHANGED budget \/ \E f \in AddressMishaps : Spend(f)
  <2>1. ASSUME NEW i \in Ids, AddressStep(i)
        PROVE  UNCHANGED budget \/ Spend("refusal")
    BY <2>1 DEF AddressStep, AddressRead, WalletCreate, AddressSave
  <2>2. ASSUME NEW n \in Nets, ClaimRow(n) PROVE UNCHANGED budget
    BY <2>2 DEF ClaimRow
  <2>3. CASE \/ CreateQuidaxSubaccount \/ OpenAccount \/ SyncWallet
             \/ AskAddress \/ CommitSetup \/ SetupDone \/ TxTimesOut \/ SetupCrash
    BY <2>3 DEF CreateQuidaxSubaccount, OpenAccount, SyncWallet, AskAddress, CommitSetup, SetupDone,
      TxTimesOut, SetupCrash, AddressMishaps
  <2>4. CASE UNCHANGED addressVars
    BY <2>4 DEF addressVars
  <2>. QED  BY <2>1, <2>2, <2>3, <2>4 DEF AddressNext, SetupStep, AddressMishaps
<1>4. ASSUME NEW f \in Kinds, Spend(f)
      PROVE  /\ Budgets' /\ CountsDown
             /\ Spent(Kinds)' = Spent(Kinds) + 1 /\ Spent(Kinds)' <= MaxFaults
  BY <1>4, BudgetSpent, SpentGrows
<1>5. TxTimesOut \/ SetupCrash => \E f \in AddressMishaps : Spend(f)
  BY DEF TxTimesOut, SetupCrash, AddressMishaps
<1>6. CASE \E f \in AddressMishaps : Spend(f)
  BY <1>1, <1>2, <1>4, <1>6
<1>7. CASE UNCHANGED budget /\ ~(TxTimesOut \/ SetupCrash)
  BY <1>7, SpentSame, <1>1, <1>2, BudgetSame
<1>. QED  BY <1>3, <1>5, <1>6, <1>7

\* A network is to be asked for again only after a mishap.
LEMMA ToAskNext ==
    ASSUME AddressTypeOK, SetupFlow, [AddressNext]_addressVars, ~AskAddress,
           ~TxTimesOut, ~SetupCrash, NEW n \in Nets, ToAsk(n)'
    PROVE  ToAsk(n)
<1>. USE DEF ToAsk, At, InTx, To
<1>1. CASE CreateQuidaxSubaccount \/ SetupDone \/ SyncWallet
  BY <1>1 DEF CreateQuidaxSubaccount, SetupDone, SyncWallet, AddressTypeOK
<1>2. CASE OpenAccount
  BY <1>2 DEF OpenAccount
<1>3. CASE CommitSetup
  BY <1>3 DEF CommitSetup, AddressTypeOK
<1>4. ASSUME NEW m \in Nets, ClaimRow(m) PROVE ToAsk(n)
  <2>1. CASE To("aborted")
    BY <2>1 DEF AddressTypeOK
  <2>2. CASE setup' = [setup EXCEPT !.pc = "posting", !.net = m, !.todo = @ \ {m}]
    BY <2>2, <1>4 DEF AddressTypeOK, ClaimRow
  <2>. QED  BY <1>4, <2>1, <2>2 DEF ClaimRow
<1>5. ASSUME NEW i \in Ids, AddressStep(i) PROVE ToAsk(n)
  BY <1>5 DEF AddressStep, AddressRead, WalletCreate, AddressSave
<1>6. CASE UNCHANGED addressVars
  BY <1>6 DEF addressVars
<1>. QED  BY <1>1, <1>2, <1>3, <1>4, <1>5, <1>6 DEF AddressNext, SetupStep

LEMMA AsksBoundedNext ==
    ASSUME AddressTypeOK, SetupFlow, AsksBounded, Budgets,
           [AddressNext]_addressVars
    PROVE  AsksBounded'
<1>1. /\ Spent(Kinds) \in Nat /\ Spent(Kinds)' \in Nat
      /\ Spent(Kinds) <= Spent(Kinds)' /\ Spent(Kinds)' <= MaxFaults
      /\ TxTimesOut \/ SetupCrash => Spent(Kinds)' = Spent(Kinds) + 1
  BY SpentNext DEF AsksBounded
<1>2. SUFFICES ASSUME NEW n \in Nets PROVE AskBounded(n)'
  BY <1>1 DEF AsksBounded
<1>3. /\ Latest(n) \in Nat /\ Latest(n)' \in Nat
      /\ Latest(n) <= Spent(Kinds) + 1
      /\ ToAsk(n) => Latest(n) <= Spent(Kinds)
  BY LatestNatural DEF AsksBounded, AskBounded
<1>. USE DEF AskBounded
<1>4. CASE AskAddress
  <2>1. CASE n = setup.net
    <3>1. Latest(n)' <= Latest(n) + 1 /\ ToAsk(n)
      BY <1>4, <2>1, AskLatest DEF AskAddress, ToAsk
    <3>2. ~ToAsk(n)'
      BY <1>4, AskWrites, <2>1 DEF AskAddress, SetupFlow, ToAsk, At
    <3>. QED  BY <1>1, <1>3, <3>1, <3>2
  <2>2. CASE n # setup.net
    <3>1. Latest(n)' = Latest(n)
      BY <1>4, <2>2, AskLatest
    <3>2. ToAsk(n)' => ToAsk(n)
      BY <1>4, AskWrites DEF ToAsk, At, InTx, AskAddress
    <3>. QED  BY <1>1, <1>3, <3>1, <3>2
  <2>. QED  BY <2>1, <2>2
<1>5. CASE ~AskAddress
  <2>1. Latest(n)' = Latest(n)
    BY <1>5, LatestKept
  <2>2. CASE TxTimesOut \/ SetupCrash
    BY <1>1, <1>3, <2>1, <2>2
  <2>3. CASE ~TxTimesOut /\ ~SetupCrash
    BY <1>5, <2>3, ToAskNext, <1>1, <1>3, <2>1
  <2>. QED  BY <2>2, <2>3
<1>. QED  BY <1>4, <1>5

\* The transaction has asked for an address of a network.
NetAsked(n) == pending.rows[n].status # "none" /\ ~(At("posting") /\ setup.net = n)

\* A network is asked for again only after a transaction was rolled back.
AskCounted(n) == /\ Latest(n) <= 1 + lostTx
                 /\ RowFree(n) /\ ~NetAsked(n) => Latest(n) <= lostTx
AsksCounted == \A n \in Nets : AskCounted(n)

\* An event finds no wallet, or made one up, only after the transaction that
\* wrote the wallet was rolled back.
WalletsLost ==
    /\ wallet = "made up" => lostTx > 0
    /\ (\E i \in Ids : Made(i)) /\ wallet = "none" /\ ~pending.wallet => lostTx > 0

LEMMA NoTxAsked ==
    ASSUME pending = NoTx
    PROVE  ~pending.wallet /\ \A n \in Nets : pending.rows[n].status = "none" /\ ~NetAsked(n)
BY DEF NoTx, NoRows, Keys, NetAsked

\* Unless a transaction is rolled back, what it has asked for stays asked for.
LEMMA NothingLost ==
    ASSUME AddressTypeOK, SetupFlow, [AddressNext]_addressVars, ~AskAddress,
           lostTx' = lostTx
    PROVE  /\ \A n \in Nets : RowFree(n)' /\ ~NetAsked(n)' => RowFree(n) /\ ~NetAsked(n)
           /\ wallet' = "none" /\ ~pending'.wallet =>
                wallet = "none" /\ ~pending.wallet
           /\ wallet' = "made up" =>
                \/ wallet = "made up"
                \/ wallet = "none" /\ ~pending.wallet /\ \E i \in Ids : Made(i)
<1>1. CASE UNCHANGED <<wallet, addresses>> /\ pending = NoTx
  BY <1>1, NoTxAsked DEF RowFree
<1>2. CASE CreateQuidaxSubaccount \/ OpenAccount \/ SetupDone \/ SyncWallet
  BY <1>2, <1>1 DEF CreateQuidaxSubaccount, OpenAccount, SetupDone, SyncWallet, SetupFlow, InTx, At
<1>3. CASE UNCHANGED <<wallet, addresses>> /\ Rollback
  <2>1. lostTx \in Nat
    BY DEF AddressTypeOK
  <2>2. pending = NoTx
    BY <1>3, <2>1, RolledBack
  <2>. QED  BY <1>1, <1>3, <2>2
<1>4. CASE TxTimesOut \/ SetupCrash
  BY <1>3, <1>4 DEF TxTimesOut, SetupCrash
<1>5. ASSUME NEW m \in Nets, ClaimRow(m), ~Rollback
      PROVE  /\ UNCHANGED <<wallet, addresses>> /\ pending'.wallet = pending.wallet
             /\ \A n \in Nets : ~NetAsked(n)' => ~NetAsked(n)
  <2>1. /\ At("asking") /\ m \in setup.todo /\ m \in Keys
        /\ UNCHANGED <<wallet, addresses>>
        /\ pending' = [pending EXCEPT !.rows[m].status = "PROCESSING"]
        /\ setup' = [setup EXCEPT !.pc = "posting", !.net = m, !.todo = @ \ {m}]
    BY <1>5 DEF ClaimRow, Keys
  <2>2. /\ pending'.wallet = pending.wallet
        /\ \A key \in Keys \ {m} : pending'.rows[key] = pending.rows[key]
    BY <2>1, PendingStatus
  <2>3. setup'.net = m /\ pending.rows[m].status = "none"
    BY <2>1 DEF AddressTypeOK, SetupFlow, InTx, At
  <2>4. ASSUME NEW n \in Nets, ~NetAsked(n)' PROVE ~NetAsked(n)
    <3>1. CASE n = m
      BY <2>3, <3>1 DEF NetAsked
    <3>2. CASE n # m
      BY <2>2, <2>3, <2>4, <3>2 DEF NetAsked, Keys
    <3>. QED  BY <3>1, <3>2
  <2>. QED  BY <2>1, <2>2, <2>4
<1>6. ASSUME NEW m \in Nets, ClaimRow(m), Rollback
      PROVE  UNCHANGED <<wallet, addresses>>
  BY <1>6 DEF ClaimRow
<1>7. CASE \E m \in Nets : ClaimRow(m)
  BY <1>3, <1>5, <1>6, <1>7 DEF RowFree
<1>8. CASE CommitSetup
  <2>1. CASE At("aborted")
    BY <1>8, <2>1, <1>1 DEF CommitSetup, SetupFlow, InTx, At
  <2>2. CASE /\ At("asking")
             /\ wallet' = IF pending.wallet THEN "quidax" ELSE wallet
             /\ addresses' = [key \in Keys |-> IF pending.rows[key].status = "none"
                                               THEN addresses[key]
                                               ELSE pending.rows[key]]
    <3>1. ASSUME NEW n \in Nets, RowFree(n)' PROVE RowFree(n) /\ ~NetAsked(n)
      BY <2>2, <3>1 DEF RowFree, NetAsked, Keys
    <3>2. pending.wallet => wallet' = "quidax"
      BY <2>2
    <3>3. ~pending.wallet => wallet' = wallet
      BY <2>2
    <3>. QED  BY <3>1, <3>2, <3>3
  <2>. QED  BY <1>8, <2>1, <2>2 DEF CommitSetup
<1>9. ASSUME NEW i \in Ids, AddressStep(i)
      PROVE  /\ UNCHANGED <<setup, pending>>
             /\ \A n \in Nets : RowFree(n)' => RowFree(n)
             /\ wallet' = wallet \/ /\ wallet = "none" /\ ~pending.wallet /\ Made(i)
                                    /\ wallet' = "made up"
  <2>1. \/ UNCHANGED addresses
        \/ addresses' = Upserted(KeyOf(i), i)
    BY <1>9 DEF AddressStep, AddressRead, WalletCreate, AddressSave
  <2>2. ASSUME NEW n \in Nets, RowFree(n)' PROVE RowFree(n)
    <3>1. n \in Keys
      BY DEF Keys
    <3>2. CASE UNCHANGED addresses
      BY <2>2, <3>2 DEF RowFree
    <3>3. CASE addresses' = Upserted(KeyOf(i), i)
      <4>1. /\ addresses'[KeyOf(i)] = [status |-> "ACTIVE", id |-> i]
            /\ \A key \in Keys \ {KeyOf(i)} : addresses'[key] = addresses[key]
        BY <3>3, UpsertedRow
      <4>2. n # KeyOf(i)
        BY <2>2, <4>1 DEF RowFree
      <4>. QED  BY <2>2, <3>1, <4>1, <4>2 DEF RowFree
    <3>. QED  BY <2>1, <3>2, <3>3
  <2>3. /\ UNCHANGED <<setup, pending>>
        /\ wallet' = wallet \/ /\ wallet = "none" /\ ~pending.wallet /\ Made(i)
                               /\ wallet' = "made up"
    BY <1>9 DEF AddressStep, AddressRead, WalletCreate, AddressSave, Made
  <2>. QED  BY <2>2, <2>3
<1>10. CASE \E i \in Ids : AddressStep(i)
  BY <1>9, <1>10 DEF NetAsked, At
<1>11. CASE UNCHANGED addressVars
  BY <1>11 DEF addressVars, RowFree, NetAsked, At
<1>. QED  BY <1>2, <1>4, <1>7, <1>8, <1>10, <1>11 DEF AddressNext, SetupStep

LEMMA LostNext ==
    ASSUME AddressTypeOK, [AddressNext]_addressVars
    PROVE  /\ lostTx \in Nat /\ lostTx' \in {lostTx, lostTx + 1}
           /\ AskAddress => lostTx' = lostTx
<1>1. CASE Rollback
  BY <1>1, RolledBack DEF AddressTypeOK, AskAddress
<1>2. CASE ~Rollback
  <2>1. UNCHANGED lostTx
    BY <1>2 DEF AddressNext, SetupStep, AddressStep, CreateQuidaxSubaccount, OpenAccount,
      SyncWallet, ClaimRow, AskAddress, CommitSetup, SetupDone, TxTimesOut, SetupCrash, AddressRead,
      WalletCreate, AddressSave, addressVars
  <2>. QED  BY <2>1 DEF AddressTypeOK
<1>. QED  BY <1>1, <1>2

LEMMA AsksCountedNext ==
    ASSUME AddressTypeOK, SetupFlow, AsksBounded, Budgets, AsksCounted,
           [AddressNext]_addressVars
    PROVE  AsksCounted'
<1>1. SUFFICES ASSUME NEW n \in Nets PROVE AskCounted(n)'
  BY DEF AsksCounted
<1>2. /\ Latest(n) \in Nat /\ Latest(n)' \in Nat /\ lostTx \in Nat
      /\ Latest(n) <= 1 + lostTx
      /\ RowFree(n) /\ ~NetAsked(n) => Latest(n) <= lostTx
  BY LatestNatural DEF AsksCounted, AskCounted, AddressTypeOK
<1>. USE DEF AskCounted
<1>3. CASE AskAddress
  <2>1. UNCHANGED <<addresses, lostTx>> /\ At("posting")
    BY <1>3 DEF AskAddress
  <2>2. PICK net : net = setup.net
    OBVIOUS
  <2>3. /\ net \in Nets /\ setup'.pc = "asking"
        /\ \A key \in Keys \ {net} : pending'.rows[key] = pending.rows[key]
        /\ pending'.rows[net].status # "none"
    BY <1>3, <2>2, AskWrites
  <2>4. CASE n = net
    BY <2>1, <2>2, <2>4, <1>3, AskLatest, <2>3, <1>2 DEF SetupFlow, NetAsked, At
  <2>5. CASE n # net
    BY <1>3, <2>2, <2>5, AskLatest, <2>3, <2>1, <1>2 DEF NetAsked, At, Keys, RowFree
  <2>. QED  BY <2>4, <2>5
<1>4. CASE ~AskAddress
  <2>1. Latest(n)' = Latest(n)
    BY <1>4, LatestKept
  <2>2. CASE lostTx' = lostTx
    BY <1>4, <2>2, NothingLost, <1>2, <2>1
  <2>3. CASE lostTx' = lostTx + 1
    BY <1>2, <2>1, <2>3
  <2>. QED  BY <2>2, <2>3, LostNext
<1>. QED  BY <1>3, <1>4

LEMMA WalletsLostNext ==
    ASSUME AddressTypeOK, SetupFlow, AsksBounded, Budgets, WalletsLost,
           [AddressNext]_addressVars
    PROVE  WalletsLost'
<1>1. lostTx \in Nat /\ lostTx' \in {lostTx, lostTx + 1}
  BY LostNext
<1>2. CASE AskAddress
  BY <1>2, AskWrites DEF AskAddress, SetupFlow, WalletsLost
<1>3. CASE ~AskAddress /\ lostTx' = lostTx
  BY <1>3, NewsNext, NothingLost DEF WalletsLost
<1>4. CASE lostTx' = lostTx + 1
  <2>1. lostTx' > 0
    BY <1>1, <1>4
  <2>. QED  BY <2>1 DEF WalletsLost
<1>. QED  BY <1>1, <1>2, <1>3, <1>4, LostNext

\* A row in use has the id of an address that Quidax has made for it.
MadeFor(key, i) == i \in Ids /\ Made(i) /\ key \in {i[1], KeyOf(i)}
RowsMade ==
    /\ \A key \in Keys : addresses[key].status = "ACTIVE" =>
                           MadeFor(key, addresses[key].id)
    /\ \A key \in Keys : pending.rows[key].status = "ACTIVE" =>
                           MadeFor(key, pending.rows[key].id)

LEMMA MadeForNext ==
    ASSUME AddressTypeOK, SetupFlow, AsksBounded, Budgets,
           [AddressNext]_addressVars
    PROVE  \A key, i : MadeFor(key, i) => MadeFor(key, i)'
<1>1. \A i \in Ids : Made(i) => Made(i)'
  <2>1. CASE AskAddress
    BY <2>1, AskLatest
  <2>2. CASE ~AskAddress
    BY <2>2, NewsNext
  <2>. QED  BY <2>1, <2>2
<1>. QED  BY <1>1 DEF MadeFor

\* Where the rows of the next state come from.
LEMMA RowsFrom ==
    ASSUME AddressTypeOK, SetupFlow, [AddressNext]_addressVars, ~AskAddress,
           NEW key \in Keys
    PROVE  /\ pending'.rows[key].status = "ACTIVE" =>
                pending'.rows[key] = pending.rows[key]
           /\ \/ addresses'[key] \in {addresses[key], pending.rows[key]}
              \/ \E i \in Ids : /\ AddressSave(i) /\ key = KeyOf(i) /\ Made(i)
                                /\ addresses'[key] = [status |-> "ACTIVE", id |-> i]
<1>1. CASE pending' = NoTx \/ UNCHANGED pending
  <2>1. NoTx.rows[key].status = "none"
    BY DEF NoTx, NoRows
  <2>2. pending'.rows[key].status = "ACTIVE" => pending'.rows[key] = pending.rows[key]
    BY <1>1, <2>1
  <2>3. CASE UNCHANGED addresses
    BY <2>2, <2>3
  <2>4. CASE CommitSetup
    BY <2>2, <2>4 DEF CommitSetup
  <2>5. ASSUME NEW i \in Ids, AddressStep(i)
        PROVE  \/ UNCHANGED addresses
               \/ /\ AddressSave(i) /\ Made(i)
                  /\ addresses' = Upserted(KeyOf(i), i)
    BY <2>5 DEF AddressStep, AddressRead, WalletCreate, AddressSave, Made
  <2>6. CASE \E i \in Ids : AddressStep(i)
    <3>1. PICK i \in Ids : AddressStep(i)
      BY <2>6
    <3>2. CASE AddressSave(i) /\ Made(i) /\ addresses' = Upserted(KeyOf(i), i)
      <4>1. /\ addresses'[KeyOf(i)] = [status |-> "ACTIVE", id |-> i]
            /\ \A k \in Keys \ {KeyOf(i)} : addresses'[k] = addresses[k]
        BY <3>2, UpsertedRow
      <4>2. CASE key = KeyOf(i)
        BY <2>2, <3>2, <4>1, <4>2
      <4>3. CASE key # KeyOf(i)
        BY <2>2, <4>1, <4>3
      <4>. QED  BY <4>2, <4>3
    <3>. QED  BY <2>3, <2>5, <3>1, <3>2
  <2>7. CASE ~CommitSetup /\ ~(\E i \in Ids : AddressStep(i))
    <3>1. UNCHANGED addresses
      BY <2>7 DEF AddressNext, SetupStep, CreateQuidaxSubaccount, OpenAccount, SyncWallet, ClaimRow,
        AskAddress, SetupDone, TxTimesOut, SetupCrash, addressVars
    <3>. QED  BY <2>3, <3>1
  <2>. QED  BY <2>4, <2>6, <2>7
<1>2. CASE SyncWallet
  <2>1. UNCHANGED addresses
    BY <1>2 DEF SyncWallet
  <2>2. CASE pending' = [NoTx EXCEPT !.wallet = TRUE]
    BY <2>2, <2>1 DEF NoTx, NoRows
  <2>. QED  BY <1>1, <1>2, <2>2 DEF SyncWallet
<1>3. ASSUME NEW n \in Nets, ClaimRow(n),
             pending' = [pending EXCEPT !.rows[n].status = "PROCESSING"]
      PROVE  /\ UNCHANGED addresses
             /\ pending'.rows[key].status = "ACTIVE" =>
                  pending'.rows[key] = pending.rows[key]
  BY <1>3, PendingStatus DEF Keys, ClaimRow
<1>4. ASSUME NEW n \in Nets, ClaimRow(n)
      PROVE  \/ pending' = NoTx
             \/ pending' = [pending EXCEPT !.rows[n].status = "PROCESSING"]
  BY <1>4 DEF ClaimRow, Rollback
<1>5. CASE \E n \in Nets : ClaimRow(n)
  BY <1>1, <1>3, <1>4, <1>5
<1>6. CASE ~SyncWallet /\ ~\E n \in Nets : ClaimRow(n)
  <2>1. pending' = NoTx \/ UNCHANGED pending
    BY <1>6 DEF AddressNext, SetupStep, AddressStep, CreateQuidaxSubaccount, OpenAccount,
      AskAddress, CommitSetup, SetupDone, TxTimesOut, SetupCrash, AddressRead, WalletCreate,
      AddressSave, addressVars, Rollback
  <2>. QED  BY <1>1, <2>1
<1>. QED  BY <1>2, <1>5, <1>6

LEMMA RowsMadeNext ==
    ASSUME AddressTypeOK, SetupFlow, AsksBounded, Budgets, RowsMade,
           [AddressNext]_addressVars
    PROVE  RowsMade'
<1>1. \A key, i : MadeFor(key, i) => MadeFor(key, i)'
  BY MadeForNext
<1>2. CASE AskAddress
  <2>1. UNCHANGED addresses
    BY <1>2 DEF AskAddress
  <2>2. PICK net : net = setup.net
    OBVIOUS
  <2>3. PICK id : id = <<net, Latest(net) + 1>>
    OBVIOUS
  <2>4. /\ net \in Nets /\ id \in Ids
        /\ \A key \in Keys \ {net} : pending'.rows[key] = pending.rows[key]
        /\ \/ pending'.rows[net].status \in {"PROCESSING", "FAILED"}
           \/ /\ pending'.rows[net] = [status |-> "ACTIVE", id |-> id]
              /\ news' = [news EXCEPT ![id] = "sent"]
    BY <1>2, <2>2, <2>3, AskWrites
  <2>5. ASSUME NEW key \in Keys, pending'.rows[key].status = "ACTIVE"
        PROVE  MadeFor(key, pending.rows[key].id)'
    <3>1. CASE key # net
      <4>1. pending'.rows[key] = pending.rows[key]
        BY <2>4, <3>1
      <4>2. MadeFor(key, pending.rows[key].id)
        BY <2>5, <4>1 DEF RowsMade
      <4>3. MadeFor(key, pending.rows[key].id) =>
              \A i : i = pending.rows[key].id => MadeFor(key, i)'
        BY <1>1
      <4>. QED  BY <4>1, <4>2, <4>3 DEF MadeFor, Made
    <3>2. CASE key = net
      <4>1. /\ pending'.rows[net] = [status |-> "ACTIVE", id |-> id]
            /\ news' = [news EXCEPT ![id] = "sent"]
        BY <2>4, <2>5, <3>2
      <4>2. news'[id] = "sent"
        BY <2>4, <4>1 DEF AddressTypeOK
      <4>3. id[1] = net
        BY <2>3
      <4>4. MadeFor(key, id)'
        BY <2>4, <3>2, <4>2, <4>3 DEF MadeFor, Made
      <4>5. pending'.rows[key].id = id
        BY <3>2, <4>1
      <4>. QED  BY <4>4, <4>5 DEF MadeFor, Made
    <3>. QED  BY <3>1, <3>2
  <2>6. ASSUME NEW key \in Keys, addresses'[key].status = "ACTIVE"
        PROVE  MadeFor(key, addresses[key].id)'
    BY <2>1, <2>6, <1>1 DEF RowsMade, MadeFor, Made
  <2>. QED  BY <2>5, <2>6 DEF RowsMade
<1>3. CASE ~AskAddress
  <2>1. ASSUME NEW key \in Keys
        PROVE  /\ pending'.rows[key].status = "ACTIVE" =>
                    pending'.rows[key] = pending.rows[key]
               /\ \/ addresses'[key] \in {addresses[key], pending.rows[key]}
                  \/ \E i \in Ids : /\ AddressSave(i) /\ key = KeyOf(i) /\ Made(i)
                                    /\ addresses'[key] = [status |-> "ACTIVE", id |-> i]
    BY <1>3, RowsFrom
  <2>2. ASSUME NEW key \in Keys, pending'.rows[key].status = "ACTIVE"
        PROVE  MadeFor(key, pending.rows[key].id)'
    BY <2>1, <2>2, <1>1 DEF RowsMade, MadeFor, Made
  <2>3. ASSUME NEW key \in Keys, addresses'[key].status = "ACTIVE"
        PROVE  MadeFor(key, addresses[key].id)'
    <3>1. PICK i : i = addresses'[key].id
      OBVIOUS
    <3>2. MadeFor(key, i)
      <4>1. CASE addresses'[key] \in {addresses[key], pending.rows[key]}
        BY <2>3, <3>1, <4>1 DEF RowsMade
      <4>2. CASE \E j \in Ids : /\ AddressSave(j) /\ key = KeyOf(j) /\ Made(j)
                                /\ addresses'[key] = [status |-> "ACTIVE", id |-> j]
        BY <3>1, <4>2 DEF MadeFor
      <4>. QED  BY <2>1, <4>1, <4>2
    <3>3. MadeFor(key, i)'
      BY <1>1, <3>2
    <3>. QED  BY <3>1, <3>3 DEF MadeFor, Made
  <2>. QED  BY <2>2, <2>3 DEF RowsMade
<1>. QED  BY <1>2, <1>3

AddressInv == /\ AddressTypeOK /\ SetupFlow /\ Budgets /\ AsksBounded
              /\ AsksCounted /\ WalletsLost /\ RowsMade

LEMMA AddressInvInit == AddressInit /\ budget = Budget => AddressInv
<1>. SUFFICES ASSUME AddressInit, budget = Budget PROVE AddressInv
  OBVIOUS
<1>1. AddressTypeOK /\ SetupFlow
  BY SetupFlowInit
<1>2. Budgets /\ Spent(Kinds) = 0 /\ MaxFaults \in Nat
  BY NothingSpent, MishapsAssumption
<1>3. \A i \in Ids : ~Made(i)
  BY DEF AddressInit, Made
<1>4. ASSUME NEW n \in Nets PROVE Latest(n) = 0
  BY <1>3, FS_EmptySet DEF Ids, Made, Latest
<1>5. AsksBounded
  BY <1>2, <1>4 DEF AsksBounded, AskBounded
<1>6. AsksCounted
  BY <1>4 DEF AddressInit, AsksCounted, AskCounted
<1>7. WalletsLost
  BY <1>3 DEF AddressInit, WalletsLost
<1>8. RowsMade
  BY DEF AddressInit, RowsMade, NoTx, NoRows
<1>. QED  BY <1>1, <1>2, <1>5, <1>6, <1>7, <1>8 DEF AddressInv

LEMMA AddressInvNext == AddressInv /\ [AddressNext]_addressVars => AddressInv'
<1>. SUFFICES ASSUME AddressInv, [AddressNext]_addressVars PROVE AddressInv'
  OBVIOUS
<1>1. /\ AddressTypeOK /\ SetupFlow /\ Budgets /\ AsksBounded
      /\ AsksCounted /\ WalletsLost /\ RowsMade
  BY DEF AddressInv
<1>2. Budgets'
  BY <1>1, SpentNext DEF AsksBounded
<1>3. AddressTypeOK' /\ SetupFlow'
  BY <1>1, SetupFlowNext
<1>4. AsksBounded' /\ AsksCounted'
  BY <1>1, AsksBoundedNext, AsksCountedNext
<1>5. WalletsLost' /\ RowsMade'
  BY <1>1, WalletsLostNext, RowsMadeNext
<1>. QED  BY <1>2, <1>3, <1>4, <1>5 DEF AddressInv

\* Types: the job's attempts never run below zero, and no question goes beyond the
\* addresses the budget of mishaps allows, wherever the job is struck.
THEOREM AddressesTyped == AddressSpec => []AddressTypeOK
<1>1. AddressInv => AddressTypeOK
  BY DEF AddressInv
<1>. QED  BY <1>1, AddressInvInit, AddressInvNext, PTL DEF AddressSpec

\* Quidax is asked again for an address, and a wallet gets an id of the handler's
\* own, only after a transaction of the job was rolled back, and every row in use has
\* an address Quidax made for its network: for any networks, tagged or not, any
\* number of attempts and any budget of mishaps.
THEOREM AddressesAlwaysExact == AddressSpec => []AddressesExact
<1>1. AddressInv => AddressesExact
  BY DEF AddressInv, AddressesExact, AsksCounted, AskCounted, WalletsLost, RowsMade, MadeFor, Made
<1>. QED  BY <1>1, AddressInvInit, AddressInvNext, PTL DEF AddressSpec

---------------------------------------------------------------------------
(* The row of naira                                                        *)

\* A settlement that is not stuck has an attempt left.
Attempted == \A d \in Deals : deal[d].at # "stuck" => deal[d].tries < SettleTries

\* What a scheduler has read was the balance, up to what has moved since.
ReadTracked(s) ==
    /\ task[s].of # "none" =>
         task[s].seen \in Nat /\ Gap(task[s].seen, fund[task[s].of]) <= task[s].moved
    /\ task[s].at = "wrote" => task[s].of = "paystack"
ReadsTracked == \A s \in Syncs : ReadTracked(s)

\* Which balance each column can have been written from.
Feeding == /\ drift["total"].feed \in {"quidax", "paystack", "none"}
           /\ drift["internal"].feed \in {"users", "none"}
TotalTracked == drift["total"].feed # "none" =>
    Gap(row.total, fund[drift["total"].feed]) <= drift["total"].by
InternalTracked == drift["internal"].feed # "none" =>
    Gap(row.internal, fund["users"]) <= drift["internal"].by

Owing == SumFunctionOnSet(Size, Outstanding)

LEMMA DriftParts ==
    ASSUME LiquidityTypeOK, Feeding
    PROVE  DriftBounded <=> TotalTracked /\ InternalTracked
BY DEF LiquidityTypeOK, Feeding, DriftBounded, TotalTracked, InternalTracked

LEMMA OwingNatural ==
    Owing \in Nat /\ Owing' \in Nat
<1>1. \A d \in Deals : Size[d] \in Nat
  BY LiquidityAssumption
<1>2. /\ IsFiniteSet(Outstanding) /\ Outstanding \subseteq Deals
      /\ IsFiniteSet(Outstanding') /\ Outstanding' \subseteq Deals
  BY LiquidityAssumption, FS_Subset DEF Outstanding
<1>3. \A S \in SUBSET Deals : IsFiniteSet(S) => SumFunctionOnSet(Size, S) \in Nat
  BY <1>1, SumNatural
<1>4. SumFunctionOnSet(Size, Outstanding') = Owing'
  BY DEF Owing
<1>. QED  BY <1>2, <1>3, <1>4 DEF Owing

\* A payment enters or leaves the outstanding ones.
LEMMA OwingMoves ==
    ASSUME NEW d \in Deals
    PROVE  /\ Outstanding' = Outstanding => Owing' = Owing
           /\ d \notin Outstanding /\ Outstanding' = Outstanding \cup {d}
                => Owing' = Owing + Size[d]
           /\ d \in Outstanding /\ Outstanding' = Outstanding \ {d}
                => Owing = Owing' + Size[d]
<1>1. \A e \in Deals : Size[e] \in Int
  BY LiquidityAssumption
<1>2. IsFiniteSet(Outstanding) /\ Outstanding \subseteq Deals
  BY LiquidityAssumption, FS_Subset DEF Outstanding
<1>3. SumFunctionOnSet(Size, Outstanding') = Owing'
  BY DEF Owing
<1>4. Owing \in Nat /\ Owing' \in Nat
  BY OwingNatural
<1>5. ASSUME d \notin Outstanding
      PROVE  SumFunctionOnSet(Size, Outstanding \cup {d}) = Size[d] + Owing
  BY <1>1, <1>2, <1>5, SumAdd DEF Owing
<1>6. ASSUME d \in Outstanding
      PROVE  Owing = Size[d] + SumFunctionOnSet(Size, Outstanding \ {d})
  BY <1>1, <1>2, <1>6, SumRemove DEF Owing
<1>7. Size[d] \in Nat
  BY LiquidityAssumption
<1>8. CASE d \notin Outstanding /\ Outstanding' = Outstanding \cup {d}
  BY <1>8, <1>3, <1>5, <1>4, <1>7
<1>9. CASE d \in Outstanding /\ Outstanding' = Outstanding \ {d}
  BY <1>3, <1>6, <1>9, <1>4, <1>7
<1>10. Outstanding' = Outstanding => Owing' = Owing
  BY <1>3 DEF Owing
<1>. QED  BY <1>8, <1>9, <1>10

Tasks == [of : Feeds \cup {"none"}, at : {"none", "read", "wrote"},
          seen : Int, moved : Nat, held : Nat]
CachedPurses == [on : BOOLEAN, total : Nat, reserved : Nat, moved : Nat]

\* Something moves in the balance of f.
LEMMA MovedFund ==
    ASSUME LiquidityTypeOK, ReadsTracked, PurseHonest,
           NEW f \in Feeds, NEW amount \in Nat, Moved(f, amount),
           fund' \in [Feeds -> Nat], \A g \in Feeds \ {f} : fund'[g] = fund[g],
           fund'[f] \in {fund[f] + amount, fund[f] - amount}
    PROVE  /\ ReadsTracked' /\ PurseHonest'
           /\ task' \in [Syncs -> Tasks] /\ paystackCache' \in CachedPurses
<1>1. /\ task \in [Syncs -> Tasks] /\ paystackCache \in CachedPurses
      /\ fund \in [Feeds -> Nat]
  BY DEF LiquidityTypeOK, Tasks, CachedPurses
<1>2. ASSUME NEW a \in Nat, NEW g \in Feeds, NEW m \in Nat, Gap(a, fund[g]) <= m
      PROVE  Gap(a, fund'[g]) <= IF g = f THEN m + amount ELSE m
  BY <1>1, <1>2 DEF Gap
<1>3. ASSUME NEW s \in Syncs PROVE task'[s] \in Tasks /\ ReadTracked(s)'
  <2>1. ReadTracked(s) /\ task[s] \in Tasks
    BY <1>1 DEF ReadsTracked
  <2>2. CASE task[s].of = f
    <3>1. task'[s] = [task[s] EXCEPT !.moved = @ + amount]
      BY <2>2 DEF Moved
    <3>2. /\ task'[s] \in Tasks /\ task'[s].seen = task[s].seen
          /\ task'[s].of = f /\ task'[s].at = task[s].at
          /\ task'[s].moved = task[s].moved + amount
      BY <2>1, <2>2, <3>1 DEF Tasks
    <3>3. f # "none"
      BY DEF Feeds
    <3>4. /\ task[s].seen \in Nat /\ Gap(task[s].seen, fund[f]) <= task[s].moved
          /\ task[s].moved \in Nat
      BY <2>1, <2>2, <3>3 DEF ReadTracked, Tasks
    <3>5. Gap(task[s].seen, fund'[f]) <= task[s].moved + amount
      BY <1>2, <3>4
    <3>. QED  BY <2>1, <2>2, <3>2, <3>4, <3>5 DEF ReadTracked
  <2>3. CASE task[s].of # f
    BY <2>3, <2>1 DEF Moved, Tasks, ReadTracked
  <2>. QED  BY <2>2, <2>3
<1>4. task' \in [Syncs -> Tasks] /\ ReadsTracked'
  BY <1>3 DEF Moved, ReadsTracked
<1>5. PurseHonest' /\ paystackCache' \in CachedPurses
  <2>1. CASE f = "paystack"
    <3>1. paystackCache' = [paystackCache EXCEPT !.moved = @ + amount]
      BY <2>1 DEF Moved
    <3>2. /\ paystackCache' \in CachedPurses
          /\ paystackCache'.on = paystackCache.on
          /\ paystackCache'.total = paystackCache.total
          /\ paystackCache'.moved = paystackCache.moved + amount
          /\ paystackCache.total \in Nat /\ paystackCache.moved \in Nat
      BY <1>1, <3>1 DEF CachedPurses
    <3>3. paystackCache.on =>
            Gap(paystackCache.total, fund'[f]) <= paystackCache.moved + amount
      BY <1>2, <2>1, <3>2 DEF PurseHonest
    <3>. QED  BY <2>1, <3>2, <3>3 DEF PurseHonest
  <2>2. CASE f # "paystack"
    BY <2>2, <1>1 DEF Moved, Feeds, PurseHonest
  <2>. QED  BY <2>1, <2>2
<1>. QED  BY <1>4, <1>5

\* The wallets hold what the payments under way will take.
WalletsCover == Owing <= fund["users"]

Rows == [made : {"none", "own", "paystack"}, total : Int, reserved : Nat, internal : Int]
Deal == [at : {"new", "held", "sent", "checked", "refused", "paid", "released", "stuck"},
         tries : 0..SettleTries]
OnTheWay == {"held", "sent", "checked", "refused", "stuck"}

LiquidityInv == /\ LiquidityTypeOK /\ Attempted /\ ReadsTracked /\ Feeding
                /\ LiquidityExact /\ WalletsCover

\* A payment's next stage, on the way or after another attempt.
LEMMA StageMoves ==
    ASSUME LiquidityTypeOK, Attempted, NEW d \in Deals, deal[d].at # "stuck",
           NEW at \in {"held", "sent", "checked", "refused", "paid", "released"},
           deal' = [deal EXCEPT ![d].at = at]
    PROVE  /\ deal' \in [Deals -> Deal] /\ Attempted' /\ deal'[d].at = at
           /\ \A e \in Deals \ {d} : deal'[e] = deal[e]
<1>1. deal \in [Deals -> Deal]
  BY DEF LiquidityTypeOK, Deal
<1>2. deal'[d] = [at |-> at, tries |-> deal[d].tries]
  BY <1>1 DEF Deal
<1>3. deal[d].tries \in 0..SettleTries /\ deal[d].tries < SettleTries
  BY <1>1 DEF Attempted, Deal
<1>4. deal'[d] \in Deal /\ deal'[d].at = at /\ deal'[d].tries = deal[d].tries
  BY <1>2, <1>3 DEF Deal
<1>5. \A e \in Deals \ {d} : deal'[e] = deal[e]
  BY <1>1
<1>6. deal' \in [Deals -> Deal]
  BY <1>1, <1>2, <1>4
<1>7. Attempted'
  BY <1>3, <1>4, <1>5 DEF Attempted
<1>. QED  BY <1>4, <1>5, <1>6, <1>7

LEMMA Retried ==
    ASSUME LiquidityTypeOK, Attempted, NEW d \in Deals, deal[d].at # "stuck",
           deal' = Again(d)
    PROVE  /\ deal' \in [Deals -> Deal] /\ Attempted'
           /\ deal'[d].at \in {"stuck", "sent"}
           /\ \A e \in Deals \ {d} : deal'[e] = deal[e]
<1> DEFINE tries == deal[d].tries + 1
           at == IF tries = SettleTries THEN "stuck" ELSE "sent"
<1>1. deal \in [Deals -> Deal]
  BY DEF LiquidityTypeOK, Deal
<1>2. deal'[d] = [at |-> at, tries |-> tries]
  BY <1>1 DEF Again
<1>3. deal[d].tries \in 0..SettleTries /\ deal[d].tries < SettleTries
  BY <1>1 DEF Attempted, Deal
<1>4. /\ at \in {"stuck", "sent"} /\ tries \in 0..SettleTries
      /\ at # "stuck" => tries < SettleTries
  BY <1>3, LiquidityAssumption
<1>5. \A e \in Deals \ {d} : deal'[e] = deal[e]
  BY <1>1 DEF Again
<1>6. deal' = [deal EXCEPT ![d] = [at |-> at, tries |-> tries]]
  BY DEF Again
<1>. HIDE DEF tries, at
<1>7. deal'[d] \in Deal /\ deal'[d].at = at /\ deal'[d].tries = tries
  BY <1>2, <1>4 DEF Deal
<1>8. deal' \in [Deals -> Deal]
  BY <1>1, <1>2, <1>6, <1>7
<1>9. Attempted'
  BY <1>4, <1>5, <1>7 DEF Attempted
<1>. QED  BY <1>4, <1>5, <1>7, <1>8, <1>9

\* What that means for the sum.
LEMMA StageOwing ==
    ASSUME NEW d \in Deals, \A e \in Deals \ {d} : deal'[e] = deal[e]
    PROVE  /\ Owing \in Nat /\ Owing' \in Nat /\ Size[d] \in Nat
           /\ (deal[d].at \in OnTheWay <=> deal'[d].at \in OnTheWay) => Owing' = Owing
           /\ deal[d].at \notin OnTheWay /\ deal'[d].at \in OnTheWay
                => Owing' = Owing + Size[d]
           /\ deal[d].at \in OnTheWay /\ deal'[d].at \notin OnTheWay
                => Owing = Owing' + Size[d]
<1>1. Owing \in Nat /\ Owing' \in Nat /\ Size[d] \in Nat
  BY OwingNatural, LiquidityAssumption
<1>2. \A e \in Deals \ {d} : e \in Outstanding' <=> e \in Outstanding
  BY DEF Outstanding
<1>3. /\ d \in Outstanding <=> deal[d].at \in OnTheWay
      /\ d \in Outstanding' <=> deal'[d].at \in OnTheWay
  BY DEF Outstanding, OnTheWay
<1>4. Outstanding \subseteq Deals /\ Outstanding' \subseteq Deals
  BY DEF Outstanding
<1>5. /\ (deal[d].at \in OnTheWay <=> deal'[d].at \in OnTheWay) => Outstanding' = Outstanding
      /\ deal[d].at \notin OnTheWay /\ deal'[d].at \in OnTheWay =>
           d \notin Outstanding /\ Outstanding' = Outstanding \cup {d}
      /\ deal[d].at \in OnTheWay /\ deal'[d].at \notin OnTheWay =>
           d \in Outstanding /\ Outstanding' = Outstanding \ {d}
  BY <1>2, <1>3, <1>4
<1>. QED  BY <1>1, <1>5, OwingMoves

LEMMA OwingSame == ASSUME UNCHANGED deal PROVE Owing' = Owing
BY DEF Owing, Outstanding

\* Rows, wallets and payments.
MoneyKept == /\ row \in Rows /\ fund \in [Feeds -> Nat]
             /\ deal \in [Deals -> Deal] /\ Attempted
             /\ ReservedExact /\ WalletsCover

LEMMA MoneyIs == LiquidityInv => MoneyKept
BY DEF LiquidityInv, LiquidityTypeOK, MoneyKept, LiquidityExact, Rows, Deal

LEMMA PaymentMoney ==
    ASSUME LiquidityInv, NEW d \in Deals, Reserve(d) \/ DealStep(d)
    PROVE  MoneyKept'
<1>. USE DEF MoneyKept, ReservedExact, Owing, WalletsCover
<1>1. MoneyKept /\ LiquidityTypeOK /\ Attempted /\ PaidBy[d] \in Feeds
  BY MoneyIs, LiquidityAssumption DEF LiquidityInv, Feeds
<1>2. /\ row.total \in Int /\ row.reserved \in Nat /\ row.internal \in Int
      /\ row.made \in {"none", "own", "paystack"}
      /\ row = [made |-> row.made, total |-> row.total, reserved |-> row.reserved,
                internal |-> row.internal]
  BY <1>1 DEF Rows
<1>3. /\ Size[d] \in Nat /\ Owing \in Nat /\ Owing' \in Nat
      /\ row.reserved = Owing /\ Owing <= fund["users"]
      /\ \A f \in Feeds : fund[f] \in Nat
  BY <1>1, OwingNatural, LiquidityAssumption
<1>. HIDE DEF MoneyKept, ReservedExact, Owing, WalletsCover
<1>4. CASE Reserve(d)
  <2>1. /\ deal[d].at = "new" /\ deal' = [deal EXCEPT ![d].at = "held"]
        /\ row' = [row EXCEPT !.reserved = @ + Size[d]] /\ UNCHANGED fund
        /\ Unheld >= Size[d]
    BY <1>4 DEF Reserve
  <2>2. /\ deal' \in [Deals -> Deal] /\ Attempted' /\ deal'[d].at = "held"
        /\ \A e \in Deals \ {d} : deal'[e] = deal[e]
    BY <1>1, <2>1, StageMoves
  <2>3. Owing' = Owing + Size[d]
    BY <2>1, <2>2, StageOwing DEF OnTheWay
  <2>4. row' \in Rows /\ row'.reserved = row.reserved + Size[d]
    BY <1>2, <1>3, <2>1 DEF Rows
  <2>5. Owing + Size[d] <= fund["users"]
    BY <1>3, <2>1 DEF Unheld, Owing, Feeds
  <2>6. row'.reserved = Owing' /\ Owing' <= fund'["users"]
    BY <1>3, <2>1, <2>3, <2>4, <2>5
  <2>. QED  BY <1>1, <2>1, <2>2, <2>4, <2>6 DEF MoneyKept, ReservedExact, WalletsCover, Owing
<1>5. CASE PayOut(d)
  <2>1. /\ deal[d].at = "held" /\ deal' = [deal EXCEPT ![d].at = "sent"]
        /\ UNCHANGED row /\ fund[PaidBy[d]] >= Size[d]
        /\ fund' = [fund EXCEPT ![PaidBy[d]] = @ - Size[d]]
    BY <1>5 DEF PayOut
  <2>2. /\ deal' \in [Deals -> Deal] /\ Attempted' /\ deal'[d].at = "sent"
        /\ \A e \in Deals \ {d} : deal'[e] = deal[e]
    BY <1>1, <2>1, StageMoves
  <2>3. Owing' = Owing
    BY <2>1, <2>2, StageOwing DEF OnTheWay
  <2>4. fund' \in [Feeds -> Nat] /\ fund'["users"] = fund["users"]
    <3>1. fund[PaidBy[d]] - Size[d] \in Nat
      BY <1>1, <1>3, <2>1
    <3>2. PaidBy[d] # "users" /\ "users" \in Feeds
      BY LiquidityAssumption DEF Feeds
    <3>. QED  BY <1>1, <2>1, <3>1, <3>2 DEF MoneyKept
  <2>. QED  BY <1>1, <1>3, <2>1, <2>2, <2>3, <2>4 DEF MoneyKept, ReservedExact, WalletsCover, Owing
<1>6. CASE Refuse(d)
  BY <1>6, <1>1, StageMoves, StageOwing, <1>3 DEF Refuse, OnTheWay, MoneyKept, ReservedExact,
    WalletsCover, Owing
<1>7. CASE Release(d)
  <2>1. /\ deal[d].at = "refused" /\ deal' = [deal EXCEPT ![d].at = "released"]
        /\ row' = [row EXCEPT !.reserved = @ - Size[d]] /\ UNCHANGED fund
        /\ row.reserved >= Size[d]
    BY <1>7 DEF Release
  <2>2. /\ deal' \in [Deals -> Deal] /\ Attempted' /\ deal'[d].at = "released"
        /\ \A e \in Deals \ {d} : deal'[e] = deal[e]
    BY <1>1, <2>1, StageMoves
  <2>3. Owing = Owing' + Size[d]
    BY <2>1, <2>2, StageOwing DEF OnTheWay
  <2>4. row' \in Rows /\ row'.reserved = row.reserved - Size[d]
    BY <1>2, <1>3, <2>1 DEF Rows
  <2>5. row'.reserved = Owing' /\ Owing' <= fund'["users"]
    BY <1>3, <2>1, <2>3, <2>4 DEF Feeds
  <2>. QED  BY <1>1, <2>1, <2>2, <2>4, <2>5 DEF MoneyKept, ReservedExact, WalletsCover, Owing
<1>8. CASE SettleCheck(d) \/ SettleRefused(d)
  <2>1. /\ deal[d].at \in {"sent", "checked"} /\ UNCHANGED <<row, fund>>
        /\ deal' = Again(d) \/ deal' = [deal EXCEPT ![d].at = "checked"]
    BY <1>8 DEF SettleCheck, SettleRefused
  <2>2. /\ deal' \in [Deals -> Deal] /\ Attempted'
        /\ deal'[d].at \in {"checked", "stuck", "sent"}
        /\ \A e \in Deals \ {d} : deal'[e] = deal[e]
    <3>1. CASE deal' = Again(d)
      BY <1>1, <2>1, <3>1, Retried
    <3>2. CASE deal' = [deal EXCEPT ![d].at = "checked"]
      BY <1>1, <2>1, <3>2, StageMoves
    <3>. QED  BY <2>1, <3>1, <3>2
  <2>3. Owing' = Owing
    BY <2>1, <2>2, StageOwing DEF OnTheWay
  <2>. QED  BY <1>1, <1>3, <2>1, <2>2, <2>3 DEF MoneyKept, ReservedExact, WalletsCover, Owing
<1>9. CASE SettleCommit(d)
  <2>1. /\ deal[d].at = "checked" /\ deal' = [deal EXCEPT ![d].at = "paid"]
        /\ row' = [row EXCEPT !.reserved = @ - Size[d], !.total = @ - Size[d],
                              !.internal = @ - Size[d]]
        /\ fund' = [fund EXCEPT !["users"] = @ - Size[d]]
        /\ row.reserved >= Size[d]
    BY <1>9 DEF SettleCommit, CanConsume
  <2>2. /\ deal' \in [Deals -> Deal] /\ Attempted' /\ deal'[d].at = "paid"
        /\ \A e \in Deals \ {d} : deal'[e] = deal[e]
    BY <1>1, <2>1, StageMoves
  <2>3. Owing = Owing' + Size[d]
    BY <2>1, <2>2, StageOwing DEF OnTheWay
  <2>4. row' \in Rows /\ row'.reserved = row.reserved - Size[d]
    <3>1. row' = [made |-> row.made, total |-> row.total - Size[d],
                  reserved |-> row.reserved - Size[d],
                  internal |-> row.internal - Size[d]]
      BY <1>2, <2>1
    <3>2. /\ row.total - Size[d] \in Int /\ row.reserved - Size[d] \in Nat
          /\ row.internal - Size[d] \in Int
      BY <1>2, <1>3, <2>1
    <3>. QED  BY <1>2, <3>1, <3>2 DEF Rows
  <2>5. fund["users"] - Size[d] \in Nat /\ Owing' <= fund["users"] - Size[d]
        /\ "users" \in Feeds
    BY <1>3, <2>3 DEF Feeds
  <2>6. fund' \in [Feeds -> Nat] /\ fund'["users"] = fund["users"] - Size[d]
    BY <1>1, <2>1, <2>5 DEF MoneyKept
  <2>7. row'.reserved = Owing' /\ Owing' <= fund'["users"]
    BY <1>3, <2>3, <2>4, <2>5, <2>6
  <2>. QED  BY <2>2, <2>4, <2>6, <2>7 DEF MoneyKept, ReservedExact, WalletsCover, Owing
<1>. QED  BY <1>4, <1>5, <1>6, <1>7, <1>8, <1>9 DEF DealStep

LEMMA MoneyNext ==
    ASSUME LiquidityInv, [LiquidityNext]_<<liquidityVars, budget>>
    PROVE  MoneyKept'
<1>1. MoneyKept
  BY MoneyIs
<1>2. CASE \E d \in Deals : Reserve(d) \/ DealStep(d)
  BY <1>2, PaymentMoney
<1>3. ASSUME UNCHANGED deal, row' \in Rows, row'.reserved = row.reserved,
             fund' \in [Feeds -> Nat], fund'["users"] >= fund["users"]
      PROVE  MoneyKept'
  BY <1>3, OwingSame, OwingNatural, <1>1 DEF MoneyKept, Feeds, WalletsCover, Attempted,
    ReservedExact, Owing
<1>4. /\ row \in Rows /\ row.total \in Int /\ row.internal \in Int
      /\ \A s \in Syncs : task[s].seen \in Int
  BY <1>1 DEF MoneyKept, Rows, LiquidityInv, LiquidityTypeOK
<1>5. CASE Arrive
  BY <1>1, <1>3, <1>5 DEF Arrive, MoneyKept, Feeds
<1>6. CASE Book
  <2>1. row' = [row EXCEPT !.made = IF @ = "none" THEN "own" ELSE @,
                           !.total = @ + 1, !.internal = @ + 1]
    BY <1>6 DEF Book
  <2>2. row' \in Rows /\ row'.reserved = row.reserved
    <3>1. (IF row.made = "none" THEN "own" ELSE row.made) \in {"none", "own", "paystack"}
      BY <1>4 DEF Rows
    <3>2. row.total + 1 \in Int /\ row.internal + 1 \in Int
      BY <1>4
    <3>. QED  BY <1>4, <2>1, <3>1, <3>2 DEF Rows
  <2>. QED  BY <1>1, <1>3, <1>6, <2>2 DEF Book, MoneyKept, Feeds
<1>7. ASSUME NEW s \in Syncs, SyncStep(s) PROVE MoneyKept'
  <2>1. /\ UNCHANGED <<deal, fund>>
        /\ \/ UNCHANGED row
           \/ row' = WithTotal(row, task[s].seen, "own")
           \/ row' = WithTotal(row, task[s].seen, "paystack")
           \/ row' = [row EXCEPT !.internal = task[s].seen,
                                 !.made = IF @ = "none" THEN "own" ELSE @]
    BY <1>7 DEF SyncStep, SyncQuidax, SyncInternal, SyncPaystack, CachePaystack
  <2>2. row' \in Rows /\ row'.reserved = row.reserved
    <3>1. task[s].seen \in Int /\ \A made \in {"own", "paystack"} :
            (IF row.made = "none" THEN made ELSE row.made)
              \in {"none", "own", "paystack"}
      BY <1>4 DEF Rows
    <3>2. ASSUME NEW made \in {"own", "paystack"},
                 row' = WithTotal(row, task[s].seen, made)
          PROVE  row' \in Rows /\ row'.reserved = row.reserved
      BY <1>4, <3>1, <3>2 DEF WithTotal, Rows
    <3>3. CASE row' = [row EXCEPT !.internal = task[s].seen,
                                  !.made = IF @ = "none" THEN "own" ELSE @]
      BY <1>4, <3>1, <3>3 DEF Rows
    <3>4. CASE UNCHANGED row
      BY <1>4, <3>4
    <3>. QED  BY <2>1, <3>2, <3>3, <3>4
  <2>. QED  BY <1>1, <1>3, <2>1, <2>2 DEF MoneyKept, Feeds
<1>8. CASE \E s \in Syncs, f \in Feeds : Read(s, f)
  BY <1>1, <1>3, <1>8 DEF Read, MoneyKept, Feeds
<1>9. CASE UNCHANGED <<liquidityVars, budget>>
  BY <1>1, <1>3, <1>9 DEF liquidityVars, MoneyKept, Feeds
<1>. QED  BY <1>2, <1>5, <1>6, <1>7, <1>8, <1>9 DEF LiquidityNext

\* Whoever reads or moves a balance, what was read of it stays tracked.
LEMMA ReadsNext ==
    ASSUME LiquidityInv, [LiquidityNext]_<<liquidityVars, budget>>
    PROVE  /\ ReadsTracked' /\ PurseHonest'
           /\ task' \in [Syncs -> Tasks] /\ paystackCache' \in CachedPurses
<1>1. /\ LiquidityTypeOK /\ ReadsTracked /\ PurseHonest
      /\ task \in [Syncs -> Tasks] /\ paystackCache \in CachedPurses
      /\ fund \in [Feeds -> Nat] /\ row.reserved \in Nat
  BY DEF LiquidityInv, LiquidityExact, LiquidityTypeOK, Tasks, CachedPurses
<1>2. fund' \in [Feeds -> Nat]
  BY MoneyNext DEF MoneyKept
<1>3. /\ 1 \in Nat /\ {"quidax", "paystack", "users"} \subseteq Feeds
      /\ \A d \in Deals : Size[d] \in Nat /\ PaidBy[d] \in Feeds
  BY LiquidityAssumption DEF Feeds
<1>4. ASSUME NEW f \in Feeds, NEW amount \in Nat, Moved(f, amount),
             \/ fund' = [fund EXCEPT ![f] = @ - amount]
             \/ fund' = [fund EXCEPT ![f] = @ + amount]
      PROVE  /\ ReadsTracked' /\ PurseHonest'
             /\ task' \in [Syncs -> Tasks] /\ paystackCache' \in CachedPurses
  BY <1>1, <1>4, <1>2, MovedFund
<1>5. ASSUME NEW d \in Deals, PayOut(d) \/ SettleCommit(d)
      PROVE  \E f \in Feeds : /\ Moved(f, Size[d])
                              /\ fund' = [fund EXCEPT ![f] = @ - Size[d]]
  BY <1>3, <1>5 DEF PayOut, SettleCommit
<1>6. CASE \E d \in Deals : PayOut(d) \/ SettleCommit(d)
  BY <1>3, <1>4, <1>5, <1>6
<1>7. CASE Arrive \/ Book
  BY <1>3, <1>7, <1>4 DEF Arrive, Book
<1>8. CASE UNCHANGED <<fund, task, paystackCache>>
  BY <1>1, <1>8 DEF ReadsTracked, ReadTracked, PurseHonest
<1>9. CASE \E d \in Deals : \/ Reserve(d) \/ Refuse(d) \/ Release(d)
                            \/ SettleCheck(d) \/ SettleRefused(d)
  BY <1>8, <1>9 DEF Reserve, Refuse, Release, SettleCheck, SettleRefused
<1>10. CASE UNCHANGED <<liquidityVars, budget>>
  BY <1>8, <1>10 DEF liquidityVars
\* One run of a scheduler, of which nothing moves.
<1>11. ASSUME NEW s \in Syncs, NEW run \in Tasks, UNCHANGED fund,
              task' = [task EXCEPT ![s] = run],
              run.of # "none" =>
                run.seen \in Nat /\ Gap(run.seen, fund[run.of]) <= run.moved,
              run.at = "wrote" => run.of = "paystack"
       PROVE  ReadsTracked' /\ task' \in [Syncs -> Tasks]
  <2>1. task' \in [Syncs -> Tasks] /\ task'[s] = run
        /\ \A t \in Syncs \ {s} : task'[t] = task[t]
    BY <1>1, <1>11
  <2>2. ASSUME NEW t \in Syncs PROVE ReadTracked(t)'
    BY <1>1, <1>11, <2>1 DEF ReadsTracked, ReadTracked
  <2>. QED  BY <2>1, <2>2 DEF ReadsTracked
<1>12. Idle \in Tasks /\ Idle.of = "none" /\ Idle.at = "none"
  BY DEF Idle, Tasks
<1>13. ASSUME NEW s \in Syncs, NEW f \in Feeds, Read(s, f)
       PROVE  /\ ReadsTracked' /\ PurseHonest'
              /\ task' \in [Syncs -> Tasks] /\ paystackCache' \in CachedPurses
  <2> DEFINE run == [of |-> f, at |-> "read", seen |-> fund[f], moved |-> 0, held |-> 0]
  <2>1. task' = [task EXCEPT ![s] = run] /\ UNCHANGED <<fund, paystackCache>>
    <3>1. PICK then : then = [Idle EXCEPT !.of = f, !.at = "read", !.seen = fund[f]]
      OBVIOUS
    <3>2. then = run
      BY <3>1 DEF Idle
    <3>3. task' = [task EXCEPT ![s] = then] /\ UNCHANGED <<fund, paystackCache>>
      BY <1>13, <3>1 DEF Read
    <3>. QED  BY <3>2, <3>3
  <2>2. run \in Tasks /\ run.seen \in Nat /\ Gap(run.seen, fund[run.of]) <= run.moved
    BY <1>1 DEF Tasks, Gap
  <2>3. ReadsTracked' /\ task' \in [Syncs -> Tasks]
    BY <1>11, <2>1, <2>2
  <2>. QED  BY <1>1, <2>1, <2>3 DEF PurseHonest
<1>14. ASSUME NEW s \in Syncs, SyncStep(s)
       PROVE  /\ ReadsTracked' /\ PurseHonest'
              /\ task' \in [Syncs -> Tasks] /\ paystackCache' \in CachedPurses
  <2>1. task[s] \in Tasks /\ ReadTracked(s) /\ UNCHANGED fund
    BY <1>1, <1>14 DEF ReadsTracked, SyncStep, SyncQuidax, SyncInternal, SyncPaystack, CachePaystack
  <2>2. \/ task' = [task EXCEPT ![s] = Idle]
        \/ /\ task[s].of = "paystack"
           /\ task' = [task EXCEPT ![s] = [@ EXCEPT !.at = "wrote", !.held = row.reserved]]
    BY <1>14 DEF SyncStep, SyncQuidax, SyncInternal, SyncPaystack, CachePaystack
  <2>3. ASSUME task' = [task EXCEPT ![s] = Idle]
        PROVE  ReadsTracked' /\ task' \in [Syncs -> Tasks]
    BY <1>11, <1>12, <2>1, <2>3
  <2>4. ASSUME task[s].of = "paystack",
               task' = [task EXCEPT ![s] = [@ EXCEPT !.at = "wrote", !.held = row.reserved]]
        PROVE  ReadsTracked' /\ task' \in [Syncs -> Tasks]
    <3> DEFINE run == [of |-> task[s].of, at |-> "wrote", seen |-> task[s].seen,
                       moved |-> task[s].moved, held |-> row.reserved]
    <3>1. task' = [task EXCEPT ![s] = run]
      <4>1. PICK then : then = [task[s] EXCEPT !.at = "wrote", !.held = row.reserved]
        OBVIOUS
      <4>2. then = run
        BY <2>1, <4>1 DEF Tasks
      <4>3. task' = [task EXCEPT ![s] = then]
        BY <2>4, <4>1
      <4>. QED  BY <4>2, <4>3
    <3>2. run \in Tasks
      BY <1>1, <2>1 DEF Tasks
    <3>. QED  BY <1>11, <2>1, <2>4, <3>1, <3>2 DEF ReadTracked
  <2>5. PurseHonest' /\ paystackCache' \in CachedPurses
    <3>1. CASE UNCHANGED paystackCache
      BY <1>1, <2>1, <3>1 DEF PurseHonest
    <3>2. CASE CachePaystack(s)
      BY <3>2, <2>1 DEF CachePaystack, Answered, ReadTracked, Tasks, PurseHonest, CachedPurses
    <3>. QED  BY <1>14, <3>1, <3>2 DEF SyncStep, SyncQuidax, SyncInternal, SyncPaystack
  <2>. QED  BY <2>2, <2>3, <2>4, <2>5
<1>. QED  BY <1>6, <1>7, <1>9, <1>10, <1>13, <1>14 DEF LiquidityNext, DealStep

\* A column moves with its balance, or is moved without it and remembers.
LEMMA DriftNext ==
    ASSUME LiquidityInv, [LiquidityNext]_<<liquidityVars, budget>>
    PROVE  /\ Feeding' /\ TotalTracked' /\ InternalTracked'
           /\ drift' \in [{"total", "internal"} ->
                            [feed : Feeds \cup {"none"}, by : Nat]]
<1> DEFINE Drifts == [feed : Feeds \cup {"none"}, by : Nat]
<1>1. /\ Feeding /\ TotalTracked /\ InternalTracked /\ ReadsTracked
      /\ drift \in [{"total", "internal"} -> Drifts]
      /\ row \in Rows /\ fund \in [Feeds -> Nat] /\ task \in [Syncs -> Tasks]
  BY DriftParts DEF LiquidityInv, LiquidityExact, LiquidityTypeOK, Rows, Tasks
<1>2. /\ fund["quidax"] \in Nat /\ fund["paystack"] \in Nat /\ fund["users"] \in Nat
      /\ fund'["quidax"] \in Nat /\ fund'["paystack"] \in Nat
      /\ fund'["users"] \in Nat
      /\ row.total \in Int /\ row.internal \in Int
      /\ drift["total"].by \in Nat /\ drift["internal"].by \in Nat
      /\ drift["total"] \in Drifts /\ drift["internal"] \in Drifts
  BY <1>1, MoneyNext DEF MoneyKept, Feeds, Rows
<1>3. \A d \in Deals : Size[d] \in Nat /\ PaidBy[d] \in {"quidax", "paystack"}
  BY LiquidityAssumption
<1>4. CASE UNCHANGED <<row, fund, drift>>
  BY <1>1, <1>4 DEF Feeding, TotalTracked, InternalTracked
\* A balance of the company moves by n.
<1>5. ASSUME NEW f \in {"quidax", "paystack"}, NEW n \in Nat, UNCHANGED row,
             \/ fund' = [fund EXCEPT ![f] = @ - n]
             \/ fund' = [fund EXCEPT ![f] = @ + n],
             drift' = BehindBy(drift, f, n)
      PROVE  /\ Feeding' /\ TotalTracked' /\ InternalTracked'
             /\ drift' \in [{"total", "internal"} -> Drifts]
  <2>1. /\ fund'["users"] = fund["users"] /\ f \in Feeds /\ Column(f) = "total"
        /\ \A g \in {"quidax", "paystack"} \ {f} : fund'[g] = fund[g]
        /\ fund'[f] \in {fund[f] - n, fund[f] + n} /\ fund[f] \in Nat
        /\ fund'[f] \in Nat
    BY <1>1, <1>2, <1>5 DEF Feeds, Column
  <2>2. PICK by \in Nat : by = IF drift["total"].feed = f THEN drift["total"].by + n
                               ELSE drift["total"].by
    BY <1>2
  <2>3. drift' = [drift EXCEPT !["total"].by = by]
    BY <1>5, <2>1, <2>2 DEF BehindBy
  <2>4. /\ drift'["total"].feed = drift["total"].feed /\ drift'["total"].by = by
        /\ drift'["internal"] = drift["internal"]
        /\ drift' \in [{"total", "internal"} -> Drifts]
    BY <1>1, <1>2, <2>3
  <2>5. drift["total"].feed = f =>
          (Gap(row.total, fund[f]) <= drift["total"].by =>
             Gap(row.total, fund'[f]) <= by)
    BY <1>2, <2>1, <2>2 DEF Gap
  <2>6. TotalTracked'
    BY <1>1, <1>5, <2>1, <2>2, <2>4, <2>5 DEF TotalTracked, Feeding
  <2>. QED  BY <1>1, <1>5, <2>1, <2>4, <2>6 DEF Feeding, InternalTracked
<1>6. CASE \E d \in Deals : PayOut(d)
  BY <1>3, <1>5, <1>6 DEF PayOut
<1>7. CASE Arrive
  BY <1>5, <1>7 DEF Arrive
\* Both columns move by n, and the wallets with them.
<1>8. ASSUME NEW n \in Nat, drift' = Adjusted(drift, n),
             \/ /\ fund' = [fund EXCEPT !["users"] = @ - n]
                /\ row'.total = row.total - n /\ row'.internal = row.internal - n
             \/ /\ fund' = [fund EXCEPT !["users"] = @ + n]
                /\ row'.total = row.total + n /\ row'.internal = row.internal + n
      PROVE  /\ Feeding' /\ TotalTracked' /\ InternalTracked'
             /\ drift' \in [{"total", "internal"} -> Drifts]
  <2>1. /\ fund'["quidax"] = fund["quidax"] /\ fund'["paystack"] = fund["paystack"]
        /\ \/ /\ fund'["users"] = fund["users"] - n
              /\ row'.total = row.total - n /\ row'.internal = row.internal - n
           \/ /\ fund'["users"] = fund["users"] + n
              /\ row'.total = row.total + n /\ row'.internal = row.internal + n
    BY <1>1, <1>8 DEF Feeds
  <2>2. PICK by \in Nat : by = drift["total"].by + n
    BY <1>2
  <2>3. drift' = [drift EXCEPT !["total"].by = by]
    BY <1>8, <2>2 DEF Adjusted
  <2>4. /\ drift'["total"].feed = drift["total"].feed /\ drift'["total"].by = by
        /\ drift'["internal"] = drift["internal"]
        /\ drift' \in [{"total", "internal"} -> Drifts]
    BY <1>1, <1>2, <2>3
  <2>5. \A b \in Nat : Gap(row.total, b) <= drift["total"].by =>
                         Gap(row'.total, b) <= by
    BY <1>2, <2>1, <2>2 DEF Gap
  <2>6. Gap(row'.internal, fund'["users"]) = Gap(row.internal, fund["users"])
    BY <1>2, <2>1 DEF Gap
  <2>7. TotalTracked'
    BY <1>1, <1>2, <2>1, <2>4, <2>5 DEF Feeding, TotalTracked
  <2>8. InternalTracked'
    BY <1>1, <2>4, <2>6 DEF InternalTracked
  <2>. QED  BY <1>1, <2>4, <2>7, <2>8 DEF Feeding
<1>9. CASE \E d \in Deals : SettleCommit(d)
  <2>1. PICK d \in Deals : SettleCommit(d)
    BY <1>9
  <2>2. row'.total = row.total - Size[d] /\ row'.internal = row.internal - Size[d]
    BY <1>1, <2>1 DEF SettleCommit, Rows
  <2>. QED  BY <1>3, <1>8, <2>1, <2>2 DEF SettleCommit
<1>10. CASE Book
  BY <1>1, <1>10, <1>8 DEF Book, Rows
<1>11. CASE \E d \in Deals : \/ Refuse(d) \/ SettleCheck(d) \/ SettleRefused(d)
  BY <1>4, <1>11 DEF Refuse, SettleCheck, SettleRefused
<1>12. CASE \E d \in Deals : Reserve(d) \/ Release(d)
  BY <1>1, <1>12 DEF Reserve, Release, Rows, Feeding, TotalTracked, InternalTracked
<1>13. CASE \E s \in Syncs, f \in Feeds : Read(s, f)
  BY <1>4, <1>13 DEF Read
<1>14. CASE UNCHANGED <<liquidityVars, budget>>
  BY <1>4, <1>14 DEF liquidityVars
\* A scheduler writes what it has read.
<1>15. ASSUME NEW s \in Syncs, UNCHANGED fund, task[s].of \in {"quidax", "paystack"},
              row'.total = task[s].seen, row'.internal = row.internal,
              drift' = Overwritten(task[s].of, s)
       PROVE  /\ Feeding' /\ TotalTracked' /\ InternalTracked'
              /\ drift' \in [{"total", "internal"} -> Drifts]
  <2>1. PICK d \in Drifts : d = [feed |-> task[s].of, by |-> task[s].moved]
    BY <1>1, <1>15 DEF Tasks
  <2>2. drift' = [drift EXCEPT !["total"] = d]
    BY <1>15, <2>1 DEF Overwritten, Column
  <2>3. /\ drift'["total"] = d /\ drift'["internal"] = drift["internal"]
        /\ drift' \in [{"total", "internal"} -> Drifts]
        /\ d.feed = task[s].of /\ d.by = task[s].moved
    BY <1>1, <2>1, <2>2
  <2>4. Gap(task[s].seen, fund[task[s].of]) <= task[s].moved
    BY <1>1, <1>15 DEF ReadsTracked, ReadTracked
  <2>. QED  BY <1>1, <1>15, <2>3, <2>4 DEF Feeding, TotalTracked, InternalTracked
<1>16. ASSUME NEW s \in Syncs, SyncStep(s)
       PROVE  /\ Feeding' /\ TotalTracked' /\ InternalTracked'
              /\ drift' \in [{"total", "internal"} -> Drifts]
  <2>1. \A made : row' = WithTotal(row, task[s].seen, made) =>
          row'.total = task[s].seen /\ row'.internal = row.internal
    BY <1>1 DEF WithTotal, Rows
  <2>2. CASE SyncQuidax(s) \/ SyncPaystack(s)
    BY <1>4, <1>15, <2>1, <2>2 DEF SyncQuidax, SyncPaystack
  <2>3. CASE CachePaystack(s)
    BY <1>4, <2>3 DEF CachePaystack
  <2>4. CASE SyncInternal(s)
    <3>1. /\ row'.total = row.total /\ row'.internal = task[s].seen
          /\ task[s].of = "users" /\ UNCHANGED fund
          /\ drift' = Overwritten("users", s)
      BY <1>1, <2>4 DEF SyncInternal, Rows
    <3>2. PICK d \in Drifts : d = [feed |-> "users", by |-> task[s].moved]
      BY <1>1 DEF Tasks, Feeds
    <3>3. drift' = [drift EXCEPT !["internal"] = d]
      BY <3>1, <3>2 DEF Overwritten, Column
    <3>4. /\ drift'["internal"] = d /\ drift'["total"] = drift["total"]
          /\ drift' \in [{"total", "internal"} -> Drifts]
          /\ d.feed = "users" /\ d.by = task[s].moved
      BY <1>1, <3>2, <3>3
    <3>5. Gap(task[s].seen, fund["users"]) <= task[s].moved
      BY <1>1, <3>1 DEF ReadsTracked, ReadTracked
    <3>. QED  BY <1>1, <3>1, <3>4, <3>5 DEF Feeding, TotalTracked, InternalTracked
  <2>. QED  BY <1>16, <2>2, <2>3, <2>4 DEF SyncStep
<1>. QED  BY <1>6, <1>7, <1>9, <1>10, <1>11, <1>12, <1>13, <1>14, <1>16 DEF LiquidityNext, DealStep

LEMMA LiquidityInvInit == LiquidityInit => LiquidityInv
<1>. SUFFICES ASSUME LiquidityInit PROVE LiquidityInv
  OBVIOUS
<1>1. Funds["quidax"] \in Nat /\ Funds["paystack"] \in Nat
  BY LiquidityAssumption
<1>2. PICK made \in {"none", "own", "paystack"} :
         row = [made |-> made, reserved |-> 0,
                total |-> IF made = "none" THEN 0 ELSE Funds["quidax"],
                internal |-> IF made = "none" THEN 0 ELSE Funds["quidax"]]
  BY DEF LiquidityInit
<1>3. /\ row.made = made /\ row.reserved = 0 /\ row.total \in Nat /\ row.internal \in Nat
      /\ row \in Rows
      /\ row.made # "none" => row.total = Funds["quidax"] /\ row.internal = Funds["quidax"]
  BY <1>1, <1>2 DEF Rows
<1>4. /\ fund \in [Feeds -> Nat] /\ fund["quidax"] = Funds["quidax"]
      /\ fund["users"] = Funds["quidax"] /\ fund["paystack"] = Funds["paystack"]
  BY <1>1 DEF LiquidityInit, Feeds
<1>5. deal \in [Deals -> Deal] /\ \A d \in Deals : deal[d].at = "new" /\ deal[d].tries = 0
  BY LiquidityAssumption DEF LiquidityInit, Deal
<1>6. Idle \in Tasks /\ Idle.of = "none" /\ Idle.at = "none"
  BY DEF Idle, Tasks
<1>7. task \in [Syncs -> Tasks] /\ ReadsTracked
  BY <1>6 DEF LiquidityInit, ReadsTracked, ReadTracked
<1>8. paystackCache \in CachedPurses /\ PurseHonest
  BY DEF LiquidityInit, CachedPurses, PurseHonest
<1> DEFINE feed(c) == IF row.made = "none" THEN "none"
                      ELSE IF c = "total" THEN "quidax" ELSE "users"
<1>9. /\ drift["total"] = [feed |-> feed("total"), by |-> 0]
      /\ drift["internal"] = [feed |-> feed("internal"), by |-> 0]
      /\ drift \in [{"total", "internal"} -> [feed : Feeds \cup {"none"}, by : Nat]]
  BY DEF LiquidityInit, Feeds
<1>10. Feeding /\ TotalTracked /\ InternalTracked
  <2>1. Gap(Funds["quidax"], Funds["quidax"]) = 0
    BY <1>1 DEF Gap
  <2>2. CASE row.made = "none"
    BY <1>9, <2>2 DEF Feeding, TotalTracked, InternalTracked
  <2>3. CASE row.made # "none"
    BY <1>9, <2>3, <1>3, <1>4, <2>1 DEF Feeding, TotalTracked, InternalTracked
  <2>. QED  BY <2>2, <2>3
<1>11. Owing = 0
  <2>1. Outstanding = {}
    BY <1>5 DEF Outstanding
  <2>. QED  BY <2>1, SumEmpty DEF Owing
<1>12. ReservedExact /\ WalletsCover
  BY <1>1, <1>3, <1>4, <1>11 DEF ReservedExact, WalletsCover, Owing
<1>13. Attempted
  BY <1>5, LiquidityAssumption DEF Attempted
<1>14. LiquidityTypeOK
  BY <1>3, <1>4, <1>5, <1>7, <1>8, <1>9 DEF LiquidityInit, LiquidityTypeOK, Rows, Deal, Tasks,
    CachedPurses
<1>. QED  BY <1>7, <1>8, <1>10, <1>12, <1>13, <1>14, DriftParts DEF LiquidityInv, LiquidityExact

LEMMA LiquidityInvNext ==
    LiquidityInv /\ [LiquidityNext]_<<liquidityVars, budget>> => LiquidityInv'
<1>. SUFFICES ASSUME LiquidityInv, [LiquidityNext]_<<liquidityVars, budget>>
              PROVE  LiquidityInv'
  OBVIOUS
<1>1. MoneyKept'
  BY MoneyNext
<1>2. /\ ReadsTracked' /\ PurseHonest'
      /\ task' \in [Syncs -> Tasks] /\ paystackCache' \in CachedPurses
  BY ReadsNext
<1>3. /\ Feeding' /\ TotalTracked' /\ InternalTracked'
      /\ drift' \in [{"total", "internal"} -> [feed : Feeds \cup {"none"}, by : Nat]]
  BY DriftNext
<1>4. income' \in {"none", "arrived", "booked"}
  <2>1. income \in {"none", "arrived", "booked"}
    BY DEF LiquidityInv, LiquidityTypeOK
  <2>2. UNCHANGED income \/ income' \in {"arrived", "booked"}
    BY DEF LiquidityNext, DealStep, SyncStep, Reserve, PayOut, Refuse, Release, SettleCheck,
      SettleCommit, SettleRefused, Arrive, Book, Read, SyncQuidax, SyncPaystack, CachePaystack,
      SyncInternal, liquidityVars
  <2>. QED  BY <2>1, <2>2
<1>5. LiquidityTypeOK'
  BY <1>1, <1>2, <1>3, <1>4 DEF MoneyKept, LiquidityTypeOK, Rows, Deal, Tasks, CachedPurses
<1>6. DriftBounded'
  BY <1>3 DEF DriftBounded, Feeding, TotalTracked, InternalTracked, LiquidityTypeOK
<1>. QED  BY <1>1, <1>2, <1>3, <1>5, <1>6 DEF LiquidityInv, LiquidityExact, MoneyKept

\* Types: what is reserved is never negative, no user's wallet pays what it does
\* not have, and a settlement is not tried more often than it may be.
THEOREM LiquidityTyped == LiquiditySpec => []LiquidityTypeOK
<1>1. LiquidityInv => LiquidityTypeOK
  BY DEF LiquidityInv
<1>. QED  BY <1>1, LiquidityInvInit, LiquidityInvNext, PTL DEF LiquiditySpec

\* The schedulers' absolute values never lose a reservation, no column is further
\* from its balance than what has moved since that was read, and the balance at
\* Paystack is never taken from a row written by somebody else: for any payments
\* and any number of schedulers' runs that overlap.
THEOREM LiquidityAlwaysExact == LiquiditySpec => []LiquidityExact
<1>1. LiquidityInv => LiquidityExact
  BY DEF LiquidityInv
<1>. QED  BY <1>1, LiquidityInvInit, LiquidityInvNext, PTL DEF LiquiditySpec
---------------------------------------------------------------------------
(* Vaults.                                                                 *)

VaultRows == [status : VaultStatus, amount : Nat, gain : Nat, receive : Nat]
VaultSwaps == [status : {"none", "PENDING", "COMPLETED", "FAILED"}, known : BOOLEAN]
VaultSwapsAt == [status : {"none", "open", "completed", "failed", "cancelled"},
                 received : Nat]
VaultPurse == [base : Nat, locked : Nat, interest : Nat]

\* How far the requests, the rows and the swap of a vault are together.
VaultStage(v) ==
    /\ v \in Stable => opening[v] \in {"new", "read", "done"}
    /\ v \in Swapped => opening[v] # "read"
    /\ opening[v] \in {"new", "read"} => vault[v].status = "none"
    /\ vault[v].status = "PENDING" => v \in Swapped
    /\ vault[v].status \in {"none", "PENDING"} =>
           vault[v].amount = 0 /\ vault[v].gain = 0 /\ vault[v].receive = 0
    /\ opening[v] = "read" => sawUsdt[v].base >= Charge(v)
    /\ closing[v] # "idle" => vault[v].status \in {"ACTIVE", "MATURED", "TERMINATED"}
    /\ v \in Swapped =>
        /\ opening[v] = "new" => swap[v].status = "none" /\ cancelling[v] = "idle"
        /\ opening[v] # "new" => vault[v].status # "none"
        /\ swap[v].known => opening[v] = "done"
        /\ swap[v].status = "COMPLETED" =>
               swap[v].known /\ swapAt[v].status = "completed"
        /\ swap[v].status = "COMPLETED" => vault[v].status # "PENDING"
        /\ vault[v].status \in {"ACTIVE", "MATURED"} \/ closing[v] # "idle"
               => swap[v].status = "COMPLETED"

\* What a request finds when nobody has cancelled behind its back.
NotStale == Untouched({"staleCancel"})
VaultUnhurt ==
    NotStale => \A v \in Vaults :
        /\ closing[v] \in {"earlyRead", "lateRead"} => vault[v].status = "ACTIVE"
        /\ opening[v] \in {"held", "reserved", "posted", "unquoted", "refused"}
               => vault[v].status = "PENDING"

\* A request that has read the wallet, and nobody else has written it.
NoRace == Untouched({"overlap"})
ReadsFresh ==
    NoRace => \A v \in Reading : /\ sawUsdt[v].base = usdt.base
                                 /\ sawUsdt[v].locked = usdt.locked

\* The interest of every vault that may still be taken off the wallet is in it.
Engaged == Is("ACTIVE") \cup {v \in Vaults : closing[v] \in {"earlyRead", "lateRead"}}
InterestThere == usdt.interest >= Total([v \in Vaults |-> vault[v].gain], Engaged)

VaultInv ==
    /\ VaultTypeOK /\ WalletSolvent(btc) /\ CompanySolvent(coUsdt) /\ Budgets
    /\ \A v \in Vaults : VaultStage(v)
    /\ VaultUnhurt /\ ReadsFresh /\ InterestThere
    /\ VaultBooks /\ VaultHeld

\* Without the divisors, which SMT alone can read.
LEMMA VaultConstants ==
    /\ IsFiniteSet(Vaults) /\ Stable \cap Swapped = {}
    /\ Principal \in [Vaults -> Nat] /\ Quoted \in [Swapped -> Nat \ {0}]
    /\ Tiers \in Seq([min : Nat, max : Nat, percent : Nat])
    /\ DefaultBuffer \in Nat /\ MaxBuffer \in Nat
    /\ Days \in Nat /\ RateTenths \in Nat
    /\ InitialUsdt \in Nat /\ InitialBtc \in Nat /\ OthersReserved \in Nat
    /\ \A c \in CompanyFunds : c \in Nat /\ OthersReserved <= c
    /\ {"lostAnswer", "error", "crash", "cancel", "overlap", "staleCancel"} \subseteq Kinds
    /\ Budget["overlap"] > 0 /\ Budget["staleCancel"] > 0
BY VaultAssumption, SMT

LEMMA VaultSets ==
    /\ IsFiniteSet(Vaults) /\ IsFiniteSet(Swapped) /\ Stable \subseteq Vaults
    /\ Swapped \subseteq Vaults /\ \A v \in Vaults : v \in Stable <=> v \notin Swapped
  BY FS_Subset, VaultConstants DEF Vaults

\* A tier that matches has a first one.
LEMMA FirstTier ==
    ASSUME NEW n \in Nat, NEW fits \in SUBSET (1..n), fits # {}
    PROVE  \E i \in fits : \A j \in fits : i <= j
<1> DEFINE B == {1..i : i \in fits}
<1>1. IsFiniteSet(1..n)
  BY FS_Interval
<1>2. B \in SUBSET SUBSET (1..n) /\ B # {}
  <2>1. \A i \in fits : 1..i \in SUBSET (1..n)
    OBVIOUS
  <2>. QED  BY <2>1
<1>3. PICK s \in B : \A t \in B : t \subseteq s => t = s
  <2>1. PICK U : U = 1..n
    OBVIOUS
  <2>2. IsFiniteSet(U) /\ B \in SUBSET SUBSET U /\ B # {}
    BY <1>1, <1>2, <2>1
  <2>. HIDE DEF B
  <2>. QED  BY <2>2, Minimal
<1>4. PICK i \in fits : s = 1..i
  OBVIOUS
<1>5. ASSUME NEW j \in fits, j < i PROVE FALSE
  <2>1. 1..j \in B /\ 1..j \subseteq s /\ i \in s /\ i \notin 1..j
    BY <1>4, <1>5
  <2>. QED  BY <1>3, <2>1
<1>. QED  BY <1>5

LEMMA BufferNatural == \A a : BufferPercent(a) \in Nat
<1>. SUFFICES ASSUME NEW a PROVE BufferPercent(a) \in Nat
  OBVIOUS
<1> DEFINE fits == {i \in DOMAIN Tiers : a \in Tiers[i].min..Tiers[i].max}
           first == CHOOSE i \in fits : \A j \in fits : i <= j
<1>1. MaxBuffer \in Nat /\ DefaultBuffer \in Nat
  BY VaultConstants
<1>2. CASE fits = {}
  BY <1>1, <1>2 DEF BufferPercent
<1>3. CASE fits # {}
  <2> DEFINE Tier == [min : Nat, max : Nat, percent : Nat]
  <2>1. DOMAIN Tiers = 1..Len(Tiers) /\ Len(Tiers) \in Nat
        /\ \A i \in DOMAIN Tiers : Tiers[i] \in Tier
    <3>1. Tiers \in Seq(Tier)
      BY VaultConstants
    <3>. HIDE DEF Tier
    <3>. QED  BY <3>1
  <2>2. first \in fits
    <3>1. \E i \in fits : \A j \in fits : i <= j
      BY <1>3, <2>1, FirstTier
    <3>. HIDE DEF fits
    <3>. QED  BY <3>1
  <2>3. Tiers[first].percent \in Nat
    BY <2>1, <2>2
  <2>4. BufferPercent(a) \in {MaxBuffer, Tiers[first].percent}
    BY <1>3 DEF BufferPercent
  <2>. QED  BY <1>1, <2>3, <2>4
<1>. QED  BY <1>2, <1>3

LEMMA Product == \A a \in Nat, b \in Nat : a * b \in Nat
OBVIOUS

LEMMA Quotient == \A a \in Nat, b \in Nat \ {0} : a \div b \in Nat
OBVIOUS

LEMMA ChargeNatural == \A v \in Vaults : Charge(v) \in Nat
<1>. TAKE v \in Vaults
<1>1. Principal[v] \in Nat
  BY VaultConstants
<1>2. PICK k : k = BufferPercent(Principal[v])
  OBVIOUS
<1>3. k \in Nat
  BY <1>2, BufferNatural
<1>4. Principal[v] * k \in Nat
  BY <1>1, <1>3, Product
<1>5. (Principal[v] * k) \div 100 \in Nat
  BY <1>4, Quotient
<1>. QED  BY <1>1, <1>2, <1>5 DEF Charge

LEMMA GainNatural ==
    ASSUME NEW a \in Nat
    PROVE  PreviewGain(a) \in Nat /\ FundedGain(a) \in Nat
<1>1. RateTenths \in Nat /\ Days \in Nat
  BY VaultConstants
<1>2. RateTenths \div 10 \in Nat
  BY <1>1, Quotient
<1>3. a * (RateTenths \div 10) \in Nat
  BY <1>2, Product
<1>4. a * (RateTenths \div 10) * Days \in Nat
  BY <1>1, <1>3, Product
<1>5. a * RateTenths \in Nat
  BY <1>1, Product
<1>6. a * RateTenths * Days \in Nat
  BY <1>1, <1>5, Product
<1>. QED  BY <1>4, <1>6, Quotient, SMT DEF PreviewGain, FundedGain

\* A fee takes no more than there is, nor does the penalty.
LEMMA FeeWithin == \A a \in Nat : AfterFee(a) \in Nat
<1>. TAKE a \in Nat
<1>1. PICK n : n = a * FeeRate
  OBVIOUS
<1>2. n \in Nat /\ n <= a * 1000000
  BY VaultAssumption, SMT, Product, <1>1
<1>3. n \div 1000000 \in 0..a
  BY <1>2, SMT
<1>. QED  BY <1>1, <1>3, SMT DEF AfterFee

LEMMA FundedRow ==
    ASSUME NEW a \in Nat, NEW gain \in Nat
    PROVE  /\ Funded(a, gain) \in VaultRows
           /\ Funded(a, gain).status = "ACTIVE" /\ Funded(a, gain).amount = a
           /\ Funded(a, gain).gain = gain
  BY FeeWithin DEF Funded, VaultRows, VaultStatus

LEMMA PenaltyWithin == \A a \in Nat : Penalty(a) \in 0..a
BY DEF Penalty

\* One vault changes, and with it whether it is counted and with how much.
LEMMA SumShift ==
    ASSUME NEW S, IsFiniteSet(S), NEW T, IsFiniteSet(T), NEW x,
           S \ {x} = T \ {x}, NEW f, NEW h,
           \A y \in S : f[y] \in Int, \A y \in T : h[y] \in Int,
           \A y \in S \ {x} : h[y] = f[y]
    PROVE  /\ SumFunctionOnSet(f, S) \in Int /\ SumFunctionOnSet(h, T) \in Int
           /\ SumFunctionOnSet(h, T) = SumFunctionOnSet(f, S)
                  + (IF x \in T THEN h[x] ELSE 0) - (IF x \in S THEN f[x] ELSE 0)
<1>1. PICK rest : rest = S \ {x} /\ rest = T \ {x}
  OBVIOUS
<1>2. IsFiniteSet(rest)
  BY <1>1, FS_Subset
<1>3. PICK n : n = SumFunctionOnSet(f, rest)
  OBVIOUS
<1>4. n \in Int /\ SumFunctionOnSet(h, rest) = n
  BY <1>1, <1>2, <1>3, SumSame, SumIsInt
<1>5. SumFunctionOnSet(f, S) = n + (IF x \in S THEN f[x] ELSE 0)
  <2>1. CASE x \in S
    BY <1>1, <1>3, <1>4, <2>1, SumRemove
  <2>2. CASE x \notin S
    <3>1. rest = S
      BY <1>1, <2>2
    <3>. QED  BY <1>3, <1>4, <2>2, <3>1
  <2>. QED  BY <2>1, <2>2
<1>6. SumFunctionOnSet(h, T) = n + (IF x \in T THEN h[x] ELSE 0)
  <2>1. CASE x \in T
    BY <1>1, <1>4, <2>1, SumRemove
  <2>2. CASE x \notin T
    <3>1. rest = T
      BY <1>1, <2>2
    <3>. QED  BY <1>4, <2>2, <3>1
  <2>. QED  BY <2>1, <2>2
<1>7. PICK p \in Int, q \in Int : /\ p = IF x \in S THEN f[x] ELSE 0
                                 /\ q = IF x \in T THEN h[x] ELSE 0
  OBVIOUS
<1>. QED  BY <1>4, <1>5, <1>6, <1>7

LEMMA VaultTypes ==
    VaultTypeOK <=>
        /\ usdt \in VaultPurse /\ btc \in Wallets /\ coUsdt \in CompanyAccounts
        /\ coBtc \in Nat /\ locked \in [principal : Nat, accrued : Nat, paid : Nat]
        /\ vault \in [Vaults -> VaultRows] /\ swap \in [Swapped -> VaultSwaps]
        /\ swapAt \in [Swapped -> VaultSwapsAt]
        /\ swapJob \in [Swapped -> {"none", "waiting", "done"}]
        /\ opening \in [Vaults -> Opening] /\ closing \in [Vaults -> Closing]
        /\ cancelling \in [Swapped -> {"idle", "local", "remote", "cancelled"}]
        /\ sawUsdt \in [Vaults -> VaultPurse]
        /\ mature \in SUBSET Vaults /\ shards \in SUBSET Vaults
BY DEF VaultTypeOK, VaultPurse, VaultRows, VaultSwaps, VaultSwapsAt

\* What is remembered of a step that may spoil a promise.
LEMMA NoteSeen ==
    ASSUME Budgets, NEW P, NEW f \in {"overlap", "staleCancel"}, Note(P, f),
           Untouched({f})'
    PROVE  ~P
<1>1. f \in Kinds /\ Budget[f] > 0
  BY VaultConstants
<1>2. budget' = [g \in Kinds |-> IF g \in (IF P THEN {f} ELSE {}) THEN 0 ELSE budget[g]]
  BY DEF Note, NoteAll
<1>3. budget'[f] = Budget[f]
  BY DEF Untouched
<1>4. P => budget'[f] = 0
  BY <1>1, <1>2
<1>5. Budget[f] \in Nat
  BY <1>1, MishapsAssumption
<1>. QED  BY <1>1, <1>3, <1>4, <1>5

LEMMA VaultOrder ==
    ASSUME Budgets, CountsDown
    PROVE  /\ NotStale' => NotStale
           /\ NoRace' => NoRace
           /\ Untouched({"crash"})' => Untouched({"crash"})
  BY VaultConstants, UntouchedBack DEF NotStale, NoRace

\* A step of one vault.
OthersSame(v) ==
    \A w \in Vaults \ {v} :
        /\ vault'[w] = vault[w] /\ opening'[w] = opening[w] /\ closing'[w] = closing[w]
        /\ sawUsdt'[w] = sawUsdt[w]
        /\ w \in Swapped => /\ swap'[w] = swap[w] /\ swapAt'[w] = swapAt[w]
                            /\ cancelling'[w] = cancelling[w]

LEMMA StageOthers ==
    ASSUME VaultInv, NEW v \in Vaults, OthersSame(v), VaultStage(v)'
    PROVE  \A w \in Vaults : VaultStage(w)'
<1>1. ASSUME NEW w \in Vaults \ {v} PROVE VaultStage(w)'
  BY DEF VaultInv, VaultStage, OthersSame
<1>. QED  BY <1>1

LEMMA UnhurtOthers ==
    ASSUME VaultInv, NEW v \in Vaults, OthersSame(v), NotStale' => NotStale,
           NotStale' =>
               /\ closing'[v] \in {"earlyRead", "lateRead"} => vault'[v].status = "ACTIVE"
               /\ opening'[v] \in {"held", "reserved", "posted", "unquoted", "refused"}
                      => vault'[v].status = "PENDING"
    PROVE  VaultUnhurt'
BY DEF VaultInv, VaultUnhurt, OthersSame

\* The wallet is as it was, and so is every request that has read it but this one.
LEMMA FreshOthers ==
    ASSUME VaultInv, NEW v \in Vaults, OthersSame(v), NoRace' => NoRace, UNCHANGED usdt,
           v \in Reading' => (v \in Reading /\ sawUsdt'[v] = sawUsdt[v])
                                 \/ sawUsdt'[v] = usdt
    PROVE  ReadsFresh'
<1>1. ASSUME NoRace', NEW w \in Reading', w # v
      PROVE  sawUsdt'[w].base = usdt'.base /\ sawUsdt'[w].locked = usdt'.locked
  BY <1>1 DEF Reading, OthersSame, VaultInv, ReadsFresh
<1>2. ASSUME NoRace', v \in Reading'
      PROVE  sawUsdt'[v].base = usdt'.base /\ sawUsdt'[v].locked = usdt'.locked
  BY <1>2 DEF VaultInv, ReadsFresh
<1>. QED  BY <1>1, <1>2 DEF ReadsFresh

\* A wallet that changes with nobody reading, or for the only request that does.
LEMMA FreshWritten ==
    ASSUME NoRace' => Reading' = {}
    PROVE  ReadsFresh'
BY DEF ReadsFresh

---------------------------------------------------------------------------
(* The sums that the books are compared with.                              *)

AmountSum == Total([v \in Vaults |-> vault[v].amount], Is("ACTIVE"))
GainSum == Total([v \in Vaults |-> vault[v].gain], Is("ACTIVE"))
InterestSum == Total([v \in Vaults |-> Interest(v)], Is("MATURED"))
PaidSum == Total([v \in Vaults |-> PaidTo(v)], Vaults)
EngagedSum == Total([v \in Vaults |-> vault[v].gain], Engaged)
HoldSum == Total([v \in Vaults |-> Charge(v)], Is("PENDING"))
Backed == {v \in Is("PENDING") : opening[v] \in {"reserved", "posted"}
                                   \/ opening[v] = "refused" \/ swap[v].known}
BackedSum == Total(Quoted, Backed)
Enough == coUsdt.total - OthersReserved >= Total(Quoted, Swapped)

Counted(p, n) == IF p THEN n ELSE 0

LEMMA BooksAre ==
    /\ VaultBooks <=>
         (NotStale =>
            /\ locked.principal = AmountSum /\ locked.accrued = GainSum
            /\ locked.paid = InterestSum /\ usdt.interest = locked.accrued
            /\ NoRace => /\ usdt.locked = locked.principal
                         /\ usdt.base = InitialUsdt + PaidSum)
    /\ VaultHeld <=>
         (NotStale =>
            /\ btc.reserved = HoldSum
            /\ Enough /\ Untouched({"crash"}) =>
                 coUsdt.reserved = OthersReserved + BackedSum)
BY DEF VaultBooks, VaultHeld, NotStale, NoRace, AmountSum, GainSum, InterestSum, PaidSum, HoldSum,
  BackedSum, Backed, Enough

LEMMA PaidToInt ==
    ASSUME VaultTypeOK, NEW v \in Vaults
    PROVE  PaidTo(v) \in Int
<1>1. vault[v] \in VaultRows /\ Charge(v) \in Nat
  BY VaultTypes, ChargeNatural
<1>2. vault[v].amount \in Nat /\ vault[v].receive \in Nat
      /\ Penalty(vault[v].amount) \in Nat
  BY <1>1, PenaltyWithin DEF VaultRows
<1>3. v \notin Stable => swapAt[v].received \in Nat /\ Quoted[v] \in Nat
  BY VaultTypes, VaultSets, VaultConstants DEF VaultSwapsAt
<1>. QED  BY <1>1, <1>2, <1>3 DEF PaidTo

LEMMA InterestNatural ==
    ASSUME VaultTypeOK, NEW v \in Vaults
    PROVE  Interest(v) \in Nat
  BY VaultTypes DEF Interest, AtLeastZero, VaultRows

LEMMA FiniteVaults == \A S \in SUBSET Vaults : IsFiniteSet(S)
BY VaultSets, FS_Subset

LEMMA SumsNatural ==
    ASSUME VaultTypeOK
    PROVE  /\ AmountSum \in Nat /\ GainSum \in Nat /\ InterestSum \in Nat
           /\ PaidSum \in Int /\ EngagedSum \in Nat
<1>1. \A v \in Vaults : vault[v].amount \in Nat /\ vault[v].gain \in Nat
  BY VaultTypes DEF VaultRows
<1>2. \A v \in Vaults : Interest(v) \in Nat /\ PaidTo(v) \in Int
  BY PaidToInt, InterestNatural
<1>3. /\ IsFiniteSet(Is("ACTIVE")) /\ IsFiniteSet(Is("MATURED")) /\ IsFiniteSet(Engaged)
      /\ IsFiniteSet(Vaults) /\ Is("ACTIVE") \subseteq Vaults
      /\ Is("MATURED") \subseteq Vaults /\ Engaged \subseteq Vaults
  BY FiniteVaults DEF Is, Engaged
<1>4. AmountSum \in Nat
  <2> DEFINE f == [v \in Vaults |-> vault[v].amount]
  <2>1. \A v \in Is("ACTIVE") : f[v] \in Nat
    BY <1>1, <1>3
  <2>. HIDE DEF f
  <2>2. Total(f, Is("ACTIVE")) \in Nat
    BY <1>3, <2>1, SumNatural DEF Total
  <2>. QED  BY <2>2 DEF AmountSum, f
<1>5. GainSum \in Nat /\ EngagedSum \in Nat
  <2> DEFINE f == [v \in Vaults |-> vault[v].gain]
  <2>1. \A v \in Vaults : f[v] \in Nat
    BY <1>1
  <2>. HIDE DEF f
  <2>2. Total(f, Is("ACTIVE")) \in Nat /\ Total(f, Engaged) \in Nat
    BY <1>3, <2>1, SumNatural DEF Total
  <2>. QED  BY <2>2 DEF GainSum, EngagedSum, f
<1>6. InterestSum \in Nat
  <2> DEFINE f == [v \in Vaults |-> Interest(v)]
  <2>1. \A v \in Is("MATURED") : f[v] \in Nat
    BY <1>2, <1>3
  <2>. HIDE DEF f
  <2>2. Total(f, Is("MATURED")) \in Nat
    BY <1>3, <2>1, SumNatural DEF Total
  <2>. QED  BY <2>2 DEF InterestSum, f
<1>7. PaidSum \in Int
  <2> DEFINE f == [v \in Vaults |-> PaidTo(v)]
  <2>1. \A v \in Vaults : f[v] \in Int
    BY <1>2
  <2>. HIDE DEF f
  <2>2. Total(f, Vaults) \in Int
    BY <1>3, <2>1, SumIsInt DEF Total
  <2>. QED  BY <2>2 DEF PaidSum, f
<1>. QED  BY <1>4, <1>5, <1>6, <1>7

PaidTyped == \A v \in Vaults : PaidTo(v) \in Int

LEMMA PaidToInts == VaultTypeOK => PaidTyped
BY PaidToInt DEF PaidTyped

LEMMA PaidToIntsNext == VaultTypeOK' => PaidTyped'
BY PaidToInts, PTL

\* A step of one vault changes each sum by what the vault counts for.
LEMMA VaultShift ==
    ASSUME VaultTypeOK, VaultTypeOK', NEW v \in Vaults, OthersSame(v)
    PROVE  /\ AmountSum' = AmountSum + Counted(vault'[v].status = "ACTIVE", vault'[v].amount)
                                     - Counted(vault[v].status = "ACTIVE", vault[v].amount)
           /\ GainSum' = GainSum + Counted(vault'[v].status = "ACTIVE", vault'[v].gain)
                                 - Counted(vault[v].status = "ACTIVE", vault[v].gain)
           /\ InterestSum' = InterestSum + Counted(vault'[v].status = "MATURED", Interest(v)')
                                         - Counted(vault[v].status = "MATURED", Interest(v))
           /\ EngagedSum' = EngagedSum + Counted(v \in Engaged', vault'[v].gain)
                                       - Counted(v \in Engaged, vault[v].gain)
           /\ PaidSum' = PaidSum + PaidTo(v)' - PaidTo(v)
<1>1. \A w \in Vaults : /\ vault[w].amount \in Int /\ vault[w].gain \in Int
                        /\ vault'[w].amount \in Int /\ vault'[w].gain \in Int
                        /\ Interest(w) \in Int /\ Interest(w)' \in Int
                        /\ PaidTo(w) \in Int /\ PaidTo(w)' \in Int
  <2>. TAKE w \in Vaults
  <2>1. vault[w] \in VaultRows /\ vault'[w] \in VaultRows
    BY DEF VaultTypeOK, VaultRows
  <2>2. Interest(w) \in Int /\ Interest(w)' \in Int
    BY <2>1 DEF Interest, AtLeastZero, VaultRows
  <2>3. PaidTo(w) \in Int /\ PaidTo(w)' \in Int
    BY PaidToInts, PaidToIntsNext DEF PaidTyped
  <2>. QED  BY <2>1, <2>2, <2>3 DEF VaultRows
<1>2. /\ Is("ACTIVE") \subseteq Vaults /\ Is("ACTIVE")' \subseteq Vaults
      /\ Is("MATURED") \subseteq Vaults /\ Is("MATURED")' \subseteq Vaults
      /\ Engaged \subseteq Vaults /\ Engaged' \subseteq Vaults
  BY DEF Is, Engaged
<1>3. /\ IsFiniteSet(Is("ACTIVE")) /\ IsFiniteSet(Is("ACTIVE")')
      /\ IsFiniteSet(Is("MATURED")) /\ IsFiniteSet(Is("MATURED")')
      /\ IsFiniteSet(Engaged) /\ IsFiniteSet(Engaged') /\ IsFiniteSet(Vaults)
  BY <1>2, FiniteVaults
<1>4. /\ Is("ACTIVE") \ {v} = Is("ACTIVE")' \ {v}
      /\ Is("MATURED") \ {v} = Is("MATURED")' \ {v}
      /\ Engaged \ {v} = Engaged' \ {v}
  BY DEF Is, Engaged, OthersSame
<1>5. \A w \in Vaults \ {v} : /\ vault'[w] = vault[w] /\ Interest(w)' = Interest(w)
                              /\ PaidTo(w)' = PaidTo(w)
  BY VaultSets DEF OthersSame, Interest, PaidTo
<1>6. /\ v \in Is("ACTIVE") <=> vault[v].status = "ACTIVE"
      /\ v \in Is("ACTIVE")' <=> vault'[v].status = "ACTIVE"
      /\ v \in Is("MATURED") <=> vault[v].status = "MATURED"
      /\ v \in Is("MATURED")' <=> vault'[v].status = "MATURED"
  BY DEF Is
<1>7. AmountSum' = AmountSum + Counted(v \in Is("ACTIVE")', vault'[v].amount)
                             - Counted(v \in Is("ACTIVE"), vault[v].amount)
  <2> DEFINE f == [w \in Vaults |-> vault[w].amount]
             h == [w \in Vaults |-> vault'[w].amount]
  <2>1. /\ \A y \in Is("ACTIVE") : f[y] \in Int
        /\ \A y \in Is("ACTIVE")' : h[y] \in Int
        /\ \A y \in Is("ACTIVE") \ {v} : h[y] = f[y]
        /\ h[v] = vault'[v].amount /\ f[v] = vault[v].amount
    BY <1>1, <1>2, <1>5
  <2>2. AmountSum = SumFunctionOnSet(f, Is("ACTIVE"))
        /\ AmountSum' = SumFunctionOnSet(h, Is("ACTIVE")')
    BY DEF AmountSum, Total
  <2>. HIDE DEF f, h
  <2>. QED  BY <1>3, <1>4, <2>1, <2>2, SumShift DEF Counted
<1>8. GainSum' = GainSum + Counted(v \in Is("ACTIVE")', vault'[v].gain)
                         - Counted(v \in Is("ACTIVE"), vault[v].gain)
      /\ EngagedSum' = EngagedSum + Counted(v \in Engaged', vault'[v].gain)
                                  - Counted(v \in Engaged, vault[v].gain)
  <2> DEFINE f == [w \in Vaults |-> vault[w].gain]
             h == [w \in Vaults |-> vault'[w].gain]
  <2>1. /\ \A y \in Vaults : f[y] \in Int /\ h[y] \in Int
        /\ \A y \in Vaults \ {v} : h[y] = f[y]
        /\ h[v] = vault'[v].gain /\ f[v] = vault[v].gain
    BY <1>1, <1>5
  <2>2. /\ GainSum = SumFunctionOnSet(f, Is("ACTIVE"))
        /\ GainSum' = SumFunctionOnSet(h, Is("ACTIVE")')
        /\ EngagedSum = SumFunctionOnSet(f, Engaged)
        /\ EngagedSum' = SumFunctionOnSet(h, Engaged')
    BY DEF GainSum, EngagedSum, Total
  <2>. HIDE DEF f, h
  <2>3. GainSum' = GainSum + Counted(v \in Is("ACTIVE")', h[v])
                           - Counted(v \in Is("ACTIVE"), f[v])
    BY <1>2, <1>3, <1>4, <2>1, <2>2, SumShift DEF Counted
  <2>4. EngagedSum' = EngagedSum + Counted(v \in Engaged', h[v])
                                 - Counted(v \in Engaged, f[v])
    BY <1>2, <1>3, <1>4, <2>1, <2>2, SumShift DEF Counted
  <2>. QED  BY <2>1, <2>3, <2>4
<1>9. InterestSum' = InterestSum + Counted(v \in Is("MATURED")', Interest(v)')
                                 - Counted(v \in Is("MATURED"), Interest(v))
  <2> DEFINE f == [w \in Vaults |-> Interest(w)]
             h == [w \in Vaults |-> Interest(w)']
  <2>1. /\ \A y \in Is("MATURED") : f[y] \in Int
        /\ \A y \in Is("MATURED")' : h[y] \in Int
        /\ \A y \in Is("MATURED") \ {v} : h[y] = f[y]
        /\ h[v] = Interest(v)' /\ f[v] = Interest(v)
    BY <1>1, <1>2, <1>5
  <2>2. InterestSum = SumFunctionOnSet(f, Is("MATURED"))
        /\ InterestSum' = SumFunctionOnSet(h, Is("MATURED")')
    BY DEF InterestSum, Total
  <2>. HIDE DEF f, h
  <2>. QED  BY <1>3, <1>4, <2>1, <2>2, SumShift DEF Counted
<1>10. PaidSum' = PaidSum + PaidTo(v)' - PaidTo(v)
  <2> DEFINE f == [w \in Vaults |-> PaidTo(w)]
             h == [w \in Vaults |-> PaidTo(w)']
  <2>1. /\ \A y \in Vaults : f[y] \in Int /\ h[y] \in Int
        /\ \A y \in Vaults \ {v} : h[y] = f[y]
        /\ h[v] = PaidTo(v)' /\ f[v] = PaidTo(v)
    BY <1>1, <1>5
  <2>2. PaidSum = SumFunctionOnSet(f, Vaults) /\ PaidSum' = SumFunctionOnSet(h, Vaults)
    BY DEF PaidSum, Total
  <2>. HIDE DEF f, h
  <2>. QED  BY <1>3, <2>1, <2>2, SumChange
<1>. QED  BY <1>6, <1>7, <1>8, <1>9, <1>10

\* So does what is held for the vaults that wait for their swap.
LEMMA HeldShift ==
    ASSUME VaultTypeOK, VaultTypeOK', NEW v \in Vaults, OthersSame(v),
           \A w \in Vaults : VaultStage(w), \A w \in Vaults : VaultStage(w)'
    PROVE  /\ HoldSum \in Nat
           /\ HoldSum' = HoldSum + Counted(vault'[v].status = "PENDING", Charge(v))
                                 - Counted(vault[v].status = "PENDING", Charge(v))
           /\ BackedSum \in Nat
           /\ BackedSum' = BackedSum + Counted(v \in Backed', Quoted[v])
                                     - Counted(v \in Backed, Quoted[v])
<1>1. /\ Is("PENDING") \subseteq Swapped /\ Is("PENDING")' \subseteq Swapped
      /\ Backed \subseteq Swapped /\ Backed' \subseteq Swapped
  BY DEF Is, Backed, VaultStage
<1>2. /\ Is("PENDING") \ {v} = Is("PENDING")' \ {v}
      /\ Backed \ {v} = Backed' \ {v}
  BY <1>1, VaultSets DEF Is, OthersSame, Backed
<1>3. /\ IsFiniteSet(Is("PENDING")) /\ IsFiniteSet(Is("PENDING")')
      /\ IsFiniteSet(Backed) /\ IsFiniteSet(Backed')
  BY <1>1, VaultSets, FiniteVaults
<1>4. /\ v \in Is("PENDING") <=> vault[v].status = "PENDING"
      /\ v \in Is("PENDING")' <=> vault'[v].status = "PENDING"
  BY DEF Is
<1>5. HoldSum \in Nat
      /\ HoldSum' = HoldSum + Counted(v \in Is("PENDING")', Charge(v))
                            - Counted(v \in Is("PENDING"), Charge(v))
  <2> DEFINE f == [w \in Vaults |-> Charge(w)]
  <2>1. \A y \in Vaults : f[y] \in Nat
    BY ChargeNatural
  <2>2. /\ HoldSum = SumFunctionOnSet(f, Is("PENDING"))
        /\ HoldSum' = SumFunctionOnSet(f, Is("PENDING")')
        /\ f[v] = Charge(v)
    BY DEF HoldSum, Total
  <2>3. Is("PENDING") \subseteq Vaults /\ Is("PENDING")' \subseteq Vaults
    BY <1>1, VaultSets
  <2>. HIDE DEF f
  <2>4. HoldSum' = HoldSum + Counted(v \in Is("PENDING")', f[v])
                           - Counted(v \in Is("PENDING"), f[v])
    BY <1>2, <1>3, <2>1, <2>2, <2>3, SumShift DEF Counted
  <2>5. HoldSum \in Nat
    BY <1>3, <2>1, <2>2, <2>3, SumNatural
  <2>. QED  BY <2>2, <2>4, <2>5
<1>6. BackedSum \in Nat
      /\ BackedSum' = BackedSum + Counted(v \in Backed', Quoted[v])
                                - Counted(v \in Backed, Quoted[v])
  <2>1. \A y \in Swapped : Quoted[y] \in Nat
    BY VaultConstants
  <2>2. /\ BackedSum = SumFunctionOnSet(Quoted, Backed)
        /\ BackedSum' = SumFunctionOnSet(Quoted, Backed')
    BY DEF BackedSum, Total
  <2>3. BackedSum \in Nat
    BY <1>1, <1>3, <2>1, <2>2, SumNatural
  <2>. QED  BY <1>1, <1>2, <1>3, <2>1, <2>2, <2>3, SumShift DEF Counted
<1>. QED  BY <1>4, <1>5, <1>6

\* A step that pays nothing leaves the books right, ...
LEMMA BooksQuiet ==
    ASSUME VaultInv, VaultTypeOK', NEW v \in Vaults, OthersSame(v),
           NotStale' => NotStale, NoRace' => NoRace, UNCHANGED <<usdt, locked>>,
           NotStale' =>
               /\ PaidTo(v)' = PaidTo(v)
               /\ \/ vault'[v] = vault[v]
                  \/ /\ vault[v].status \notin {"ACTIVE", "MATURED"}
                     /\ vault'[v].status \notin {"ACTIVE", "MATURED"}
    PROVE  VaultBooks'
<1>1. VaultTypeOK /\ VaultBooks
  BY DEF VaultInv
<1>2. SUFFICES ASSUME NotStale'
               PROVE  /\ AmountSum' = AmountSum /\ GainSum' = GainSum
                      /\ InterestSum' = InterestSum /\ PaidSum' = PaidSum
  <2>1. (VaultBooks <=>
         (NotStale =>
            /\ locked.principal = AmountSum /\ locked.accrued = GainSum
            /\ locked.paid = InterestSum /\ usdt.interest = locked.accrued
            /\ NoRace => /\ usdt.locked = locked.principal
                         /\ usdt.base = InitialUsdt + PaidSum))'
    BY BooksAre, PTL
  <2>. QED  BY <1>1, <2>1, BooksAre
<1>3. /\ AmountSum \in Nat /\ GainSum \in Nat /\ InterestSum \in Nat /\ PaidSum \in Int
      /\ PaidTo(v) \in Int
  BY <1>1, SumsNatural, PaidToInt
<1>4. /\ AmountSum' = AmountSum + Counted(vault'[v].status = "ACTIVE", vault'[v].amount)
                                - Counted(vault[v].status = "ACTIVE", vault[v].amount)
      /\ GainSum' = GainSum + Counted(vault'[v].status = "ACTIVE", vault'[v].gain)
                            - Counted(vault[v].status = "ACTIVE", vault[v].gain)
      /\ InterestSum' = InterestSum + Counted(vault'[v].status = "MATURED", Interest(v)')
                                    - Counted(vault[v].status = "MATURED", Interest(v))
      /\ PaidSum' = PaidSum + PaidTo(v)' - PaidTo(v)
  BY <1>1, VaultShift
<1>5. CASE vault'[v] = vault[v]
  BY <1>1, VaultTypes, InterestNatural, <1>5, <1>2, <1>3, <1>4 DEF VaultRows, Interest, Counted
<1>6. CASE /\ vault[v].status \notin {"ACTIVE", "MATURED"}
           /\ vault'[v].status \notin {"ACTIVE", "MATURED"}
  BY <1>2, <1>3, <1>4, <1>6 DEF Counted
<1>. QED  BY <1>2, <1>5, <1>6

\* ... one that takes and gives back what is counted for its vault the holds, ...
LEMMA HeldKept ==
    ASSUME VaultInv, VaultTypeOK', NEW v \in Vaults, OthersSame(v),
           \A w \in Vaults : VaultStage(w)', Budgets, CountsDown,
           NotStale' => btc'.reserved = btc.reserved
                            + Counted(vault'[v].status = "PENDING", Charge(v))
                            - Counted(vault[v].status = "PENDING", Charge(v)),
           coUsdt'.total = coUsdt.total,
           NotStale' /\ Enough /\ Untouched({"crash"})' =>
               coUsdt'.reserved = coUsdt.reserved + Counted(v \in Backed', Quoted[v])
                                                  - Counted(v \in Backed, Quoted[v])
    PROVE  VaultHeld'
<1>1. VaultTypeOK /\ VaultHeld /\ \A w \in Vaults : VaultStage(w)
  BY DEF VaultInv
<1>2. /\ NotStale' => NotStale
      /\ Untouched({"crash"})' => Untouched({"crash"})
  BY VaultOrder
<1>3. /\ HoldSum \in Nat
      /\ HoldSum' = HoldSum + Counted(vault'[v].status = "PENDING", Charge(v))
                            - Counted(vault[v].status = "PENDING", Charge(v))
      /\ BackedSum \in Nat
      /\ BackedSum' = BackedSum + Counted(v \in Backed', Quoted[v])
                                - Counted(v \in Backed, Quoted[v])
  BY <1>1, HeldShift
<1>4. Enough' <=> Enough
  BY DEF Enough
<1>5. /\ Counted(v \in Backed', Quoted[v]) \in Nat /\ Counted(v \in Backed, Quoted[v]) \in Nat
      /\ OthersReserved \in Nat
  BY <1>1, VaultConstants DEF Backed, Is, VaultStage, Counted
<1>6. SUFFICES ASSUME NotStale'
               PROVE  /\ btc'.reserved = HoldSum'
                      /\ Enough' /\ Untouched({"crash"})' =>
                           coUsdt'.reserved = OthersReserved + BackedSum'
  <2>1. (VaultHeld <=>
         (NotStale =>
            /\ btc.reserved = HoldSum
            /\ Enough /\ Untouched({"crash"}) =>
                 coUsdt.reserved = OthersReserved + BackedSum))'
    BY BooksAre, PTL
  <2>. QED  BY <2>1
<1>7. /\ btc.reserved = HoldSum
      /\ Enough /\ Untouched({"crash"}) => coUsdt.reserved = OthersReserved + BackedSum
  BY <1>1, <1>2, <1>6, BooksAre
<1>8. btc'.reserved = HoldSum'
  BY <1>3, <1>6, <1>7
<1>9. ASSUME Enough', Untouched({"crash"})'
      PROVE  coUsdt'.reserved = OthersReserved + BackedSum'
  BY <1>2, <1>3, <1>4, <1>5, <1>6, <1>7, <1>9
<1>. QED  BY <1>8, <1>9

\* ... and one that lets nobody in keeps the interest there.
LEMMA InterestQuiet ==
    ASSUME VaultInv, VaultTypeOK', NEW v \in Vaults, OthersSame(v),
           usdt'.interest = usdt.interest,
           v \in Engaged' => v \in Engaged /\ vault'[v].gain = vault[v].gain
    PROVE  InterestThere'
<1>1. EngagedSum \in Nat /\ usdt.interest \in Nat /\ usdt.interest >= EngagedSum
      /\ vault[v].gain \in Nat
  BY SumsNatural, VaultTypes DEF VaultInv, InterestThere, EngagedSum, VaultPurse, VaultRows
<1>2. EngagedSum' = EngagedSum + Counted(v \in Engaged', vault'[v].gain)
                               - Counted(v \in Engaged, vault[v].gain)
  BY VaultShift DEF VaultInv
<1>3. usdt'.interest >= EngagedSum'
  BY <1>1, <1>2 DEF Counted
<1>. QED  BY <1>3 DEF InterestThere, EngagedSum

\* A step of a request, of Quidax or of the time that moves no money of the user.
LEMMA VaultPaper ==
    ASSUME VaultInv, VaultTypeOK', Budgets', CountsDown, NEW v \in Vaults, OthersSame(v),
           VaultStage(v)', UNCHANGED <<usdt, btc, locked, vault>>,
           CompanySolvent(coUsdt)', coUsdt'.total = coUsdt.total,
           PaidTo(v)' = PaidTo(v),
           closing'[v] \in {"earlyRead", "lateRead"}
               => vault[v].status = "ACTIVE" \/ closing[v] \in {"earlyRead", "lateRead"},
           opening'[v] \in {"held", "reserved", "posted", "unquoted", "refused"}
               => opening[v] \in {"held", "reserved", "posted", "unquoted", "refused"},
           v \in Reading' => (v \in Reading /\ sawUsdt'[v] = sawUsdt[v])
                                 \/ sawUsdt'[v] = usdt,
           NotStale' /\ Enough /\ Untouched({"crash"})' =>
               coUsdt'.reserved = coUsdt.reserved + Counted(v \in Backed', Quoted[v])
                                                  - Counted(v \in Backed, Quoted[v])
    PROVE  VaultInv'
<1>1. Budgets /\ (NotStale' => NotStale) /\ (NoRace' => NoRace)
  BY VaultOrder DEF VaultInv
<1>2. \A w \in Vaults : VaultStage(w)'
  BY StageOthers
<1>3. VaultUnhurt'
  BY <1>1, UnhurtOthers DEF VaultInv, VaultUnhurt
<1>4. ReadsFresh'
  BY <1>1, FreshOthers
<1>5. InterestThere'
  BY InterestQuiet DEF Engaged, Is
<1>6. VaultBooks'
  BY <1>1, BooksQuiet
<1>7. VaultHeld'
  BY VaultTypes, ChargeNatural, <1>1, <1>2, HeldKept DEF VaultInv, Wallets, Counted
<1>8. WalletSolvent(btc)'
  BY DEF VaultInv, WalletSolvent
<1>. QED  BY <1>2, <1>3, <1>4, <1>5, <1>6, <1>7, <1>8 DEF VaultInv

LEMMA OpeningStep ==
    ASSUME VaultInv, NEW v \in Vaults, NEW pc \in Opening, SetOpening(v, pc)
    PROVE  /\ opening' \in [Vaults -> Opening] /\ opening'[v] = pc
           /\ \A w \in Vaults \ {v} : opening'[w] = opening[w]
BY VaultTypes DEF VaultInv, SetOpening

LEMMA ClosingStep ==
    ASSUME VaultInv, NEW v \in Vaults, NEW pc \in Closing, SetClosing(v, pc)
    PROVE  /\ closing' \in [Vaults -> Closing] /\ closing'[v] = pc
           /\ \A w \in Vaults \ {v} : closing'[w] = closing[w]
BY VaultTypes DEF VaultInv, SetClosing

\* A budget that is kept or from which one mishap is taken.
LEMMA VaultSpends ==
    ASSUME VaultInv,
           UNCHANGED budget \/ \E f \in {"lostAnswer", "error", "crash", "cancel"} : Spend(f)
    PROVE  Budgets' /\ CountsDown
BY BudgetSame, BudgetSpent, VaultConstants DEF VaultInv

LEMMA VaultReadKeeps ==
    ASSUME VaultInv, NEW v \in Vaults, VaultRead(v)
    PROVE  VaultInv'
<1>1. /\ UNCHANGED <<usdt, btc, coUsdt, coBtc, locked, vault, swap, swapAt, swapJob, closing,
                     cancelling, mature, shards, budget>>
      /\ v \in Stable /\ opening[v] = "new" /\ usdt.base >= Charge(v)
      /\ SetOpening(v, "read") /\ sawUsdt' = [sawUsdt EXCEPT ![v] = usdt]
  BY DEF VaultRead, users, company, records, atQuidax
<1>2. /\ opening' \in [Vaults -> Opening] /\ opening'[v] = "read"
      /\ \A w \in Vaults \ {v} : opening'[w] = opening[w]
  BY <1>1, OpeningStep DEF Opening
<1>3. /\ sawUsdt' \in [Vaults -> VaultPurse] /\ sawUsdt'[v] = usdt
      /\ \A w \in Vaults \ {v} : sawUsdt'[w] = sawUsdt[w]
  BY <1>1, VaultTypes DEF VaultInv
<1>4. VaultTypeOK'
  BY <1>1, <1>2, <1>3 DEF VaultInv, VaultTypeOK, VaultPurse
<1>5. OthersSame(v) /\ Budgets' /\ CountsDown
  BY <1>1, <1>2, <1>3, VaultSpends DEF OthersSame
<1>6. v \notin Swapped
  BY <1>1, VaultSets
<1>7. VaultStage(v)'
  BY <1>1, <1>2, <1>3, <1>6 DEF VaultInv, VaultStage
<1>8. PaidTo(v)' = PaidTo(v)
  BY <1>1 DEF PaidTo
<1>9. v \notin Backed /\ v \notin Backed'
  BY <1>1, <1>6 DEF VaultInv, VaultStage, Backed, Is
<1>10. CompanySolvent(coUsdt)' /\ coUsdt.reserved \in Nat
  BY <1>1, VaultTypes DEF VaultInv, CompanySolvent, CompanyAccounts
<1>. QED  BY <1>1, <1>2, <1>3, <1>4, <1>5, <1>7, <1>8, <1>9, <1>10, VaultPaper DEF Counted

LEMMA VaultReserveKeeps ==
    ASSUME VaultInv, NEW v \in Swapped, VaultReserve(v)
    PROVE  VaultInv'
<1>1. /\ UNCHANGED <<usdt, btc, coBtc, locked, vault, swap, swapAt, swapJob, closing,
                     cancelling, sawUsdt, mature, shards, budget>>
      /\ opening[v] = "held" /\ v \in Vaults
  BY VaultSets DEF VaultReserve, users, records, atQuidax
<1>2. /\ coUsdt \in CompanyAccounts /\ CompanySolvent(coUsdt) /\ Quoted[v] \in Nat
  BY VaultTypes, VaultConstants DEF VaultInv
<1>3. \/ SetOpening(v, "unquoted") /\ UNCHANGED coUsdt
      \/ /\ CanReserveLiquidity(coUsdt, Quoted[v])
         /\ coUsdt' = ReserveLiquidity(coUsdt, Quoted[v])
         /\ SetOpening(v, "reserved")
      \/ /\ ~CanReserveLiquidity(coUsdt, Quoted[v])
         /\ SetOpening(v, "refused") /\ UNCHANGED coUsdt
  BY DEF VaultReserve
<1>4. PICK pc \in {"unquoted", "reserved", "refused"} :
          /\ SetOpening(v, pc)
          /\ pc = "reserved" => /\ CanReserveLiquidity(coUsdt, Quoted[v])
                                /\ coUsdt' = ReserveLiquidity(coUsdt, Quoted[v])
          /\ pc # "reserved" => UNCHANGED coUsdt
          /\ pc = "refused" => ~CanReserveLiquidity(coUsdt, Quoted[v])
  BY <1>3
<1>5. /\ opening' \in [Vaults -> Opening] /\ opening'[v] = pc
      /\ \A w \in Vaults \ {v} : opening'[w] = opening[w]
  BY <1>1, <1>4, OpeningStep DEF Opening
<1>6. /\ coUsdt' \in CompanyAccounts /\ CompanySolvent(coUsdt)'
      /\ coUsdt'.total = coUsdt.total
      /\ coUsdt'.reserved = coUsdt.reserved + Counted(pc = "reserved", Quoted[v])
      /\ coUsdt.reserved \in Nat /\ coUsdt.total \in Nat
  <2>1. CASE pc = "reserved"
    BY <1>2, <1>4, <2>1, ReserveLiquidityGood DEF GoodCompany, ReserveLiquidity, CompanyAccounts,
      Counted, CompanySolvent
  <2>2. CASE pc # "reserved"
    BY <1>2, <1>4, <2>2 DEF Counted, CompanySolvent, CompanyAccounts
  <2>. QED  BY <2>1, <2>2
<1>7. VaultTypeOK'
  BY <1>1, <1>5, <1>6 DEF VaultInv, VaultTypeOK
<1>8. OthersSame(v) /\ Budgets' /\ CountsDown
  BY <1>1, <1>5, VaultSpends DEF OthersSame
<1>9. VaultStage(v) /\ ~swap[v].known
  BY <1>1 DEF VaultInv, VaultStage
<1>10. VaultStage(v)'
  BY <1>1, <1>5, <1>9, VaultSets DEF VaultStage
<1>11. PaidTo(v)' = PaidTo(v)
  BY <1>1 DEF PaidTo
<1>12. v \notin Backed
  BY <1>1, <1>9 DEF Backed
<1>13. ASSUME NotStale', Enough, Untouched({"crash"})'
       PROVE  coUsdt'.reserved = coUsdt.reserved + Counted(v \in Backed', Quoted[v])
                                                 - Counted(v \in Backed, Quoted[v])
  <2>1. NotStale /\ Untouched({"crash"})
    BY <1>8, <1>13, VaultOrder DEF VaultInv
  <2>2. vault[v].status = "PENDING"
    BY <1>1, <2>1 DEF VaultInv, VaultUnhurt
  <2>3. pc # "refused"
    <3>1. coUsdt.reserved = OthersReserved + BackedSum
      BY <1>13, <2>1, BooksAre DEF VaultInv
    <3>2. Backed \cup {v} \subseteq Swapped
      BY DEF Backed, Is, VaultInv, VaultStage
    <3>3. IsFiniteSet(Backed) /\ IsFiniteSet(Backed \cup {v}) /\ IsFiniteSet(Swapped)
      BY <3>2, VaultSets, FS_Subset
    <3>4. \A w \in Swapped : Quoted[w] \in Nat
      BY VaultConstants
    <3>5. SumFunctionOnSet(Quoted, Backed \cup {v})
              = Quoted[v] + SumFunctionOnSet(Quoted, Backed)
      BY <1>12, <3>2, <3>3, <3>4, SumAdd
    <3>6. SumFunctionOnSet(Quoted, Backed \cup {v}) <= SumFunctionOnSet(Quoted, Swapped)
      BY <3>2, <3>3, <3>4, SumSubset
    <3>7. BackedSum \in Nat /\ Total(Quoted, Swapped) \in Nat
      BY <3>2, <3>3, <3>4, SumNatural DEF BackedSum, Total
    <3>8. coUsdt.total - coUsdt.reserved >= Quoted[v]
      BY <1>2, <1>6, <1>13, <3>1, <3>5, <3>6, <3>7, VaultConstants DEF Enough, BackedSum, Total
    <3>. QED  BY <1>4, <3>8 DEF CanReserveLiquidity
  <2>4. v \in Backed' <=> pc = "reserved"
    BY <1>1, <1>5, <1>9, <2>2, <2>3 DEF Backed, Is
  <2>. QED  BY <1>2, <1>6, <1>12, <2>4 DEF Counted
<1>14. v \notin Reading'
  BY <1>1, <1>5, <1>9 DEF Reading, VaultStage
<1>15. closing'[v] = closing[v]
  BY <1>1
<1>. QED  BY <1>1, <1>5, <1>6, <1>7, <1>8, <1>10, <1>11, <1>13, <1>15, VaultPaper, <1>1, <1>5 DEF
  Reading

\* Of these, the ones that leave the company's account alone too.
LEMMA VaultWork ==
    ASSUME VaultInv, VaultTypeOK', Budgets', CountsDown, NEW v \in Vaults, OthersSame(v),
           VaultStage(v)', UNCHANGED <<usdt, btc, coUsdt, locked, vault>>,
           PaidTo(v)' = PaidTo(v),
           closing'[v] \in {"earlyRead", "lateRead"}
               => vault[v].status = "ACTIVE" \/ closing[v] \in {"earlyRead", "lateRead"},
           opening'[v] \in {"held", "reserved", "posted", "unquoted", "refused"}
               => opening[v] \in {"held", "reserved", "posted", "unquoted", "refused"},
           v \in Reading' => (v \in Reading /\ sawUsdt'[v] = sawUsdt[v])
                                 \/ sawUsdt'[v] = usdt,
           v \in Backed' <=> v \in Backed
    PROVE  VaultInv'
  BY VaultTypes, VaultConstants, VaultPaper DEF VaultInv, CompanySolvent, CompanyAccounts,
    VaultStage, Backed, Is, Counted

LEMMA VaultPostKeeps ==
    ASSUME VaultInv, NEW v \in Swapped, VaultPost(v)
    PROVE  VaultInv'
<1>1. /\ UNCHANGED <<usdt, btc, coUsdt, coBtc, locked, vault, swap, swapJob, closing,
                     cancelling, sawUsdt, mature, shards>>
      /\ opening[v] = "reserved" /\ v \in Vaults
  BY VaultSets DEF VaultPost, users, company, records
<1>2. PICK pc \in {"posted", "refused"} : SetOpening(v, pc)
  BY DEF VaultPost
<1>3. /\ opening' \in [Vaults -> Opening] /\ opening'[v] = pc
      /\ \A w \in Vaults \ {v} : opening'[w] = opening[w]
  BY <1>1, <1>2, OpeningStep DEF Opening
<1>4. /\ swapAt' \in [Swapped -> VaultSwapsAt] /\ swapAt'[v].received = swapAt[v].received
      /\ \A w \in Swapped \ {v} : swapAt'[w] = swapAt[w]
  <2>1. swapAt \in [Swapped -> VaultSwapsAt] /\ swapAt[v] \in VaultSwapsAt
    BY VaultTypes DEF VaultInv
  <2>2. CASE swapAt' = [swapAt EXCEPT ![v].status = "open"]
    <3>1. PICK next : next = [swapAt[v] EXCEPT !.status = "open"]
      OBVIOUS
    <3>2. next \in VaultSwapsAt /\ next.received = swapAt[v].received
      BY <2>1, <3>1 DEF VaultSwapsAt
    <3>. QED  BY <2>1, <2>2, <3>1, <3>2
  <2>3. CASE UNCHANGED swapAt
    BY <2>1, <2>3
  <2>. QED  BY <2>2, <2>3 DEF VaultPost
<1>5. VaultTypeOK'
  BY <1>1, <1>3, <1>4 DEF VaultInv, VaultTypeOK, VaultSwapsAt
<1>6. OthersSame(v) /\ Budgets' /\ CountsDown
  BY <1>1, <1>3, <1>4, VaultSpends DEF OthersSame, VaultPost
<1>7. VaultStage(v) /\ ~swap[v].known /\ swap[v].status # "COMPLETED"
  BY <1>1 DEF VaultInv, VaultStage
<1>8. VaultStage(v)'
  BY <1>1, <1>3, <1>7, VaultSets DEF VaultStage
<1>9. PaidTo(v)' = PaidTo(v)
  BY <1>1, <1>4, VaultSets DEF PaidTo
<1>10. v \in Backed' <=> v \in Backed
  BY <1>1, <1>3 DEF Backed, Is
<1>. QED  BY <1>1, <1>3, <1>5, <1>6, <1>8, <1>9, <1>10, VaultWork DEF Reading

LEMMA VaultRecordKeeps ==
    ASSUME VaultInv, NEW v \in Swapped, VaultRecord(v)
    PROVE  VaultInv'
<1>1. /\ UNCHANGED <<usdt, btc, coUsdt, coBtc, locked, vault, swapAt, swapJob, closing,
                     cancelling, sawUsdt, mature, shards>>
      /\ opening[v] = "posted" /\ v \in Vaults
  BY VaultSets DEF VaultRecord, users, company, atQuidax
<1>2. \/ swap' = [swap EXCEPT ![v].known = TRUE] /\ SetOpening(v, "done")
      \/ UNCHANGED swap /\ SetOpening(v, "refused")
  BY DEF VaultRecord
<1>3. PICK pc \in {"done", "refused"} :
          /\ SetOpening(v, pc)
          /\ pc = "done" => swap' = [swap EXCEPT ![v].known = TRUE]
          /\ pc = "refused" => UNCHANGED swap
  BY <1>2
<1>4. /\ opening' \in [Vaults -> Opening] /\ opening'[v] = pc
      /\ \A w \in Vaults \ {v} : opening'[w] = opening[w]
  BY <1>1, <1>3, OpeningStep DEF Opening
<1>5. /\ swap' \in [Swapped -> VaultSwaps] /\ swap'[v].status = swap[v].status
      /\ swap'[v].known = IF pc = "done" THEN TRUE ELSE swap[v].known
      /\ \A w \in Swapped \ {v} : swap'[w] = swap[w]
  <2>1. swap \in [Swapped -> VaultSwaps] /\ swap[v] \in VaultSwaps
    BY VaultTypes DEF VaultInv
  <2>2. CASE pc = "done"
    <3>1. PICK next : next = [swap[v] EXCEPT !.known = TRUE]
      OBVIOUS
    <3>2. next \in VaultSwaps /\ next.status = swap[v].status /\ next.known = TRUE
      BY <2>1, <3>1 DEF VaultSwaps
    <3>3. swap' = [swap EXCEPT ![v] = next]
      BY <1>3, <2>2, <3>1
    <3>. QED  BY <2>1, <2>2, <3>2, <3>3
  <2>3. CASE pc = "refused"
    BY <1>3, <2>1, <2>3
  <2>. QED  BY <2>2, <2>3
<1>6. VaultTypeOK'
  BY <1>1, <1>4, <1>5 DEF VaultInv, VaultTypeOK, VaultSwaps
<1>7. OthersSame(v) /\ Budgets' /\ CountsDown
  BY <1>1, <1>4, <1>5, VaultSpends DEF OthersSame, VaultRecord
<1>8. VaultStage(v) /\ ~swap[v].known /\ swap[v].status # "COMPLETED"
  BY <1>1 DEF VaultInv, VaultStage
<1>9. VaultStage(v)'
  BY <1>1, <1>4, <1>5, <1>8, VaultSets DEF VaultStage
<1>10. PaidTo(v)' = PaidTo(v)
  BY <1>1, <1>5, VaultSets DEF PaidTo
<1>11. v \in Backed' <=> v \in Backed
  BY <1>1, <1>4, <1>5 DEF Backed, Is
<1>. QED  BY <1>1, <1>4, <1>6, <1>7, <1>9, <1>10, <1>11, VaultWork DEF Reading

\* A step of the cancellation, of Quidax or of the time.
LEMMA VaultAside ==
    ASSUME VaultInv, VaultTypeOK', Budgets', CountsDown, NEW v \in Vaults,
           UNCHANGED <<usdt, btc, coUsdt, coBtc, locked, vault, swap, opening, closing,
                       sawUsdt>>,
           \A w \in Swapped \ {v} : /\ swapAt'[w] = swapAt[w]
                                    /\ cancelling'[w] = cancelling[w],
           v \in Swapped /\ opening[v] = "new" => cancelling'[v] = "idle",
           v \in Swapped /\ swap[v].status = "COMPLETED" => swapAt'[v] = swapAt[v]
    PROVE  VaultInv'
<1>1. OthersSame(v)
  BY DEF OthersSame
<1>2. VaultStage(v)
  BY DEF VaultInv
<1>3. VaultStage(v)'
  BY <1>2 DEF VaultStage
<1>4. PaidTo(v)' = PaidTo(v)
  BY VaultSets DEF PaidTo
<1>5. v \in Backed' <=> v \in Backed
  BY DEF Backed, Is
<1>. QED  BY <1>1, <1>3, <1>4, <1>5, VaultWork DEF Reading

LEMMA CancelVaultKeeps ==
    ASSUME VaultInv, NEW v \in Swapped, CancelVault(v)
    PROVE  VaultInv'
<1>1. /\ UNCHANGED <<usdt, btc, coUsdt, coBtc, locked, vault, swap, swapAt, swapJob,
                     opening, closing, sawUsdt, mature, shards>>
      /\ Spend("cancel")
  BY DEF CancelVault, users, company, records, atQuidax
<1>2. /\ cancelling' \in [Swapped -> {"idle", "local", "remote", "cancelled"}]
      /\ \A w \in Swapped \ {v} : cancelling'[w] = cancelling[w]
      /\ opening[v] # "new"
  BY VaultSets, VaultTypes DEF VaultInv, CancelVault, VaultStage
<1>3. VaultTypeOK'
  BY <1>1, <1>2 DEF VaultInv, VaultTypeOK
<1>4. Budgets' /\ CountsDown /\ v \in Vaults
  BY <1>1, VaultSpends, VaultSets
<1>. QED  BY <1>1, <1>2, <1>3, <1>4, VaultAside

LEMMA CancelSwapKeeps ==
    ASSUME VaultInv, NEW v \in Swapped, CancelSwap(v)
    PROVE  VaultInv'
<1>1. /\ UNCHANGED <<usdt, btc, coUsdt, coBtc, locked, vault, swap, opening, closing,
                     sawUsdt, mature, shards, budget>>
  BY DEF CancelSwap, users, company, records
<1>2. /\ swapAt \in [Swapped -> VaultSwapsAt] /\ swapAt[v] \in VaultSwapsAt
      /\ swapJob \in [Swapped -> {"none", "waiting", "done"}]
      /\ cancelling \in [Swapped -> {"idle", "local", "remote", "cancelled"}]
  BY VaultTypes DEF VaultInv
<1>3. /\ swapAt' \in [Swapped -> VaultSwapsAt]
      /\ swapJob' \in [Swapped -> {"none", "waiting", "done"}]
      /\ cancelling' \in [Swapped -> {"idle", "local", "remote", "cancelled"}]
      /\ \A w \in Swapped \ {v} : /\ swapAt'[w] = swapAt[w]
                                  /\ cancelling'[w] = cancelling[w]
      /\ swapAt[v].status # "open" => swapAt' = swapAt
  <2>1. CASE swapAt[v].status = "open"
    <3>1. PICK next : next = [swapAt[v] EXCEPT !.status = "cancelled"]
      OBVIOUS
    <3>2. next \in VaultSwapsAt
      BY <1>2, <3>1 DEF VaultSwapsAt
    <3>3. /\ swapAt' = [swapAt EXCEPT ![v] = next]
          /\ swapJob' = [swapJob EXCEPT ![v] = "waiting"]
          /\ cancelling' = [cancelling EXCEPT ![v] = "cancelled"]
      BY <2>1, <3>1 DEF CancelSwap
    <3>. QED  BY <1>2, <2>1, <3>2, <3>3
  <2>2. CASE swapAt[v].status # "open"
    BY <1>2, <2>2 DEF CancelSwap, atQuidax
  <2>. QED  BY <2>1, <2>2
<1>4. VaultTypeOK'
  BY <1>1, <1>3 DEF VaultInv, VaultTypeOK, VaultSwapsAt
<1>5. Budgets' /\ CountsDown /\ v \in Vaults
  BY <1>1, VaultSpends, VaultSets
<1>6. /\ swap[v].status = "COMPLETED" => swapAt[v].status # "open"
      /\ opening[v] # "new"
  BY <1>5 DEF VaultInv, CancelSwap, VaultStage
<1>. QED  BY <1>1, <1>3, <1>4, <1>5, <1>6, VaultAside

LEMMA VaultSwapEndsKeeps ==
    ASSUME VaultInv, NEW v \in Swapped, VaultSwapEnds(v)
    PROVE  VaultInv'
<1>1. /\ UNCHANGED <<usdt, btc, coUsdt, coBtc, locked, vault, swap, opening, closing,
                     cancelling, sawUsdt, mature, shards, budget>>
      /\ swapAt[v].status = "open"
      /\ swapJob' = [swapJob EXCEPT ![v] = "waiting"]
  BY DEF VaultSwapEnds, users, company, records, requests
<1>2. PICK end \in {"completed", "failed"}, diff \in {-1, 0, 1} :
          swapAt' = [swapAt EXCEPT ![v] = [status |-> end, received |-> Quoted[v] + diff]]
  BY DEF VaultSwapEnds
<1>3. Quoted[v] + diff \in Nat
  BY VaultConstants
<1>4. /\ swapAt' \in [Swapped -> VaultSwapsAt]
      /\ \A w \in Swapped \ {v} : swapAt'[w] = swapAt[w]
      /\ swapJob' \in [Swapped -> {"none", "waiting", "done"}]
  BY <1>3, <1>1, <1>2, VaultTypes DEF VaultSwapsAt, VaultInv
<1>5. VaultTypeOK'
  BY <1>1, <1>4 DEF VaultInv, VaultTypeOK, VaultSwapsAt
<1>6. Budgets' /\ CountsDown /\ v \in Vaults
  BY <1>1, VaultSpends, VaultSets
<1>7. /\ swap[v].status # "COMPLETED"
      /\ opening[v] = "new" => cancelling[v] = "idle"
  BY <1>1, <1>6 DEF VaultInv, VaultStage
<1>. QED  BY <1>1, <1>4, <1>5, <1>6, <1>7, VaultAside

LEMMA TimePassesKeeps ==
    ASSUME VaultInv, NEW v \in Vaults, TimePasses(v)
    PROVE  VaultInv'
<1>1. UNCHANGED <<usdt, btc, coUsdt, coBtc, locked, vault, swap, swapAt, swapJob, opening,
                  closing, cancelling, sawUsdt, shards, budget>>
      /\ mature' \in SUBSET Vaults
  BY VaultTypes DEF TimePasses, users, company, records, atQuidax, requests, VaultInv
<1>2. VaultTypeOK' /\ Budgets' /\ CountsDown
  BY <1>1, VaultSpends DEF VaultInv, VaultTypeOK
<1>3. v \in Swapped /\ opening[v] = "new" => cancelling[v] = "idle"
  BY DEF VaultInv, VaultStage
<1>. QED  BY <1>1, <1>2, <1>3, VaultAside

LEMMA DispatchKeeps ==
    ASSUME VaultInv, Dispatch
    PROVE  VaultInv'
<1>1. UNCHANGED <<usdt, btc, coUsdt, coBtc, locked, vault, swap, swapAt, swapJob, opening,
                  closing, cancelling, sawUsdt, mature, budget>>
      /\ shards' \in SUBSET Vaults
  BY DEF Dispatch, users, company, records, atQuidax, requests
<1>2. VaultTypeOK' /\ Budgets' /\ CountsDown
  BY <1>1, VaultSpends DEF VaultInv, VaultTypeOK
<1>3. PICK v \in Vaults : DueForPayment(v)
  BY DEF Dispatch
<1>4. v \in Swapped /\ opening[v] = "new" => cancelling[v] = "idle"
  BY DEF VaultInv, VaultStage
<1>. QED  BY <1>1, <1>2, <1>3, <1>4, VaultAside

LEMMA UnlockStartKeeps ==
    ASSUME VaultInv, NEW v \in Vaults, UnlockStart(v)
    PROVE  VaultInv'
<1>1. /\ UNCHANGED <<usdt, btc, coUsdt, coBtc, locked, vault, swap, swapAt, swapJob,
                     opening, cancelling, sawUsdt, mature, shards, budget>>
      /\ vault[v].status = "ACTIVE"
  BY DEF UnlockStart, users, company, records, atQuidax
<1>2. PICK pc \in {"early", "late"} : SetClosing(v, pc)
  BY DEF UnlockStart
<1>3. /\ closing' \in [Vaults -> Closing] /\ closing'[v] = pc
      /\ \A w \in Vaults \ {v} : closing'[w] = closing[w]
  BY <1>2, ClosingStep DEF Closing
<1>4. VaultTypeOK'
  BY <1>1, <1>3 DEF VaultInv, VaultTypeOK
<1>5. OthersSame(v) /\ Budgets' /\ CountsDown
  BY <1>1, <1>3, VaultSpends DEF OthersSame
<1>6. VaultStage(v)
  BY DEF VaultInv
<1>7. VaultStage(v)'
  BY <1>1, <1>3, <1>6, VaultSets DEF VaultStage
<1>8. PaidTo(v)' = PaidTo(v)
  BY <1>1, VaultSets DEF PaidTo
<1>9. v \in Backed' <=> v \in Backed
  BY <1>1 DEF Backed, Is
<1>10. v \in Reading' => v \in Reading /\ sawUsdt'[v] = sawUsdt[v]
  BY <1>1, <1>3 DEF Reading
<1>. QED  BY <1>1, <1>3, <1>4, <1>5, <1>7, <1>8, <1>9, <1>10, VaultWork

LEMMA UnlockReadKeeps ==
    ASSUME VaultInv, NEW v \in Vaults, UnlockRead(v)
    PROVE  VaultInv'
<1>1. /\ UNCHANGED <<usdt, btc, coUsdt, coBtc, locked, vault, swap, swapAt, swapJob,
                     opening, cancelling, mature, shards, budget>>
      /\ closing[v] \in {"early", "late"}
  BY DEF UnlockRead, users, company, records, atQuidax
<1>2. PICK pc \in {"earlyRead", "lateRead", "idle"} :
          /\ SetClosing(v, pc)
          /\ pc = "idle" => UNCHANGED sawUsdt
          /\ pc # "idle" => /\ vault[v].status = "ACTIVE"
                            /\ sawUsdt' = [sawUsdt EXCEPT ![v] = usdt]
  BY DEF UnlockRead, StillActive
<1>3. /\ closing' \in [Vaults -> Closing] /\ closing'[v] = pc
      /\ \A w \in Vaults \ {v} : closing'[w] = closing[w]
  BY <1>2, ClosingStep DEF Closing
<1>4. /\ sawUsdt' \in [Vaults -> VaultPurse]
      /\ pc = "idle" => sawUsdt'[v] = sawUsdt[v]
      /\ pc # "idle" => sawUsdt'[v] = usdt
      /\ \A w \in Vaults \ {v} : sawUsdt'[w] = sawUsdt[w]
  BY VaultTypes, <1>2 DEF VaultInv
<1>5. VaultTypeOK'
  BY <1>1, <1>3, <1>4 DEF VaultInv, VaultTypeOK, VaultPurse
<1>6. OthersSame(v) /\ Budgets' /\ CountsDown
  BY <1>1, <1>3, <1>4, VaultSpends DEF OthersSame
<1>7. VaultStage(v)
  BY DEF VaultInv
<1>8. vault[v].status \in {"ACTIVE", "MATURED", "TERMINATED"} /\ opening[v] # "read"
  BY <1>1, <1>7 DEF VaultStage
<1>9. VaultStage(v)'
  BY <1>1, <1>3, <1>7, <1>8, VaultSets DEF VaultStage
<1>10. PaidTo(v)' = PaidTo(v)
  BY <1>1, VaultSets DEF PaidTo
<1>11. v \in Backed' <=> v \in Backed
  BY <1>1 DEF Backed, Is
<1>12. v \in Reading' => sawUsdt'[v] = usdt
  BY <1>1, <1>3, <1>4, <1>8 DEF Reading
<1>13. closing'[v] \in {"earlyRead", "lateRead"} => vault[v].status = "ACTIVE"
  BY <1>2, <1>3
<1>. QED  BY <1>1, <1>5, <1>6, <1>9, <1>10, <1>11, <1>12, <1>13, VaultWork

LEMMA VaultCrashKeeps ==
    ASSUME VaultInv, VaultCrash
    PROVE  VaultInv'
<1>1. /\ UNCHANGED <<usdt, btc, coUsdt, coBtc, locked, vault, swap, swapAt, swapJob,
                     sawUsdt, mature, shards>>
      /\ Spend("crash")
      /\ opening' = [v \in Vaults |-> IF opening[v] = "new" THEN "new" ELSE "done"]
      /\ closing' = [v \in Vaults |-> "idle"]
      /\ cancelling' = [v \in Swapped |-> "idle"]
  BY DEF VaultCrash, users, company, records, atQuidax
<1>2. VaultTypeOK'
  BY <1>1 DEF VaultInv, VaultTypeOK, Opening, Closing
<1>3. Budgets' /\ CountsDown /\ ~Untouched({"crash"})'
  BY <1>1, VaultSpends, BudgetSpent, VaultConstants DEF VaultInv
<1>4. (NotStale' => NotStale) /\ (NoRace' => NoRace) /\ Budgets
  BY <1>3, VaultOrder DEF VaultInv
<1>5. ASSUME NEW w \in Vaults PROVE VaultStage(w)'
  BY <1>1, VaultSets DEF VaultInv, VaultStage
<1>6. VaultUnhurt'
  BY <1>1 DEF VaultUnhurt
<1>7. Reading' = {}
  BY <1>1 DEF Reading
<1>8. ReadsFresh'
  BY <1>7, FreshWritten
<1>9. InterestThere'
  <2>1. PICK f : f = [v \in Vaults |-> vault[v].gain]
    OBVIOUS
  <2>2. \A v \in Vaults : f[v] \in Nat
    BY <2>1, VaultTypes DEF VaultInv, VaultRows
  <2>3. Engaged' \subseteq Engaged /\ Engaged \subseteq Vaults
    BY <1>1 DEF Engaged, Is
  <2>4. IsFiniteSet(Engaged) /\ IsFiniteSet(Engaged')
    BY <2>3, FiniteVaults
  <2>5. SumFunctionOnSet(f, Engaged') <= SumFunctionOnSet(f, Engaged)
    BY <2>2, <2>3, <2>4, SumSubset
  <2>6. SumFunctionOnSet(f, Engaged') \in Nat /\ SumFunctionOnSet(f, Engaged) \in Nat
    BY <2>2, <2>3, <2>4, SumNatural
  <2>7. usdt.interest \in Nat /\ usdt.interest >= SumFunctionOnSet(f, Engaged)
    BY <2>1, VaultTypes DEF VaultInv, InterestThere, Total, VaultPurse
  <2>8. usdt'.interest >= SumFunctionOnSet(f, Engaged')
    BY <1>1, <2>5, <2>6, <2>7
  <2>. QED  BY <1>1, <2>1, <2>8 DEF InterestThere, Total
<1>10. VaultBooks'
  <2>1. /\ AmountSum' = AmountSum /\ GainSum' = GainSum
        /\ InterestSum' = InterestSum /\ PaidSum' = PaidSum
    BY <1>1 DEF AmountSum, GainSum, InterestSum, PaidSum, Is, Interest, PaidTo
  <2>2. (VaultBooks <=>
         (NotStale =>
            /\ locked.principal = AmountSum /\ locked.accrued = GainSum
            /\ locked.paid = InterestSum /\ usdt.interest = locked.accrued
            /\ NoRace => /\ usdt.locked = locked.principal
                         /\ usdt.base = InitialUsdt + PaidSum))'
    BY BooksAre, PTL
  <2>. QED  BY <1>1, <1>4, <2>1, <2>2, BooksAre DEF VaultInv
<1>11. VaultHeld'
  <2>1. HoldSum' = HoldSum
    BY <1>1 DEF HoldSum, Is
  <2>2. (VaultHeld <=>
         (NotStale =>
            /\ btc.reserved = HoldSum
            /\ Enough /\ Untouched({"crash"}) =>
                 coUsdt.reserved = OthersReserved + BackedSum))'
    BY BooksAre, PTL
  <2>. QED  BY <1>1, <1>3, <1>4, <2>1, <2>2, BooksAre DEF VaultInv
<1>12. WalletSolvent(btc)' /\ CompanySolvent(coUsdt)'
  BY <1>1 DEF VaultInv, WalletSolvent, CompanySolvent
<1>. QED  BY <1>2, <1>3, <1>5, <1>6, <1>8, <1>9, <1>10, <1>11, <1>12 DEF VaultInv

\* A step that takes or gives back what is held for its vault.
LEMMA VaultHolds ==
    ASSUME VaultInv, VaultTypeOK', WalletSolvent(btc)', CompanySolvent(coUsdt)',
           Budgets', CountsDown, NEW v \in Swapped, OthersSame(v), VaultStage(v)',
           UNCHANGED <<usdt, locked>>, closing'[v] = closing[v],
           vault'[v].status # "ACTIVE", vault'[v].gain = vault[v].gain,
           sawUsdt'[v] = sawUsdt[v], opening'[v] # "read",
           NotStale' =>
               /\ vault[v].status \notin {"ACTIVE", "MATURED"}
               /\ PaidTo(v)' = PaidTo(v)
               /\ vault'[v].status # "MATURED"
               /\ opening'[v] \in {"held", "reserved", "posted", "unquoted", "refused"}
                      => vault'[v].status = "PENDING"
               /\ btc'.reserved = btc.reserved
                            + Counted(vault'[v].status = "PENDING", Charge(v))
                            - Counted(vault[v].status = "PENDING", Charge(v)),
           coUsdt'.total = coUsdt.total,
           NotStale' /\ Enough /\ Untouched({"crash"})' =>
               coUsdt'.reserved = coUsdt.reserved + Counted(v \in Backed', Quoted[v])
                                                  - Counted(v \in Backed, Quoted[v])
    PROVE  VaultInv'
<1>1. Budgets /\ (NotStale' => NotStale) /\ (NoRace' => NoRace) /\ v \in Vaults
  BY VaultOrder, VaultSets DEF VaultInv
<1>2. \A w \in Vaults : VaultStage(w)'
  BY <1>1, StageOthers
<1>3. VaultUnhurt'
  BY <1>1, UnhurtOthers DEF VaultInv, VaultUnhurt
<1>4. ReadsFresh'
  BY <1>1, FreshOthers DEF Reading
<1>5. InterestThere'
  BY <1>1, InterestQuiet DEF Engaged, Is
<1>6. VaultBooks'
  BY <1>1, BooksQuiet
<1>7. VaultHeld'
  BY <1>1, <1>2, HeldKept
<1>. QED  BY <1>2, <1>3, <1>4, <1>5, <1>6, <1>7 DEF VaultInv

\* The rows of a vault after one of its statements.
LEMMA VaultStatusStep ==
    ASSUME VaultInv, NEW v \in Vaults, NEW s \in VaultStatus, SetStatus(v, s)
    PROVE  /\ vault' \in [Vaults -> VaultRows] /\ vault'[v].status = s
           /\ vault'[v].amount = vault[v].amount /\ vault'[v].gain = vault[v].gain
           /\ vault'[v].receive = vault[v].receive
           /\ \A w \in Vaults \ {v} : vault'[w] = vault[w]
<1>1. vault \in [Vaults -> VaultRows] /\ vault[v] \in VaultRows
  BY VaultTypes DEF VaultInv
<1>2. PICK next : next = [vault[v] EXCEPT !.status = s]
  OBVIOUS
<1>3. /\ next \in VaultRows /\ next.status = s /\ next.amount = vault[v].amount
      /\ next.gain = vault[v].gain /\ next.receive = vault[v].receive
  BY <1>1, <1>2 DEF VaultRows
<1>4. vault' = [vault EXCEPT ![v] = next]
  BY <1>2 DEF SetStatus
<1>. QED  BY <1>1, <1>3, <1>4

LEMMA SwapStep ==
    ASSUME VaultInv, NEW v \in Swapped, NEW s \in {"PENDING", "COMPLETED", "FAILED"},
           SetSwap(v, s)
    PROVE  /\ swap' \in [Swapped -> VaultSwaps] /\ swap'[v].status = s
           /\ swap'[v].known = swap[v].known
           /\ \A w \in Swapped \ {v} : swap'[w] = swap[w]
<1>1. swap \in [Swapped -> VaultSwaps] /\ swap[v] \in VaultSwaps
  BY VaultTypes DEF VaultInv
<1>2. PICK next : next = [swap[v] EXCEPT !.status = s]
  OBVIOUS
<1>3. next \in VaultSwaps /\ next.status = s /\ next.known = swap[v].known
  BY <1>1, <1>2 DEF VaultSwaps
<1>4. swap' = [swap EXCEPT ![v] = next]
  BY <1>2 DEF SetSwap
<1>. QED  BY <1>1, <1>3, <1>4

\* What a statement on the user's or the company's row does to what it holds.
LEMMA ReleasedWallet ==
    ASSUME VaultInv, NEW a \in Nat, CanReleaseBalance(btc, a)
    PROVE  /\ ReleaseBalance(btc, a) \in Wallets /\ WalletSolvent(ReleaseBalance(btc, a))
           /\ ReleaseBalance(btc, a).reserved = btc.reserved - a
  BY VaultTypes, ReleaseBalanceGood DEF VaultInv, GoodWallet, ReleaseBalance, Wallets

LEMMA ReleasedCompany ==
    ASSUME VaultInv, NEW a \in Nat, CanReleaseLiquidity(coUsdt, a)
    PROVE  /\ ReleaseLiquidity(coUsdt, a) \in CompanyAccounts
           /\ CompanySolvent(ReleaseLiquidity(coUsdt, a))
           /\ ReleaseLiquidity(coUsdt, a).reserved = coUsdt.reserved - a
           /\ ReleaseLiquidity(coUsdt, a).total = coUsdt.total
  BY VaultTypes, ReleaseLiquidityGood DEF VaultInv, GoodCompany, ReleaseLiquidity, CompanyAccounts

\* What a vault that waits has held can be given back.
LEMMA HoldThere ==
    ASSUME VaultInv, NotStale, NEW v \in Vaults, vault[v].status = "PENDING"
    PROVE  CanReleaseBalance(btc, Charge(v))
<1>1. btc.reserved = HoldSum
  BY BooksAre DEF VaultInv
<1>2. v \in Is("PENDING") /\ Is("PENDING") \subseteq Vaults /\ IsFiniteSet(Is("PENDING"))
  BY FiniteVaults DEF Is
<1>3. PICK f : f = [w \in Vaults |-> Charge(w)]
  OBVIOUS
<1>4. \A w \in Is("PENDING") : f[w] \in Nat
  BY <1>2, <1>3, ChargeNatural
<1>5. SumFunctionOnSet(f, Is("PENDING")) = f[v] + SumFunctionOnSet(f, Is("PENDING") \ {v})
  BY <1>2, <1>4, SumRemove
<1>6. SumFunctionOnSet(f, Is("PENDING") \ {v}) \in Nat
  BY <1>2, <1>4, SumNatural, FS_Subset
<1>7. HoldSum >= f[v]
  BY <1>2, <1>3, <1>4, <1>5, <1>6 DEF HoldSum, Total
<1>. QED  BY <1>1, <1>3, <1>7 DEF CanReleaseBalance

LEMMA BackingThere ==
    ASSUME VaultInv, NotStale, Enough, Untouched({"crash"}), NEW v \in Backed
    PROVE  CanReleaseLiquidity(coUsdt, Quoted[v])
<1>1. coUsdt.reserved = OthersReserved + BackedSum /\ OthersReserved \in Nat
  BY BooksAre, VaultConstants DEF VaultInv
<1>2. Backed \subseteq Swapped /\ IsFiniteSet(Backed) /\ IsFiniteSet(Backed \ {v})
  BY VaultSets, FS_Subset DEF Backed, Is, VaultInv, VaultStage
<1>3. \A w \in Backed : Quoted[w] \in Nat
  BY <1>2, VaultConstants
<1>4. BackedSum = Quoted[v] + SumFunctionOnSet(Quoted, Backed \ {v})
  BY <1>2, <1>3, SumRemove DEF BackedSum, Total
<1>5. SumFunctionOnSet(Quoted, Backed \ {v}) \in Nat
  BY <1>2, <1>3, SumNatural
<1>. QED  BY <1>1, <1>3, <1>4, <1>5 DEF CanReleaseLiquidity

LEMMA VaultHoldKeeps ==
    ASSUME VaultInv, NEW v \in Swapped, VaultHold(v)
    PROVE  VaultInv'
<1>1. /\ UNCHANGED <<usdt, coUsdt, coBtc, locked, swapAt, swapJob, closing, cancelling,
                     sawUsdt, mature, shards, budget>>
      /\ opening[v] = "new" /\ v \in Vaults
      /\ CanReserveBalance(btc, Charge(v)) /\ btc' = ReserveBalance(btc, Charge(v))
      /\ SetStatus(v, "PENDING") /\ SetSwap(v, "PENDING") /\ SetOpening(v, "held")
  BY VaultSets DEF VaultHold, company, atQuidax
<1>2. /\ opening' \in [Vaults -> Opening] /\ opening'[v] = "held"
      /\ \A w \in Vaults \ {v} : opening'[w] = opening[w]
  BY <1>1, OpeningStep DEF Opening
<1>3. /\ vault' \in [Vaults -> VaultRows] /\ vault'[v].status = "PENDING"
      /\ vault'[v].amount = vault[v].amount /\ vault'[v].gain = vault[v].gain
      /\ vault'[v].receive = vault[v].receive
      /\ \A w \in Vaults \ {v} : vault'[w] = vault[w]
  BY <1>1, VaultStatusStep DEF VaultStatus
<1>4. /\ swap' \in [Swapped -> VaultSwaps] /\ swap'[v].status = "PENDING"
      /\ swap'[v].known = swap[v].known
      /\ \A w \in Swapped \ {v} : swap'[w] = swap[w]
  BY <1>1, SwapStep
<1>5. /\ btc' \in Wallets /\ WalletSolvent(btc)' /\ Charge(v) \in Nat
      /\ btc.reserved \in Nat /\ btc'.reserved = btc.reserved + Charge(v)
  BY <1>1, VaultTypes, ChargeNatural, ReserveBalanceGood DEF VaultInv, GoodWallet, ReserveBalance,
    Wallets, WalletSolvent
<1>6. VaultTypeOK'
  BY <1>1, <1>2, <1>3, <1>4, <1>5 DEF VaultInv, VaultTypeOK, VaultRows, VaultSwaps
<1>7. OthersSame(v) /\ Budgets' /\ CountsDown /\ VaultStage(v)
  BY <1>1, <1>2, <1>3, <1>4, VaultSpends DEF OthersSame, VaultInv
<1>8. vault[v].status = "none" /\ swap[v].status = "none" /\ ~swap[v].known
  BY <1>1, <1>7 DEF VaultStage
<1>9. VaultStage(v)'
  BY <1>1, <1>2, <1>3, <1>4, <1>7, <1>8, VaultSets DEF VaultStage
<1>10. PaidTo(v)' = PaidTo(v)
  BY <1>1, <1>4, <1>8, VaultSets DEF PaidTo
<1>11. v \notin Backed /\ v \notin Backed'
  BY <1>2, <1>4, <1>8 DEF Backed, Is
<1>12. CompanySolvent(coUsdt)' /\ coUsdt.reserved \in Nat
  BY <1>1, VaultTypes DEF VaultInv, CompanySolvent, CompanyAccounts
<1>13. btc'.reserved = btc.reserved + Counted(vault'[v].status = "PENDING", Charge(v))
                                    - Counted(vault[v].status = "PENDING", Charge(v))
  BY <1>3, <1>5, <1>8 DEF Counted
<1>14. coUsdt'.reserved = coUsdt.reserved + Counted(v \in Backed', Quoted[v])
                                          - Counted(v \in Backed, Quoted[v])
  BY <1>1, <1>11, <1>12 DEF Counted
<1>. QED  BY <1>1, <1>2, <1>3, <1>5, <1>6, <1>7, <1>8, <1>9, <1>10, <1>12, <1>13, <1>14, VaultHolds

LEMMA VaultUndoKeeps ==
    ASSUME VaultInv, NEW v \in Swapped, VaultUndo(v)
    PROVE  VaultInv'
<1> DEFINE quoted == opening[v] = "refused"
           there == /\ CanReleaseBalance(btc, Charge(v))
                    /\ quoted => CanReleaseLiquidity(coUsdt, Quoted[v])
<1>1. /\ UNCHANGED <<usdt, coBtc, locked, swapAt, swapJob, closing, cancelling,
                     sawUsdt, mature, shards, budget>>
      /\ opening[v] \in {"unquoted", "refused"} /\ v \in Vaults /\ SetOpening(v, "done")
  BY VaultSets DEF VaultUndo, atQuidax
<1>2. /\ there => /\ btc' = ReleaseBalance(btc, Charge(v))
                  /\ quoted => coUsdt' = ReleaseLiquidity(coUsdt, Quoted[v])
                  /\ ~quoted => coUsdt' = coUsdt
                  /\ SetStatus(v, "TERMINATED") /\ SetSwap(v, "FAILED")
      /\ ~there => UNCHANGED <<btc, coUsdt, vault, swap>>
  BY DEF VaultUndo, records
<1>3. /\ opening' \in [Vaults -> Opening] /\ opening'[v] = "done"
      /\ \A w \in Vaults \ {v} : opening'[w] = opening[w]
  BY <1>1, OpeningStep DEF Opening
<1>4. /\ vault' \in [Vaults -> VaultRows]
      /\ vault'[v].status = IF there THEN "TERMINATED" ELSE vault[v].status
      /\ vault'[v].amount = vault[v].amount /\ vault'[v].gain = vault[v].gain
      /\ vault'[v].receive = vault[v].receive
      /\ \A w \in Vaults \ {v} : vault'[w] = vault[w]
  <2>1. there => SetStatus(v, "TERMINATED") /\ "TERMINATED" \in VaultStatus
    BY <1>2 DEF VaultStatus
  <2>2. ~there => vault' = vault
    BY <1>2
  <2>3. vault \in [Vaults -> VaultRows]
    BY VaultTypes DEF VaultInv
  <2>. HIDE DEF there
  <2>. QED  BY <1>1, <2>1, <2>2, <2>3, VaultStatusStep
<1>5. /\ swap' \in [Swapped -> VaultSwaps]
      /\ swap'[v].status = IF there THEN "FAILED" ELSE swap[v].status
      /\ swap'[v].known = swap[v].known
      /\ \A w \in Swapped \ {v} : swap'[w] = swap[w]
  <2>1. (there => SetSwap(v, "FAILED")) /\ (~there => swap' = swap)
    BY <1>2
  <2>2. swap \in [Swapped -> VaultSwaps]
    BY VaultTypes DEF VaultInv
  <2>. HIDE DEF there
  <2>. QED  BY <2>1, <2>2, SwapStep
<1>6. /\ btc' \in Wallets /\ WalletSolvent(btc)' /\ Charge(v) \in Nat /\ btc.reserved \in Nat
      /\ btc'.reserved = btc.reserved - Counted(there, Charge(v))
  <2>1. btc \in Wallets /\ WalletSolvent(btc) /\ Charge(v) \in Nat
    BY <1>1, VaultTypes, ChargeNatural DEF VaultInv
  <2>2. CASE there
    BY <1>2, <2>1, <2>2, ReleasedWallet DEF Counted, WalletSolvent, Wallets
  <2>3. CASE ~there
    <3>1. btc' = btc
      BY <1>2, <2>3
    <3>. HIDE DEF there
    <3>. QED  BY <2>1, <2>3, <3>1 DEF Counted, WalletSolvent, Wallets
  <2>. QED  BY <2>2, <2>3
<1>7. /\ coUsdt' \in CompanyAccounts /\ CompanySolvent(coUsdt)'
      /\ coUsdt'.total = coUsdt.total /\ coUsdt.reserved \in Nat /\ Quoted[v] \in Nat
      /\ coUsdt'.reserved = coUsdt.reserved - Counted(there /\ quoted, Quoted[v])
  <2>1. coUsdt \in CompanyAccounts /\ CompanySolvent(coUsdt) /\ Quoted[v] \in Nat
    BY VaultTypes, VaultConstants DEF VaultInv
  <2>2. CASE there /\ quoted
    BY <1>2, <2>1, <2>2, ReleasedCompany DEF Counted, CompanySolvent, CompanyAccounts
  <2>3. CASE ~(there /\ quoted)
    <3>1. coUsdt' = coUsdt
      BY <1>2, <2>3
    <3>. HIDE DEF there, quoted
    <3>. QED  BY <2>1, <2>3, <3>1 DEF Counted, CompanySolvent, CompanyAccounts
  <2>. QED  BY <2>2, <2>3
<1>8. VaultTypeOK'
  BY <1>1, <1>3, <1>4, <1>5, <1>6, <1>7 DEF VaultInv, VaultTypeOK, VaultRows, VaultSwaps
<1>9. OthersSame(v) /\ Budgets' /\ CountsDown /\ VaultStage(v)
  BY <1>1, <1>3, <1>4, <1>5, VaultSpends DEF OthersSame, VaultInv
<1>10. /\ ~swap[v].known /\ swap[v].status # "COMPLETED" /\ closing[v] = "idle"
       /\ vault[v].status \notin {"none", "ACTIVE", "MATURED"}
  BY <1>1, <1>9 DEF VaultStage
<1>11. VaultStage(v)'
  BY <1>1, <1>3, <1>4, <1>5, <1>9, <1>10, VaultSets DEF VaultStage
<1>12. PaidTo(v)' = PaidTo(v)
  BY <1>1, <1>5, <1>10, VaultSets DEF PaidTo
<1>13. ASSUME NotStale'
       PROVE  /\ vault[v].status = "PENDING" /\ CanReleaseBalance(btc, Charge(v)) /\ NotStale
              /\ btc'.reserved = btc.reserved
                            + Counted(vault'[v].status = "PENDING", Charge(v))
                            - Counted(vault[v].status = "PENDING", Charge(v))
  <2>1. NotStale
    BY <1>9, <1>13, VaultOrder DEF VaultInv
  <2>2. vault[v].status = "PENDING"
    BY <1>1, <2>1 DEF VaultInv, VaultUnhurt
  <2>3. CanReleaseBalance(btc, Charge(v))
    BY <1>1, <2>1, <2>2, HoldThere
  <2>4. Counted(vault'[v].status = "PENDING", Charge(v))
            = IF there THEN 0 ELSE Charge(v)
    BY <1>4, <2>2 DEF Counted
  <2>. HIDE DEF there
  <2>. QED  BY <1>6, <2>1, <2>2, <2>3, <2>4 DEF Counted
<1>14. ASSUME NotStale', Enough, Untouched({"crash"})'
       PROVE  coUsdt'.reserved = coUsdt.reserved + Counted(v \in Backed', Quoted[v])
                                                 - Counted(v \in Backed, Quoted[v])
  <2>1. NotStale /\ Untouched({"crash"}) /\ vault[v].status = "PENDING"
    BY <1>9, <1>13, <1>14, VaultOrder DEF VaultInv
  <2>2. v \in Backed <=> quoted
    BY <1>1, <1>10, <2>1 DEF Backed, Is
  <2>3. there
    BY <1>13, <1>14, <2>1, <2>2, BackingThere
  <2>4. v \notin Backed'
    BY <1>4, <2>3 DEF Backed, Is
  <2>. HIDE DEF there, quoted
  <2>. QED  BY <1>7, <2>2, <2>3, <2>4 DEF Counted
<1>15. /\ vault'[v].status \notin {"ACTIVE", "MATURED"} /\ opening'[v] = "done"
       /\ vault[v].status \notin {"ACTIVE", "MATURED"}
  BY <1>3, <1>4, <1>10
<1>. HIDE DEF there, quoted
<1>. QED  BY <1>1, <1>4, <1>6, <1>7, <1>8, <1>9, <1>11, <1>12, <1>13, <1>14, <1>15, VaultHolds

LEMMA CancelCommitKeeps ==
    ASSUME VaultInv, NEW v \in Swapped, CancelCommit(v)
    PROVE  VaultInv'
<1> DEFINE known == cancelling[v] = "cancelled"
           stale == vault[v].status # "PENDING"
                       \/ opening[v] # "done" \/ swap[v].known # known
           there == /\ CanReleaseBalance(btc, Charge(v))
                    /\ known => CanReleaseLiquidity(coUsdt, Quoted[v])
<1>1. /\ UNCHANGED <<usdt, coBtc, locked, swap, swapAt, swapJob, opening, closing,
                     sawUsdt, mature, shards>>
      /\ cancelling[v] # "idle" /\ v \in Vaults
      /\ cancelling' = [cancelling EXCEPT ![v] = "idle"]
  BY VaultSets DEF CancelCommit, atQuidax
<1>2. /\ there => /\ btc' = ReleaseBalance(btc, Charge(v))
                  /\ known => coUsdt' = ReleaseLiquidity(coUsdt, Quoted[v])
                  /\ ~known => coUsdt' = coUsdt
                  /\ SetStatus(v, "TERMINATED") /\ Note(stale, "staleCancel")
      /\ ~there => UNCHANGED <<btc, coUsdt, vault, budget>>
  BY DEF CancelCommit
<1>3. /\ cancelling' \in [Swapped -> {"idle", "local", "remote", "cancelled"}]
      /\ cancelling'[v] = "idle"
      /\ \A w \in Swapped \ {v} : cancelling'[w] = cancelling[w]
  BY <1>1, VaultTypes DEF VaultInv
<1>4. /\ vault' \in [Vaults -> VaultRows]
      /\ vault'[v].status = IF there THEN "TERMINATED" ELSE vault[v].status
      /\ vault'[v].amount = vault[v].amount /\ vault'[v].gain = vault[v].gain
      /\ vault'[v].receive = vault[v].receive
      /\ \A w \in Vaults \ {v} : vault'[w] = vault[w]
      /\ ~there => vault' = vault
  <2>1. there => SetStatus(v, "TERMINATED") /\ "TERMINATED" \in VaultStatus
    BY <1>2 DEF VaultStatus
  <2>2. ~there => vault' = vault
    BY <1>2
  <2>3. vault \in [Vaults -> VaultRows]
    BY VaultTypes DEF VaultInv
  <2>. HIDE DEF there
  <2>. QED  BY <1>1, <2>1, <2>2, <2>3, VaultStatusStep
<1>5. /\ btc' \in Wallets /\ WalletSolvent(btc)' /\ Charge(v) \in Nat /\ btc.reserved \in Nat
      /\ btc'.reserved = btc.reserved - Counted(there, Charge(v))
  <2>1. btc \in Wallets /\ WalletSolvent(btc) /\ Charge(v) \in Nat
    BY <1>1, VaultTypes, ChargeNatural DEF VaultInv
  <2>2. CASE there
    BY <1>2, <2>1, <2>2, ReleasedWallet DEF Counted, WalletSolvent, Wallets
  <2>3. CASE ~there
    <3>1. btc' = btc
      BY <1>2, <2>3
    <3>. HIDE DEF there
    <3>. QED  BY <2>1, <2>3, <3>1 DEF Counted, WalletSolvent, Wallets
  <2>. QED  BY <2>2, <2>3
<1>6. /\ coUsdt' \in CompanyAccounts /\ CompanySolvent(coUsdt)'
      /\ coUsdt'.total = coUsdt.total /\ coUsdt.reserved \in Nat /\ Quoted[v] \in Nat
      /\ coUsdt'.reserved = coUsdt.reserved - Counted(there /\ known, Quoted[v])
      /\ ~there => UNCHANGED <<btc, coUsdt, vault, budget>>
  <2>1. coUsdt \in CompanyAccounts /\ CompanySolvent(coUsdt) /\ Quoted[v] \in Nat
    BY VaultTypes, VaultConstants DEF VaultInv
  <2>2. CASE there /\ known
    BY <1>2, <2>1, <2>2, ReleasedCompany DEF Counted, CompanySolvent, CompanyAccounts
  <2>3. CASE ~(there /\ known)
    <3>1. coUsdt' = coUsdt /\ (~there => UNCHANGED <<btc, coUsdt, vault, budget>>)
      BY <1>2, <2>3
    <3>. HIDE DEF there, known
    <3>. QED  BY <2>1, <2>3, <3>1 DEF Counted, CompanySolvent, CompanyAccounts
  <2>. QED  BY <2>2, <2>3
<1>7. VaultTypeOK'
  BY <1>1, <1>3, <1>4, <1>5, <1>6 DEF VaultInv, VaultTypeOK, VaultRows
<1>8. OthersSame(v) /\ VaultStage(v) /\ Budgets
  BY <1>1, <1>3, <1>4 DEF OthersSame, VaultInv
<1>9. Budgets' /\ CountsDown
  <2>1. there => Note(stale, "staleCancel")
    BY <1>2
  <2>. HIDE DEF there, stale
  <2>2. "staleCancel" \in Kinds
    BY VaultConstants
  <2>. QED  BY <1>6, <1>8, <2>1, <2>2, BudgetNoted, BudgetSame
<1>10. NotStale' /\ there => ~stale
  <2>1. there => Note(stale, "staleCancel")
    BY <1>2
  <2>. HIDE DEF there, stale
  <2>. QED  BY <1>8, <2>1, NoteSeen DEF NotStale
<1>11. opening[v] \notin {"new", "read"} /\ vault[v].status # "none"
  BY <1>1, <1>8 DEF VaultStage
<1>12. CASE there
  <2>1. VaultStage(v)'
    BY <1>1, <1>3, <1>4, <1>8, <1>11, <1>12, VaultSets DEF VaultStage
  <2>2. ASSUME NotStale'
        PROVE  /\ vault[v].status = "PENDING" /\ opening[v] = "done"
               /\ swap[v].known <=> known
               /\ PaidTo(v)' = PaidTo(v)
    BY <1>10, <1>12, <2>2, <1>1, <1>8, VaultSets DEF VaultStage, PaidTo
  <2>3. ASSUME NotStale'
        PROVE  btc'.reserved = btc.reserved
                            + Counted(vault'[v].status = "PENDING", Charge(v))
                            - Counted(vault[v].status = "PENDING", Charge(v))
    BY <1>4, <1>5, <1>12, <2>2, <2>3 DEF Counted
  <2>4. ASSUME NotStale'
        PROVE  coUsdt'.reserved = coUsdt.reserved + Counted(v \in Backed', Quoted[v])
                                                  - Counted(v \in Backed, Quoted[v])
    <3>1. v \notin Backed' /\ (v \in Backed <=> known)
      BY <1>1, <1>4, <1>12, <2>2, <2>4 DEF Backed, Is
    <3>. HIDE DEF known, there
    <3>. QED  BY <1>6, <1>12, <3>1 DEF Counted
  <2>5. vault'[v].status \notin {"ACTIVE", "MATURED", "PENDING"} /\ opening'[v] # "read"
    BY <1>1, <1>4, <1>11, <1>12
  <2>6. NotStale' => opening'[v] = "done" /\ vault[v].status = "PENDING"
    BY <1>1, <2>2
  <2>. HIDE DEF known, there, stale
  <2>. QED  BY <1>1, <1>4, <1>5, <1>6, <1>7, <1>8, <1>9, <2>1, <2>2, <2>3, <2>4, <2>5, <2>6,
    VaultHolds
<1>13. CASE ~there
  <2>. HIDE DEF there, stale, known
  <2>. QED  BY <1>1, <1>3, <1>6, <1>7, <1>9, <1>13, VaultAside
<1>. QED  BY <1>12, <1>13

\* A swap that is known and pending is of a vault that waits for it, or of one that
\* was cancelled.
LEMMA FoundVault ==
    ASSUME VaultInv, NEW v \in Swapped, Found(v), vault[v].status # "TERMINATED"
    PROVE  /\ v \in Vaults /\ v \notin Stable /\ vault[v].status = "PENDING"
           /\ opening[v] = "done" /\ closing[v] = "idle" /\ v \in Backed
<1>1. VaultStage(v) /\ v \in Vaults /\ v \notin Stable
  BY VaultSets DEF VaultInv
<1>2. swap[v].known /\ swap[v].status = "PENDING"
  BY DEF Found
<1>3. opening[v] = "done" /\ closing[v] = "idle" /\ vault[v].status # "none"
      /\ vault[v].status \notin {"ACTIVE", "MATURED"}
  BY <1>1, <1>2 DEF VaultStage
<1>4. vault[v] \in VaultRows
  BY <1>1, VaultTypes DEF VaultInv
<1>5. vault[v].status = "PENDING"
  BY <1>3, <1>4 DEF VaultRows, VaultStatus
<1>. QED  BY <1>1, <1>2, <1>3, <1>5 DEF Backed, Is

LEMMA ReleasedThere ==
    ASSUME VaultInv, NEW v \in Swapped
    PROVE  /\ ReleasedIfThere(coUsdt, Quoted[v]) \in CompanyAccounts
           /\ CompanySolvent(ReleasedIfThere(coUsdt, Quoted[v]))
           /\ ReleasedIfThere(coUsdt, Quoted[v]).total = coUsdt.total
           /\ NotStale /\ Enough /\ Untouched({"crash"}) /\ v \in Backed =>
                  ReleasedIfThere(coUsdt, Quoted[v]).reserved = coUsdt.reserved - Quoted[v]
<1>1. coUsdt \in CompanyAccounts /\ CompanySolvent(coUsdt) /\ Quoted[v] \in Nat
  BY VaultTypes, VaultConstants DEF VaultInv
<1>2. CASE CanReleaseLiquidity(coUsdt, Quoted[v])
  BY <1>1, <1>2, ReleasedCompany DEF ReleasedIfThere
<1>3. CASE ~CanReleaseLiquidity(coUsdt, Quoted[v])
  BY <1>1, <1>3, BackingThere DEF ReleasedIfThere
<1>. QED  BY <1>2, <1>3

\* The webhook of a swap that brought nothing, or too little.
LEMMA VaultFailsKeeps ==
    ASSUME VaultInv, NEW v \in Swapped, Found(v), vault[v].status # "TERMINATED",
           CanReleaseBalance(btc, Charge(v)), btc' = ReleaseBalance(btc, Charge(v)),
           coUsdt' = ReleasedIfThere(coUsdt, Quoted[v]),
           SetStatus(v, "TERMINATED"), SetSwap(v, "FAILED"),
           UNCHANGED <<usdt, coBtc, locked, swapAt, opening, closing, cancelling, sawUsdt,
                       mature, shards, budget>>,
           swapJob' \in [Swapped -> {"none", "waiting", "done"}]
    PROVE  VaultInv'
<1>1. /\ v \in Vaults /\ v \notin Stable /\ vault[v].status = "PENDING"
      /\ opening[v] = "done" /\ closing[v] = "idle" /\ v \in Backed
      /\ swap[v].status = "PENDING"
  BY FoundVault DEF Found
<1>2. /\ vault' \in [Vaults -> VaultRows] /\ vault'[v].status = "TERMINATED"
      /\ vault'[v].amount = vault[v].amount /\ vault'[v].gain = vault[v].gain
      /\ vault'[v].receive = vault[v].receive
      /\ \A w \in Vaults \ {v} : vault'[w] = vault[w]
  BY <1>1, VaultStatusStep DEF VaultStatus
<1>3. /\ swap' \in [Swapped -> VaultSwaps] /\ swap'[v].status = "FAILED"
      /\ swap'[v].known = swap[v].known
      /\ \A w \in Swapped \ {v} : swap'[w] = swap[w]
  BY SwapStep
<1>4. /\ btc' \in Wallets /\ WalletSolvent(btc)' /\ Charge(v) \in Nat /\ btc.reserved \in Nat
      /\ btc'.reserved = btc.reserved - Charge(v)
  BY <1>1, VaultTypes, ChargeNatural, ReleasedWallet DEF VaultInv, WalletSolvent, Wallets
<1>5. /\ coUsdt' \in CompanyAccounts /\ CompanySolvent(coUsdt)' /\ coUsdt'.total = coUsdt.total
      /\ coUsdt.reserved \in Nat /\ Quoted[v] \in Nat
  BY ReleasedThere, VaultTypes, VaultConstants DEF CompanySolvent, VaultInv, CompanyAccounts
<1>6. VaultTypeOK'
  BY <1>2, <1>3, <1>4, <1>5 DEF VaultInv, VaultTypeOK, VaultRows, VaultSwaps
<1>7. OthersSame(v) /\ Budgets' /\ CountsDown /\ VaultStage(v)
  BY <1>1, <1>2, <1>3, VaultSpends DEF OthersSame, VaultInv
<1>8. VaultStage(v)'
  BY <1>1, <1>2, <1>3, <1>7 DEF VaultStage
<1>9. PaidTo(v)' = PaidTo(v)
  BY <1>1, <1>3 DEF PaidTo
<1>10. btc'.reserved = btc.reserved + Counted(vault'[v].status = "PENDING", Charge(v))
                                    - Counted(vault[v].status = "PENDING", Charge(v))
  BY <1>1, <1>2, <1>4 DEF Counted
<1>11. ASSUME NotStale', Enough, Untouched({"crash"})'
       PROVE  coUsdt'.reserved = coUsdt.reserved + Counted(v \in Backed', Quoted[v])
                                                 - Counted(v \in Backed, Quoted[v])
  BY <1>7, <1>11, VaultOrder, <1>2, <1>1, <1>5, ReleasedThere DEF VaultInv, Backed, Is, Counted
<1>. QED  BY <1>1, <1>2, <1>4, <1>5, <1>6, <1>7, <1>8, <1>9, <1>10, <1>11, VaultHolds

---------------------------------------------------------------------------
(* Steps that pay.                                                         *)

LEMMA BooksMoved ==
    ASSUME VaultInv, VaultTypeOK', NEW v \in Vaults, OthersSame(v),
           NotStale' => NotStale, NoRace' => NoRace,
           NotStale' =>
               /\ locked'.principal = locked.principal
                      + Counted(vault'[v].status = "ACTIVE", vault'[v].amount)
                      - Counted(vault[v].status = "ACTIVE", vault[v].amount)
               /\ locked'.accrued = locked.accrued
                      + Counted(vault'[v].status = "ACTIVE", vault'[v].gain)
                      - Counted(vault[v].status = "ACTIVE", vault[v].gain)
               /\ locked'.paid = locked.paid
                      + Counted(vault'[v].status = "MATURED", Interest(v)')
                      - Counted(vault[v].status = "MATURED", Interest(v))
               /\ usdt'.interest - usdt.interest = locked'.accrued - locked.accrued
               /\ NoRace' =>
                    /\ usdt'.locked - usdt.locked = locked'.principal - locked.principal
                    /\ usdt'.base = usdt.base + PaidTo(v)' - PaidTo(v)
    PROVE  VaultBooks'
<1>1. VaultTypeOK /\ VaultBooks
  BY DEF VaultInv
<1>2. SUFFICES ASSUME NotStale'
      PROVE  /\ locked'.principal = AmountSum' /\ locked'.accrued = GainSum'
             /\ locked'.paid = InterestSum' /\ usdt'.interest = locked'.accrued
             /\ NoRace' => /\ usdt'.locked = locked'.principal
                           /\ usdt'.base = InitialUsdt + PaidSum'
  <2>1. (VaultBooks <=>
         (NotStale =>
            /\ locked.principal = AmountSum /\ locked.accrued = GainSum
            /\ locked.paid = InterestSum /\ usdt.interest = locked.accrued
            /\ NoRace => /\ usdt.locked = locked.principal
                         /\ usdt.base = InitialUsdt + PaidSum))'
    BY BooksAre, PTL
  <2>. QED  BY <2>1
<1>3. /\ AmountSum \in Nat /\ GainSum \in Nat /\ InterestSum \in Nat /\ PaidSum \in Int
      /\ PaidTo(v) \in Int /\ PaidTo(v)' \in Int /\ InitialUsdt \in Nat
  BY <1>1, SumsNatural, PaidToIntsNext, PaidToInts, VaultConstants DEF PaidTyped
<1>4. /\ AmountSum' = AmountSum + Counted(vault'[v].status = "ACTIVE", vault'[v].amount)
                                - Counted(vault[v].status = "ACTIVE", vault[v].amount)
      /\ GainSum' = GainSum + Counted(vault'[v].status = "ACTIVE", vault'[v].gain)
                            - Counted(vault[v].status = "ACTIVE", vault[v].gain)
      /\ InterestSum' = InterestSum + Counted(vault'[v].status = "MATURED", Interest(v)')
                                    - Counted(vault[v].status = "MATURED", Interest(v))
      /\ PaidSum' = PaidSum + PaidTo(v)' - PaidTo(v)
  BY <1>1, VaultShift
<1>5. /\ locked.principal = AmountSum /\ locked.accrued = GainSum
      /\ locked.paid = InterestSum /\ usdt.interest = locked.accrued
      /\ NoRace => usdt.locked = locked.principal /\ usdt.base = InitialUsdt + PaidSum
  BY <1>1, <1>2, BooksAre
<1>6. /\ locked'.principal \in Nat /\ locked'.accrued \in Nat /\ locked'.paid \in Nat
      /\ usdt'.interest \in Nat /\ usdt'.locked \in Nat
  BY DEF VaultTypeOK
<1>7. /\ locked'.principal = AmountSum' /\ locked'.accrued = GainSum'
      /\ locked'.paid = InterestSum' /\ usdt'.interest = locked'.accrued
  BY <1>2, <1>4, <1>5, <1>3, <1>6
<1>8. ASSUME NoRace'
      PROVE  usdt'.locked = locked'.principal /\ usdt'.base = InitialUsdt + PaidSum'
  BY <1>5, <1>8, <1>2, <1>3, <1>4, <1>6
<1>. QED  BY <1>7, <1>8

LEMMA VaultPays ==
    ASSUME VaultInv, VaultTypeOK', WalletSolvent(btc)', CompanySolvent(coUsdt)',
           Budgets', CountsDown, NEW v \in Vaults, OthersSame(v), VaultStage(v)',
           opening'[v] = "done", closing'[v] \notin {"earlyRead", "lateRead"},
           NoRace' => Reading' = {},
           usdt'.interest = usdt.interest
               + Counted(vault'[v].status = "ACTIVE", vault'[v].gain)
               - Counted(v \in Engaged, vault[v].gain),
           NotStale' =>
               /\ locked'.principal = locked.principal
                      + Counted(vault'[v].status = "ACTIVE", vault'[v].amount)
                      - Counted(vault[v].status = "ACTIVE", vault[v].amount)
               /\ locked'.accrued = locked.accrued
                      + Counted(vault'[v].status = "ACTIVE", vault'[v].gain)
                      - Counted(vault[v].status = "ACTIVE", vault[v].gain)
               /\ locked'.paid = locked.paid
                      + Counted(vault'[v].status = "MATURED", Interest(v)')
                      - Counted(vault[v].status = "MATURED", Interest(v))
               /\ usdt'.interest - usdt.interest = locked'.accrued - locked.accrued
               /\ NoRace' =>
                    /\ usdt'.locked - usdt.locked = locked'.principal - locked.principal
                    /\ usdt'.base = usdt.base + PaidTo(v)' - PaidTo(v)
               /\ btc'.reserved = btc.reserved
                            + Counted(vault'[v].status = "PENDING", Charge(v))
                            - Counted(vault[v].status = "PENDING", Charge(v)),
           coUsdt'.total = coUsdt.total,
           NotStale' /\ Enough /\ Untouched({"crash"})' =>
               coUsdt'.reserved = coUsdt.reserved + Counted(v \in Backed', Quoted[v])
                                                  - Counted(v \in Backed, Quoted[v])
    PROVE  VaultInv'
<1>1. Budgets /\ (NotStale' => NotStale) /\ (NoRace' => NoRace) /\ VaultTypeOK
  BY VaultOrder DEF VaultInv
<1>2. \A w \in Vaults : VaultStage(w)'
  BY StageOthers
<1>3. VaultUnhurt'
  BY <1>1, UnhurtOthers
<1>4. ReadsFresh'
  BY FreshWritten
<1>5. InterestThere'
  <2>1. EngagedSum \in Nat /\ usdt.interest \in Nat /\ usdt.interest >= EngagedSum
        /\ vault[v].gain \in Nat /\ vault'[v].gain \in Nat
    BY <1>1, SumsNatural DEF VaultInv, InterestThere, EngagedSum, VaultTypeOK
  <2>2. EngagedSum' = EngagedSum + Counted(v \in Engaged', vault'[v].gain)
                                 - Counted(v \in Engaged, vault[v].gain)
    BY <1>1, VaultShift
  <2>3. v \in Engaged' <=> vault'[v].status = "ACTIVE"
    BY DEF Engaged, Is
  <2>4. usdt'.interest >= EngagedSum'
    BY <2>1, <2>2, <2>3 DEF Counted
  <2>. QED  BY <2>4 DEF InterestThere, EngagedSum
<1>6. VaultBooks'
  BY <1>1, BooksMoved
<1>7. VaultHeld'
  BY <1>1, <1>2, HeldKept
<1>. QED  BY <1>2, <1>3, <1>4, <1>5, <1>6, <1>7 DEF VaultInv

\* What is subtracted from the company's totals is in them.
LEMMA ActiveThere ==
    ASSUME VaultInv, NotStale, NEW v \in Vaults, vault[v].status = "ACTIVE"
    PROVE  locked.principal >= vault[v].amount /\ locked.accrued >= vault[v].gain
<1>1. locked.principal = AmountSum /\ locked.accrued = GainSum
  BY BooksAre DEF VaultInv
<1>2. v \in Is("ACTIVE") /\ Is("ACTIVE") \subseteq Vaults /\ IsFiniteSet(Is("ACTIVE"))
      /\ IsFiniteSet(Is("ACTIVE") \ {v})
  BY FiniteVaults DEF Is
<1>3. \A w \in Vaults : vault[w].amount \in Nat /\ vault[w].gain \in Nat
  BY VaultTypes DEF VaultInv, VaultRows
<1>4. ASSUME NEW f, \A w \in Vaults : f[w] \in Nat
      PROVE  SumFunctionOnSet(f, Is("ACTIVE")) >= f[v]
  <2>1. SumFunctionOnSet(f, Is("ACTIVE")) = f[v] + SumFunctionOnSet(f, Is("ACTIVE") \ {v})
    BY <1>2, <1>4, SumRemove
  <2>2. SumFunctionOnSet(f, Is("ACTIVE") \ {v}) \in Nat
    BY <1>2, <1>4, SumNatural
  <2>. QED  BY <1>4, <2>1, <2>2
<1>5. AmountSum >= vault[v].amount
  <2>1. PICK f : f = [w \in Vaults |-> vault[w].amount]
    OBVIOUS
  <2>2. \A w \in Vaults : f[w] \in Nat
    BY <1>3, <2>1
  <2>. QED  BY <1>4, <2>1, <2>2 DEF AmountSum, Total
<1>6. GainSum >= vault[v].gain
  <2>1. PICK f : f = [w \in Vaults |-> vault[w].gain]
    OBVIOUS
  <2>2. \A w \in Vaults : f[w] \in Nat
    BY <1>3, <2>1
  <2>. QED  BY <1>4, <2>1, <2>2 DEF GainSum, Total
<1>. QED  BY <1>1, <1>5, <1>6

LEMMA EngagedThere ==
    ASSUME VaultInv, NEW v \in Engaged
    PROVE  usdt.interest >= vault[v].gain
<1>1. usdt.interest >= EngagedSum /\ usdt.interest \in Nat
  BY VaultTypes DEF VaultInv, InterestThere, EngagedSum, VaultPurse
<1>2. v \in Vaults /\ Engaged \subseteq Vaults /\ IsFiniteSet(Engaged)
      /\ IsFiniteSet(Engaged \ {v})
  BY FiniteVaults DEF Engaged, Is
<1>3. PICK f : f = [w \in Vaults |-> vault[w].gain]
  OBVIOUS
<1>4. \A w \in Vaults : f[w] \in Nat
  BY <1>3, VaultTypes DEF VaultInv, VaultRows
<1>5. EngagedSum = f[v] + SumFunctionOnSet(f, Engaged \ {v})
  <2>1. EngagedSum = SumFunctionOnSet(f, Engaged)
    BY <1>3 DEF EngagedSum, Total
  <2>. QED  BY <1>2, <1>4, <2>1, SumRemove
<1>6. SumFunctionOnSet(f, Engaged \ {v}) \in Nat
  BY <1>2, <1>4, SumNatural
<1>. QED  BY <1>1, <1>2, <1>3, <1>4, <1>5, <1>6

LEMMA VaultWritten ==
    ASSUME VaultInv, NEW v \in Vaults, NEW r \in VaultRows,
           vault' = [vault EXCEPT ![v] = r]
    PROVE  /\ vault' \in [Vaults -> VaultRows] /\ vault'[v] = r
           /\ \A w \in Vaults \ {v} : vault'[w] = vault[w]
BY VaultTypes DEF VaultInv

LEMMA VaultOpenKeeps ==
    ASSUME VaultInv, NEW v \in Vaults, VaultOpen(v)
    PROVE  VaultInv'
<1> DEFINE gain == PreviewGain(Principal[v])
           r == Funded(Principal[v], gain)
<1>1. /\ UNCHANGED <<btc, coUsdt, coBtc, swap, swapAt, swapJob, closing, cancelling,
                     sawUsdt, mature, shards>>
      /\ opening[v] = "read" /\ Note(Reading # {v}, "overlap")
      /\ usdt' = [base |-> sawUsdt[v].base - Charge(v),
                  locked |-> sawUsdt[v].locked + Principal[v],
                  interest |-> usdt.interest + gain]
      /\ vault' = [vault EXCEPT ![v] = r]
      /\ locked' = Lock(locked, Principal[v], gain)
      /\ SetOpening(v, "done")
  BY DEF VaultOpen, atQuidax
<1>2. Principal[v] \in Nat /\ gain \in Nat /\ Charge(v) \in Nat
  BY VaultConstants, GainNatural, ChargeNatural
<1>3. /\ r \in VaultRows /\ r.status = "ACTIVE" /\ r.amount = Principal[v] /\ r.gain = gain
  BY <1>2, FundedRow
<1>. HIDE DEF gain, r
<1>4. /\ vault' \in [Vaults -> VaultRows] /\ vault'[v] = r
      /\ \A w \in Vaults \ {v} : vault'[w] = vault[w]
  BY <1>1, <1>3, VaultWritten
<1>5. /\ opening' \in [Vaults -> Opening] /\ opening'[v] = "done"
      /\ \A w \in Vaults \ {v} : opening'[w] = opening[w]
  BY <1>1, OpeningStep DEF Opening
<1>6. VaultStage(v) /\ Budgets /\ "overlap" \in Kinds
      /\ (closing[v] \in {"earlyRead", "lateRead"} => closing[v] # "idle")
  BY VaultConstants DEF VaultInv
<1>7. /\ vault[v].status = "none" /\ v \notin Swapped /\ v \in Stable /\ closing[v] = "idle"
      /\ sawUsdt[v].base >= Charge(v)
  BY <1>1, <1>6, VaultSets DEF VaultStage
<1>8. /\ sawUsdt[v].base \in Nat /\ sawUsdt[v].locked \in Nat /\ usdt.interest \in Nat
      /\ locked.principal \in Nat /\ locked.accrued \in Nat /\ locked.paid \in Nat
      /\ usdt.locked \in Nat /\ usdt.base \in Nat
      /\ locked \in [principal : Nat, accrued : Nat, paid : Nat]
  BY VaultTypes DEF VaultInv, VaultPurse
<1>9. /\ usdt' \in VaultPurse
      /\ usdt'.base = sawUsdt[v].base - Charge(v)
      /\ usdt'.locked = sawUsdt[v].locked + Principal[v]
      /\ usdt'.interest = usdt.interest + gain
  BY <1>1, <1>2, <1>7, <1>8 DEF VaultPurse
<1>10. /\ locked' \in [principal : Nat, accrued : Nat, paid : Nat]
       /\ locked'.principal = locked.principal + Principal[v]
       /\ locked'.accrued = locked.accrued + gain
       /\ locked'.paid = locked.paid
  <2>1. PICK one : one = [locked EXCEPT !.principal = @ + Principal[v]]
    OBVIOUS
  <2>2. /\ one \in [principal : Nat, accrued : Nat, paid : Nat]
        /\ one.principal = locked.principal + Principal[v]
        /\ one.accrued = locked.accrued /\ one.paid = locked.paid
    BY <1>2, <1>8, <2>1
  <2>3. locked' = [one EXCEPT !.accrued = @ + gain]
    BY <1>1, <1>8, <2>1 DEF Lock
  <2>. QED  BY <1>2, <1>8, <2>2, <2>3
<1>11. VaultTypeOK'
  BY <1>1, <1>4, <1>5, <1>9, <1>10 DEF VaultInv, VaultTypeOK, VaultRows, VaultPurse
<1>12. OthersSame(v) /\ Budgets' /\ CountsDown
  BY <1>1, <1>4, <1>5, <1>6, BudgetNoted DEF OthersSame
<1>13. VaultStage(v)'
  BY <1>1, <1>3, <1>4, <1>5, <1>7 DEF VaultStage
<1>14. NoRace' => Reading = {v} /\ NoRace
  BY <1>1, <1>6, <1>12, NoteSeen, VaultOrder DEF NoRace
<1>15. NoRace' => Reading' = {}
  BY <1>1, <1>5, <1>7, <1>14 DEF Reading
<1>16. PaidTo(v) = 0 /\ PaidTo(v)' = 0 - Charge(v)
  BY <1>3, <1>4, <1>7 DEF PaidTo
<1>17. NoRace' => sawUsdt[v].base = usdt.base /\ sawUsdt[v].locked = usdt.locked
  BY <1>14 DEF VaultInv, ReadsFresh
<1>18. v \notin Engaged /\ v \notin Backed /\ v \notin Backed'
  BY <1>3, <1>4, <1>7 DEF Engaged, Is, Backed
<1>19. CompanySolvent(coUsdt)' /\ coUsdt.reserved \in Nat /\ WalletSolvent(btc)'
       /\ btc.reserved \in Nat
  BY <1>1, VaultTypes DEF VaultInv, CompanySolvent, CompanyAccounts, WalletSolvent, Wallets
<1>20. usdt'.interest = usdt.interest
               + Counted(vault'[v].status = "ACTIVE", vault'[v].gain)
               - Counted(v \in Engaged, vault[v].gain)
  BY <1>2, <1>3, <1>4, <1>8, <1>9, <1>18 DEF Counted
<1>21. /\ locked'.principal = locked.principal
                      + Counted(vault'[v].status = "ACTIVE", vault'[v].amount)
                      - Counted(vault[v].status = "ACTIVE", vault[v].amount)
       /\ locked'.accrued = locked.accrued
                      + Counted(vault'[v].status = "ACTIVE", vault'[v].gain)
                      - Counted(vault[v].status = "ACTIVE", vault[v].gain)
       /\ locked'.paid = locked.paid
                      + Counted(vault'[v].status = "MATURED", Interest(v)')
                      - Counted(vault[v].status = "MATURED", Interest(v))
       /\ usdt'.interest - usdt.interest = locked'.accrued - locked.accrued
  BY <1>2, <1>3, <1>4, <1>7, <1>8, <1>9, <1>10 DEF Counted
<1>22. NoRace' => /\ usdt'.locked - usdt.locked = locked'.principal - locked.principal
                  /\ usdt'.base = usdt.base + PaidTo(v)' - PaidTo(v)
  BY <1>2, <1>8, <1>9, <1>10, <1>16, <1>17
<1>23. /\ btc'.reserved = btc.reserved
                            + Counted(vault'[v].status = "PENDING", Charge(v))
                            - Counted(vault[v].status = "PENDING", Charge(v))
       /\ coUsdt'.reserved = coUsdt.reserved + Counted(v \in Backed', Quoted[v])
                                             - Counted(v \in Backed, Quoted[v])
  BY <1>1, <1>3, <1>4, <1>7, <1>18, <1>19 DEF Counted
<1>. QED  BY <1>1, <1>5, <1>7, <1>11, <1>12, <1>13, <1>15, <1>19, <1>20, <1>21, <1>22, <1>23,
  VaultPays

LEMMA Clipped == \A m, n \in Int : /\ AtLeastZero(m) \in Nat
                                   /\ m >= n => AtLeastZero(m - n) = m - n
BY DEF AtLeastZero

\* A vault is paid back, by its owner's request or by the scheduler.
LEMMA UnlockPays ==
    ASSUME VaultInv, NEW v \in Engaged, NEW s \in {"MATURED", "TERMINATED"},
           SetStatus(v, s),
           locked' = Unlock(locked, vault[v].amount, vault[v].gain,
                            IF s = "MATURED" THEN Interest(v) ELSE 0),
           usdt' \in VaultPurse, usdt'.interest = usdt.interest - vault[v].gain,
           NotStale' => vault[v].status = "ACTIVE",
           NotStale' /\ NoRace' =>
               /\ usdt'.locked = AtLeastZero(usdt.locked - vault[v].amount)
               /\ usdt'.base = usdt.base + (IF s = "MATURED" THEN vault[v].receive
                                      ELSE vault[v].amount - Penalty(vault[v].amount)),
           Budgets', CountsDown, NoRace' => Reading' = {},
           closing' \in [Vaults -> Closing], closing'[v] \notin {"earlyRead", "lateRead"},
           \A w \in Vaults \ {v} : closing'[w] = closing[w], shards' \in SUBSET Vaults,
           UNCHANGED <<btc, coUsdt, coBtc, swap, swapAt, swapJob, opening, cancelling,
                       sawUsdt, mature>>
    PROVE  VaultInv'
<1> DEFINE a == vault[v].amount
           g == vault[v].gain
<1>1. v \in Vaults /\ vault[v] \in VaultRows /\ VaultStage(v) /\ Budgets
  BY VaultTypes DEF Engaged, Is, VaultInv
<1>2. a \in Nat /\ g \in Nat /\ vault[v].receive \in Nat /\ Penalty(a) \in Nat
      /\ Penalty(a) <= a /\ Interest(v) \in Nat
  BY <1>1, PenaltyWithin, InterestNatural DEF VaultRows, VaultInv
<1>3. vault[v].status \in {"ACTIVE", "MATURED", "TERMINATED"}
      /\ (v \in Swapped => swap[v].status = "COMPLETED")
  BY <1>1 DEF Engaged, Is, VaultStage
<1>4. opening[v] = "done"
  BY <1>1, <1>3, VaultSets DEF VaultStage
<1>5. /\ vault' \in [Vaults -> VaultRows] /\ vault'[v].status = s
      /\ vault'[v].amount = a /\ vault'[v].gain = g
      /\ vault'[v].receive = vault[v].receive
      /\ \A w \in Vaults \ {v} : vault'[w] = vault[w]
  BY <1>1, VaultStatusStep DEF VaultStatus
<1>6. /\ locked.principal \in Nat /\ locked.accrued \in Nat /\ locked.paid \in Nat
      /\ usdt.interest \in Nat /\ usdt.locked \in Nat /\ usdt.base \in Nat
  BY VaultTypes DEF VaultInv, VaultPurse
<1>7. /\ locked' \in [principal : Nat, accrued : Nat, paid : Nat]
      /\ locked'.principal = AtLeastZero(locked.principal - a)
      /\ locked'.accrued = AtLeastZero(locked.accrued - g)
      /\ locked'.paid = locked.paid + Counted(s = "MATURED", Interest(v))
  BY <1>2, <1>6, Clipped DEF Unlock, Counted
<1>8. VaultTypeOK'
  BY <1>5, <1>7 DEF VaultInv, VaultTypeOK, VaultRows, VaultPurse
<1>9. OthersSame(v)
  BY <1>5 DEF OthersSame
<1>10. VaultStage(v)'
  BY <1>1, <1>3, <1>4, <1>5 DEF VaultStage
<1>11. NotStale' => NotStale /\ vault[v].status = "ACTIVE"
  BY <1>1, VaultOrder
<1>12. NoRace' => NoRace
  BY <1>1, VaultOrder
<1>13. Interest(v)' = Interest(v)
  BY <1>5 DEF Interest
<1>14. ASSUME NotStale'
       PROVE  /\ locked'.principal = locked.principal - a
              /\ locked'.accrued = locked.accrued - g
  BY <1>1, <1>11, <1>14, ActiveThere, <1>2, <1>6, <1>7 DEF AtLeastZero
<1>15. ASSUME NotStale'
       PROVE  /\ locked'.principal = locked.principal
                      + Counted(vault'[v].status = "ACTIVE", vault'[v].amount)
                      - Counted(vault[v].status = "ACTIVE", vault[v].amount)
              /\ locked'.accrued = locked.accrued
                      + Counted(vault'[v].status = "ACTIVE", vault'[v].gain)
                      - Counted(vault[v].status = "ACTIVE", vault[v].gain)
              /\ locked'.paid = locked.paid
                      + Counted(vault'[v].status = "MATURED", Interest(v)')
                      - Counted(vault[v].status = "MATURED", Interest(v))
              /\ usdt'.interest - usdt.interest = locked'.accrued - locked.accrued
  BY <1>2, <1>5, <1>6, <1>7, <1>11, <1>13, <1>14, <1>15 DEF Counted
<1>16. ASSUME NotStale', NoRace'
       PROVE  /\ usdt'.locked - usdt.locked = locked'.principal - locked.principal
              /\ usdt'.base = usdt.base + PaidTo(v)' - PaidTo(v)
  <2>1. vault[v].status = "ACTIVE" /\ NotStale /\ NoRace
    BY <1>11, <1>12, <1>16
  <2>2. usdt.locked = locked.principal /\ locked.principal >= a
    BY <1>1, <2>1, BooksAre, ActiveThere DEF VaultInv
  <2>3. usdt'.locked = usdt.locked - a
    BY <1>2, <1>6, <1>16, <2>2 DEF AtLeastZero
  <2>4. PICK opened : opened = IF v \in Stable THEN 0 - Charge(v)
                               ELSE swapAt[v].received - Quoted[v]
    OBVIOUS
  <2>5. opened \in Int
    <3>1. CASE v \in Stable
      BY <1>1, <2>4, <3>1, ChargeNatural
    <3>2. CASE v \notin Stable
      BY <1>1, <3>2, VaultSets, VaultTypes, VaultConstants, <2>4 DEF VaultInv, VaultSwapsAt
    <3>. QED  BY <3>1, <3>2
  <2>6. PaidTo(v) = opened
    BY <1>1, <1>3, <2>1, <2>4, VaultSets DEF PaidTo
  <2>7. PaidTo(v)' = opened + (IF s = "MATURED" THEN vault[v].receive ELSE a - Penalty(a))
    BY <1>1, <1>3, <1>2, <1>5, <2>4, <2>5, VaultSets DEF PaidTo
  <2>8. PICK back \in Nat : back = IF s = "MATURED" THEN vault[v].receive ELSE a - Penalty(a)
    BY <1>2
  <2>9. usdt'.base = usdt.base + back
    BY <1>16, <2>8
  <2>. HIDE DEF a
  <2>. QED  BY <1>6, <1>14, <1>16, <1>2, <2>2, <2>3, <2>5, <2>6, <2>7, <2>8, <2>9
<1>17. v \notin Backed /\ v \notin Backed'
  BY <1>3, <1>5 DEF Backed, Is
<1>18. CompanySolvent(coUsdt)' /\ coUsdt.reserved \in Nat /\ WalletSolvent(btc)'
       /\ btc.reserved \in Nat
  BY VaultTypes DEF VaultInv, CompanySolvent, CompanyAccounts, WalletSolvent, Wallets
<1>19. /\ btc'.reserved = btc.reserved
                            + Counted(vault'[v].status = "PENDING", Charge(v))
                            - Counted(vault[v].status = "PENDING", Charge(v))
       /\ coUsdt'.reserved = coUsdt.reserved + Counted(v \in Backed', Quoted[v])
                                             - Counted(v \in Backed, Quoted[v])
  BY <1>3, <1>5, <1>17, <1>18 DEF Counted
<1>20. usdt'.interest = usdt.interest
               + Counted(vault'[v].status = "ACTIVE", vault'[v].gain)
               - Counted(v \in Engaged, vault[v].gain)
  BY <1>2, <1>5, <1>6 DEF Counted
<1>. QED  BY <1>1, <1>4, <1>8, <1>9, <1>10, <1>15, <1>16, <1>18, <1>19, <1>20, VaultPays

LEMMA UnlockWriteKeeps ==
    ASSUME VaultInv, NEW v \in Vaults, UnlockWrite(v)
    PROVE  VaultInv'
<1> DEFINE a == vault[v].amount
           g == vault[v].gain
           s == IF closing[v] = "earlyRead" THEN "TERMINATED" ELSE "MATURED"
           back == IF s = "MATURED" THEN vault[v].receive ELSE a - Penalty(a)
<1>1. /\ UNCHANGED <<btc, coUsdt, coBtc, swap, swapAt, swapJob, opening, cancelling,
                     sawUsdt, mature, shards>>
      /\ closing[v] \in {"earlyRead", "lateRead"} /\ Note(Reading # {v}, "overlap")
      /\ SetStatus(v, s) /\ SetClosing(v, "idle")
      /\ locked' = Unlock(locked, a, g, IF s = "MATURED" THEN Interest(v) ELSE 0)
      /\ usdt' = [base |-> sawUsdt[v].base + back,
                  locked |-> AtLeastZero(sawUsdt[v].locked - a),
                  interest |-> usdt.interest - g]
  BY DEF UnlockWrite, atQuidax
<1>2. v \in Engaged /\ Budgets /\ "overlap" \in Kinds /\ VaultStage(v)
  BY <1>1, VaultConstants DEF Engaged, VaultInv
<1>3. /\ a \in Nat /\ g \in Nat /\ back \in Nat /\ usdt.interest >= g
      /\ usdt.interest \in Nat /\ sawUsdt[v].base \in Nat /\ sawUsdt[v].locked \in Nat
  BY VaultTypes, PenaltyWithin, <1>2, EngagedThere DEF VaultInv, VaultRows, VaultPurse
<1>4. s \in {"MATURED", "TERMINATED"}
  OBVIOUS
<1>. HIDE DEF s, back
<1>5. /\ usdt' \in VaultPurse /\ usdt'.interest = usdt.interest - g
      /\ usdt'.base = sawUsdt[v].base + back
      /\ usdt'.locked = AtLeastZero(sawUsdt[v].locked - a)
  BY <1>3, Clipped, <1>1 DEF VaultPurse
<1>6. /\ closing' \in [Vaults -> Closing] /\ closing'[v] = "idle"
      /\ \A w \in Vaults \ {v} : closing'[w] = closing[w]
  BY <1>1, ClosingStep DEF Closing
<1>7. Budgets' /\ CountsDown
  BY <1>1, <1>2, BudgetNoted
<1>8. NoRace' => Reading = {v} /\ NoRace
  BY <1>1, <1>2, <1>7, NoteSeen, VaultOrder DEF NoRace
<1>9. NoRace' => Reading' = {}
  BY <1>1, <1>2, <1>6, <1>8 DEF VaultStage, Reading
<1>10. NotStale' => vault[v].status = "ACTIVE"
  BY <1>2, <1>7, VaultOrder, <1>1 DEF VaultInv, VaultUnhurt
<1>11. NoRace' => sawUsdt[v].base = usdt.base /\ sawUsdt[v].locked = usdt.locked
  BY <1>8 DEF VaultInv, ReadsFresh
<1>12. shards' \in SUBSET Vaults
  BY <1>1, VaultTypes DEF VaultInv
<1>13. NoRace' =>
               /\ usdt'.locked = AtLeastZero(usdt.locked - vault[v].amount)
               /\ usdt'.base = usdt.base + (IF s = "MATURED" THEN vault[v].receive
                                      ELSE vault[v].amount - Penalty(vault[v].amount))
  BY <1>5, <1>11 DEF back
<1>. QED  BY <1>1, <1>2, <1>4, <1>5, <1>6, <1>7, <1>9, <1>10, <1>12, <1>13, UnlockPays

LEMMA MatureOneKeeps ==
    ASSUME VaultInv, NEW v \in Vaults, MatureOne(v)
    PROVE  VaultInv'
<1> DEFINE a == vault[v].amount
           g == vault[v].gain
<1>1. /\ UNCHANGED <<btc, coUsdt, coBtc, swap, swapAt, swapJob, opening, closing,
                     cancelling, sawUsdt, mature>>
      /\ closing[v] \notin {"earlyRead", "lateRead"} /\ shards' \in SUBSET Vaults
  BY VaultTypes DEF MatureOne, atQuidax, requests, VaultInv
<1>2. \/ /\ vault[v].status = "ACTIVE" /\ Note(Reading # {}, "overlap")
         /\ usdt' = [base |-> usdt.base + vault[v].receive,
                     locked |-> AtLeastZero(usdt.locked - a),
                     interest |-> AtLeastZero(usdt.interest - g)]
         /\ SetStatus(v, "MATURED")
         /\ locked' = Unlock(locked, a, g, Interest(v))
      \/ UNCHANGED <<usdt, vault, locked, budget>>
      \/ Spend("error") /\ UNCHANGED <<usdt, vault, locked>>
  BY DEF MatureOne, StillActive
<1>3. CASE \/ UNCHANGED <<usdt, vault, locked, budget>>
           \/ Spend("error") /\ UNCHANGED <<usdt, vault, locked>>
  BY <1>1, <1>3, VaultSpends, VaultAside DEF VaultInv, VaultTypeOK, VaultStage
<1>4. CASE /\ vault[v].status = "ACTIVE" /\ Note(Reading # {}, "overlap")
           /\ usdt' = [base |-> usdt.base + vault[v].receive,
                       locked |-> AtLeastZero(usdt.locked - a),
                       interest |-> AtLeastZero(usdt.interest - g)]
           /\ SetStatus(v, "MATURED")
           /\ locked' = Unlock(locked, a, g, Interest(v))
  <2>1. v \in Engaged /\ Budgets /\ "overlap" \in Kinds
    BY <1>4, VaultConstants DEF Engaged, Is, VaultInv
  <2>2. /\ a \in Nat /\ g \in Nat /\ vault[v].receive \in Nat /\ usdt.interest >= g
        /\ usdt.interest \in Nat /\ usdt.base \in Nat /\ usdt.locked \in Nat
    BY VaultTypes, <2>1, EngagedThere DEF VaultInv, VaultPurse, VaultRows
  <2>3. /\ usdt' \in VaultPurse /\ usdt'.interest = usdt.interest - g
        /\ usdt'.base = usdt.base + vault[v].receive
        /\ usdt'.locked = AtLeastZero(usdt.locked - a)
    BY <2>2, <1>4 DEF AtLeastZero, VaultPurse
  <2>4. Budgets' /\ CountsDown
    BY <1>4, <2>1, BudgetNoted
  <2>5. NoRace' => Reading' = {}
    BY <1>4, <2>1, NoteSeen, <1>1 DEF NoRace, Reading
  <2>6. \A w \in Vaults \ {v} : closing'[w] = closing[w]
    BY <1>1
  <2>7. closing' \in [Vaults -> Closing]
    BY <1>1, VaultTypes DEF VaultInv
  <2>8. PICK s \in {"MATURED", "TERMINATED"} : s = "MATURED"
    OBVIOUS
  <2>. QED  BY <1>1, <1>4, <2>1, <2>3, <2>4, <2>5, <2>6, <2>7, <2>8, UnlockPays
<1>. QED  BY <1>2, <1>3, <1>4

\* The webhook of a swap that brought enough.
LEMMA FundKeeps ==
    ASSUME VaultInv, NEW v \in Swapped, Found(v), Fundable(v), Fund(v),
           swapAt[v].status = "completed", swapAt[v].received >= Quoted[v],
           UNCHANGED <<swapAt, opening, closing, cancelling, sawUsdt, mature, shards>>,
           swapJob' \in [Swapped -> {"none", "waiting", "done"}]
    PROVE  VaultInv'
<1> DEFINE gain == FundedGain(Quoted[v])
           received == swapAt[v].received
           q == Quoted[v]
           r == Funded(q, gain)
           kept == ReleasedIfThere(coUsdt, q)
<1>1. /\ v \in Vaults /\ v \notin Stable /\ vault[v].status = "PENDING"
      /\ opening[v] = "done" /\ closing[v] = "idle" /\ v \in Backed
      /\ swap[v].status = "PENDING" /\ swap[v].known
  BY FoundVault DEF Found, Fundable
<1>2. /\ CanFinalizeBalance(btc, Charge(v)) /\ coBtc >= Charge(v)
      /\ Note(Reading # {}, "overlap")
      /\ btc' = FinalizeBalance(btc, Charge(v))
      /\ coBtc' = coBtc - Charge(v)
      /\ usdt' = [base |-> usdt.base + received - q, locked |-> usdt.locked + q,
                  interest |-> usdt.interest + gain]
      /\ coUsdt' = AddInternal(kept, received)
      /\ locked' = Lock(locked, q, gain)
      /\ vault' = [vault EXCEPT ![v] = r]
      /\ SetSwap(v, "COMPLETED")
  BY DEF Fund, CanFund
<1>3. q \in Nat /\ received \in Nat /\ Charge(v) \in Nat /\ received >= q
  BY <1>1, VaultTypes, VaultConstants, ChargeNatural DEF VaultInv, VaultSwapsAt
<1>4. gain \in Nat
  BY <1>3, GainNatural
<1>5. r \in VaultRows /\ r.status = "ACTIVE" /\ r.amount = q /\ r.gain = gain
  BY <1>3, <1>4, FundedRow
<1>6. /\ kept \in CompanyAccounts /\ CompanySolvent(kept) /\ kept.total = coUsdt.total
      /\ NotStale /\ Enough /\ Untouched({"crash"}) => kept.reserved = coUsdt.reserved - q
  BY <1>1, ReleasedThere
<1>. HIDE DEF gain, received, q, r, kept
<1>7. /\ vault' \in [Vaults -> VaultRows] /\ vault'[v] = r
      /\ \A w \in Vaults \ {v} : vault'[w] = vault[w]
  BY <1>1, <1>2, <1>5, VaultWritten
<1>8. /\ swap' \in [Swapped -> VaultSwaps] /\ swap'[v].status = "COMPLETED"
      /\ swap'[v].known = swap[v].known
      /\ \A w \in Swapped \ {v} : swap'[w] = swap[w]
  BY <1>2, SwapStep
<1>9. /\ locked \in [principal : Nat, accrued : Nat, paid : Nat]
      /\ locked.principal \in Nat /\ locked.accrued \in Nat /\ locked.paid \in Nat
      /\ usdt.interest \in Nat /\ usdt.locked \in Nat /\ usdt.base \in Nat
      /\ btc.reserved \in Nat /\ coBtc \in Nat /\ coUsdt.reserved \in Nat
  BY VaultTypes DEF VaultInv, VaultPurse, Wallets, CompanyAccounts
<1>10. /\ usdt' \in VaultPurse /\ usdt'.base = usdt.base + received - q
       /\ usdt'.locked = usdt.locked + q /\ usdt'.interest = usdt.interest + gain
  BY <1>3, <1>4, <1>9, <1>2 DEF VaultPurse
<1>11. /\ locked' \in [principal : Nat, accrued : Nat, paid : Nat]
       /\ locked'.principal = locked.principal + q
       /\ locked'.accrued = locked.accrued + gain
       /\ locked'.paid = locked.paid
  <2>1. PICK one : one = [locked EXCEPT !.principal = @ + q]
    OBVIOUS
  <2>2. /\ one \in [principal : Nat, accrued : Nat, paid : Nat]
        /\ one.principal = locked.principal + q
        /\ one.accrued = locked.accrued /\ one.paid = locked.paid
    BY <1>3, <1>9, <2>1
  <2>3. locked' = [one EXCEPT !.accrued = @ + gain]
    BY <1>2, <1>9, <2>1 DEF Lock
  <2>. QED  BY <1>4, <1>9, <2>2, <2>3
<1>12. /\ btc' \in Wallets /\ WalletSolvent(btc)' /\ btc'.reserved = btc.reserved - Charge(v)
  BY VaultTypes, <1>2, <1>3, FinalizeBalanceGood DEF VaultInv, GoodWallet, FinalizeBalance, Wallets,
    WalletSolvent
<1>13. /\ coUsdt' \in CompanyAccounts /\ CompanySolvent(coUsdt)'
       /\ coUsdt'.total = coUsdt.total /\ coUsdt'.reserved = kept.reserved
  BY <1>2, <1>3, <1>6 DEF AddInternal, CompanyAccounts, CompanySolvent
<1>14. coBtc' \in Nat
  BY <1>2, <1>3, <1>9
<1>15. VaultTypeOK'
  BY <1>7, <1>8, <1>10, <1>11, <1>12, <1>13, <1>14 DEF VaultInv, VaultTypeOK, VaultRows, VaultPurse,
    VaultSwaps
<1>16. Budgets /\ "overlap" \in Kinds /\ VaultStage(v)
  BY <1>1, VaultConstants DEF VaultInv
<1>17. Budgets' /\ CountsDown
  BY <1>2, <1>16, BudgetNoted
<1>18. OthersSame(v)
  BY <1>7, <1>8 DEF OthersSame
<1>19. VaultStage(v)'
  BY <1>1, <1>5, <1>7, <1>8 DEF VaultStage
<1>20. NoRace' => Reading' = {}
  BY <1>2, <1>16, NoteSeen DEF NoRace, Reading
<1>21. PaidTo(v) = 0 /\ PaidTo(v)' = received - q
  BY <1>1, <1>5, <1>7, <1>8 DEF PaidTo, received, q
<1>22. v \notin Engaged /\ v \notin Backed'
  BY <1>1, <1>5, <1>7 DEF Engaged, Is, Backed
<1>23. usdt'.interest = usdt.interest
               + Counted(vault'[v].status = "ACTIVE", vault'[v].gain)
               - Counted(v \in Engaged, vault[v].gain)
  BY <1>4, <1>5, <1>7, <1>9, <1>10, <1>22 DEF Counted
<1>24. /\ locked'.principal = locked.principal
                      + Counted(vault'[v].status = "ACTIVE", vault'[v].amount)
                      - Counted(vault[v].status = "ACTIVE", vault[v].amount)
       /\ locked'.accrued = locked.accrued
                      + Counted(vault'[v].status = "ACTIVE", vault'[v].gain)
                      - Counted(vault[v].status = "ACTIVE", vault[v].gain)
       /\ locked'.paid = locked.paid
                      + Counted(vault'[v].status = "MATURED", Interest(v)')
                      - Counted(vault[v].status = "MATURED", Interest(v))
       /\ usdt'.interest - usdt.interest = locked'.accrued - locked.accrued
  BY <1>1, <1>3, <1>4, <1>5, <1>7, <1>9, <1>10, <1>11 DEF Counted
<1>25. /\ usdt'.locked - usdt.locked = locked'.principal - locked.principal
       /\ usdt'.base = usdt.base + PaidTo(v)' - PaidTo(v)
  BY <1>3, <1>9, <1>10, <1>11, <1>21
<1>26. btc'.reserved = btc.reserved + Counted(vault'[v].status = "PENDING", Charge(v))
                                    - Counted(vault[v].status = "PENDING", Charge(v))
  BY <1>1, <1>3, <1>5, <1>7, <1>9, <1>12 DEF Counted
<1>27. ASSUME NotStale', Enough, Untouched({"crash"})'
       PROVE  coUsdt'.reserved = coUsdt.reserved + Counted(v \in Backed', Quoted[v])
                                                 - Counted(v \in Backed, Quoted[v])
  BY <1>16, <1>17, <1>27, VaultOrder, <1>6, <1>13, <1>1, <1>3, <1>9, <1>22 DEF Counted, q
<1>28. opening'[v] = "done" /\ closing'[v] \notin {"earlyRead", "lateRead"}
  BY <1>1
<1>. QED  BY <1>1, <1>12, <1>13, <1>15, <1>17, <1>18, <1>19, <1>20, <1>23, <1>24, <1>25, <1>26,
  <1>27, <1>28, VaultPays

LEMMA VaultWebhookKeeps ==
    ASSUME VaultInv, NEW v \in Swapped, VaultWebhook(v)
    PROVE  VaultInv'
<1> DEFINE completed == swapAt[v].status = "completed"
           enough == swapAt[v].received >= Quoted[v]
           useful == Found(v) /\ IF completed THEN Fundable(v)
                                 ELSE vault[v].status # "TERMINATED"
<1>1. /\ UNCHANGED <<swapAt, opening, closing, cancelling, sawUsdt, mature, shards>>
      /\ swapJob' \in [Swapped -> {"none", "waiting", "done"}]
  BY VaultTypes DEF VaultWebhook, requests, VaultInv
<1>2. \/ useful /\ completed /\ enough /\ Fund(v)
      \/ useful /\ completed /\ FallsShort(v)
      \/ useful /\ ~completed /\ Fail(v)
      \/ UNCHANGED <<usdt, btc, coUsdt, coBtc, locked, vault, swap, budget>>
  BY DEF VaultWebhook, users, company, records
<1>3. CASE useful /\ completed /\ enough /\ Fund(v)
  BY <1>1, <1>3, FundKeeps
<1>4. CASE useful /\ completed /\ FallsShort(v)
  BY <1>4, <1>1, VaultFailsKeeps DEF Fundable, FallsShort
<1>5. CASE useful /\ ~completed /\ Fail(v)
  BY <1>1, <1>5, VaultFailsKeeps DEF Fail
<1>6. CASE UNCHANGED <<usdt, btc, coUsdt, coBtc, locked, vault, swap, budget>>
  BY <1>1, <1>6, VaultSpends, VaultSets, VaultAside DEF VaultInv, VaultTypeOK, VaultStage
<1>. QED  BY <1>2, <1>3, <1>4, <1>5, <1>6

---------------------------------------------------------------------------

LEMMA VaultInvInit == VaultInit /\ budget = Budget => VaultInv
<1>. SUFFICES ASSUME VaultInit, budget = Budget PROVE VaultInv
  OBVIOUS
<1>1. /\ InitialUsdt \in Nat /\ InitialBtc \in Nat /\ OthersReserved \in Nat
  BY VaultConstants
<1>2. PICK c \in CompanyFunds : coUsdt = [total |-> c, reserved |-> OthersReserved,
                                          internal |-> InitialUsdt]
  BY DEF VaultInit
<1>3. c \in Nat /\ OthersReserved <= c
  BY VaultConstants
<1>4. /\ usdt = [base |-> InitialUsdt, locked |-> 0, interest |-> 0]
      /\ btc = [base |-> InitialBtc, reserved |-> 0] /\ coBtc = InitialBtc
      /\ locked = [principal |-> 0, accrued |-> 0, paid |-> 0]
      /\ vault = [v \in Vaults |-> [status |-> "none", amount |-> 0, gain |-> 0,
                                    receive |-> 0]]
      /\ swap = [v \in Swapped |-> [status |-> "none", known |-> FALSE]]
      /\ swapAt = [v \in Swapped |-> [status |-> "none", received |-> 0]]
      /\ swapJob = [v \in Swapped |-> "none"]
      /\ opening = [v \in Vaults |-> "new"] /\ closing = [v \in Vaults |-> "idle"]
      /\ cancelling = [v \in Swapped |-> "idle"]
      /\ sawUsdt = [v \in Vaults |-> usdt] /\ mature = {} /\ shards = {}
  BY DEF VaultInit
<1>5. VaultTypeOK
  <2>1. /\ usdt \in VaultPurse /\ btc \in Wallets /\ coUsdt \in CompanyAccounts
        /\ coBtc \in Nat /\ locked \in [principal : Nat, accrued : Nat, paid : Nat]
    BY <1>1, <1>2, <1>3, <1>4 DEF VaultPurse, Wallets, CompanyAccounts
  <2>2. /\ vault \in [Vaults -> VaultRows] /\ swap \in [Swapped -> VaultSwaps]
        /\ swapAt \in [Swapped -> VaultSwapsAt]
    BY <1>4 DEF VaultRows, VaultSwaps, VaultSwapsAt, VaultStatus
  <2>3. /\ swapJob \in [Swapped -> {"none", "waiting", "done"}]
        /\ opening \in [Vaults -> Opening] /\ closing \in [Vaults -> Closing]
        /\ cancelling \in [Swapped -> {"idle", "local", "remote", "cancelled"}]
        /\ mature \in SUBSET Vaults /\ shards \in SUBSET Vaults
    BY <1>4 DEF Opening, Closing
  <2>4. sawUsdt \in [Vaults -> VaultPurse]
    BY <1>4, <2>1
  <2>. QED  BY <2>1, <2>2, <2>3, <2>4, VaultTypes
<1>6. WalletSolvent(btc) /\ CompanySolvent(coUsdt) /\ Budgets
  BY <1>1, <1>2, <1>3, <1>4, MishapsAssumption DEF WalletSolvent, CompanySolvent, Budgets
<1>7. \A v \in Vaults : VaultStage(v)
  BY <1>4, VaultSets DEF VaultStage
<1>8. VaultUnhurt /\ ReadsFresh
  BY <1>4 DEF VaultUnhurt, ReadsFresh, Reading
<1>9. Is("ACTIVE") = {} /\ Is("MATURED") = {} /\ Is("PENDING") = {} /\ Engaged = {}
      /\ Backed = {}
  BY <1>4 DEF Is, Engaged, Backed
<1>10. /\ AmountSum = 0 /\ GainSum = 0 /\ InterestSum = 0 /\ EngagedSum = 0
       /\ HoldSum = 0 /\ BackedSum = 0
  BY <1>9, SumEmpty DEF AmountSum, GainSum, InterestSum, EngagedSum, HoldSum, BackedSum, Total
<1>11. PaidSum = 0
  <2>1. \A v \in Vaults : PaidTo(v) = 0
    BY <1>4, VaultSets DEF PaidTo
  <2>2. PICK f : f = [v \in Vaults |-> PaidTo(v)]
    OBVIOUS
  <2>3. SumFunctionOnSet(f, Vaults) = 0
    BY <2>1, <2>2, VaultSets, SumZero
  <2>. QED  BY <2>2, <2>3 DEF PaidSum, Total
<1>12. InterestThere
  <2>1. usdt.interest >= EngagedSum
    BY <1>4, <1>10
  <2>. QED  BY <2>1 DEF InterestThere, EngagedSum
<1>13. VaultBooks /\ VaultHeld
  BY <1>1, <1>4, <1>10, <1>11, <1>2, BooksAre
<1>. QED  BY <1>5, <1>6, <1>7, <1>8, <1>12, <1>13 DEF VaultInv

LEMMA VaultInvNext == VaultInv /\ [VaultNext]_vaultVars => VaultInv'
<1>. SUFFICES ASSUME VaultInv, [VaultNext]_vaultVars PROVE VaultInv'
  OBVIOUS
<1>1. ASSUME NEW v \in Vaults,
             \/ VaultRead(v) \/ VaultOpen(v)
             \/ UnlockStart(v) \/ UnlockRead(v) \/ UnlockWrite(v)
             \/ TimePasses(v) \/ MatureOne(v)
      PROVE  VaultInv'
  BY <1>1, VaultReadKeeps, VaultOpenKeeps, UnlockStartKeeps, UnlockReadKeeps, UnlockWriteKeeps,
    TimePassesKeeps, MatureOneKeeps
<1>2. ASSUME NEW v \in Swapped,
             \/ VaultHold(v) \/ VaultReserve(v) \/ VaultPost(v) \/ VaultRecord(v)
             \/ VaultUndo(v) \/ CancelVault(v) \/ CancelSwap(v) \/ CancelCommit(v)
             \/ VaultSwapEnds(v) \/ VaultWebhook(v)
      PROVE  VaultInv'
  BY <1>2, VaultHoldKeeps, VaultReserveKeeps, VaultPostKeeps, VaultRecordKeeps, VaultUndoKeeps,
    CancelVaultKeeps, CancelSwapKeeps, CancelCommitKeeps, VaultSwapEndsKeeps, VaultWebhookKeeps
<1>3. CASE Dispatch
  BY <1>3, DispatchKeeps
<1>4. CASE VaultCrash
  BY <1>4, VaultCrashKeeps
<1>5. CASE UNCHANGED vaultVars
  BY <1>5 DEF vaultVars, users, company, records, atQuidax, requests, VaultInv, VaultTypeOK,
    WalletSolvent, CompanySolvent, Budgets, VaultStage, VaultUnhurt, NotStale, NoRace, Untouched,
    ReadsFresh, Reading, Engaged, Is, InterestThere, VaultBooks, VaultHeld, Interest, PaidTo
<1>. QED  BY <1>1, <1>2, <1>3, <1>4, <1>5 DEF VaultNext

\* Whatever overlaps, is cancelled behind a request's back, is repeated by the scheduler or
\* dies, no column of the two wallets, of the company's accounts or of its totals goes below
\* zero (confirmVault and unlock write absolute values they computed from an earlier read),
\* and neither the user's bitcoin nor the company's USDT is reserved beyond what there is.
THEOREM VaultAlwaysSafe == VaultSpec => []VaultSafe
<1>1. VaultInit /\ budget = Budget => VaultInv
  BY VaultInvInit
<1>2. VaultInv /\ [VaultNext]_vaultVars => VaultInv'
  BY VaultInvNext
<1>3. VaultInv => VaultSafe
  BY DEF VaultInv, VaultSafe
<1>. QED  BY <1>1, <1>2, <1>3, PTL DEF VaultSpec

\* The company's totals and the wallet's locked columns are those of the active vaults, every
\* vault has paid once whichever of unlock and the scheduler closed it, and what is held are
\* the bitcoin of the vaults that wait for their swap and the USDT set aside for them: for any
\* number of vaults, unless a cancellation commits behind a webhook or a request, and for the
\* wallet's columns unless two requests overlap between their read and their write.
THEOREM VaultAlwaysExact == VaultSpec => []VaultExact
<1>1. VaultInit /\ budget = Budget => VaultInv
  BY VaultInvInit
<1>2. VaultInv /\ [VaultNext]_vaultVars => VaultInv'
  BY VaultInvNext
<1>3. VaultInv => VaultExact
  BY DEF VaultInv, VaultExact
<1>. QED  BY <1>1, <1>2, <1>3, PTL DEF VaultSpec

---------------------------------------------------------------------------
(* Bills. The types, the solvency and Attempts hold whatever happens. As    *)
(* long as nobody wrote over what another had settled, Story says of every *)
(* bill how its status, its two holds, its order, Xpresspay and those who  *)
(* have its metadata in hand fit together, OneConfirmed that a quotation   *)
(* became one bill, and BillFunds what the sums are. A step is judged by   *)
(* what it writes (WroteBill and the like) and by what it leaves alone.    *)

Active(b) == retrying[b].pc \in {"pay", "save", "fail"}

\* What the bounds on the attempts rest on, and Xpresspay's word.
Attempts(b) ==
    /\ confirming[b] \in {"new", "held"} => sale[b].at = "none"
    /\ sale[b].at \in {"none", "open"} => sale[b].event = "none"
    /\ sale[b].event # "done" => sale[b].tries > 0
    /\ filling[b].pc # "idle" => sale[b].event = "waiting"
    /\ Active(b) => retrying[b].copy.count < BillTries
    /\ \A k \in News : notices[b][k].at # "done" => notices[b][k].tries > 0
    /\ notices[b]["success"].at # "none" => biller[b] = "paid"
    /\ notices[b]["failure"].at # "none" => biller[b] = "refused"
    /\ notices[b]["pending"].at # "none" => biller[b] # "none"

BillTyped == Budgets /\ BillTypeOK /\ BillsSolvent /\ \A b \in Bills : Attempts(b)

Aside(b) == \A c \in Bills \ {b} :
    /\ bill'[c] = bill[c] /\ confirming'[c] = confirming[c] /\ sale'[c] = sale[c]
    /\ filling'[c] = filling[c] /\ retrying'[c] = retrying[c]
    /\ biller'[c] = biller[c] /\ notices'[c] = notices[c]

BillRows == [Bills -> [status : {"none", "PENDING", "COMPLETED", "FAILED"},
                       known : BOOLEAN, meta : Metas]]
Confirmations == [Bills -> {"new", "held", "posted", "saved", "unsaved", "failed", "done"}]
Sales == [Bills -> [at : {"none", "open", "sold", "cancelled"},
                    event : {"none", "waiting", "done"}, tries : 0..BillJobs]]
Fillings == [Bills -> [pc : {"idle", "pay", "save", "fail"}, copy : Metas]]
Retryings == [Bills -> [pc : {"idle", "repair", "pay", "save", "fail"}, copy : Metas]]
Billers == [Bills -> {"none", "open", "paid", "refused"}]
Notices == [Bills -> [News -> [at : {"none", "waiting", "done"}, tries : 0..BillJobs]]]
Tills == [total : Nat, reserved : Nat]

LEMMA BillTypes ==
    BillTypeOK <=> /\ purse \in Wallets /\ till \in Tills /\ owed \in Nat /\ paper \in BOOLEAN
                   /\ bill \in BillRows /\ confirming \in Confirmations /\ sale \in Sales
                   /\ filling \in Fillings /\ retrying \in Retryings /\ biller \in Billers
                   /\ notices \in Notices
BY DEF BillTypeOK, BillRows, Confirmations, Sales, Fillings, Retryings, Billers, Notices, Tills

LEMMA BillTypesNext ==
    /\ BillsSolvent /\ UNCHANGED <<purse, till>> => BillsSolvent'
    /\ BillTypeOK' <=> /\ purse' \in Wallets /\ till' \in Tills /\ owed' \in Nat /\ paper' \in BOOLEAN
                       /\ bill' \in BillRows /\ confirming' \in Confirmations /\ sale' \in Sales
                       /\ filling' \in Fillings /\ retrying' \in Retryings /\ biller' \in Billers
                       /\ notices' \in Notices
BY DEF BillTypeOK, BillRows, Confirmations, Sales, Fillings, Retryings, Billers, Notices, Tills,
  BillsSolvent, WalletSolvent, CompanySolvent

\* What a write leaves behind.
WroteBill(b, status, known, m) ==
    /\ bill' \in BillRows /\ bill'[b].status = status /\ bill'[b].known = known
    /\ bill'[b].meta = m /\ \A c \in Bills \ {b} : bill'[c] = bill[c]
WroteConfirming(b, pc) ==
    /\ confirming' \in Confirmations /\ confirming'[b] = pc
    /\ \A c \in Bills \ {b} : confirming'[c] = confirming[c]
WroteFilling(b, pc, m) ==
    /\ filling' \in Fillings /\ filling'[b].pc = pc /\ filling'[b].copy = m
    /\ \A c \in Bills \ {b} : filling'[c] = filling[c]
WroteRetrying(b, pc, m) ==
    /\ retrying' \in Retryings /\ retrying'[b].pc = pc /\ retrying'[b].copy = m
    /\ \A c \in Bills \ {b} : retrying'[c] = retrying[c]
WroteBiller(b, v) ==
    /\ biller' \in Billers /\ biller'[b] = v
    /\ \A c \in Bills \ {b} : biller'[c] = biller[c]
WroteSale(b, at, event) ==
    /\ sale' \in Sales /\ sale'[b].at = at /\ sale'[b].event = event
    /\ event # "done" => sale'[b].tries > 0
    /\ \A c \in Bills \ {b} : sale'[c] = sale[c]
WroteNews(b, k, at) ==
    /\ notices' \in Notices /\ notices'[b][k].at = at
    /\ at # "done" => notices'[b][k].tries > 0
    /\ \A i \in News \ {k} : notices'[b][i] = notices[b][i]
    /\ \A c \in Bills \ {b} : notices'[c] = notices[c]

LEMMA BillWritten ==
    ASSUME BillTypeOK, NEW b \in Bills, NEW s \in {"PENDING", "COMPLETED", "FAILED"},
           NEW m \in Metas, SetBill(b, s, m)
    PROVE  WroteBill(b, s, bill[b].known, m)
  BY BillTypes DEF BillRows, WroteBill, SetBill

LEMMA MetaWritten ==
    ASSUME BillTypeOK, NEW b \in Bills, NEW m \in Metas, SetBillMeta(b, m)
    PROVE  WroteBill(b, bill[b].status, bill[b].known, m)
  BY BillTypes DEF BillRows, WroteBill, SetBillMeta

LEMMA KnownWritten ==
    ASSUME BillTypeOK, NEW b \in Bills, NEW m \in Metas, SetKnown(b, m)
    PROVE  WroteBill(b, bill[b].status, TRUE, m)
  BY BillTypes DEF BillRows, WroteBill, SetKnown

LEMMA UnsavedWritten ==
    ASSUME BillTypeOK, NEW b \in Bills, NEW m \in Metas,
           bill' = [bill EXCEPT ![b] = [status |-> "PENDING", known |-> TRUE, meta |-> m]]
    PROVE  WroteBill(b, "PENDING", TRUE, m)
  BY BillTypes DEF BillRows, WroteBill

LEMMA ConfirmingWritten ==
    ASSUME BillTypeOK, NEW b \in Bills, NEW pc, pc \in {"held", "posted", "saved", "unsaved", "failed", "done"},
           SetConfirming(b, pc)
    PROVE  WroteConfirming(b, pc)
  BY BillTypes DEF Confirmations, WroteConfirming, SetConfirming

LEMMA FillingWritten ==
    ASSUME BillTypeOK, NEW b \in Bills, NEW pc, pc \in {"idle", "pay", "save", "fail"},
           NEW m \in Metas, SetFilling(b, pc, m)
    PROVE  WroteFilling(b, pc, m)
  BY BillTypes DEF Fillings, WroteFilling, SetFilling

LEMMA RetryingWritten ==
    ASSUME BillTypeOK, NEW b \in Bills, NEW pc, pc \in {"idle", "repair", "pay", "save", "fail"},
           NEW m \in Metas, SetRetrying(b, pc, m)
    PROVE  WroteRetrying(b, pc, m)
  BY BillTypes DEF Retryings, WroteRetrying, SetRetrying

LEMMA BillerWritten ==
    ASSUME BillTypeOK, NEW b \in Bills, NEW v \in {"open", "paid", "refused"}, biller' = [biller EXCEPT ![b] = v]
    PROVE  WroteBiller(b, v)
  BY BillTypes DEF Billers, WroteBiller

LEMMA SalePosted ==
    ASSUME BillTypeOK, NEW b \in Bills, Attempts(b), sale[b].at = "none",
           sale' = [sale EXCEPT ![b].at = "open"]
    PROVE  WroteSale(b, "open", sale[b].event)
  BY BillTypes DEF Sales, WroteSale, Attempts

LEMMA SaleEnded ==
    ASSUME BillTypeOK, NEW b \in Bills, Attempts(b), sale[b].at = "open",
           NEW v \in {"sold", "cancelled"},
           sale' = [sale EXCEPT ![b] = [@ EXCEPT !.at = v, !.event = "waiting"]]
    PROVE  WroteSale(b, v, "waiting")
  BY BillTypes DEF Sales, WroteSale, Attempts

LEMMA SaleAgain ==
    ASSUME BillTypeOK, NEW b \in Bills,
           sale' = [sale EXCEPT ![b] = [@ EXCEPT !.event = "waiting", !.tries = BillJobs]]
    PROVE  WroteSale(b, sale[b].at, "waiting")
<1>1. sale \in Sales
  BY BillTypes
<1>2. BillJobs \in 0..BillJobs /\ BillJobs > 0
  BY BillAssumption
<1>. QED  BY <1>1, <1>2 DEF Sales, WroteSale

LEMMA JobEnded ==
    ASSUME BillTypeOK, NEW b \in Bills, JobDone(b)
    PROVE  WroteSale(b, sale[b].at, "done")
  BY BillTypes DEF Sales, WroteSale, JobDone

LEMMA JobThrown ==
    ASSUME BillTypeOK, NEW b \in Bills, sale[b].event = "waiting", sale[b].tries > 0, JobThrows(b)
    PROVE  WroteSale(b, sale[b].at, "waiting") \/ WroteSale(b, sale[b].at, "done")
<1>1. sale \in Sales
  BY BillTypes
<1>2. PICK v \in {"waiting", "done"}, n \in 0..BillJobs :
        /\ sale' = [sale EXCEPT ![b] = [@ EXCEPT !.event = v, !.tries = n]]
        /\ v = "waiting" => n > 0
  <2>1. sale[b].tries \in 0..BillJobs /\ BillJobs \in Nat
    BY <1>1, BillAssumption DEF Sales
  <2>2. sale[b].tries - 1 \in 0..BillJobs
    BY <2>1
  <2>3. CASE sale[b].tries > 1
    <3>1. sale' = [sale EXCEPT ![b] = [@ EXCEPT !.event = "waiting", !.tries = sale[b].tries - 1]]
      BY <2>3 DEF JobThrows
    <3>2. sale[b].tries - 1 > 0
      BY <2>1, <2>3
    <3>. QED  BY <2>2, <3>1, <3>2
  <2>4. CASE ~(sale[b].tries > 1)
    BY <2>4, <2>2 DEF JobThrows
  <2>. QED  BY <2>3, <2>4
<1>. QED  BY <1>1, <1>2 DEF Sales, WroteSale

LEMMA NewsHandled ==
    ASSUME BillTypeOK, NEW b \in Bills, NEW k \in News, NewsDone(b, k)
    PROVE  WroteNews(b, k, "done")
  BY BillTypes DEF Notices, WroteNews, NewsDone

LEMMA NewsSent ==
    ASSUME BillTypeOK, NEW b \in Bills, Attempts(b), NEW k \in News,
           notices[b][k].at = "none", Sends(b, k)
    PROVE  WroteNews(b, k, "waiting")
  BY BillTypes DEF Notices, WroteNews, Sends, Attempts

LEMMA NewsTried ==
    ASSUME BillTypeOK, NEW b \in Bills, NEW k \in News, NEW v \in {"waiting", "done"},
           v = "done" => notices[b][k].tries > 0, v # "done" => notices[b][k].tries > 1,
           notices' = [notices EXCEPT ![b][k] = [at |-> v, tries |-> notices[b][k].tries - 1]]
    PROVE  WroteNews(b, k, v)
<1>1. notices \in Notices
  BY BillTypes
<1>2. notices[b][k].tries - 1 \in 0..BillJobs /\ notices[b][k].tries \in Nat
  BY <1>1, BillAssumption DEF Notices
<1> DEFINE n == notices[b][k].tries - 1
<1>3. /\ n \in 0..BillJobs /\ notices' = [notices EXCEPT ![b][k] = [at |-> v, tries |-> n]]
      /\ v # "done" => n > 0
  BY <1>2
<1>. HIDE DEF n
<1>. QED  BY <1>1, <1>3 DEF Notices, WroteNews

---------------------------------------------------------------------------
(* The story of a bill, as long as nothing was handled out of its turn.    *)

BillsCalm == Untouched({"early", "again"})

\* The copy of the metadata that will be written back has what counts.
Agrees(copy, m) == copy.hold = m.hold /\ copy.cover = m.cover /\ copy.added = m.added

AskedFor(b) == \/ filling[b].pc # "idle" \/ Active(b)
               \/ Due(bill[b].meta) \/ biller[b] # "none"

Story(b) ==
    LET m == bill[b].meta
        status == bill[b].status
    IN  /\ status = "none" =>
             /\ m.hold = "RESERVED" /\ ~m.added
             /\ confirming[b] \in {"new", "done"} /\ ~bill[b].known
        /\ status = "PENDING" =>
             \/ m.hold = "RESERVED" /\ m.cover = "RESERVED"
             \/ m.hold = "RELEASED" /\ m.cover = "RELEASED" /\ sale[b].at = "sold"
        /\ status = "FAILED" =>
             /\ m.cover = "RELEASED"
             /\ m.hold = "RELEASED" \/ (m.hold = "RESERVED" /\ biller[b] = "none")
        /\ status = "COMPLETED" =>
             /\ m.hold = "CONSUMED" /\ m.cover = "CONSUMED" /\ m.told = "COMPLETED"
             /\ biller[b] = "paid"
        /\ confirming[b] = "new" => status = "none"
        /\ confirming[b] \in {"held", "posted", "failed"}
             => /\ status = "PENDING" /\ ~bill[b].known
                /\ m.hold = "RESERVED" /\ m.cover = "RESERVED"
        /\ confirming[b] = "saved" => bill[b].known
        /\ confirming[b] = "unsaved" => status = "PENDING" /\ ~bill[b].known
        /\ AskedFor(b) => bill[b].known /\ sale[b].at = "sold"
        /\ Due(m) \/ Active(b) => sale[b].event = "done" /\ filling[b].pc = "idle"
        /\ filling[b].pc # "idle" => status = "PENDING" /\ Agrees(filling[b].copy, m)
        /\ Active(b) => status = "PENDING" /\ Agrees(retrying[b].copy, m)
        /\ m.step = "ORDER_REFERENCE_PERSIST_FAILED" \/ m.repair
             \/ retrying[b].pc = "repair" => bill[b].known
        /\ m.added => bill[b].known
        /\ Untouched({"error"}) /\ AskedFor(b) => m.added

\* Of two bills confirmed from one quotation one goes no further.
UnderWay(b) == confirming[b] \notin {"new", "done"}
OneConfirmed ==
    Untouched({"twice", "crash", "undeleted"}) =>
        \A b \in Bills :
            /\ bill[b].known => confirming[b] \in {"saved", "unsaved", "done"}
            /\ bill[b].known /\ paper => confirming[b] # "done"
            /\ \A c \in Bills \ {b} :
                 bill[b].known \/ UnderWay(b) => ~bill[c].known /\ ~UnderWay(c)

\* What the two accounts hold and have given.
OpenBills == {b \in Bills : Open(b)}
CoveredBills == {b \in Bills : StillCovered(b)}
BillFunds ==
    /\ purse.base = PurseBase - Times(BillTotal, Paid)
    /\ purse.reserved = PurseHeld + Times(BillTotal, OpenBills)
    /\ till.total = NairaTotal + Times(BillSold, Brought) - Times(BillCost, Paid)
    /\ till.reserved = NairaHeld + Times(BillCost, CoveredBills)
    /\ owed = CoinOwed - Times(BillTotal, Paid)

BillTold == /\ \A b \in Bills : Story(b)
            /\ OneConfirmed /\ BillFunds
BillInv == BillTyped /\ (BillsCalm => BillTold)


\* What a step may rest on while nothing is handled out of its turn.
CalmStep(b) == /\ BillsCalm /\ BillsCalm' /\ (Untouched({"error"})' => Untouched({"error"}))
               /\ Story(b) /\ OneConfirmed /\ BillFunds

\* Nothing that counts has changed.
SameTurn(b) == /\ bill'[b].known <=> bill[b].known
               /\ confirming'[b] = confirming[b]
               /\ UNCHANGED paper
SameFunds(b) ==
    /\ Open(b)' <=> Open(b)
    /\ StillCovered(b)' <=> StillCovered(b)
    /\ bill'[b].meta.hold = "CONSUMED" <=> bill[b].meta.hold = "CONSUMED"
    /\ bill'[b].meta.added <=> bill[b].meta.added
    /\ UNCHANGED <<purse, till, owed>>

LEMMA StoryElsewhere ==
    ASSUME NEW b \in Bills, Aside(b), NEW c \in Bills \ {b}, Story(c),
           Untouched({"error"})' => Untouched({"error"})
    PROVE  Story(c)'
BY DEF Aside, Story, AskedFor, Active, Due, Agrees

LEMMA OnceKept ==
    ASSUME BillTyped, OneConfirmed, CountsDown, NEW b \in Bills, Aside(b), SameTurn(b)
    PROVE  OneConfirmed'
  BY UntouchedBack, BillAssumption DEF BillTyped, Aside, SameTurn, OneConfirmed, UnderWay

LEMMA BillsFinite == IsFiniteSet(Bills)
BY BillAssumption, FS_Interval DEF Bills

LEMMA TimesNatural == \A n \in Nat : \A S \in SUBSET Bills : Times(n, S) \in Nat
<1>. SUFFICES ASSUME NEW n \in Nat, NEW S \in SUBSET Bills PROVE Times(n, S) \in Nat
  OBVIOUS
<1>1. Cardinality(S) \in Nat
  BY BillsFinite, FS_Subset, FS_CardinalityType
<1>2. \A c \in Nat : n * c \in Nat
  OBVIOUS
<1>. QED  BY <1>1, <1>2 DEF Times

LEMMA TimesPlus ==
    ASSUME NEW n \in Nat, NEW S \in SUBSET Bills, NEW b \in Bills, b \notin S
    PROVE  Times(n, S) \in Nat /\ Times(n, S \cup {b}) = Times(n, S) + n
<1>1. IsFiniteSet(S)
  BY BillsFinite, FS_Subset
<1>2. Cardinality(S) \in Nat /\ Cardinality(S \cup {b}) = Cardinality(S) + 1
  BY <1>1, FS_AddElement, FS_CardinalityType
<1>3. \A c \in Nat : n * c \in Nat /\ n * (c + 1) = n * c + n
  OBVIOUS
<1>. QED  BY <1>2, <1>3 DEF Times

LEMMA TimesMinus ==
    ASSUME NEW n \in Nat, NEW S \in SUBSET Bills, NEW b \in S
    PROVE  /\ Times(n, S) \in Nat /\ Times(n, S \ {b}) \in Nat
           /\ Times(n, S) = Times(n, S \ {b}) + n
<1>1. (S \ {b}) \cup {b} = S
  OBVIOUS
<1>. QED  BY <1>1, TimesPlus, TimesNatural

LEMMA FundsKept ==
    ASSUME BillFunds, NEW b \in Bills, Aside(b), SameFunds(b)
    PROVE  BillFunds'
<1>0. \A c \in Bills : /\ Open(c)' <=> Open(c)
                       /\ StillCovered(c)' <=> StillCovered(c)
                       /\ bill'[c].meta.hold = "CONSUMED" <=> bill[c].meta.hold = "CONSUMED"
                       /\ bill'[c].meta.added <=> bill[c].meta.added
  BY DEF Aside, Open, StillCovered, SameFunds
<1>1. /\ OpenBills' = OpenBills /\ CoveredBills' = CoveredBills
      /\ Paid' = Paid /\ Brought' = Brought
  BY <1>0 DEF OpenBills, CoveredBills, Paid, Brought
<1>2. /\ Times(BillTotal, OpenBills)' = Times(BillTotal, OpenBills)
      /\ Times(BillCost, CoveredBills)' = Times(BillCost, CoveredBills)
      /\ Times(BillTotal, Paid)' = Times(BillTotal, Paid)
      /\ Times(BillCost, Paid)' = Times(BillCost, Paid)
      /\ Times(BillSold, Brought)' = Times(BillSold, Brought)
  BY <1>1 DEF Times
<1>. QED  BY <1>2 DEF BillFunds, SameFunds

\* The holds of a bill that is open are there.
LEMMA BillHeld ==
    ASSUME BillTyped, BillFunds, NEW b \in Bills
    PROVE  /\ Open(b) => CanReleaseBalance(purse, BillTotal)
           /\ StillCovered(b) => CanReleaseLiquidity(till, BillCost)
<1>1. ASSUME Open(b) PROVE CanReleaseBalance(purse, BillTotal)
  <2>1. b \in OpenBills /\ OpenBills \in SUBSET Bills
    BY <1>1 DEF OpenBills
  <2>2. Times(BillTotal, OpenBills) \in Nat
        /\ Times(BillTotal, OpenBills \ {b}) \in Nat
        /\ Times(BillTotal, OpenBills) = Times(BillTotal, OpenBills \ {b}) + BillTotal
    BY <2>1, TimesMinus, BillAssumption
  <2>. QED  BY <2>2, BillAssumption DEF BillFunds, CanReleaseBalance
<1>2. ASSUME StillCovered(b) PROVE CanReleaseLiquidity(till, BillCost)
  <2>1. b \in CoveredBills /\ CoveredBills \in SUBSET Bills
    BY <1>2 DEF CoveredBills
  <2>2. Times(BillCost, CoveredBills) \in Nat
        /\ Times(BillCost, CoveredBills \ {b}) \in Nat
        /\ Times(BillCost, CoveredBills) = Times(BillCost, CoveredBills \ {b}) + BillCost
    BY <2>1, TimesMinus, BillAssumption
  <2>. QED  BY <2>2, BillAssumption DEF BillFunds, CanReleaseLiquidity
<1>. QED  BY <1>1, <1>2

\* A bill that fails gives both holds back.
LEMMA FundsFreed ==
    ASSUME BillTyped, BillFunds, NEW b \in Bills, Open(b), StillCovered(b), ~Open(b)', ~StillCovered(b)',
           purse' = ReleaseBalance(purse, BillTotal),
           till' = ReleaseLiquidity(till, BillCost), owed' = owed,
           Aside(b),
           bill'[b].meta.hold # "CONSUMED", bill'[b].meta.added = bill[b].meta.added
    PROVE  BillFunds'
<1>1. /\ OpenBills' = OpenBills \ {b} /\ CoveredBills' = CoveredBills \ {b}
      /\ b \in OpenBills /\ b \in CoveredBills
  BY DEF OpenBills, CoveredBills, Open, StillCovered, Aside
<1>2. Paid' = Paid /\ Brought' = Brought
  BY DEF Paid, Brought, Open, Aside
<1>3. /\ OpenBills \in SUBSET Bills /\ CoveredBills \in SUBSET Bills
      /\ Paid \in SUBSET Bills /\ Brought \in SUBSET Bills
  BY DEF OpenBills, CoveredBills, Paid, Brought
<1>4. /\ Times(BillTotal, OpenBills) \in Nat
      /\ Times(BillTotal, OpenBills)' \in Nat
      /\ Times(BillTotal, OpenBills) = Times(BillTotal, OpenBills)' + BillTotal
  <2>1. Times(BillTotal, OpenBills)' = Times(BillTotal, OpenBills \ {b})
    BY <1>1 DEF Times
  <2>. QED  BY <1>1, <1>3, <2>1, TimesMinus, BillAssumption
<1>5. /\ Times(BillCost, CoveredBills) \in Nat
      /\ Times(BillCost, CoveredBills)' \in Nat
      /\ Times(BillCost, CoveredBills) = Times(BillCost, CoveredBills)' + BillCost
  <2>1. Times(BillCost, CoveredBills)' = Times(BillCost, CoveredBills \ {b})
    BY <1>1 DEF Times
  <2>. QED  BY <1>1, <1>3, <2>1, TimesMinus, BillAssumption
<1>6. /\ Times(BillTotal, Paid)' = Times(BillTotal, Paid)
      /\ Times(BillCost, Paid)' = Times(BillCost, Paid)
      /\ Times(BillSold, Brought)' = Times(BillSold, Brought)
  BY <1>2 DEF Times
<1>7. /\ purse'.base = purse.base /\ purse'.reserved = purse.reserved - BillTotal
      /\ till'.total = till.total /\ till'.reserved = till.reserved - BillCost
  BY DEF BillTyped, BillTypeOK, Wallets, ReleaseBalance, ReleaseLiquidity
<1>. QED  BY <1>4, <1>5, <1>6, <1>7, BillAssumption DEF BillFunds

\* Every set of bills is one.
LEMMA BillSets ==
    /\ OpenBills \in SUBSET Bills /\ CoveredBills \in SUBSET Bills
    /\ Paid \in SUBSET Bills /\ Brought \in SUBSET Bills
BY DEF OpenBills, CoveredBills, Paid, Brought

\* A bill that is confirmed takes both holds.
LEMMA FundsHeld ==
    ASSUME BillTyped, BillFunds, NEW b \in Bills, ~Open(b), ~StillCovered(b), Open(b)', StillCovered(b)',
           purse' = ReserveBalance(purse, BillTotal),
           till' = ReserveLiquidity(till, BillCost), owed' = owed, Aside(b),
           bill[b].meta.hold # "CONSUMED", ~bill[b].meta.added, ~bill'[b].meta.added
    PROVE  BillFunds'
<1>1. /\ OpenBills' = OpenBills \cup {b} /\ CoveredBills' = CoveredBills \cup {b}
      /\ b \notin OpenBills /\ b \notin CoveredBills
  BY DEF OpenBills, CoveredBills, Open, StillCovered, Aside
<1>2. Paid' = Paid /\ Brought' = Brought
  BY DEF Paid, Brought, Open, Aside
<1>4. /\ Times(BillTotal, OpenBills) \in Nat
      /\ Times(BillTotal, OpenBills)' = Times(BillTotal, OpenBills) + BillTotal
  <2>1. Times(BillTotal, OpenBills)' = Times(BillTotal, OpenBills \cup {b})
    BY <1>1 DEF Times
  <2>. QED  BY <1>1, BillSets, <2>1, TimesPlus, BillAssumption
<1>5. /\ Times(BillCost, CoveredBills) \in Nat
      /\ Times(BillCost, CoveredBills)' = Times(BillCost, CoveredBills) + BillCost
  <2>1. Times(BillCost, CoveredBills)' = Times(BillCost, CoveredBills \cup {b})
    BY <1>1 DEF Times
  <2>. QED  BY <1>1, BillSets, <2>1, TimesPlus, BillAssumption
<1>6. /\ Times(BillTotal, Paid)' = Times(BillTotal, Paid)
      /\ Times(BillCost, Paid)' = Times(BillCost, Paid)
      /\ Times(BillSold, Brought)' = Times(BillSold, Brought)
  BY <1>2 DEF Times
<1>7. /\ purse'.base = purse.base /\ purse'.reserved = purse.reserved + BillTotal
      /\ till'.total = till.total /\ till'.reserved = till.reserved + BillCost
  BY DEF BillTyped, BillTypeOK, Wallets, ReserveBalance, ReserveLiquidity
<1>. QED  BY <1>4, <1>5, <1>6, <1>7, BillAssumption DEF BillFunds

\* A bill that is paid gives both away.
LEMMA FundsGone ==
    ASSUME BillTyped, BillFunds, NEW b \in Bills, Open(b), StillCovered(b), ~Open(b)', ~StillCovered(b)',
           purse'.base = purse.base - BillTotal, purse'.reserved = purse.reserved - BillTotal,
           till' = ConsumeReservedLiquidity(till, BillCost), owed' = owed - BillTotal,
           Aside(b), bill'[b].meta.hold = "CONSUMED",
           bill'[b].meta.added <=> bill[b].meta.added
    PROVE  BillFunds'
<1>1. /\ OpenBills' = OpenBills \ {b} /\ CoveredBills' = CoveredBills \ {b}
      /\ b \in OpenBills /\ b \in CoveredBills
  BY DEF OpenBills, CoveredBills, Open, StillCovered, Aside
<1>2. Paid' = Paid \cup {b} /\ b \notin Paid /\ Brought' = Brought
  BY DEF Paid, Brought, Open, Aside
<1>4. /\ Times(BillTotal, OpenBills) \in Nat
      /\ Times(BillTotal, OpenBills)' \in Nat
      /\ Times(BillTotal, OpenBills) = Times(BillTotal, OpenBills)' + BillTotal
  <2>1. Times(BillTotal, OpenBills)' = Times(BillTotal, OpenBills \ {b})
    BY <1>1 DEF Times
  <2>. QED  BY <1>1, BillSets, <2>1, TimesMinus, BillAssumption
<1>5. /\ Times(BillCost, CoveredBills) \in Nat
      /\ Times(BillCost, CoveredBills)' \in Nat
      /\ Times(BillCost, CoveredBills) = Times(BillCost, CoveredBills)' + BillCost
  <2>1. Times(BillCost, CoveredBills)' = Times(BillCost, CoveredBills \ {b})
    BY <1>1 DEF Times
  <2>. QED  BY <1>1, BillSets, <2>1, TimesMinus, BillAssumption
<1>6. /\ Times(BillTotal, Paid) \in Nat /\ Times(BillCost, Paid) \in Nat
      /\ Times(BillTotal, Paid)' = Times(BillTotal, Paid) + BillTotal
      /\ Times(BillCost, Paid)' = Times(BillCost, Paid) + BillCost
      /\ Times(BillSold, Brought)' = Times(BillSold, Brought)
      /\ Times(BillSold, Brought) \in Nat
  <2>1. /\ Times(BillTotal, Paid)' = Times(BillTotal, Paid \cup {b})
        /\ Times(BillCost, Paid)' = Times(BillCost, Paid \cup {b})
        /\ Times(BillSold, Brought)' = Times(BillSold, Brought)
    BY <1>2 DEF Times
  <2>2. /\ Times(BillTotal, Paid) \in Nat /\ Times(BillCost, Paid) \in Nat
        /\ Times(BillSold, Brought) \in Nat
    BY BillSets, TimesNatural, BillAssumption
  <2>3. Times(BillTotal, Paid \cup {b}) = Times(BillTotal, Paid) + BillTotal
    BY <1>2, BillSets, TimesPlus, BillAssumption
  <2>4. Times(BillCost, Paid \cup {b}) = Times(BillCost, Paid) + BillCost
    BY <1>2, BillSets, TimesPlus, BillAssumption
  <2>. QED  BY <2>1, <2>2, <2>3, <2>4
<1>7. till'.total = till.total - BillCost /\ till'.reserved = till.reserved - BillCost
  BY DEF BillTyped, BillTypeOK, ConsumeReservedLiquidity
<1>. QED  BY <1>4, <1>5, <1>6, <1>7, BillAssumption DEF BillFunds

\* The naira of an order are added once.
LEMMA FundsBrought ==
    ASSUME BillTyped, BillFunds, NEW b \in Bills, purse' = purse, owed' = owed,
           till' = AddLiquidity(till, Proceeds(bill[b].meta)), Aside(b),
           Open(b)' <=> Open(b), StillCovered(b)' <=> StillCovered(b),
           bill'[b].meta.hold = "CONSUMED" <=> bill[b].meta.hold = "CONSUMED",
           bill'[b].meta.added
    PROVE  BillFunds'
<1>0. \A c \in Bills : /\ Open(c)' <=> Open(c)
                       /\ StillCovered(c)' <=> StillCovered(c)
                       /\ bill'[c].meta.hold = "CONSUMED" <=> bill[c].meta.hold = "CONSUMED"
  BY DEF Aside, Open, StillCovered
<1>1. OpenBills' = OpenBills /\ CoveredBills' = CoveredBills /\ Paid' = Paid
  BY <1>0 DEF OpenBills, CoveredBills, Paid
<1>2. /\ Times(BillTotal, OpenBills)' = Times(BillTotal, OpenBills)
      /\ Times(BillCost, CoveredBills)' = Times(BillCost, CoveredBills)
      /\ Times(BillTotal, Paid)' = Times(BillTotal, Paid)
      /\ Times(BillCost, Paid)' = Times(BillCost, Paid)
  BY <1>1 DEF Times
<1>3. /\ Times(BillTotal, Paid) \in Nat /\ Times(BillCost, Paid) \in Nat
      /\ Times(BillSold, Brought) \in Nat /\ Times(BillTotal, OpenBills) \in Nat
      /\ Times(BillCost, CoveredBills) \in Nat
  BY BillSets, TimesNatural, BillAssumption
<1>4. Times(BillSold, Brought)' = Times(BillSold, Brought) + Proceeds(bill[b].meta)
  <2>1. CASE bill[b].meta.added
    <3>1. Brought' = Brought
      BY <2>1 DEF Brought, Aside
    <3>2. Times(BillSold, Brought)' = Times(BillSold, Brought)
      BY <3>1 DEF Times
    <3>. QED  BY <1>3, <2>1, <3>2 DEF Proceeds
  <2>2. CASE ~bill[b].meta.added
    <3>1. Brought' = Brought \cup {b} /\ b \notin Brought
      BY <2>2 DEF Brought, Aside
    <3>2. Times(BillSold, Brought)' = Times(BillSold, Brought \cup {b})
      BY <3>1 DEF Times
    <3>3. Times(BillSold, Brought \cup {b}) = Times(BillSold, Brought) + BillSold
      BY <3>1, BillSets, TimesPlus, BillAssumption
    <3>. QED  BY <2>2, <3>2, <3>3 DEF Proceeds
  <2>. QED  BY <2>1, <2>2
<1>5. Proceeds(bill[b].meta) \in Nat
  BY BillAssumption DEF Proceeds
<1>6. till'.total = till.total + Proceeds(bill[b].meta) /\ till'.reserved = till.reserved
  BY DEF BillTyped, BillTypeOK, AddLiquidity
<1>. QED  BY <1>2, <1>3, <1>4, <1>5, <1>6, BillAssumption DEF BillFunds

\* A step that leaves the other bills alone, and keeps the promises of its own,
\* keeps the invariant.
LEMMA BillKept ==
    ASSUME BillInv, Budgets', CountsDown, NEW b \in Bills, Aside(b),
           BillTypeOK', BillsSolvent', Attempts(b)',
           CalmStep(b) =>
               Story(b)' /\ (SameTurn(b) \/ OneConfirmed') /\ (SameFunds(b) \/ BillFunds')
    PROVE  BillInv'
<1>1. ASSUME NEW c \in Bills PROVE Attempts(c)'
  <2>1. CASE c = b
    BY <2>1
  <2>2. CASE c # b
    BY <2>2 DEF BillInv, BillTyped, Aside, Attempts, Active
  <2>. QED  BY <2>1, <2>2
<1>2. BillTyped'
  BY <1>1 DEF BillTyped
<1>3. ASSUME BillsCalm' PROVE BillTold'
  <2>1. BillsCalm /\ (Untouched({"error"})' => Untouched({"error"}))
    BY <1>3, UntouchedBack, BillAssumption DEF BillsCalm, BillInv, BillTyped
  <2>2. BillTold
    BY <2>1 DEF BillInv
  <2>3. CalmStep(b)
    BY <1>3, <2>1, <2>2 DEF BillTold, CalmStep
  <2>5. /\ Story(b)' /\ (SameTurn(b) \/ OneConfirmed') /\ (SameFunds(b) \/ BillFunds')
        /\ BillTyped /\ OneConfirmed /\ BillFunds
    BY <2>3 DEF CalmStep, BillInv
  <2>4. ASSUME NEW c \in Bills \ {b} PROVE Story(c)'
    BY <2>1, <2>2, StoryElsewhere DEF BillTold
  <2>6. OneConfirmed' /\ BillFunds'
    BY <2>5, OnceKept, FundsKept
  <2>. QED  BY <2>4, <2>5, <2>6 DEF BillTold
<1>. QED  BY <1>2, <1>3 DEF BillInv

\* What the types say of a bill.
LEMMA BillHere ==
    ASSUME BillTypeOK, NEW b \in Bills
    PROVE  /\ bill[b].meta \in Metas /\ filling[b].copy \in Metas /\ retrying[b].copy \in Metas
           /\ FreshMeta \in Metas
           /\ bill[b].status \in {"none", "PENDING", "COMPLETED", "FAILED"}
           /\ bill[b].known \in BOOLEAN
           /\ confirming[b] \in {"new", "held", "posted", "saved", "unsaved", "failed", "done"}
           /\ sale[b].at \in {"none", "open", "sold", "cancelled"}
           /\ sale[b].event \in {"none", "waiting", "done"} /\ sale[b].tries \in Nat
           /\ filling[b].pc \in {"idle", "pay", "save", "fail"}
           /\ retrying[b].pc \in {"idle", "repair", "pay", "save", "fail"}
           /\ biller[b] \in {"none", "open", "paid", "refused"}
<1>1. /\ bill \in BillRows /\ confirming \in Confirmations /\ sale \in Sales
      /\ filling \in Fillings /\ retrying \in Retryings /\ biller \in Billers
  BY BillTypes
<1>2. FreshMeta \in Metas
  BY BillAssumption DEF FreshMeta, Metas, Steps
<1>3. sale[b].tries \in Nat
  BY <1>1, BillAssumption DEF Sales
<1>. QED  BY <1>1, <1>2, <1>3 DEF BillRows, Confirmations, Sales, Fillings, Retryings, Billers

LEMMA MetaTyped ==
    \A m \in Metas : /\ m.step \in Steps /\ m.hold \in {"RESERVED", "RELEASED", "CONSUMED"}
                     /\ m.cover \in {"RESERVED", "RELEASED", "CONSUMED"} /\ m.added \in BOOLEAN
                     /\ m.repair \in BOOLEAN /\ m.count \in Nat
  BY BillAssumption DEF Metas

LEMMA BillerSame ==
    ASSUME BillTypeOK, UNCHANGED biller, NEW b \in Bills
    PROVE  WroteBiller(b, biller[b])
BY BillTypes DEF WroteBiller

LEMMA SameBill ==
    ASSUME NEW b \in Bills, bill'[b] = bill[b]
    PROVE  /\ UNCHANGED <<purse, till, owed>> => SameFunds(b)
           /\ confirming'[b] = confirming[b] /\ UNCHANGED paper => SameTurn(b)
BY DEF SameFunds, SameTurn, Open, StillCovered

LEMMA FreshFields ==
    /\ FreshMeta.step = "PENDING_ORDER" /\ FreshMeta.hold = "RESERVED"
    /\ FreshMeta.cover = "RESERVED" /\ FreshMeta.added = FALSE /\ FreshMeta.repair = FALSE
BY DEF FreshMeta

LEMMA FundsTyped ==
    ASSUME BillTypeOK, BillsSolvent
    PROVE  /\ CanReserveBalance(purse, BillTotal) =>
                /\ ReserveBalance(purse, BillTotal) \in Wallets
                /\ WalletSolvent(ReserveBalance(purse, BillTotal))
           /\ CanReleaseBalance(purse, BillTotal) =>
                /\ ReleaseBalance(purse, BillTotal) \in Wallets
                /\ WalletSolvent(ReleaseBalance(purse, BillTotal))
           /\ CanReserveLiquidity(till, BillCost) =>
                /\ ReserveLiquidity(till, BillCost) \in Tills
                /\ CompanySolvent(ReserveLiquidity(till, BillCost))
           /\ CanReleaseLiquidity(till, BillCost) =>
                /\ ReleaseLiquidity(till, BillCost) \in Tills
                /\ CompanySolvent(ReleaseLiquidity(till, BillCost))
           /\ CanConsumeLiquidity(till, BillCost) =>
                /\ ConsumeReservedLiquidity(till, BillCost) \in Tills
                /\ CompanySolvent(ConsumeReservedLiquidity(till, BillCost))
           /\ \A n \in Nat : /\ AddLiquidity(till, n) \in Tills
                             /\ CompanySolvent(AddLiquidity(till, n))
<1>1. purse \in Wallets /\ till \in Tills /\ WalletSolvent(purse) /\ CompanySolvent(till)
  BY BillTypes DEF BillsSolvent
<1>2. BillTotal \in Nat /\ BillCost \in Nat
  BY BillAssumption
<1>3. CanReserveBalance(purse, BillTotal) =>
        /\ ReserveBalance(purse, BillTotal) \in Wallets
        /\ WalletSolvent(ReserveBalance(purse, BillTotal))
  BY <1>1, <1>2 DEF Wallets, WalletSolvent, CanReserveBalance, ReserveBalance
<1>4. CanReleaseBalance(purse, BillTotal) =>
        /\ ReleaseBalance(purse, BillTotal) \in Wallets
        /\ WalletSolvent(ReleaseBalance(purse, BillTotal))
  BY <1>1, <1>2 DEF Wallets, WalletSolvent, CanReleaseBalance, ReleaseBalance
<1>5. CanReserveLiquidity(till, BillCost) =>
        /\ ReserveLiquidity(till, BillCost) \in Tills
        /\ CompanySolvent(ReserveLiquidity(till, BillCost))
  BY <1>1, <1>2 DEF Tills, CompanySolvent, CanReserveLiquidity, ReserveLiquidity
<1>6. CanReleaseLiquidity(till, BillCost) =>
        /\ ReleaseLiquidity(till, BillCost) \in Tills
        /\ CompanySolvent(ReleaseLiquidity(till, BillCost))
  BY <1>1, <1>2 DEF Tills, CompanySolvent, CanReleaseLiquidity, ReleaseLiquidity
<1>7. CanConsumeLiquidity(till, BillCost) =>
        /\ ConsumeReservedLiquidity(till, BillCost) \in Tills
        /\ CompanySolvent(ConsumeReservedLiquidity(till, BillCost))
  <2>. SUFFICES ASSUME CanConsumeLiquidity(till, BillCost)
                PROVE  /\ ConsumeReservedLiquidity(till, BillCost) \in Tills
                       /\ CompanySolvent(ConsumeReservedLiquidity(till, BillCost))
    OBVIOUS
  <2>1. /\ till.total - BillCost \in Nat /\ till.reserved - BillCost \in Nat
        /\ till.reserved - BillCost <= till.total - BillCost
    BY <1>1, <1>2 DEF Tills, CompanySolvent, CanConsumeLiquidity
  <2>. QED  BY <1>1, <2>1 DEF Tills, CompanySolvent, ConsumeReservedLiquidity
<1>8. ASSUME NEW n \in Nat
      PROVE  AddLiquidity(till, n) \in Tills /\ CompanySolvent(AddLiquidity(till, n))
  BY <1>1 DEF Tills, CompanySolvent, AddLiquidity
<1>. QED  BY <1>3, <1>4, <1>5, <1>6, <1>7, <1>8

LEMMA PurseDebited ==
    ASSUME BillTypeOK, BillsSolvent, CanReleaseBalance(purse, BillTotal),
           purse' = [ReleaseBalance(purse, BillTotal) EXCEPT !.base =
                        IF @ >= BillTotal THEN @ - BillTotal ELSE 0]
    PROVE  /\ purse' \in Wallets /\ WalletSolvent(purse')
           /\ purse'.base = purse.base - BillTotal
           /\ purse'.reserved = purse.reserved - BillTotal
<1>1. /\ purse \in Wallets /\ purse.base \in Nat /\ purse.reserved \in Nat /\ BillTotal \in Nat
      /\ BillTotal <= purse.reserved /\ purse.reserved <= purse.base
  BY BillTypes, BillAssumption DEF BillsSolvent, Wallets, WalletSolvent, CanReleaseBalance
<1>2. /\ purse.base - BillTotal \in Nat /\ purse.reserved - BillTotal \in Nat
      /\ purse.reserved - BillTotal <= purse.base - BillTotal /\ purse.base >= BillTotal
  BY <1>1
<1>3. ReleaseBalance(purse, BillTotal).base = purse.base
  BY <1>1 DEF ReleaseBalance, Wallets
<1>4. purse' = [ReleaseBalance(purse, BillTotal) EXCEPT !.base = purse.base - BillTotal]
  BY <1>2, <1>3
<1>. QED  BY <1>1, <1>2, <1>4 DEF ReleaseBalance, Wallets, WalletSolvent

LEMMA BillPostKept ==
    ASSUME BillInv, NEW b \in Bills, BillPost(b) PROVE BillInv'
<1>1. Budgets /\ BillTypeOK /\ BillsSolvent /\ Attempts(b)
  BY DEF BillInv, BillTyped
<1>2. Budgets' /\ CountsDown
  BY <1>1, BillAssumption, BudgetSpent, BudgetSame DEF BillPost
<1>3. confirming[b] = "held" /\ sale[b].at = "none"
  BY <1>1 DEF BillPost, Attempts
<1>4. ASSUME NEW pc \in {"posted", "failed"}, SetConfirming(b, pc),
            sale' = [sale EXCEPT ![b].at = "open"]
      PROVE  BillInv'
  <2>1. /\ sale' = [sale EXCEPT ![b].at = "open"]
        /\ SetConfirming(b, pc)
        /\ UNCHANGED <<purse, till, owed, paper, bill, filling, retrying, biller, notices>>
    BY <1>3, <1>4 DEF BillPost
  <2>2. /\ WroteSale(b, "open", sale[b].event)
        /\ WroteConfirming(b, pc)
    BY <1>1, <1>3, <2>1, BillHere, SalePosted, ConfirmingWritten
  <2>3. BillTypeOK' /\ BillsSolvent'
    BY <1>1, <2>1, <2>2, BillTypes, BillTypesNext DEF WroteSale, WroteConfirming
  <2>4. Aside(b) /\ Attempts(b)'
    BY <1>1, <1>3, <1>4, <2>1, <2>2, BillHere DEF Aside, Attempts, Active, News, WroteSale,
      WroteConfirming
  <2>5. ASSUME CalmStep(b) PROVE Story(b)' /\ OneConfirmed' /\ SameFunds(b)
    <3>1. Story(b)'
      BY <1>1, <1>3, <1>4, <2>1, <2>2, <2>5, BillHere DEF CalmStep, Story, AskedFor, Active, Due,
        Agrees, Attempts, WroteSale, WroteConfirming
    <3>2. SameFunds(b)
      BY <2>1, <2>2, SameBill
    <3>3. OneConfirmed'
      BY <1>1, <1>3, <1>4, <2>1, <2>2, <2>5, BillHere, <1>2, <2>4, UntouchedBack, BillAssumption DEF
        CalmStep, OneConfirmed, UnderWay, Story, Aside, WroteSale, WroteConfirming
    <3>. QED  BY <3>1, <3>2, <3>3
  <2>. QED  BY <1>1, <1>2, <2>3, <2>4, <2>5, BillKept
<1>5. ASSUME UNCHANGED sale, SetConfirming(b, "failed")
      PROVE  BillInv'
  <2>1. /\ SetConfirming(b, "failed")
        /\ UNCHANGED <<purse, till, owed, paper, bill, sale, filling, retrying, biller, notices>>
    BY <1>3, <1>5 DEF BillPost
  <2>2. WroteConfirming(b, "failed")
    BY <1>1, <1>3, <2>1, BillHere, ConfirmingWritten
  <2>3. BillTypeOK' /\ BillsSolvent'
    BY <1>1, <2>1, <2>2, BillTypes, BillTypesNext DEF WroteConfirming
  <2>4. Aside(b) /\ Attempts(b)'
    BY <1>1, <1>3, <1>5, <2>1, <2>2, BillHere DEF Aside, Attempts, Active, News, WroteConfirming
  <2>5. ASSUME CalmStep(b) PROVE Story(b)' /\ OneConfirmed' /\ SameFunds(b)
    <3>1. Story(b)'
      BY <1>1, <1>3, <1>5, <2>1, <2>2, <2>5, BillHere DEF CalmStep, Story, AskedFor, Active, Due,
        Agrees, Attempts, WroteConfirming
    <3>2. SameFunds(b)
      BY <2>1, <2>2, SameBill
    <3>3. OneConfirmed'
      BY <1>1, <1>3, <1>5, <2>1, <2>2, <2>5, BillHere, <1>2, <2>4, UntouchedBack, BillAssumption DEF
        CalmStep, OneConfirmed, UnderWay, Story, Aside, WroteConfirming
    <3>. QED  BY <3>1, <3>2, <3>3
  <2>. QED  BY <1>1, <1>2, <2>3, <2>4, <2>5, BillKept
<1>. QED  BY <1>3, <1>4, <1>5 DEF BillPost

LEMMA BillRecordKept ==
    ASSUME BillInv, NEW b \in Bills, BillRecord(b) PROVE BillInv'
<1>1. Budgets /\ BillTypeOK /\ BillsSolvent /\ Attempts(b)
  BY DEF BillInv, BillTyped
<1>2. Budgets' /\ CountsDown
  BY <1>1, BillAssumption, BudgetSpent, BudgetSame DEF BillRecord
<1>3. confirming[b] = "posted"
  BY DEF BillRecord
<1>4. ASSUME SetKnown(b, [bill[b].meta EXCEPT !.step = "PROCESSING"]), SetConfirming(b, "saved")
      PROVE  BillInv'
  <2> DEFINE M == [bill[b].meta EXCEPT !.step = "PROCESSING"]
  <2>1. bill[b].meta \in Metas
    BY <1>1, BillHere
  <2>2. M \in Metas
    BY <2>1 DEF Metas, Steps
  <2>3. /\ M.step = "PROCESSING" /\ M.hold = bill[b].meta.hold
        /\ M.cover = bill[b].meta.cover /\ M.added = bill[b].meta.added
        /\ M.told = bill[b].meta.told /\ M.repair = bill[b].meta.repair
        /\ M.count = bill[b].meta.count
    BY <2>1 DEF Metas
  <2>4. /\ SetKnown(b, M)
        /\ SetConfirming(b, "saved")
        /\ UNCHANGED <<purse, till, owed, paper, sale, filling, retrying, biller, notices>>
    BY <1>3, <1>4 DEF BillRecord
  <2>. HIDE DEF M
  <2>5. /\ WroteBill(b, bill[b].status, TRUE, M)
        /\ WroteConfirming(b, "saved")
    BY <1>1, <1>3, <2>2, <2>4, BillHere, KnownWritten, ConfirmingWritten
  <2>6. BillTypeOK' /\ BillsSolvent'
    BY <1>1, <2>4, <2>5, BillTypes, BillTypesNext DEF WroteBill, WroteConfirming
  <2>7. Aside(b) /\ Attempts(b)'
    BY <1>1, <1>3, <1>4, <2>3, <2>4, <2>5, BillHere DEF Aside, Attempts, Active, News, WroteBill,
      WroteConfirming
  <2>8. ASSUME CalmStep(b) PROVE Story(b)' /\ OneConfirmed' /\ SameFunds(b)
    <3>1. Story(b)'
      BY <1>1, <1>3, <1>4, <2>3, <2>4, <2>5, <2>8, BillHere, MetaTyped DEF CalmStep, Story,
        AskedFor, Active, Due, Agrees, Attempts, WroteBill, WroteConfirming
    <3>2. SameFunds(b)
      BY <1>1, <1>3, <1>4, <2>3, <2>4, <2>5, <2>8, BillHere, MetaTyped DEF CalmStep, Story, Active,
        Agrees, Open, StillCovered, SameFunds, WroteBill, WroteConfirming
    <3>3. OneConfirmed'
      BY <1>1, <1>3, <1>4, <2>3, <2>4, <2>5, <2>8, BillHere, MetaTyped, <1>2, <2>7, UntouchedBack,
        BillAssumption DEF CalmStep, OneConfirmed, UnderWay, Story, Aside, WroteBill,
        WroteConfirming
    <3>. QED  BY <3>1, <3>2, <3>3
  <2>. QED  BY <1>1, <1>2, <2>6, <2>7, <2>8, BillKept
<1>5. ASSUME Spend("error"), UNCHANGED bill, SetConfirming(b, "unsaved")
      PROVE  BillInv'
  <2>1. /\ SetConfirming(b, "unsaved")
        /\ UNCHANGED <<purse, till, owed, paper, bill, sale, filling, retrying, biller, notices>>
    BY <1>3, <1>5 DEF BillRecord
  <2>2. WroteConfirming(b, "unsaved")
    BY <1>1, <1>3, <2>1, BillHere, ConfirmingWritten
  <2>3. BillTypeOK' /\ BillsSolvent'
    BY <1>1, <2>1, <2>2, BillTypes, BillTypesNext DEF WroteConfirming
  <2>4. Aside(b) /\ Attempts(b)'
    BY <1>1, <1>3, <1>5, <2>1, <2>2, BillHere DEF Aside, Attempts, Active, News, WroteConfirming
  <2>5. ASSUME CalmStep(b) PROVE Story(b)' /\ OneConfirmed' /\ SameFunds(b)
    <3>1. ~Untouched({"error"})'
      BY <1>1, <1>5, <2>5, BudgetSpent, BillAssumption
    <3>2. Story(b)'
      BY <1>1, <1>3, <1>5, <2>1, <2>2, <2>5, <3>1, BillHere DEF CalmStep, Story, AskedFor, Active,
        Due, Agrees, Attempts, WroteConfirming
    <3>3. SameFunds(b)
      BY <2>1, <2>2, SameBill
    <3>4. OneConfirmed'
      BY <1>1, <1>3, <1>5, <2>1, <2>2, <2>5, <3>1, BillHere, <1>2, <2>4, UntouchedBack,
        BillAssumption DEF CalmStep, OneConfirmed, UnderWay, Story, Aside, WroteConfirming
    <3>. QED  BY <3>2, <3>3, <3>4
  <2>. QED  BY <1>1, <1>2, <2>3, <2>4, <2>5, BillKept
<1>. QED  BY <1>3, <1>4, <1>5 DEF BillRecord

LEMMA BillForgetKept ==
    ASSUME BillInv, NEW b \in Bills, BillForget(b) PROVE BillInv'
<1>1. Budgets /\ BillTypeOK /\ BillsSolvent /\ Attempts(b)
  BY DEF BillInv, BillTyped
<1>2. Budgets' /\ CountsDown
  BY <1>1, BillAssumption, BudgetSpent, BudgetSame DEF BillForget, Forget
<1>3. confirming[b] = "saved"
  BY DEF BillForget
<1>4. ASSUME paper' = FALSE, SetConfirming(b, "done")
      PROVE  BillInv'
  <2>1. /\ SetConfirming(b, "done")
        /\ paper' = FALSE
        /\ UNCHANGED <<purse, till, owed, bill, sale, filling, retrying, biller, notices>>
    BY <1>3, <1>4 DEF BillForget
  <2>2. WroteConfirming(b, "done")
    BY <1>1, <1>3, <2>1, BillHere, ConfirmingWritten
  <2>3. BillTypeOK' /\ BillsSolvent'
    BY <1>1, <2>1, <2>2, BillTypes, BillTypesNext DEF WroteConfirming
  <2>4. Aside(b) /\ Attempts(b)'
    BY <1>1, <1>3, <1>4, <2>1, <2>2, BillHere DEF Aside, Attempts, Active, News, WroteConfirming
  <2>5. ASSUME CalmStep(b) PROVE Story(b)' /\ OneConfirmed' /\ SameFunds(b)
    <3>1. Story(b)'
      BY <1>1, <1>3, <1>4, <2>1, <2>2, <2>5, BillHere DEF CalmStep, Story, AskedFor, Active, Due,
        Agrees, Attempts, WroteConfirming
    <3>2. SameFunds(b)
      BY <2>1, <2>2, SameBill
    <3>3. OneConfirmed'
      BY <1>1, <1>3, <1>4, <2>1, <2>2, <2>5, BillHere, <1>2, <2>4, UntouchedBack, BillAssumption DEF
        CalmStep, OneConfirmed, UnderWay, Story, Aside, WroteConfirming
    <3>. QED  BY <3>1, <3>2, <3>3
  <2>. QED  BY <1>1, <1>2, <2>3, <2>4, <2>5, BillKept
<1>5. ASSUME Spend("undeleted"), UNCHANGED paper, SetConfirming(b, "done")
      PROVE  BillInv'
  <2>1. /\ SetConfirming(b, "done")
        /\ UNCHANGED <<purse, till, owed, paper, bill, sale, filling, retrying, biller, notices>>
    BY <1>3, <1>5 DEF BillForget
  <2>2. WroteConfirming(b, "done")
    BY <1>1, <1>3, <2>1, BillHere, ConfirmingWritten
  <2>3. BillTypeOK' /\ BillsSolvent'
    BY <1>1, <2>1, <2>2, BillTypes, BillTypesNext DEF WroteConfirming
  <2>4. Aside(b) /\ Attempts(b)'
    BY <1>1, <1>3, <1>5, <2>1, <2>2, BillHere DEF Aside, Attempts, Active, News, WroteConfirming
  <2>5. ASSUME CalmStep(b) PROVE Story(b)' /\ OneConfirmed' /\ SameFunds(b)
    <3>1. ~Untouched({"twice", "crash", "undeleted"})'
      BY <1>1, <1>5, <2>5, BudgetSpent, BillAssumption
    <3>2. Story(b)'
      BY <1>1, <1>3, <1>5, <2>1, <2>2, <2>5, <3>1, BillHere DEF CalmStep, Story, AskedFor, Active,
        Due, Agrees, Attempts, WroteConfirming
    <3>3. SameFunds(b)
      BY <2>1, <2>2, SameBill
    <3>4. OneConfirmed'
      BY <3>1 DEF OneConfirmed
    <3>. QED  BY <3>2, <3>3, <3>4
  <2>. QED  BY <1>1, <1>2, <2>3, <2>4, <2>5, BillKept
<1>. QED  BY <1>3, <1>4, <1>5 DEF BillForget, Forget

LEMMA FillSaveKept ==
    ASSUME BillInv, NEW b \in Bills, FillSave(b) PROVE BillInv'
<1>1. Budgets /\ BillTypeOK /\ BillsSolvent /\ Attempts(b)
  BY DEF BillInv, BillTyped
<1>2. Budgets' /\ CountsDown
  BY <1>1, BillAssumption, BudgetSpent, BudgetSame DEF FillSave
<1>3. filling[b].pc = "save"
  BY DEF FillSave
<1>4. ASSUME SetFilling(b, "idle", FreshMeta), JobDone(b),
            SetBillMeta(b, [filling[b].copy EXCEPT !.step = "PROVIDER_SUBMITTED"])
      PROVE  BillInv'
  <2> DEFINE M == [filling[b].copy EXCEPT !.step = "PROVIDER_SUBMITTED"]
  <2>1. filling[b].copy \in Metas
    BY <1>1, BillHere
  <2>2. M \in Metas
    BY <2>1 DEF Metas, Steps
  <2>3. /\ M.step = "PROVIDER_SUBMITTED" /\ M.hold = filling[b].copy.hold
        /\ M.cover = filling[b].copy.cover /\ M.added = filling[b].copy.added
        /\ M.told = filling[b].copy.told /\ M.repair = filling[b].copy.repair
        /\ M.count = filling[b].copy.count
    BY <2>1 DEF Metas
  <2>4. /\ SetBillMeta(b, M)
        /\ SetFilling(b, "idle", FreshMeta)
        /\ JobDone(b)
        /\ UNCHANGED <<purse, till, owed, paper, confirming, retrying, biller, notices>>
    BY <1>3, <1>4 DEF FillSave
  <2>. HIDE DEF M
  <2>5. /\ WroteBill(b, bill[b].status, bill[b].known, M)
        /\ WroteFilling(b, "idle", FreshMeta)
        /\ WroteSale(b, sale[b].at, "done")
    BY <1>1, <1>3, <2>2, <2>4, BillHere, MetaWritten, FillingWritten, JobEnded
  <2>6. BillTypeOK' /\ BillsSolvent'
    BY <1>1, <2>4, <2>5, BillTypes, BillTypesNext DEF WroteBill, WroteFilling, WroteSale
  <2>7. Aside(b) /\ Attempts(b)'
    BY <1>1, <1>3, <1>4, <2>3, <2>4, <2>5, BillHere DEF Aside, Attempts, Active, News, WroteBill,
      WroteFilling, WroteSale
  <2>8. ASSUME CalmStep(b) PROVE Story(b)' /\ SameTurn(b) /\ SameFunds(b)
    <3>1. Story(b)'
      BY <1>1, <1>3, <1>4, <2>3, <2>4, <2>5, <2>8, BillHere, MetaTyped, FreshFields DEF CalmStep,
        Story, AskedFor, Active, Due, Agrees, Attempts, WroteBill, WroteFilling, WroteSale
    <3>2. SameTurn(b) /\ SameFunds(b)
      BY <1>1, <1>3, <1>4, <2>3, <2>4, <2>5, <2>8, BillHere, MetaTyped, FreshFields DEF CalmStep,
        Story, Active, Agrees, Open, StillCovered, SameTurn, SameFunds, WroteBill, WroteFilling,
        WroteSale
    <3>. QED  BY <3>1, <3>2
  <2>. QED  BY <1>1, <1>2, <2>6, <2>7, <2>8, BillKept
<1>5. ASSUME Spend("error"), SetFilling(b, "fail", filling[b].copy), UNCHANGED <<bill, sale>>
      PROVE  BillInv'
  <2>1. /\ SetFilling(b, "fail", filling[b].copy)
        /\ UNCHANGED <<purse, till, owed, paper, bill, confirming, sale, retrying, biller,
                       notices>>
    BY <1>3, <1>5 DEF FillSave
  <2>2. WroteFilling(b, "fail", filling[b].copy)
    BY <1>1, <1>3, <2>1, BillHere, FillingWritten
  <2>3. BillTypeOK' /\ BillsSolvent'
    BY <1>1, <2>1, <2>2, BillTypes, BillTypesNext DEF WroteFilling
  <2>4. Aside(b) /\ Attempts(b)'
    BY <1>1, <1>3, <1>5, <2>1, <2>2, BillHere DEF Aside, Attempts, Active, News, WroteFilling
  <2>5. ASSUME CalmStep(b) PROVE Story(b)' /\ SameTurn(b) /\ SameFunds(b)
    <3>1. ~Untouched({"error"})'
      BY <1>1, <1>5, <2>5, BudgetSpent, BillAssumption
    <3>2. Story(b)'
      BY <1>1, <1>3, <1>5, <2>1, <2>2, <2>5, <3>1, BillHere, MetaTyped DEF CalmStep, Story,
        AskedFor, Active, Due, Agrees, Attempts, WroteFilling
    <3>3. SameTurn(b) /\ SameFunds(b)
      BY <2>1, <2>2, SameBill
    <3>. QED  BY <3>2, <3>3
  <2>. QED  BY <1>1, <1>2, <2>3, <2>4, <2>5, BillKept
<1>. QED  BY <1>3, <1>4, <1>5 DEF FillSave

LEMMA BillHoldKept ==
    ASSUME BillInv, NEW b \in Bills, BillHold(b) PROVE BillInv'
<1>1. Budgets /\ BillTypeOK /\ BillsSolvent /\ Attempts(b)
  BY DEF BillInv, BillTyped
<1>2. Budgets' /\ CountsDown
  BY <1>1, BillAssumption, BudgetNoted DEF BillHold
<1>3. confirming[b] = "new" /\ paper
  BY DEF BillHold
<1>4. ASSUME CanReserveBalance(purse, BillTotal), CanReserveLiquidity(till, BillCost)
      PROVE  BillInv'
  <2>1. /\ SetBill(b, "PENDING", FreshMeta)
        /\ SetConfirming(b, "held")
        /\ purse' = ReserveBalance(purse, BillTotal)
        /\ till' = ReserveLiquidity(till, BillCost)
        /\ UNCHANGED <<owed, paper, sale, filling, retrying, biller, notices>>
    BY <1>3, <1>4 DEF BillHold
  <2>2. /\ WroteBill(b, "PENDING", bill[b].known, FreshMeta)
        /\ WroteConfirming(b, "held")
    BY <1>1, <1>3, <2>1, BillHere, BillWritten, ConfirmingWritten
  <2>3. purse' \in Wallets /\ till' \in Tills /\ BillsSolvent'
    BY <1>1, <1>3, <1>4, <2>1, FundsTyped DEF BillsSolvent
  <2>4. BillTypeOK' /\ BillsSolvent'
    BY <1>1, <2>1, <2>2, <2>3, BillTypes, BillTypesNext DEF WroteBill, WroteConfirming
  <2>5. Aside(b) /\ Attempts(b)'
    BY <1>1, <1>3, <1>4, <2>1, <2>2, <2>3, BillHere DEF Aside, Attempts, Active, News, WroteBill,
      WroteConfirming
  <2>6. ASSUME CalmStep(b) PROVE Story(b)' /\ OneConfirmed' /\ BillFunds'
    <3>1. Untouched({"twice", "crash", "undeleted"})' => \A c \in Bills : confirming[c] \in {"new", "done"}
      BY <1>1, <1>3, <1>4, <2>1, <2>2, <2>3, <2>6, BillAssumption DEF BillHold, Note, NoteAll,
        Untouched
    <3>2. Story(b)'
      BY <1>1, <1>3, <1>4, <2>1, <2>2, <2>3, <2>6, <3>1, BillHere, MetaTyped, FreshFields DEF
        CalmStep, Story, AskedFor, Active, Due, Agrees, Attempts, WroteBill, WroteConfirming
    <3>3. OneConfirmed'
      BY <1>1, <1>3, <1>4, <2>1, <2>2, <2>3, <2>6, <3>1, BillHere, MetaTyped, FreshFields, <1>2,
        <2>5, UntouchedBack, BillAssumption DEF CalmStep, OneConfirmed, UnderWay, Story, Aside,
        WroteBill, WroteConfirming
    <3>4. BillFunds'
      <4>1. /\ ~Open(b) /\ ~StillCovered(b) /\ Open(b)' /\ StillCovered(b)'
           /\ bill[b].meta.hold # "CONSUMED" /\ ~bill[b].meta.added /\ ~bill'[b].meta.added
        BY <1>1, <1>3, <1>4, <2>1, <2>2, <2>3, <2>6, <3>1, BillHere, MetaTyped, FreshFields DEF
          CalmStep, Open, StillCovered, Story, AskedFor, Active, Attempts, News, WroteBill,
          WroteConfirming
      <4>2. BillTyped
        BY DEF BillInv
      <4>. QED  BY <2>1, <2>5, <2>6, <4>1, <4>2, FundsHeld DEF CalmStep
    <3>. QED  BY <3>2, <3>3, <3>4
  <2>. QED  BY <1>1, <1>2, <2>4, <2>5, <2>6, BillKept
<1>5. ASSUME ~(CanReserveBalance(purse, BillTotal) /\ CanReserveLiquidity(till, BillCost))
      PROVE  BillInv'
  <2>1. /\ SetConfirming(b, "done")
        /\ UNCHANGED <<purse, till, owed, paper, bill, sale, filling, retrying, biller, notices>>
    BY <1>3, <1>5 DEF BillHold
  <2>2. WroteConfirming(b, "done")
    BY <1>1, <1>3, <2>1, BillHere, ConfirmingWritten
  <2>3. BillTypeOK' /\ BillsSolvent'
    BY <1>1, <2>1, <2>2, BillTypes, BillTypesNext DEF WroteConfirming
  <2>4. Aside(b) /\ Attempts(b)'
    BY <1>1, <1>3, <1>5, <2>1, <2>2, BillHere DEF Aside, Attempts, Active, News, WroteConfirming
  <2>5. ASSUME CalmStep(b) PROVE Story(b)' /\ OneConfirmed' /\ SameFunds(b)
    <3>1. Story(b)'
      BY <1>1, <1>3, <1>5, <2>1, <2>2, <2>5, BillHere DEF CalmStep, Story, AskedFor, Active, Due,
        Agrees, Attempts, WroteConfirming
    <3>2. SameFunds(b)
      BY <2>1, <2>2, SameBill
    <3>3. OneConfirmed'
      BY <1>1, <1>3, <1>5, <2>1, <2>2, <2>5, BillHere, <1>2, <2>4, UntouchedBack, BillAssumption DEF
        CalmStep, OneConfirmed, UnderWay, Story, Aside, WroteConfirming
    <3>. QED  BY <3>1, <3>2, <3>3
  <2>. QED  BY <1>1, <1>2, <2>3, <2>4, <2>5, BillKept
<1>. QED  BY <1>3, <1>4, <1>5 DEF BillHold

LEMMA BillUnsavedKept ==
    ASSUME BillInv, NEW b \in Bills, BillUnsaved(b) PROVE BillInv'
<1>1. Budgets /\ BillTypeOK /\ BillsSolvent /\ Attempts(b)
  BY DEF BillInv, BillTyped
<1>2. Budgets' /\ CountsDown
  BY <1>1, BillAssumption, BudgetSpent, BudgetSame DEF BillUnsaved
<1>3. /\ confirming[b] = "unsaved"
      /\ UNCHANGED <<purse, till, owed, paper, sale, filling, retrying, biller, notices>>
  BY DEF BillUnsaved
<1> DEFINE M == [bill[b].meta EXCEPT !.step = "ORDER_REFERENCE_PERSIST_FAILED",
                                     !.repair = TRUE]
<1>4. ASSUME bill' = [bill EXCEPT ![b] = [status |-> "PENDING", known |-> TRUE, meta |-> M]],
             SetConfirming(b, "saved")
      PROVE  BillInv'
  <2>1. bill[b].meta \in Metas
    BY <1>1, BillHere
  <2>2. M \in Metas
    BY <2>1 DEF Metas, Steps
  <2>3. /\ M.step = "ORDER_REFERENCE_PERSIST_FAILED" /\ M.hold = bill[b].meta.hold
        /\ M.cover = bill[b].meta.cover /\ M.added = bill[b].meta.added
        /\ M.told = bill[b].meta.told /\ M.repair = TRUE /\ M.count = bill[b].meta.count
    BY <2>1 DEF Metas
  <2>4. bill' = [bill EXCEPT ![b] = [status |-> "PENDING", known |-> TRUE, meta |-> M]]
    BY <1>4
  <2>. HIDE DEF M
  <2>5. WroteBill(b, "PENDING", TRUE, M) /\ WroteConfirming(b, "saved")
    BY <1>1, <1>3, <1>4, <2>2, <2>4, BillHere, UnsavedWritten, ConfirmingWritten
  <2>6. BillTypeOK' /\ BillsSolvent'
    BY <1>1, <1>3, <2>5, BillTypes, BillTypesNext DEF WroteBill, WroteConfirming
  <2>7. Aside(b) /\ Attempts(b)'
    BY <1>1, <1>3, <2>3, <2>5, BillHere DEF Aside, Attempts, Active, News, WroteBill,
      WroteConfirming
  <2>8. ASSUME CalmStep(b) PROVE Story(b)' /\ OneConfirmed' /\ SameFunds(b)
    <3>1. bill[b].status = "PENDING" /\ ~bill[b].known
      BY <1>3, <2>8 DEF CalmStep, Story
    <3>2. Story(b)'
      BY <1>1, <1>3, <2>3, <2>5, <2>8, <3>1, BillHere, MetaTyped DEF CalmStep, Story, AskedFor,
        Active, Due, Agrees, Attempts, WroteBill, WroteConfirming
    <3>3. SameFunds(b)
      BY <1>1, <1>3, <2>3, <2>5, <2>8, <3>1, BillHere, MetaTyped DEF CalmStep, Story, Active,
        Agrees, Open, StillCovered, SameFunds, WroteBill, WroteConfirming
    <3>4. OneConfirmed'
      BY <1>1, <1>3, <2>3, <2>5, <2>8, <3>1, BillHere, MetaTyped, <1>2, <2>7, UntouchedBack,
        BillAssumption DEF CalmStep, OneConfirmed, UnderWay, Story, Aside, WroteBill,
        WroteConfirming
    <3>. QED  BY <3>2, <3>3, <3>4
  <2>. QED  BY <1>1, <1>2, <2>6, <2>7, <2>8, BillKept
<1>5. ASSUME SetConfirming(b, "done"), UNCHANGED bill
      PROVE  BillInv'
  <2>1. WroteConfirming(b, "done")
    BY <1>1, <1>3, <1>5, BillHere, ConfirmingWritten
  <2>2. BillTypeOK' /\ BillsSolvent'
    BY <1>1, <1>3, <1>5, <2>1, BillTypes, BillTypesNext DEF WroteConfirming
  <2>3. Aside(b) /\ Attempts(b)'
    BY <1>1, <1>3, <1>5, <2>1, BillHere DEF Aside, Attempts, Active, News, WroteConfirming
  <2>4. ASSUME CalmStep(b) PROVE Story(b)' /\ OneConfirmed' /\ SameFunds(b)
    <3>1. Story(b)'
      BY <1>1, <1>3, <1>5, <2>1, <2>4, BillHere DEF CalmStep, Story, AskedFor, Active, Due, Agrees,
        Attempts, WroteConfirming
    <3>2. SameFunds(b)
      BY <1>3, <1>5, <2>1, SameBill
    <3>3. OneConfirmed'
      BY <1>1, <1>3, <1>5, <2>1, <2>4, BillHere, <1>2, <2>3, UntouchedBack, BillAssumption DEF
        CalmStep, OneConfirmed, UnderWay, Story, Aside, WroteConfirming
    <3>. QED  BY <3>1, <3>2, <3>3
  <2>. QED  BY <1>1, <1>2, <2>2, <2>3, <2>4, BillKept
<1>. QED  BY <1>4, <1>5 DEF BillUnsaved

LEMMA BillGiveUpKept ==
    ASSUME BillInv, NEW b \in Bills, BillGiveUp(b) PROVE BillInv'
<1>1. Budgets /\ BillTypeOK /\ BillsSolvent /\ Attempts(b)
  BY DEF BillInv, BillTyped
<1>2. Budgets' /\ CountsDown
  BY <1>1, BillAssumption, BudgetSpent, BudgetSame DEF BillGiveUp
<1>3. /\ confirming[b] = "failed" /\ SetConfirming(b, "done")
      /\ UNCHANGED <<owed, paper, sale, filling, retrying, biller, notices>>
  BY DEF BillGiveUp
<1>4. ASSUME SetBill(b, "FAILED", [bill[b].meta EXCEPT !.cover = "RELEASED",
                                                       !.step = "FAILED_ORDER_SUBMIT"]),
             purse' = IF CanReleaseBalance(purse, BillTotal)
                      THEN ReleaseBalance(purse, BillTotal) ELSE purse,
             till' = IF CanReleaseLiquidity(till, BillCost)
                     THEN ReleaseLiquidity(till, BillCost) ELSE till
      PROVE  BillInv'
  <2> DEFINE M == [bill[b].meta EXCEPT !.cover = "RELEASED",
                                       !.step = "FAILED_ORDER_SUBMIT"]
  <2>4. bill[b].meta \in Metas
    BY <1>1, BillHere
  <2>5. M \in Metas
    BY <2>4 DEF Metas, Steps
  <2>6. /\ M.step = "FAILED_ORDER_SUBMIT" /\ M.hold = bill[b].meta.hold
        /\ M.cover = "RELEASED" /\ M.added = bill[b].meta.added
        /\ M.told = bill[b].meta.told /\ M.repair = bill[b].meta.repair
        /\ M.count = bill[b].meta.count
    BY <2>4 DEF Metas
  <2>7. SetBill(b, "FAILED", M)
    BY <1>4
  <2>. HIDE DEF M
  <2>8. /\ WroteBill(b, "FAILED", bill[b].known, M)
        /\ WroteConfirming(b, "done")
    BY <1>1, <1>3, <2>5, <2>7, BillHere, BillWritten, ConfirmingWritten
  <2>9. purse' \in Wallets /\ till' \in Tills /\ BillsSolvent'
    BY <1>1, <1>3, <1>4, FundsTyped, BillTypes DEF BillsSolvent
  <2>10. BillTypeOK' /\ BillsSolvent'
    BY <1>1, <1>3, <2>7, <2>8, <2>9, BillTypes, BillTypesNext DEF WroteBill, WroteConfirming
  <2>11. Aside(b) /\ Attempts(b)'
    BY <1>1, <1>3, <2>6, <2>7, <2>8, <2>9, BillHere DEF Aside, Attempts, Active, News, WroteBill,
      WroteConfirming
  <2>12. ASSUME CalmStep(b) PROVE Story(b)' /\ OneConfirmed' /\ BillFunds'
    <3>1. Open(b) /\ StillCovered(b)
      BY <1>1, <1>3, <2>6, <2>7, <2>8, <2>9, <2>12, BillHere DEF CalmStep, Story, AskedFor, Ended,
        Open, StillCovered
    <3>2. purse' = ReleaseBalance(purse, BillTotal) /\ till' = ReleaseLiquidity(till, BillCost)
      BY <1>1, <1>3, <1>4, <2>6, <2>8, <2>12, <3>1, BillHeld DEF CalmStep, BillInv, StillCovered
    <3>3. Story(b)'
      BY <1>1, <1>3, <2>6, <2>7, <2>8, <2>9, <2>12, <3>1, <3>2, BillHere, MetaTyped DEF CalmStep,
        Story, AskedFor, Active, Due, Agrees, Attempts, WroteBill, WroteConfirming
    <3>4. OneConfirmed'
      BY <1>1, <1>3, <2>6, <2>7, <2>8, <2>9, <2>12, <3>1, <3>2, BillHere, MetaTyped, <1>2, <2>11,
        UntouchedBack, BillAssumption DEF CalmStep, OneConfirmed, UnderWay, Story, Aside, WroteBill,
        WroteConfirming
    <3>5. BillFunds'
      <4>1. ~Open(b)' /\ ~StillCovered(b)' /\ bill'[b].meta.hold # "CONSUMED"
           /\ bill'[b].meta.added = bill[b].meta.added
        BY <1>1, <1>3, <2>6, <2>7, <2>8, <2>9, <2>12, <3>1, <3>2, BillHere, MetaTyped DEF CalmStep,
          Open, StillCovered, Story, AskedFor, Active, Attempts, News, WroteBill, WroteConfirming
      <4>2. BillTyped
        BY DEF BillInv
      <4>. QED  BY <1>3, <2>11, <2>12, <4>1, <4>2, <3>1, <3>2, FundsFreed DEF CalmStep
    <3>. QED  BY <3>3, <3>4, <3>5
  <2>. QED  BY <1>1, <1>2, <2>10, <2>11, <2>12, BillKept
<1>5. ASSUME UNCHANGED <<purse, till, bill>>
      PROVE  BillInv'
  <2>1. WroteConfirming(b, "done")
    BY <1>1, <1>3, <1>5, BillHere, ConfirmingWritten
  <2>2. BillTypeOK' /\ BillsSolvent'
    BY <1>1, <1>3, <1>5, <2>1, BillTypes, BillTypesNext DEF WroteConfirming
  <2>3. Aside(b) /\ Attempts(b)'
    BY <1>1, <1>3, <1>5, <2>1, BillHere DEF Aside, Attempts, Active, News, WroteConfirming
  <2>4. ASSUME CalmStep(b) PROVE Story(b)' /\ OneConfirmed' /\ SameFunds(b)
    <3>1. Story(b)'
      BY <1>1, <1>3, <1>5, <2>1, <2>4, BillHere DEF CalmStep, Story, AskedFor, Active, Due, Agrees,
        Attempts, WroteConfirming
    <3>2. SameFunds(b)
      BY <1>3, <1>5, <2>1, SameBill
    <3>3. OneConfirmed'
      BY <1>1, <1>3, <1>5, <2>1, <2>4, BillHere, <1>2, <2>3, UntouchedBack, BillAssumption DEF
        CalmStep, OneConfirmed, UnderWay, Story, Aside, WroteConfirming
    <3>. QED  BY <3>1, <3>2, <3>3
  <2>. QED  BY <1>1, <1>2, <2>2, <2>3, <2>4, BillKept
<1>. QED  BY <1>4, <1>5 DEF BillGiveUp

LEMMA BillerEndsKept ==
    ASSUME BillInv, NEW b \in Bills, BillerEnds(b) PROVE BillInv'
<1>1. Budgets /\ BillTypeOK /\ BillsSolvent /\ Attempts(b)
  BY DEF BillInv, BillTyped
<1>2. Budgets' /\ CountsDown
  BY <1>1, BillAssumption, BudgetSame, BudgetSpent DEF BillerEnds
<1>3. biller[b] = "open"
  BY DEF BillerEnds
<1>4. ASSUME biller' = [biller EXCEPT ![b] = "paid"], Sends(b, "success")
      PROVE  BillInv'
  <2>1. /\ biller' = [biller EXCEPT ![b] = "paid"]
        /\ Sends(b, "success")
        /\ UNCHANGED <<purse, till, owed, paper, bill, confirming, sale, filling, retrying>>
    BY <1>3, <1>4 DEF BillerEnds
  <2>2. /\ WroteBiller(b, "paid")
        /\ WroteNews(b, "success", "waiting")
    BY <1>1, <1>3, <2>1, BillHere, BillerWritten, NewsSent DEF Attempts, News
  <2>3. BillTypeOK' /\ BillsSolvent'
    BY <1>1, <2>1, <2>2, BillTypes, BillTypesNext DEF WroteBiller, WroteNews
  <2>4. Aside(b) /\ Attempts(b)'
    BY <1>1, <1>3, <1>4, <2>1, <2>2, BillHere DEF Aside, Attempts, Active, News, WroteBiller,
      WroteNews
  <2>5. ASSUME CalmStep(b) PROVE Story(b)' /\ SameTurn(b) /\ SameFunds(b)
    <3>1. Story(b)'
      BY <1>1, <1>3, <1>4, <2>1, <2>2, <2>5, BillHere DEF CalmStep, Story, AskedFor, Active, Due,
        Agrees, Attempts, WroteBiller, WroteNews
    <3>2. SameTurn(b) /\ SameFunds(b)
      BY <2>1, <2>2, SameBill
    <3>. QED  BY <3>1, <3>2
  <2>. QED  BY <1>1, <1>2, <2>3, <2>4, <2>5, BillKept
<1>5. ASSUME biller' = [biller EXCEPT ![b] = "refused"], Sends(b, "failure")
      PROVE  BillInv'
  <2>1. /\ biller' = [biller EXCEPT ![b] = "refused"]
        /\ Sends(b, "failure")
        /\ UNCHANGED <<purse, till, owed, paper, bill, confirming, sale, filling, retrying>>
    BY <1>3, <1>5 DEF BillerEnds
  <2>2. /\ WroteBiller(b, "refused")
        /\ WroteNews(b, "failure", "waiting")
    BY <1>1, <1>3, <2>1, BillHere, BillerWritten, NewsSent DEF Attempts, News
  <2>3. BillTypeOK' /\ BillsSolvent'
    BY <1>1, <2>1, <2>2, BillTypes, BillTypesNext DEF WroteBiller, WroteNews
  <2>4. Aside(b) /\ Attempts(b)'
    BY <1>1, <1>3, <1>5, <2>1, <2>2, BillHere DEF Aside, Attempts, Active, News, WroteBiller,
      WroteNews
  <2>5. ASSUME CalmStep(b) PROVE Story(b)' /\ SameTurn(b) /\ SameFunds(b)
    <3>1. Story(b)'
      BY <1>1, <1>3, <1>5, <2>1, <2>2, <2>5, BillHere DEF CalmStep, Story, AskedFor, Active, Due,
        Agrees, Attempts, WroteBiller, WroteNews
    <3>2. SameTurn(b) /\ SameFunds(b)
      BY <2>1, <2>2, SameBill
    <3>. QED  BY <3>1, <3>2
  <2>. QED  BY <1>1, <1>2, <2>3, <2>4, <2>5, BillKept
<1>. QED  BY <1>3, <1>4, <1>5 DEF BillerEnds

LEMMA BillerWaitsKept ==
    ASSUME BillInv, NEW b \in Bills, BillerWaits(b) PROVE BillInv'
<1>1. Budgets /\ BillTypeOK /\ BillsSolvent /\ Attempts(b)
  BY DEF BillInv, BillTyped
<1>2. Budgets' /\ CountsDown
  BY <1>1, BillAssumption, BudgetSpent DEF BillerWaits
<1>3. biller[b] = "open" /\ notices[b]["pending"].at = "none"
  BY DEF BillerWaits
<1>4. /\ Sends(b, "pending")
      /\ UNCHANGED <<purse, till, owed, paper, bill, confirming, sale, filling, retrying,
                     biller>>
  BY <1>3 DEF BillerWaits
<1>5. WroteNews(b, "pending", "waiting")
  BY <1>1, <1>3, <1>4, BillHere, NewsSent DEF News
<1>6. BillTypeOK' /\ BillsSolvent'
  BY <1>1, <1>4, <1>5, BillTypes, BillTypesNext DEF WroteNews
<1>7. Aside(b) /\ Attempts(b)'
  BY <1>1, <1>3, <1>4, <1>5, BillHere DEF Aside, Attempts, Active, News, WroteNews
<1>8. ASSUME CalmStep(b) PROVE Story(b)' /\ SameTurn(b) /\ SameFunds(b)
  <2>1. Story(b)'
    BY <1>1, <1>3, <1>4, <1>5, <1>8, BillHere DEF CalmStep, Story, AskedFor, Active, Due, Agrees,
      Attempts, WroteNews
  <2>2. SameTurn(b) /\ SameFunds(b)
    BY <1>4, <1>5, SameBill
  <2>. QED  BY <2>1, <2>2
<1>. QED  BY <1>1, <1>2, <1>6, <1>7, <1>8, BillKept

LEMMA OrderEndsKept ==
    ASSUME BillInv, NEW b \in Bills, OrderEnds(b) PROVE BillInv'
<1>1. Budgets /\ BillTypeOK /\ BillsSolvent /\ Attempts(b)
  BY DEF BillInv, BillTyped
<1>2. Budgets' /\ CountsDown
  BY <1>1, BillAssumption, BudgetSame, BudgetSpent DEF OrderEnds
<1>3. sale[b].at = "open"
  BY DEF OrderEnds
<1>4. ASSUME NEW end \in {"sold", "cancelled"},
            sale' = [sale EXCEPT ![b] = [@ EXCEPT !.at = end, !.event = "waiting"]]
      PROVE  BillInv'
  <2>1. /\ sale' = [sale EXCEPT ![b] = [@ EXCEPT !.at = end, !.event = "waiting"]]
        /\ UNCHANGED <<purse, till, owed, paper, bill, confirming, filling, retrying, biller,
                       notices>>
    BY <1>3, <1>4 DEF OrderEnds
  <2>2. WroteSale(b, end, "waiting")
    BY <1>1, <1>3, <2>1, BillHere, SaleEnded
  <2>3. BillTypeOK' /\ BillsSolvent'
    BY <1>1, <2>1, <2>2, BillTypes, BillTypesNext DEF WroteSale
  <2>4. Aside(b) /\ Attempts(b)'
    BY <1>1, <1>3, <1>4, <2>1, <2>2, BillHere DEF Aside, Attempts, Active, News, WroteSale
  <2>5. ASSUME CalmStep(b) PROVE Story(b)' /\ SameTurn(b) /\ SameFunds(b)
    <3>1. Story(b)'
      BY <1>1, <1>3, <1>4, <2>1, <2>2, <2>5, BillHere DEF CalmStep, Story, AskedFor, Active, Due,
        Agrees, Attempts, WroteSale
    <3>2. SameTurn(b) /\ SameFunds(b)
      BY <2>1, <2>2, SameBill
    <3>. QED  BY <3>1, <3>2
  <2>. QED  BY <1>1, <1>2, <2>3, <2>4, <2>5, BillKept
<1>. QED  BY <1>3, <1>4 DEF OrderEnds

LEMMA OrderEventAgainKept ==
    ASSUME BillInv, NEW b \in Bills, OrderEventAgain(b) PROVE BillInv'
<1>1. Budgets /\ BillTypeOK /\ BillsSolvent /\ Attempts(b)
  BY DEF BillInv, BillTyped
<1>2. Budgets' /\ CountsDown
  BY <1>1, BillAssumption, BudgetSpent DEF OrderEventAgain
<1>3. sale[b].event = "done" /\ filling[b].pc = "idle"
  BY DEF OrderEventAgain
<1>4. /\ sale' = [sale EXCEPT ![b] = [@ EXCEPT !.event = "waiting", !.tries = BillJobs]]
      /\ UNCHANGED <<purse, till, owed, paper, bill, confirming, filling, retrying, biller,
                     notices>>
  BY <1>3 DEF OrderEventAgain
<1>5. WroteSale(b, sale[b].at, "waiting")
  BY <1>1, <1>3, <1>4, BillHere, SaleAgain
<1>6. BillTypeOK' /\ BillsSolvent'
  BY <1>1, <1>4, <1>5, BillTypes, BillTypesNext DEF WroteSale
<1>7. Aside(b) /\ Attempts(b)'
  BY <1>1, <1>3, <1>4, <1>5, BillHere DEF Aside, Attempts, Active, News, WroteSale
<1>8. Spend("again")
  BY DEF OrderEventAgain
<1>9. "again" \in Kinds /\ {"early", "again"} \subseteq Kinds
  BY BillAssumption
<1>10. ~BillsCalm'
  BY <1>1, <1>8, <1>9, BudgetSpent DEF BillsCalm
<1>. QED  BY <1>1, <1>2, <1>6, <1>7, <1>10, BillKept DEF CalmStep

LEMMA FillDropKept ==
    ASSUME BillInv, NEW b \in Bills, FillDrop(b) PROVE BillInv'
<1>1. Budgets /\ BillTypeOK /\ BillsSolvent /\ Attempts(b)
  BY DEF BillInv, BillTyped
<1>2. Budgets' /\ CountsDown
  BY <1>1, BillAssumption, BudgetNoted DEF FillDrop
<1>3. sale[b].event = "waiting" /\ filling[b].pc = "idle"
  BY DEF FillDrop, Ready
<1>4. /\ JobDone(b)
      /\ UNCHANGED <<purse, till, owed, paper, bill, confirming, filling, retrying, biller,
                     notices>>
  BY <1>3 DEF FillDrop
<1>5. WroteSale(b, sale[b].at, "done")
  BY <1>1, <1>3, <1>4, BillHere, JobEnded
<1>6. BillTypeOK' /\ BillsSolvent'
  BY <1>1, <1>4, <1>5, BillTypes, BillTypesNext DEF WroteSale
<1>7. Aside(b) /\ Attempts(b)'
  BY <1>1, <1>3, <1>4, <1>5, BillHere DEF Aside, Attempts, Active, News, WroteSale
<1>8. ASSUME CalmStep(b) PROVE Story(b)' /\ SameTurn(b) /\ SameFunds(b)
  <2>1. Story(b)'
    BY <1>1, <1>3, <1>4, <1>5, <1>8, BillHere DEF CalmStep, Story, AskedFor, Active, Due, Agrees,
      Attempts, WroteSale
  <2>2. SameTurn(b) /\ SameFunds(b)
    BY <1>4, <1>5, SameBill
  <2>. QED  BY <2>1, <2>2
<1>. QED  BY <1>1, <1>2, <1>6, <1>7, <1>8, BillKept

LEMMA FillCancelledKept ==
    ASSUME BillInv, NEW b \in Bills, FillCancelled(b) PROVE BillInv'
<1>1. Budgets /\ BillTypeOK /\ BillsSolvent /\ Attempts(b)
  BY DEF BillInv, BillTyped
<1>2. Budgets' /\ CountsDown
  BY <1>1, BillAssumption, BudgetSame DEF FillCancelled
<1>3. sale[b].event = "waiting" /\ filling[b].pc = "idle" /\ bill[b].known
      /\ ~Ended(b) /\ sale[b].at = "cancelled"
  BY DEF FillCancelled, Ready
<1>4. ASSUME UNCHANGED <<purse, till, bill>>
      PROVE  BillInv'
  <2>1. /\ JobDone(b)
        /\ UNCHANGED <<purse, till, owed, paper, bill, confirming, filling, retrying, biller,
                       notices>>
    BY <1>3, <1>4 DEF FillCancelled
  <2>2. WroteSale(b, sale[b].at, "done")
    BY <1>1, <1>3, <2>1, BillHere, JobEnded
  <2>3. BillTypeOK' /\ BillsSolvent'
    BY <1>1, <2>1, <2>2, BillTypes, BillTypesNext DEF WroteSale
  <2>4. Aside(b) /\ Attempts(b)'
    BY <1>1, <1>3, <1>4, <2>1, <2>2, BillHere DEF Aside, Attempts, Active, News, WroteSale
  <2>5. ASSUME CalmStep(b) PROVE Story(b)' /\ SameTurn(b) /\ SameFunds(b)
    <3>1. Story(b)'
      BY SMTT(30), <1>1, <1>3, <1>4, <2>1, <2>2, <2>5, BillHere DEF CalmStep, Story, AskedFor,
        Active, Due, Agrees, Attempts, WroteSale
    <3>2. SameTurn(b) /\ SameFunds(b)
      BY <2>1, <2>2, SameBill
    <3>. QED  BY <3>1, <3>2
  <2>. QED  BY <1>1, <1>2, <2>3, <2>4, <2>5, BillKept
<1>5. ASSUME ~(bill[b].meta.cover = "RESERVED" /\ ~CanReleaseLiquidity(till, BillCost))
      PROVE  BillInv'
  <2> DEFINE M == [bill[b].meta EXCEPT !.cover = IF @ = "RESERVED" THEN "RELEASED" ELSE @]
  <2>1. bill[b].meta \in Metas
    BY <1>1, BillHere
  <2>2. M \in Metas
    BY <2>1 DEF Metas, Steps
  <2>3. /\ M.step = bill[b].meta.step /\ M.hold = bill[b].meta.hold
        /\ M.cover = (IF bill[b].meta.cover = "RESERVED" THEN "RELEASED" ELSE bill[b].meta.cover)
        /\ M.added = bill[b].meta.added /\ M.told = bill[b].meta.told
        /\ M.repair = bill[b].meta.repair /\ M.count = bill[b].meta.count
    BY <2>1 DEF Metas
  <2>4. /\ JobDone(b)
        /\ SetBill(b, "FAILED", M)
        /\ UNCHANGED <<owed, paper, confirming, filling, retrying, biller, notices>>
    BY <1>3, <1>5 DEF FillCancelled
  <2>. HIDE DEF M
  <2>5. /\ WroteSale(b, sale[b].at, "done")
        /\ WroteBill(b, "FAILED", bill[b].known, M)
    BY <1>1, <1>3, <2>2, <2>4, BillHere, JobEnded, BillWritten
  <2>6. purse' \in Wallets /\ till' \in Tills /\ BillsSolvent'
    BY <1>1, <1>3, <1>5, <2>4, FundsTyped, BillTypes DEF BillsSolvent, FillCancelled
  <2>7. BillTypeOK' /\ BillsSolvent'
    BY <1>1, <2>4, <2>5, <2>6, BillTypes, BillTypesNext DEF WroteSale, WroteBill
  <2>8. Aside(b) /\ Attempts(b)'
    BY <1>1, <1>3, <1>5, <2>3, <2>4, <2>5, <2>6, BillHere DEF Aside, Attempts, Active, News,
      WroteSale, WroteBill
  <2>9. ASSUME CalmStep(b) PROVE Story(b)' /\ SameTurn(b) /\ BillFunds'
    <3>1. Open(b) /\ StillCovered(b)
      BY <1>1, <1>3, <1>5, <2>3, <2>4, <2>5, <2>6, <2>9, BillHere DEF CalmStep, Story, AskedFor,
        Ended, Open, StillCovered
    <3>2. purse' = ReleaseBalance(purse, BillTotal) /\ till' = ReleaseLiquidity(till, BillCost)
      BY <1>1, <1>3, <1>5, <2>3, <2>4, <2>5, <2>6, <2>9, <3>1, BillHeld, <1>1 DEF CalmStep, BillInv,
        StillCovered, FillCancelled
    <3>3. Story(b)'
      BY <1>1, <1>3, <1>5, <2>3, <2>4, <2>5, <2>6, <2>9, <3>1, <3>2, BillHere, MetaTyped DEF
        CalmStep, Story, AskedFor, Active, Due, Agrees, Attempts, WroteSale, WroteBill
    <3>4. SameTurn(b)
      BY <2>4, <2>5 DEF SameTurn, WroteSale, WroteBill
    <3>5. BillFunds'
      <4>1. ~Open(b)' /\ ~StillCovered(b)' /\ bill'[b].meta.hold # "CONSUMED"
           /\ bill'[b].meta.added = bill[b].meta.added
        BY <1>1, <1>3, <1>5, <2>3, <2>4, <2>5, <2>6, <2>9, <3>1, <3>2, BillHere, MetaTyped DEF
          CalmStep, Open, StillCovered, Story, AskedFor, Active, Attempts, News, WroteSale,
          WroteBill
      <4>2. BillTyped
        BY DEF BillInv
      <4>. QED  BY <2>4, <2>8, <2>9, <4>1, <4>2, <3>1, <3>2, FundsFreed DEF CalmStep
    <3>. QED  BY <3>3, <3>4, <3>5
  <2>. QED  BY <1>1, <1>2, <2>7, <2>8, <2>9, BillKept
<1>. QED  BY <1>3, <1>4, <1>5 DEF FillCancelled

LEMMA FillAddKept ==
    ASSUME BillInv, NEW b \in Bills, FillAdd(b) PROVE BillInv'
<1>1. Budgets /\ BillTypeOK /\ BillsSolvent /\ Attempts(b)
  BY DEF BillInv, BillTyped
<1>2. Budgets' /\ CountsDown
  BY <1>1, BillAssumption, BudgetSame, BudgetSpent DEF FillAdd
<1>3. sale[b].event = "waiting" /\ filling[b].pc = "idle" /\ bill[b].known
      /\ ~Ended(b) /\ sale[b].at = "sold"
  BY DEF FillAdd, Ready
<1>4. ASSUME till' = AddLiquidity(till, Proceeds(bill[b].meta)), UNCHANGED sale,
            SetBillMeta(b, [bill[b].meta EXCEPT !.added = TRUE, !.step = "PAYING"]),
            SetFilling(b, "pay", [bill[b].meta EXCEPT !.added = TRUE, !.step = "PAYING"])
      PROVE  BillInv'
  <2> DEFINE M == [bill[b].meta EXCEPT !.added = TRUE, !.step = "PAYING"]
  <2>1. bill[b].meta \in Metas
    BY <1>1, BillHere
  <2>2. M \in Metas
    BY <2>1 DEF Metas, Steps
  <2>3. /\ M.step = "PAYING" /\ M.hold = bill[b].meta.hold /\ M.cover = bill[b].meta.cover
        /\ M.added = TRUE /\ M.told = bill[b].meta.told /\ M.repair = bill[b].meta.repair
        /\ M.count = bill[b].meta.count
    BY <2>1 DEF Metas
  <2>4. /\ SetBillMeta(b, M)
        /\ SetFilling(b, "pay", M)
        /\ till' = AddLiquidity(till, Proceeds(bill[b].meta))
        /\ UNCHANGED <<purse, owed, paper, confirming, sale, retrying, biller, notices>>
    BY <1>3, <1>4 DEF FillAdd
  <2>. HIDE DEF M
  <2>5. /\ WroteBill(b, bill[b].status, bill[b].known, M)
        /\ WroteFilling(b, "pay", M)
    BY <1>1, <1>3, <2>2, <2>4, BillHere, MetaWritten, FillingWritten
  <2>6. till' \in Tills /\ CompanySolvent(till')
    BY <1>1, <1>3, <1>4, <2>4, FundsTyped, BillAssumption DEF Proceeds
  <2>7. BillTypeOK' /\ BillsSolvent'
    BY <1>1, <2>4, <2>5, <2>6, BillTypes, BillTypesNext DEF BillsSolvent, WalletSolvent, WroteBill,
      WroteFilling
  <2>8. Aside(b) /\ Attempts(b)'
    BY <1>1, <1>3, <1>4, <2>3, <2>4, <2>5, <2>6, BillHere DEF Aside, Attempts, Active, News,
      WroteBill, WroteFilling
  <2>9. ASSUME CalmStep(b) PROVE Story(b)' /\ SameTurn(b) /\ BillFunds'
    <3>1. bill[b].status = "PENDING"
      BY <1>1, <1>3, <1>4, <2>3, <2>4, <2>5, <2>6, <2>9, BillHere DEF CalmStep, Story, Ended
    <3>2. Story(b)'
      BY <1>1, <1>3, <1>4, <2>3, <2>4, <2>5, <2>6, <2>9, <3>1, BillHere, MetaTyped DEF CalmStep,
        Story, AskedFor, Active, Due, Agrees, Attempts, WroteBill, WroteFilling
    <3>3. SameTurn(b)
      BY <2>4, <2>5 DEF SameTurn, WroteBill, WroteFilling
    <3>4. BillFunds'
      <4>1. /\ Open(b)' <=> Open(b)
            /\ StillCovered(b)' <=> StillCovered(b)
            /\ bill'[b].meta.hold = "CONSUMED" <=> bill[b].meta.hold = "CONSUMED"
            /\ bill'[b].meta.added
        BY <1>1, <1>3, <1>4, <2>3, <2>4, <2>5, <2>6, <2>9, <3>1, BillHere, MetaTyped DEF CalmStep,
          Open, StillCovered, Story, AskedFor, Active, Attempts, News, WroteBill, WroteFilling
      <4>2. BillTyped
        BY DEF BillInv
      <4>. QED  BY <2>4, <2>8, <2>9, <4>1, <4>2, FundsBrought DEF CalmStep
    <3>. QED  BY <3>2, <3>3, <3>4
  <2>. QED  BY <1>1, <1>2, <2>7, <2>8, <2>9, BillKept
<1>5. ASSUME JobDone(b), UNCHANGED <<till, bill, filling>>
      PROVE  BillInv'
  <2>1. /\ JobDone(b)
        /\ UNCHANGED <<purse, till, owed, paper, bill, confirming, filling, retrying, biller,
                       notices>>
    BY <1>3, <1>5 DEF FillAdd
  <2>2. WroteSale(b, sale[b].at, "done")
    BY <1>1, <1>3, <2>1, BillHere, JobEnded
  <2>3. BillTypeOK' /\ BillsSolvent'
    BY <1>1, <2>1, <2>2, BillTypes, BillTypesNext DEF WroteSale
  <2>4. Aside(b) /\ Attempts(b)'
    BY <1>1, <1>3, <1>5, <2>1, <2>2, BillHere DEF Aside, Attempts, Active, News, WroteSale
  <2>5. ASSUME CalmStep(b) PROVE Story(b)' /\ SameTurn(b) /\ SameFunds(b)
    <3>1. Story(b)'
      BY <1>1, <1>3, <1>5, <2>1, <2>2, <2>5, BillHere DEF CalmStep, Story, AskedFor, Active, Due,
        Agrees, Attempts, WroteSale
    <3>2. SameTurn(b) /\ SameFunds(b)
      BY <2>1, <2>2, SameBill
    <3>. QED  BY <3>1, <3>2
  <2>. QED  BY <1>1, <1>2, <2>3, <2>4, <2>5, BillKept
<1>6. ASSUME Spend("error"), SetFilling(b, "fail", bill[b].meta), UNCHANGED <<till, bill, sale>>
      PROVE  BillInv'
  <2>1. /\ SetFilling(b, "fail", bill[b].meta)
        /\ UNCHANGED <<purse, till, owed, paper, bill, confirming, sale, retrying, biller,
                       notices>>
    BY <1>3, <1>6 DEF FillAdd
  <2>2. WroteFilling(b, "fail", bill[b].meta)
    BY <1>1, <1>3, <2>1, BillHere, FillingWritten
  <2>3. BillTypeOK' /\ BillsSolvent'
    BY <1>1, <2>1, <2>2, BillTypes, BillTypesNext DEF WroteFilling
  <2>4. Aside(b) /\ Attempts(b)'
    BY <1>1, <1>3, <1>6, <2>1, <2>2, BillHere DEF Aside, Attempts, Active, News, WroteFilling
  <2>5. ASSUME CalmStep(b) PROVE Story(b)' /\ SameTurn(b) /\ SameFunds(b)
    <3>1. ~Untouched({"error"})'
      BY <1>1, <1>6, <2>5, BudgetSpent, BillAssumption
    <3>2. bill[b].status = "PENDING"
      BY <1>1, <1>3, <1>6, <2>1, <2>2, <2>5, <3>1, BillHere DEF CalmStep, Story, Ended
    <3>3. Story(b)'
      BY <1>1, <1>3, <1>6, <2>1, <2>2, <2>5, <3>1, <3>2, BillHere DEF CalmStep, Story, AskedFor,
        Active, Due, Agrees, Attempts, WroteFilling
    <3>4. SameTurn(b) /\ SameFunds(b)
      BY <2>1, <2>2, SameBill
    <3>. QED  BY <3>3, <3>4
  <2>. QED  BY <1>1, <1>2, <2>3, <2>4, <2>5, BillKept
<1>. QED  BY <1>3, <1>4, <1>5, <1>6 DEF FillAdd

LEMMA FillPayKept ==
    ASSUME BillInv, NEW b \in Bills, FillPay(b) PROVE BillInv'
<1>1. Budgets /\ BillTypeOK /\ BillsSolvent /\ Attempts(b)
  BY DEF BillInv, BillTyped
<1>2. Budgets' /\ CountsDown
  BY <1>1, BillAssumption, BudgetSame, BudgetSpent DEF FillPay, Asked
<1>3. filling[b].pc = "pay"
  BY DEF FillPay
<1>4. ASSUME NEW pc \in {"save", "fail"}, SetFilling(b, pc, filling[b].copy),
            NEW v \in {"open", biller[b]}, v = biller[b] \/ biller[b] = "none", WroteBiller(b, v)
      PROVE  BillInv'
  <2>1. /\ SetFilling(b, pc, filling[b].copy)
        /\ UNCHANGED <<purse, till, owed, paper, bill, confirming, sale, retrying, notices>>
    BY <1>3, <1>4 DEF FillPay
  <2>2. /\ WroteFilling(b, pc, filling[b].copy)
        /\ WroteBiller(b, v)
    BY <1>1, <1>3, <2>1, <1>4, BillHere, FillingWritten
  <2>3. BillTypeOK' /\ BillsSolvent'
    BY <1>1, <2>1, <2>2, BillTypes, BillTypesNext DEF WroteFilling, WroteBiller
  <2>4. Aside(b) /\ Attempts(b)'
    BY <1>1, <1>3, <1>4, <2>1, <2>2, BillHere DEF Aside, Attempts, Active, News, WroteFilling,
      WroteBiller
  <2>5. ASSUME CalmStep(b) PROVE Story(b)' /\ SameTurn(b) /\ SameFunds(b)
    <3>1. Story(b)'
      BY <1>1, <1>3, <1>4, <2>1, <2>2, <2>5, BillHere, MetaTyped DEF CalmStep, Story, AskedFor,
        Active, Due, Agrees, Attempts, WroteFilling, WroteBiller
    <3>2. SameTurn(b) /\ SameFunds(b)
      BY <2>1, <2>2, SameBill
    <3>. QED  BY <3>1, <3>2
  <2>. QED  BY <1>1, <1>2, <2>3, <2>4, <2>5, BillKept
<1>. QED  BY <1>3, <1>4, <1>1, BillTypes, BillerSame, BillerWritten DEF FillPay, Asked

LEMMA FillFailKept ==
    ASSUME BillInv, NEW b \in Bills, FillFail(b) PROVE BillInv'
<1>1. Budgets /\ BillTypeOK /\ BillsSolvent /\ Attempts(b)
  BY DEF BillInv, BillTyped
<1>2. Budgets' /\ CountsDown
  BY <1>1, BillAssumption, BudgetSame, BudgetSpent DEF FillFail
<1>3. filling[b].pc = "fail" /\ sale[b].event = "waiting" /\ sale[b].tries > 0
  BY <1>1 DEF FillFail, Attempts
<1>4. ASSUME JobDone(b), SetBill(b, "PENDING",
                [filling[b].copy EXCEPT !.step = "PROVIDER_SUBMIT_FAILED_RETRYABLE"])
      PROVE  BillInv'
  <2> DEFINE M == [filling[b].copy EXCEPT !.step = "PROVIDER_SUBMIT_FAILED_RETRYABLE"]
  <2>1. filling[b].copy \in Metas
    BY <1>1, BillHere
  <2>2. M \in Metas
    BY <2>1 DEF Metas, Steps
  <2>3. /\ M.step = "PROVIDER_SUBMIT_FAILED_RETRYABLE" /\ M.hold = filling[b].copy.hold
        /\ M.cover = filling[b].copy.cover /\ M.added = filling[b].copy.added
        /\ M.told = filling[b].copy.told /\ M.repair = filling[b].copy.repair
        /\ M.count = filling[b].copy.count
    BY <2>1 DEF Metas
  <2>4. /\ SetBill(b, "PENDING", M)
        /\ SetFilling(b, "idle", FreshMeta)
        /\ JobDone(b)
        /\ UNCHANGED <<purse, till, owed, paper, confirming, retrying, biller, notices>>
    BY <1>3, <1>4 DEF FillFail
  <2>. HIDE DEF M
  <2>5. /\ WroteBill(b, "PENDING", bill[b].known, M)
        /\ WroteFilling(b, "idle", FreshMeta)
        /\ WroteSale(b, sale[b].at, "done")
    BY <1>1, <1>3, <2>2, <2>4, BillHere, BillWritten, FillingWritten, JobEnded
  <2>6. BillTypeOK' /\ BillsSolvent'
    BY <1>1, <2>4, <2>5, BillTypes, BillTypesNext DEF WroteBill, WroteFilling, WroteSale
  <2>7. Aside(b) /\ Attempts(b)'
    BY <1>1, <1>3, <1>4, <2>3, <2>4, <2>5, BillHere DEF Aside, Attempts, Active, News, WroteBill,
      WroteFilling, WroteSale
  <2>8. ASSUME CalmStep(b) PROVE Story(b)' /\ SameTurn(b) /\ SameFunds(b)
    <3>1. Story(b)'
      BY <1>1, <1>3, <1>4, <2>3, <2>4, <2>5, <2>8, BillHere, MetaTyped, FreshFields DEF CalmStep,
        Story, AskedFor, Active, Due, Agrees, Attempts, WroteBill, WroteFilling, WroteSale
    <3>2. SameTurn(b) /\ SameFunds(b)
      BY <1>1, <1>3, <1>4, <2>3, <2>4, <2>5, <2>8, BillHere, MetaTyped, FreshFields DEF CalmStep,
        Story, Active, Agrees, Open, StillCovered, SameTurn, SameFunds, WroteBill, WroteFilling,
        WroteSale
    <3>. QED  BY <3>1, <3>2
  <2>. QED  BY <1>1, <1>2, <2>6, <2>7, <2>8, BillKept
<1>5. ASSUME Spend("error"), JobThrows(b), UNCHANGED bill
      PROVE  BillInv'
  <2>1. /\ JobThrows(b)
        /\ SetFilling(b, "idle", FreshMeta)
        /\ UNCHANGED <<purse, till, owed, paper, bill, confirming, retrying, biller, notices>>
    BY <1>3, <1>5 DEF FillFail
  <2>2. /\ (WroteSale(b, sale[b].at, "waiting") \/ WroteSale(b, sale[b].at, "done"))
        /\ WroteFilling(b, "idle", FreshMeta)
    BY <1>1, <1>3, <2>1, BillHere, JobThrown, FillingWritten
  <2>3. BillTypeOK' /\ BillsSolvent'
    BY <1>1, <2>1, <2>2, BillTypes, BillTypesNext DEF WroteSale, WroteFilling
  <2>4. Aside(b) /\ Attempts(b)'
    BY <1>1, <1>3, <1>5, <2>1, <2>2, BillHere DEF Aside, Attempts, Active, News, WroteSale,
      WroteFilling
  <2>5. ASSUME CalmStep(b) PROVE Story(b)' /\ SameTurn(b) /\ SameFunds(b)
    <3>1. ~Untouched({"error"})'
      BY <1>1, <1>5, <2>5, BudgetSpent, BillAssumption
    <3>2. Story(b)'
      BY <1>1, <1>3, <1>5, <2>1, <2>2, <2>5, <3>1, BillHere, FreshFields DEF CalmStep, Story,
        AskedFor, Active, Due, Agrees, Attempts, WroteSale, WroteFilling
    <3>3. SameTurn(b) /\ SameFunds(b)
      BY <2>1, <2>2, SameBill
    <3>. QED  BY <3>2, <3>3
  <2>. QED  BY <1>1, <1>2, <2>3, <2>4, <2>5, BillKept
<1>. QED  BY <1>3, <1>4, <1>5 DEF FillFail

LEMMA RepairSelectKept ==
    ASSUME BillInv, NEW b \in Bills, RepairSelect(b) PROVE BillInv'
<1>1. Budgets /\ BillTypeOK /\ BillsSolvent /\ Attempts(b)
  BY DEF BillInv, BillTyped
<1>2. Budgets' /\ CountsDown
  BY <1>1, BillAssumption, BudgetSame DEF RepairSelect
<1>3. retrying[b].pc = "idle" /\ bill[b].meta.step = "ORDER_REFERENCE_PERSIST_FAILED"
  BY DEF RepairSelect
<1>4. /\ SetRetrying(b, "repair", FreshMeta)
      /\ UNCHANGED <<purse, till, owed, paper, bill, confirming, sale, filling, biller, notices>>
  BY <1>3 DEF RepairSelect
<1>5. WroteRetrying(b, "repair", FreshMeta)
  BY <1>1, <1>3, <1>4, BillHere, RetryingWritten
<1>6. BillTypeOK' /\ BillsSolvent'
  BY <1>1, <1>4, <1>5, BillTypes, BillTypesNext DEF WroteRetrying
<1>7. Aside(b) /\ Attempts(b)'
  BY <1>1, <1>3, <1>4, <1>5, BillHere DEF Aside, Attempts, Active, News, WroteRetrying
<1>8. ASSUME CalmStep(b) PROVE Story(b)' /\ SameTurn(b) /\ SameFunds(b)
  <2>1. Story(b)'
    BY <1>1, <1>3, <1>4, <1>5, <1>8, BillHere, FreshFields DEF CalmStep, Story, AskedFor, Active,
      Due, Agrees, Attempts, WroteRetrying
  <2>2. SameTurn(b) /\ SameFunds(b)
    BY <1>4, <1>5, SameBill
  <2>. QED  BY <2>1, <2>2
<1>. QED  BY <1>1, <1>2, <1>6, <1>7, <1>8, BillKept

LEMMA RepairKept ==
    ASSUME BillInv, NEW b \in Bills, Repair(b) PROVE BillInv'
<1>1. Budgets /\ BillTypeOK /\ BillsSolvent /\ Attempts(b)
  BY DEF BillInv, BillTyped
<1>2. Budgets' /\ CountsDown
  BY <1>1, BillAssumption, BudgetSame, BudgetNoted DEF Repair
<1>3. retrying[b].pc = "repair"
  BY DEF Repair
<1>4. ASSUME SetKnown(b, [bill[b].meta EXCEPT !.step = "PROCESSING", !.repair = FALSE])
      PROVE  BillInv'
  <2> DEFINE M == [bill[b].meta EXCEPT !.step = "PROCESSING", !.repair = FALSE]
  <2>1. bill[b].meta \in Metas
    BY <1>1, BillHere
  <2>2. M \in Metas
    BY <2>1 DEF Metas, Steps
  <2>3. /\ M.step = "PROCESSING" /\ M.hold = bill[b].meta.hold
        /\ M.cover = bill[b].meta.cover /\ M.added = bill[b].meta.added
        /\ M.told = bill[b].meta.told /\ M.repair = FALSE /\ M.count = bill[b].meta.count
    BY <2>1 DEF Metas
  <2>4. /\ SetKnown(b, M)
        /\ SetRetrying(b, "idle", FreshMeta)
        /\ UNCHANGED <<purse, till, owed, paper, confirming, sale, filling, biller, notices>>
    BY <1>3, <1>4 DEF Repair
  <2>. HIDE DEF M
  <2>5. /\ WroteBill(b, bill[b].status, TRUE, M)
        /\ WroteRetrying(b, "idle", FreshMeta)
    BY <1>1, <1>3, <2>2, <2>4, BillHere, KnownWritten, RetryingWritten
  <2>6. BillTypeOK' /\ BillsSolvent'
    BY <1>1, <2>4, <2>5, BillTypes, BillTypesNext DEF WroteBill, WroteRetrying
  <2>7. Aside(b) /\ Attempts(b)'
    BY <1>1, <1>3, <1>4, <2>3, <2>4, <2>5, BillHere DEF Aside, Attempts, Active, News, WroteBill,
      WroteRetrying
  <2>8. ASSUME CalmStep(b) PROVE Story(b)' /\ SameTurn(b) /\ SameFunds(b)
    <3>1. Story(b)'
      BY <1>1, <1>3, <1>4, <2>3, <2>4, <2>5, <2>8, BillHere, MetaTyped, FreshFields DEF CalmStep,
        Story, AskedFor, Active, Due, Agrees, Attempts, WroteBill, WroteRetrying
    <3>2. SameTurn(b) /\ SameFunds(b)
      BY <1>1, <1>3, <1>4, <2>3, <2>4, <2>5, <2>8, BillHere, MetaTyped, FreshFields DEF CalmStep,
        Story, Active, Agrees, Open, StillCovered, SameTurn, SameFunds, WroteBill, WroteRetrying
    <3>. QED  BY <3>1, <3>2
  <2>. QED  BY <1>1, <1>2, <2>6, <2>7, <2>8, BillKept
<1>5. ASSUME UNCHANGED bill
      PROVE  BillInv'
  <2>1. /\ SetRetrying(b, "idle", FreshMeta)
        /\ UNCHANGED <<purse, till, owed, paper, bill, confirming, sale, filling, biller, notices>>
    BY <1>3, <1>5 DEF Repair
  <2>2. WroteRetrying(b, "idle", FreshMeta)
    BY <1>1, <1>3, <2>1, BillHere, RetryingWritten
  <2>3. BillTypeOK' /\ BillsSolvent'
    BY <1>1, <2>1, <2>2, BillTypes, BillTypesNext DEF WroteRetrying
  <2>4. Aside(b) /\ Attempts(b)'
    BY <1>1, <1>3, <1>5, <2>1, <2>2, BillHere DEF Aside, Attempts, Active, News, WroteRetrying
  <2>5. ASSUME CalmStep(b) PROVE Story(b)' /\ SameTurn(b) /\ SameFunds(b)
    <3>1. Story(b)'
      BY <1>1, <1>3, <1>5, <2>1, <2>2, <2>5, BillHere, FreshFields DEF CalmStep, Story, AskedFor,
        Active, Due, Agrees, Attempts, WroteRetrying
    <3>2. SameTurn(b) /\ SameFunds(b)
      BY <2>1, <2>2, SameBill
    <3>. QED  BY <3>1, <3>2
  <2>. QED  BY <1>1, <1>2, <2>3, <2>4, <2>5, BillKept
<1>. QED  BY <1>3, <1>4, <1>5 DEF Repair

LEMMA RetryClaimKept ==
    ASSUME BillInv, NEW b \in Bills, RetryClaim(b) PROVE BillInv'
<1>1. Budgets /\ BillTypeOK /\ BillsSolvent /\ Attempts(b)
  BY DEF BillInv, BillTyped
<1>2. Budgets' /\ CountsDown
  BY <1>1, BillAssumption, BudgetSame DEF RetryClaim
<1>3. retrying[b].pc = "idle" /\ bill[b].status = "PENDING" /\ Due(bill[b].meta)
      /\ bill[b].meta.count < BillTries
  BY DEF RetryClaim
<1> DEFINE M == [bill[b].meta EXCEPT !.step = "PAYING_RETRY"]
<1>4. bill[b].meta \in Metas
  BY <1>1, BillHere
<1>5. M \in Metas
  BY <1>4 DEF Metas, Steps
<1>6. /\ M.step = "PAYING_RETRY" /\ M.hold = bill[b].meta.hold
      /\ M.cover = bill[b].meta.cover /\ M.added = bill[b].meta.added
      /\ M.told = bill[b].meta.told /\ M.repair = bill[b].meta.repair
      /\ M.count = bill[b].meta.count
  BY <1>4 DEF Metas
<1>7. /\ SetBillMeta(b, M)
      /\ SetRetrying(b, "pay", M)
      /\ UNCHANGED <<purse, till, owed, paper, confirming, sale, filling, biller, notices>>
  BY <1>3 DEF RetryClaim
<1>. HIDE DEF M
<1>8. /\ WroteBill(b, bill[b].status, bill[b].known, M)
      /\ WroteRetrying(b, "pay", M)
  BY <1>1, <1>3, <1>5, <1>7, BillHere, MetaWritten, RetryingWritten
<1>9. BillTypeOK' /\ BillsSolvent'
  BY <1>1, <1>7, <1>8, BillTypes, BillTypesNext DEF WroteBill, WroteRetrying
<1>10. Aside(b) /\ Attempts(b)'
  BY <1>1, <1>3, <1>6, <1>7, <1>8, BillHere DEF Aside, Attempts, Active, News, WroteBill,
    WroteRetrying
<1>11. ASSUME CalmStep(b) PROVE Story(b)' /\ SameTurn(b) /\ SameFunds(b)
  <2>1. Story(b)'
    BY <1>1, <1>3, <1>6, <1>7, <1>8, <1>11, BillHere, MetaTyped DEF CalmStep, Story, AskedFor,
      Active, Due, Agrees, Attempts, WroteBill, WroteRetrying
  <2>2. SameTurn(b) /\ SameFunds(b)
    BY <1>1, <1>3, <1>6, <1>7, <1>8, <1>11, BillHere, MetaTyped DEF CalmStep, Story, Active, Agrees,
      Open, StillCovered, SameTurn, SameFunds, WroteBill, WroteRetrying
  <2>. QED  BY <2>1, <2>2
<1>. QED  BY <1>1, <1>2, <1>9, <1>10, <1>11, BillKept

LEMMA RetryPayKept ==
    ASSUME BillInv, NEW b \in Bills, RetryPay(b) PROVE BillInv'
<1>1. Budgets /\ BillTypeOK /\ BillsSolvent /\ Attempts(b)
  BY DEF BillInv, BillTyped
<1>2. Budgets' /\ CountsDown
  BY <1>1, BillAssumption, BudgetSame, BudgetSpent DEF RetryPay, Asked
<1>3. retrying[b].pc = "pay"
  BY DEF RetryPay
<1>4. ASSUME NEW pc \in {"save", "fail"}, SetRetrying(b, pc, retrying[b].copy),
            NEW v \in {"open", biller[b]}, v = biller[b] \/ biller[b] = "none", WroteBiller(b, v)
      PROVE  BillInv'
  <2>1. /\ SetRetrying(b, pc, retrying[b].copy)
        /\ UNCHANGED <<purse, till, owed, paper, bill, confirming, sale, filling, notices>>
    BY <1>3, <1>4 DEF RetryPay
  <2>2. /\ WroteRetrying(b, pc, retrying[b].copy)
        /\ WroteBiller(b, v)
    BY <1>1, <1>3, <2>1, <1>4, BillHere, RetryingWritten
  <2>3. BillTypeOK' /\ BillsSolvent'
    BY <1>1, <2>1, <2>2, BillTypes, BillTypesNext DEF WroteRetrying, WroteBiller
  <2>4. Aside(b) /\ Attempts(b)'
    BY <1>1, <1>3, <1>4, <2>1, <2>2, BillHere DEF Aside, Attempts, Active, News, WroteRetrying,
      WroteBiller
  <2>5. ASSUME CalmStep(b) PROVE Story(b)' /\ SameTurn(b) /\ SameFunds(b)
    <3>1. Story(b)'
      BY <1>1, <1>3, <1>4, <2>1, <2>2, <2>5, BillHere, MetaTyped DEF CalmStep, Story, AskedFor,
        Active, Due, Agrees, Attempts, WroteRetrying, WroteBiller
    <3>2. SameTurn(b) /\ SameFunds(b)
      BY <2>1, <2>2, SameBill
    <3>. QED  BY <3>1, <3>2
  <2>. QED  BY <1>1, <1>2, <2>3, <2>4, <2>5, BillKept
<1>. QED  BY <1>3, <1>4, <1>1, BillTypes, BillerSame, BillerWritten DEF RetryPay, Asked

LEMMA RetrySaveKept ==
    ASSUME BillInv, NEW b \in Bills, RetrySave(b) PROVE BillInv'
<1>1. Budgets /\ BillTypeOK /\ BillsSolvent /\ Attempts(b)
  BY DEF BillInv, BillTyped
<1>2. Budgets' /\ CountsDown
  BY <1>1, BillAssumption, BudgetSame, BudgetSpent DEF RetrySave
<1>3. retrying[b].pc = "save"
  BY DEF RetrySave
<1>4. ASSUME SetRetrying(b, "idle", FreshMeta),
            SetBillMeta(b, [retrying[b].copy EXCEPT !.step = "PROVIDER_SUBMITTED"])
      PROVE  BillInv'
  <2> DEFINE M == [retrying[b].copy EXCEPT !.step = "PROVIDER_SUBMITTED"]
  <2>1. retrying[b].copy \in Metas
    BY <1>1, BillHere
  <2>2. M \in Metas
    BY <2>1 DEF Metas, Steps
  <2>3. /\ M.step = "PROVIDER_SUBMITTED" /\ M.hold = retrying[b].copy.hold
        /\ M.cover = retrying[b].copy.cover /\ M.added = retrying[b].copy.added
        /\ M.told = retrying[b].copy.told /\ M.repair = retrying[b].copy.repair
        /\ M.count = retrying[b].copy.count
    BY <2>1 DEF Metas
  <2>4. /\ SetBillMeta(b, M)
        /\ SetRetrying(b, "idle", FreshMeta)
        /\ UNCHANGED <<purse, till, owed, paper, confirming, sale, filling, biller, notices>>
    BY <1>3, <1>4 DEF RetrySave
  <2>. HIDE DEF M
  <2>5. /\ WroteBill(b, bill[b].status, bill[b].known, M)
        /\ WroteRetrying(b, "idle", FreshMeta)
    BY <1>1, <1>3, <2>2, <2>4, BillHere, MetaWritten, RetryingWritten
  <2>6. BillTypeOK' /\ BillsSolvent'
    BY <1>1, <2>4, <2>5, BillTypes, BillTypesNext DEF WroteBill, WroteRetrying
  <2>7. Aside(b) /\ Attempts(b)'
    BY <1>1, <1>3, <1>4, <2>3, <2>4, <2>5, BillHere DEF Aside, Attempts, Active, News, WroteBill,
      WroteRetrying
  <2>8. ASSUME CalmStep(b) PROVE Story(b)' /\ SameTurn(b) /\ SameFunds(b)
    <3>1. Story(b)'
      BY <1>1, <1>3, <1>4, <2>3, <2>4, <2>5, <2>8, BillHere, MetaTyped, FreshFields DEF CalmStep,
        Story, AskedFor, Active, Due, Agrees, Attempts, WroteBill, WroteRetrying
    <3>2. SameTurn(b) /\ SameFunds(b)
      BY <1>1, <1>3, <1>4, <2>3, <2>4, <2>5, <2>8, BillHere, MetaTyped, FreshFields DEF CalmStep,
        Story, Active, Agrees, Open, StillCovered, SameTurn, SameFunds, WroteBill, WroteRetrying
    <3>. QED  BY <3>1, <3>2
  <2>. QED  BY <1>1, <1>2, <2>6, <2>7, <2>8, BillKept
<1>5. ASSUME Spend("error"), SetRetrying(b, "fail", retrying[b].copy), UNCHANGED bill
      PROVE  BillInv'
  <2>1. /\ SetRetrying(b, "fail", retrying[b].copy)
        /\ UNCHANGED <<purse, till, owed, paper, bill, confirming, sale, filling, biller, notices>>
    BY <1>3, <1>5 DEF RetrySave
  <2>2. WroteRetrying(b, "fail", retrying[b].copy)
    BY <1>1, <1>3, <2>1, BillHere, RetryingWritten
  <2>3. BillTypeOK' /\ BillsSolvent'
    BY <1>1, <2>1, <2>2, BillTypes, BillTypesNext DEF WroteRetrying
  <2>4. Aside(b) /\ Attempts(b)'
    BY <1>1, <1>3, <1>5, <2>1, <2>2, BillHere DEF Aside, Attempts, Active, News, WroteRetrying
  <2>5. ASSUME CalmStep(b) PROVE Story(b)' /\ SameTurn(b) /\ SameFunds(b)
    <3>1. ~Untouched({"error"})'
      BY <1>1, <1>5, <2>5, BudgetSpent, BillAssumption
    <3>2. Story(b)'
      BY <1>1, <1>3, <1>5, <2>1, <2>2, <2>5, <3>1, BillHere, MetaTyped DEF CalmStep, Story,
        AskedFor, Active, Due, Agrees, Attempts, WroteRetrying
    <3>3. SameTurn(b) /\ SameFunds(b)
      BY <2>1, <2>2, SameBill
    <3>. QED  BY <3>2, <3>3
  <2>. QED  BY <1>1, <1>2, <2>3, <2>4, <2>5, BillKept
<1>. QED  BY <1>3, <1>4, <1>5 DEF RetrySave

LEMMA RetryFailKept ==
    ASSUME BillInv, NEW b \in Bills, RetryFail(b) PROVE BillInv'
<1>1. Budgets /\ BillTypeOK /\ BillsSolvent /\ Attempts(b)
  BY DEF BillInv, BillTyped
<1>2. Budgets' /\ CountsDown
  BY <1>1, BillAssumption, BudgetSame, BudgetSpent DEF RetryFail
<1>3. retrying[b].pc = "fail" /\ retrying[b].copy.count < BillTries
  BY <1>1 DEF RetryFail, Attempts, Active
<1>4. ASSUME RetryGivesUp(b, retrying[b].copy.count + 1),
            retrying[b].copy.hold # "RELEASED" => CanReleaseBalance(purse, BillTotal),
            retrying[b].copy.cover = "RESERVED" => CanReleaseLiquidity(till, BillCost)
      PROVE  BillInv'
  <2> DEFINE freed == retrying[b].copy.hold # "RELEASED" /\ CanReleaseBalance(purse, BillTotal)
            uncovered == retrying[b].copy.cover = "RESERVED"
                           /\ CanReleaseLiquidity(till, BillCost)
            M == [retrying[b].copy EXCEPT !.step = "PROVIDER_SUBMIT_RETRY_EXHAUSTED",
                                          !.count = retrying[b].copy.count + 1,
                                          !.hold = IF freed THEN "RELEASED" ELSE @,
                                          !.cover = IF uncovered THEN "RELEASED" ELSE @]
  <2>1. retrying[b].copy \in Metas
    BY <1>1, BillHere
  <2>2. retrying[b].copy.count + 1 \in 0..BillTries
    BY <2>1, <1>3, BillAssumption DEF Metas
  <2>3. M \in Metas
    BY <2>1, <2>2 DEF Metas, Steps
  <2>4. /\ M.step = "PROVIDER_SUBMIT_RETRY_EXHAUSTED"
        /\ M.hold = (IF freed THEN "RELEASED" ELSE retrying[b].copy.hold)
        /\ M.cover = (IF uncovered THEN "RELEASED" ELSE retrying[b].copy.cover)
        /\ M.added = retrying[b].copy.added /\ M.told = retrying[b].copy.told
        /\ M.repair = retrying[b].copy.repair /\ M.count = retrying[b].copy.count + 1
    BY <2>1 DEF Metas
  <2>5. /\ SetBill(b, "FAILED", M)
        /\ SetRetrying(b, "idle", FreshMeta)
        /\ UNCHANGED <<owed, paper, confirming, sale, filling, biller, notices>>
    BY <1>3, <1>4 DEF RetryFail, RetryGivesUp
  <2>. HIDE DEF M
  <2>6. /\ WroteBill(b, "FAILED", bill[b].known, M)
        /\ WroteRetrying(b, "idle", FreshMeta)
    BY <1>1, <1>3, <2>3, <2>5, BillHere, BillWritten, RetryingWritten
  <2>7. purse' \in Wallets /\ till' \in Tills /\ BillsSolvent'
    BY <1>1, <1>3, <1>4, <2>5, FundsTyped, BillTypes DEF BillsSolvent, RetryGivesUp
  <2>8. BillTypeOK' /\ BillsSolvent'
    BY <1>1, <2>5, <2>6, <2>7, BillTypes, BillTypesNext DEF WroteBill, WroteRetrying
  <2>9. Aside(b) /\ Attempts(b)'
    BY <1>1, <1>3, <1>4, <2>4, <2>5, <2>6, <2>7, BillHere DEF Aside, Attempts, Active, News,
      WroteBill, WroteRetrying
  <2>10. ASSUME CalmStep(b) PROVE Story(b)' /\ SameTurn(b) /\ BillFunds'
    <3>1. \/ Open(b) /\ StillCovered(b)
          \/ bill[b].meta.hold = "RELEASED" /\ bill[b].meta.cover = "RELEASED"
      BY <1>1, <1>3, <1>4, <2>4, <2>5, <2>6, <2>7, <2>10, BillHere DEF CalmStep, Story, AskedFor,
        Active, Open, StillCovered, Attempts, News, NewsOver
    <3>2. /\ Open(b) => CanReleaseBalance(purse, BillTotal)
          /\ StillCovered(b) => CanReleaseLiquidity(till, BillCost)
      BY <1>1, <1>3, <1>4, <2>4, <2>5, <2>6, <2>7, <2>10, <3>1, BillHeld DEF CalmStep, BillInv
    <3>3. Story(b)'
      BY SMTT(30), <1>1, <1>3, <1>4, <2>4, <2>5, <2>6, <2>7, <2>10, <3>1, <3>2, BillHere, MetaTyped,
        FreshFields DEF CalmStep, Story, AskedFor, Active, Due, Agrees, Attempts, WroteBill,
        WroteRetrying
    <3>4. SameTurn(b)
      BY <2>5, <2>6 DEF SameTurn, WroteBill, WroteRetrying
    <3>5. BillFunds'
      <4>1. CASE Open(b) /\ StillCovered(b)
        <5>1. purse' = ReleaseBalance(purse, BillTotal) /\ till' = ReleaseLiquidity(till, BillCost)
          BY <1>1, <1>3, <1>4, <2>4, <2>5, <2>6, <2>7, <2>10, <3>2, <4>1 DEF CalmStep, Story,
            Active, Agrees, Open, StillCovered, RetryGivesUp
        <5>2. ~Open(b)' /\ ~StillCovered(b)' /\ bill'[b].meta.hold # "CONSUMED"
              /\ bill'[b].meta.added = bill[b].meta.added
          BY <1>1, <1>3, <1>4, <2>4, <2>5, <2>6, <2>7, <2>10, <3>2, <4>1 DEF CalmStep, Story,
            Active, Agrees, Open, StillCovered, WroteBill, WroteRetrying
        <5>3. BillTyped
          BY DEF BillInv
        <5>. QED  BY <2>5, <2>9, <2>10, <4>1, <5>1, <5>2, <5>3, FundsFreed DEF CalmStep
      <4>2. CASE bill[b].meta.hold = "RELEASED" /\ bill[b].meta.cover = "RELEASED"
        <5>1. UNCHANGED <<purse, till>>
          BY <1>1, <1>3, <1>4, <2>4, <2>5, <2>6, <2>7, <2>10, <4>2 DEF CalmStep, Story, Active,
            Agrees, RetryGivesUp
        <5>2. SameFunds(b)
          BY <1>1, <1>3, <1>4, <2>4, <2>5, <2>6, <2>7, <2>10, <4>2, <5>1 DEF CalmStep, Story,
            Active, Agrees, Open, StillCovered, SameFunds, WroteBill, WroteRetrying
        <5>. QED  BY <2>9, <2>10, <5>2, FundsKept DEF CalmStep
      <4>. QED  BY <3>1, <4>1, <4>2
    <3>. QED  BY <3>3, <3>4, <3>5
  <2>. QED  BY <1>1, <1>2, <2>8, <2>9, <2>10, BillKept
<1>5. ASSUME RetryGivesUp(b, retrying[b].copy.count + 1),
            ~((retrying[b].copy.hold # "RELEASED" => CanReleaseBalance(purse, BillTotal))
                /\ (retrying[b].copy.cover = "RESERVED" => CanReleaseLiquidity(till, BillCost)))
      PROVE  BillInv'
  <2> DEFINE freed == retrying[b].copy.hold # "RELEASED" /\ CanReleaseBalance(purse, BillTotal)
            uncovered == retrying[b].copy.cover = "RESERVED"
                           /\ CanReleaseLiquidity(till, BillCost)
            M == [retrying[b].copy EXCEPT !.step = "PROVIDER_SUBMIT_RETRY_EXHAUSTED",
                                          !.count = retrying[b].copy.count + 1,
                                          !.hold = IF freed THEN "RELEASED" ELSE @,
                                          !.cover = IF uncovered THEN "RELEASED" ELSE @]
  <2>1. retrying[b].copy \in Metas
    BY <1>1, BillHere
  <2>2. retrying[b].copy.count + 1 \in 0..BillTries
    BY <2>1, <1>3, BillAssumption DEF Metas
  <2>3. M \in Metas
    BY <2>1, <2>2 DEF Metas, Steps
  <2>4. /\ M.step = "PROVIDER_SUBMIT_RETRY_EXHAUSTED"
        /\ M.hold = (IF freed THEN "RELEASED" ELSE retrying[b].copy.hold)
        /\ M.cover = (IF uncovered THEN "RELEASED" ELSE retrying[b].copy.cover)
        /\ M.added = retrying[b].copy.added /\ M.told = retrying[b].copy.told
        /\ M.repair = retrying[b].copy.repair /\ M.count = retrying[b].copy.count + 1
    BY <2>1 DEF Metas
  <2>5. /\ SetBill(b, "PENDING", M)
        /\ SetRetrying(b, "idle", FreshMeta)
        /\ UNCHANGED <<owed, paper, confirming, sale, filling, biller, notices>>
    BY <1>3, <1>5 DEF RetryFail, RetryGivesUp
  <2>. HIDE DEF M
  <2>6. /\ WroteBill(b, "PENDING", bill[b].known, M)
        /\ WroteRetrying(b, "idle", FreshMeta)
    BY <1>1, <1>3, <2>3, <2>5, BillHere, BillWritten, RetryingWritten
  <2>7. purse' \in Wallets /\ till' \in Tills /\ BillsSolvent'
    BY <1>1, <1>3, <1>5, <2>5, FundsTyped, BillTypes DEF BillsSolvent, RetryGivesUp
  <2>8. BillTypeOK' /\ BillsSolvent'
    BY <1>1, <2>5, <2>6, <2>7, BillTypes, BillTypesNext DEF WroteBill, WroteRetrying
  <2>9. Aside(b) /\ Attempts(b)'
    BY <1>1, <1>3, <1>5, <2>4, <2>5, <2>6, <2>7, BillHere DEF Aside, Attempts, Active, News,
      WroteBill, WroteRetrying
  <2>10. ASSUME CalmStep(b) PROVE Story(b)' /\ SameTurn(b) /\ SameFunds(b)
    <3>1. \/ Open(b) /\ StillCovered(b)
          \/ bill[b].meta.hold = "RELEASED" /\ bill[b].meta.cover = "RELEASED"
      BY <1>1, <1>3, <1>5, <2>4, <2>5, <2>6, <2>7, <2>10, BillHere DEF CalmStep, Story, AskedFor,
        Active, Open, StillCovered, Attempts, News, NewsOver
    <3>2. /\ Open(b) => CanReleaseBalance(purse, BillTotal)
          /\ StillCovered(b) => CanReleaseLiquidity(till, BillCost)
      BY <1>1, <1>3, <1>5, <2>4, <2>5, <2>6, <2>7, <2>10, <3>1, BillHeld DEF CalmStep, BillInv
    <3>3. FALSE
      BY <1>1, <1>3, <1>5, <2>4, <2>5, <2>6, <2>7, <2>10, <3>1, <3>2 DEF CalmStep, Story, Active,
        Agrees, Open, StillCovered
    <3>. QED  BY <3>3
  <2>. QED  BY <1>1, <1>2, <2>8, <2>9, <2>10, BillKept
<1>6. ASSUME SetBill(b, "PENDING", [retrying[b].copy EXCEPT !.count = retrying[b].copy.count + 1,
                              !.step = "PROVIDER_SUBMIT_FAILED_RETRYABLE"]),
            UNCHANGED <<purse, till>>
      PROVE  BillInv'
  <2> DEFINE M == [retrying[b].copy EXCEPT !.count = retrying[b].copy.count + 1,
                                           !.step = "PROVIDER_SUBMIT_FAILED_RETRYABLE"]
  <2>1. retrying[b].copy \in Metas
    BY <1>1, BillHere
  <2>2. retrying[b].copy.count + 1 \in 0..BillTries
    BY <2>1, <1>3, BillAssumption DEF Metas
  <2>3. M \in Metas
    BY <2>1, <2>2 DEF Metas, Steps
  <2>4. /\ M.step = "PROVIDER_SUBMIT_FAILED_RETRYABLE" /\ M.hold = retrying[b].copy.hold
        /\ M.cover = retrying[b].copy.cover /\ M.added = retrying[b].copy.added
        /\ M.told = retrying[b].copy.told /\ M.repair = retrying[b].copy.repair
        /\ M.count = retrying[b].copy.count + 1
    BY <2>1 DEF Metas
  <2>5. /\ SetBill(b, "PENDING", M)
        /\ SetRetrying(b, "idle", FreshMeta)
        /\ UNCHANGED <<purse, till, owed, paper, confirming, sale, filling, biller, notices>>
    BY <1>3, <1>6 DEF RetryFail
  <2>. HIDE DEF M
  <2>6. /\ WroteBill(b, "PENDING", bill[b].known, M)
        /\ WroteRetrying(b, "idle", FreshMeta)
    BY <1>1, <1>3, <2>3, <2>5, BillHere, BillWritten, RetryingWritten
  <2>7. BillTypeOK' /\ BillsSolvent'
    BY <1>1, <2>5, <2>6, BillTypes, BillTypesNext DEF WroteBill, WroteRetrying
  <2>8. Aside(b) /\ Attempts(b)'
    BY <1>1, <1>3, <1>6, <2>4, <2>5, <2>6, BillHere DEF Aside, Attempts, Active, News, WroteBill,
      WroteRetrying
  <2>9. ASSUME CalmStep(b) PROVE Story(b)' /\ SameTurn(b) /\ SameFunds(b)
    <3>1. Story(b)'
      BY <1>1, <1>3, <1>6, <2>4, <2>5, <2>6, <2>9, BillHere, MetaTyped, FreshFields DEF CalmStep,
        Story, AskedFor, Active, Due, Agrees, Attempts, WroteBill, WroteRetrying
    <3>2. SameTurn(b) /\ SameFunds(b)
      BY <1>1, <1>3, <1>6, <2>4, <2>5, <2>6, <2>9, BillHere, MetaTyped, FreshFields DEF CalmStep,
        Story, Active, Agrees, Open, StillCovered, SameTurn, SameFunds, WroteBill, WroteRetrying
    <3>. QED  BY <3>1, <3>2
  <2>. QED  BY <1>1, <1>2, <2>7, <2>8, <2>9, BillKept
<1>7. ASSUME UNCHANGED <<purse, till, bill>>
      PROVE  BillInv'
  <2>1. /\ SetRetrying(b, "idle", FreshMeta)
        /\ UNCHANGED <<purse, till, owed, paper, bill, confirming, sale, filling, biller, notices>>
    BY <1>3, <1>7 DEF RetryFail
  <2>2. WroteRetrying(b, "idle", FreshMeta)
    BY <1>1, <1>3, <2>1, BillHere, RetryingWritten
  <2>3. BillTypeOK' /\ BillsSolvent'
    BY <1>1, <2>1, <2>2, BillTypes, BillTypesNext DEF WroteRetrying
  <2>4. Aside(b) /\ Attempts(b)'
    BY <1>1, <1>3, <1>7, <2>1, <2>2, BillHere DEF Aside, Attempts, Active, News, WroteRetrying
  <2>5. ASSUME CalmStep(b) PROVE Story(b)' /\ SameTurn(b) /\ SameFunds(b)
    <3>1. Story(b)'
      BY <1>1, <1>3, <1>7, <2>1, <2>2, <2>5, BillHere, FreshFields DEF CalmStep, Story, AskedFor,
        Active, Due, Agrees, Attempts, WroteRetrying
    <3>2. SameTurn(b) /\ SameFunds(b)
      BY <2>1, <2>2, SameBill
    <3>. QED  BY <3>1, <3>2
  <2>. QED  BY <1>1, <1>2, <2>3, <2>4, <2>5, BillKept
<1>. QED  BY <1>3, <1>4, <1>5, <1>6, <1>7 DEF RetryFail

LEMMA NewsTooLateKept ==
    ASSUME BillInv, NEW b \in Bills, NewsTooLate(b) PROVE BillInv'
<1>1. Budgets /\ BillTypeOK /\ BillsSolvent /\ Attempts(b)
  BY DEF BillInv, BillTyped
<1>2. Budgets' /\ CountsDown
  BY <1>1, BillAssumption, BudgetNoted DEF NewsTooLate
<1>3. /\ notices[b]["success"].at = "waiting" /\ bill[b].meta.told # "COMPLETED"
      /\ bill[b].meta.cover = "RELEASED" \/ bill[b].meta.told = "FAILED"
  BY DEF NewsTooLate, NewsOver, Given
<1> DEFINE M == [bill[b].meta EXCEPT !.told = "SUCCESS_AFTER_RELEASE",
                                     !.step = "MANUAL_RECONCILIATION_REQUIRED"]
<1>4. bill[b].meta \in Metas
  BY <1>1, BillHere
<1>5. M \in Metas
  BY <1>4 DEF Metas, Steps
<1>6. /\ M.step = "MANUAL_RECONCILIATION_REQUIRED" /\ M.hold = bill[b].meta.hold
      /\ M.cover = bill[b].meta.cover /\ M.added = bill[b].meta.added
      /\ M.told = "SUCCESS_AFTER_RELEASE" /\ M.repair = bill[b].meta.repair
      /\ M.count = bill[b].meta.count
  BY <1>4 DEF Metas
<1>7. /\ SetBill(b, "PENDING", M)
      /\ NewsDone(b, "success")
      /\ UNCHANGED <<purse, till, owed, paper, confirming, sale, filling, retrying, biller>>
  BY <1>3 DEF NewsTooLate
<1>. HIDE DEF M
<1>8. /\ WroteBill(b, "PENDING", bill[b].known, M)
      /\ WroteNews(b, "success", "done")
  BY <1>1, <1>3, <1>5, <1>7, BillHere, BillWritten, NewsHandled DEF News
<1>9. BillTypeOK' /\ BillsSolvent'
  BY <1>1, <1>7, <1>8, BillTypes, BillTypesNext DEF WroteBill, WroteNews
<1>10. Aside(b) /\ Attempts(b)'
  BY <1>1, <1>3, <1>6, <1>7, <1>8, BillHere DEF Aside, Attempts, Active, News, WroteBill, WroteNews
<1>11. ASSUME CalmStep(b) PROVE Story(b)' /\ SameTurn(b) /\ SameFunds(b)
  <2>1. ~Overtakes(b)
    BY <1>1, <1>11, BillAssumption DEF CalmStep, BillsCalm, NewsTooLate, Note, NoteAll, Untouched
  <2>2. Story(b)'
    BY SMTT(30), <1>1, <1>3, <1>6, <1>7, <1>8, <1>11, <2>1, BillHere, MetaTyped DEF CalmStep, Story,
      AskedFor, Active, Due, Agrees, Attempts, Overtakes, WroteBill, WroteNews
  <2>3. SameTurn(b) /\ SameFunds(b)
    BY <1>1, <1>3, <1>6, <1>7, <1>8, <1>11, <2>1, BillHere, MetaTyped DEF CalmStep, Story, Active,
      Agrees, Open, StillCovered, AskedFor, Attempts, News, SameTurn, SameFunds, WroteBill,
      WroteNews
  <2>. QED  BY <2>2, <2>3
<1>. QED  BY <1>1, <1>2, <1>9, <1>10, <1>11, BillKept

LEMMA NewsPaidKept ==
    ASSUME BillInv, NEW b \in Bills, NewsPaid(b) PROVE BillInv'
<1>1. Budgets /\ BillTypeOK /\ BillsSolvent /\ Attempts(b)
  BY DEF BillInv, BillTyped
<1>2. Budgets' /\ CountsDown
  BY <1>1, BillAssumption, BudgetNoted, BudgetSame DEF NewsPaid
<1>3. /\ notices[b]["success"].at = "waiting" /\ bill[b].meta.told # "COMPLETED"
      /\ bill[b].meta.cover # "RELEASED" /\ notices[b]["success"].tries > 0
  BY <1>1 DEF NewsPaid, NewsOver, Given, Attempts, News
<1>4. ASSUME /\ CanReleaseBalance(purse, BillTotal) /\ CanConsumeLiquidity(till, BillCost)
               /\ owed >= BillTotal
      PROVE  BillInv'
  <2> DEFINE M == [bill[b].meta EXCEPT !.hold = "CONSUMED",
                                       !.told = "COMPLETED",
                                       !.cover = "CONSUMED",
                                       !.step = "COMPLETED"]
  <2>1. bill[b].meta \in Metas
    BY <1>1, BillHere
  <2>2. M \in Metas
    BY <2>1 DEF Metas, Steps
  <2>3. /\ M.step = "COMPLETED" /\ M.hold = "CONSUMED" /\ M.cover = "CONSUMED"
        /\ M.added = bill[b].meta.added /\ M.told = "COMPLETED"
        /\ M.repair = bill[b].meta.repair /\ M.count = bill[b].meta.count
    BY <2>1 DEF Metas
  <2>4. /\ SetBill(b, "COMPLETED", M)
        /\ NewsDone(b, "success")
        /\ till' = ConsumeReservedLiquidity(till, BillCost)
        /\ owed' = owed - BillTotal
        /\ UNCHANGED <<paper, confirming, sale, filling, retrying, biller>>
    BY <1>3, <1>4 DEF NewsPaid
  <2>. HIDE DEF M
  <2>5. /\ WroteBill(b, "COMPLETED", bill[b].known, M)
        /\ WroteNews(b, "success", "done")
    BY <1>1, <1>3, <2>2, <2>4, BillHere, BillWritten, NewsHandled DEF News
  <2>6. /\ purse' \in Wallets /\ till' \in Tills /\ BillsSolvent' /\ owed' \in Nat
        /\ purse'.base = purse.base - BillTotal /\ purse'.reserved = purse.reserved - BillTotal
    BY <1>1, <1>3, <1>4, <2>4, FundsTyped, PurseDebited, BillTypes, BillAssumption DEF BillsSolvent,
      NewsPaid
  <2>7. BillTypeOK' /\ BillsSolvent'
    BY <1>1, <2>4, <2>5, <2>6, BillTypes, BillTypesNext DEF WroteBill, WroteNews
  <2>8. Aside(b) /\ Attempts(b)'
    BY <1>1, <1>3, <1>4, <2>3, <2>4, <2>5, <2>6, BillHere DEF Aside, Attempts, Active, News,
      WroteBill, WroteNews
  <2>9. ASSUME CalmStep(b) PROVE Story(b)' /\ SameTurn(b) /\ BillFunds'
    <3>1. ~Overtakes(b)
      BY <1>1, <1>4, <2>9, BillAssumption DEF CalmStep, BillsCalm, NewsPaid, Note, NoteAll,
        Untouched
    <3>2. Open(b) /\ StillCovered(b)
      BY <1>1, <1>3, <1>4, <2>3, <2>4, <2>5, <2>6, <2>9, <3>1, BillHere DEF CalmStep, Story,
        AskedFor, Open, StillCovered, Attempts, News
    <3>3. Story(b)'
      BY SMTT(30), <1>1, <1>3, <1>4, <2>3, <2>4, <2>5, <2>6, <2>9, <3>1, <3>2, BillHere, MetaTyped
        DEF CalmStep, Story, AskedFor, Active, Due, Agrees, Attempts, Overtakes, WroteBill,
        WroteNews
    <3>4. SameTurn(b)
      BY <2>4, <2>5 DEF SameTurn, WroteBill, WroteNews
    <3>5. BillFunds'
      <4>1. /\ ~Open(b)' /\ ~StillCovered(b)' /\ bill'[b].meta.hold = "CONSUMED"
            /\ bill'[b].meta.added <=> bill[b].meta.added
        BY <1>1, <1>3, <1>4, <2>3, <2>4, <2>5, <2>6, <2>9, <3>1, <3>2, BillHere, MetaTyped DEF
          CalmStep, Open, StillCovered, Story, AskedFor, Active, Attempts, News, WroteBill,
          WroteNews
      <4>2. BillTyped
        BY DEF BillInv
      <4>. QED  BY <2>4, <2>8, <2>9, <4>1, <4>2, <2>6, <3>2, FundsGone DEF CalmStep
    <3>. QED  BY <3>3, <3>4, <3>5
  <2>. QED  BY <1>1, <1>2, <2>7, <2>8, <2>9, BillKept
<1>5. ASSUME NEW v \in {"waiting", "done"}, v # "done" => notices[b]["success"].tries > 1,
            notices' = [notices EXCEPT ![b]["success"] =
                            [at |-> v, tries |-> notices[b]["success"].tries - 1]],
            UNCHANGED <<purse, till, owed, bill>>
      PROVE  BillInv'
  <2>1. /\ notices' = [notices EXCEPT ![b]["success"] =
                        [at |-> v, tries |-> notices[b]["success"].tries - 1]]
        /\ UNCHANGED <<purse, till, owed, paper, bill, confirming, sale, filling, retrying,
                       biller>>
    BY <1>3, <1>5 DEF NewsPaid
  <2>2. WroteNews(b, "success", v)
    BY <1>1, <1>3, <2>1, <1>5, BillHere, NewsTried DEF News
  <2>3. BillTypeOK' /\ BillsSolvent'
    BY <1>1, <2>1, <2>2, BillTypes, BillTypesNext DEF WroteNews
  <2>4. Aside(b) /\ Attempts(b)'
    BY <1>1, <1>3, <1>5, <2>1, <2>2, BillHere DEF Aside, Attempts, Active, News, WroteNews
  <2>5. ASSUME CalmStep(b) PROVE Story(b)' /\ SameTurn(b) /\ SameFunds(b)
    <3>1. Story(b)'
      BY <1>1, <1>3, <1>5, <2>1, <2>2, <2>5, BillHere DEF CalmStep, Story, AskedFor, Active, Due,
        Agrees, Attempts, WroteNews
    <3>2. SameTurn(b) /\ SameFunds(b)
      BY <2>1, <2>2, SameBill
    <3>. QED  BY <3>1, <3>2
  <2>. QED  BY <1>1, <1>2, <2>3, <2>4, <2>5, BillKept
<1>. QED  BY <1>3, <1>4, <1>5 DEF NewsPaid

LEMMA NewsUnpaidKept ==
    ASSUME BillInv, NEW b \in Bills, NewsUnpaid(b) PROVE BillInv'
<1>1. Budgets /\ BillTypeOK /\ BillsSolvent /\ Attempts(b)
  BY DEF BillInv, BillTyped
<1>2. Budgets' /\ CountsDown
  BY <1>1, BillAssumption, BudgetNoted DEF NewsUnpaid
<1>3. notices[b]["failure"].at = "waiting" /\ bill[b].meta.told # "COMPLETED"
  BY DEF NewsUnpaid, NewsOver
<1> DEFINE freed == bill[b].meta.hold # "RELEASED" /\ CanReleaseBalance(purse, BillTotal)
          uncovered == bill[b].meta.cover = "RESERVED" /\ CanReleaseLiquidity(till, BillCost)
          M == [bill[b].meta EXCEPT !.hold = IF freed THEN "RELEASED" ELSE @,
                                    !.cover = IF uncovered THEN "RELEASED" ELSE @,
                                    !.told = "FAILED",
                                    !.step = "FAILED"]
<1>4. bill[b].meta \in Metas
  BY <1>1, BillHere
<1>5. M \in Metas
  BY <1>4 DEF Metas, Steps
<1>6. /\ M.step = "FAILED" /\ M.hold = (IF freed THEN "RELEASED" ELSE bill[b].meta.hold)
      /\ M.cover = (IF uncovered THEN "RELEASED" ELSE bill[b].meta.cover)
      /\ M.added = bill[b].meta.added /\ M.told = "FAILED"
      /\ M.repair = bill[b].meta.repair /\ M.count = bill[b].meta.count
  BY <1>4 DEF Metas
<1>7. /\ SetBill(b, "FAILED", M)
      /\ NewsDone(b, "failure")
      /\ UNCHANGED <<owed, paper, confirming, sale, filling, retrying, biller>>
  BY <1>3 DEF NewsUnpaid
<1>. HIDE DEF M
<1>8. /\ WroteBill(b, "FAILED", bill[b].known, M)
      /\ WroteNews(b, "failure", "done")
  BY <1>1, <1>3, <1>5, <1>7, BillHere, BillWritten, NewsHandled DEF News
<1>9. purse' \in Wallets /\ till' \in Tills /\ BillsSolvent'
  BY <1>1, <1>3, <1>7, FundsTyped, BillTypes DEF BillsSolvent, NewsUnpaid
<1>10. BillTypeOK' /\ BillsSolvent'
  BY <1>1, <1>7, <1>8, <1>9, BillTypes, BillTypesNext DEF WroteBill, WroteNews
<1>11. Aside(b) /\ Attempts(b)'
  BY <1>1, <1>3, <1>6, <1>7, <1>8, <1>9, BillHere DEF Aside, Attempts, Active, News, WroteBill,
    WroteNews
<1>12. ASSUME CalmStep(b) PROVE Story(b)' /\ SameTurn(b) /\ BillFunds'
  <2>1. ~Overtakes(b)
    BY <1>1, <1>12, BillAssumption DEF CalmStep, BillsCalm, NewsUnpaid, Note, NoteAll, Untouched
  <2>2. \/ Open(b) /\ StillCovered(b)
        \/ bill[b].meta.hold = "RELEASED" /\ bill[b].meta.cover = "RELEASED"
    BY <1>1, <1>3, <1>6, <1>7, <1>8, <1>9, <1>12, <2>1, BillHere DEF CalmStep, Story, AskedFor,
      Active, Open, StillCovered, Attempts, News, NewsOver
  <2>3. /\ Open(b) => CanReleaseBalance(purse, BillTotal)
        /\ StillCovered(b) => CanReleaseLiquidity(till, BillCost)
    BY <1>1, <1>3, <1>6, <1>7, <1>8, <1>9, <1>12, <2>1, <2>2, BillHeld DEF CalmStep, BillInv
  <2>4. Story(b)'
    BY SMTT(30), <1>1, <1>3, <1>6, <1>7, <1>8, <1>9, <1>12, <2>1, <2>2, <2>3, BillHere, MetaTyped
      DEF CalmStep, Story, AskedFor, Active, Due, Agrees, Attempts, Overtakes, WroteBill, WroteNews
  <2>5. SameTurn(b)
    BY <1>7, <1>8 DEF SameTurn, WroteBill, WroteNews
  <2>6. BillFunds'
    <3>1. CASE Open(b) /\ StillCovered(b)
      <4>1. purse' = ReleaseBalance(purse, BillTotal) /\ till' = ReleaseLiquidity(till, BillCost)
        BY <1>1, <1>3, <1>6, <1>7, <1>8, <1>9, <1>12, <2>3, <3>1 DEF CalmStep, Story, Active,
          Agrees, Open, StillCovered, NewsUnpaid
      <4>2. ~Open(b)' /\ ~StillCovered(b)' /\ bill'[b].meta.hold # "CONSUMED"
            /\ bill'[b].meta.added = bill[b].meta.added
        BY <1>1, <1>3, <1>6, <1>7, <1>8, <1>9, <1>12, <2>3, <3>1 DEF CalmStep, Story, Active,
          Agrees, Open, StillCovered, WroteBill, WroteNews
      <4>3. BillTyped
        BY DEF BillInv
      <4>. QED  BY <1>7, <1>11, <1>12, <3>1, <4>1, <4>2, <4>3, FundsFreed DEF CalmStep
    <3>2. CASE bill[b].meta.hold = "RELEASED" /\ bill[b].meta.cover = "RELEASED"
      <4>1. UNCHANGED <<purse, till>>
        BY <1>1, <1>3, <1>6, <1>7, <1>8, <1>9, <1>12, <3>2 DEF CalmStep, Story, Active, Agrees,
          NewsUnpaid
      <4>2. SameFunds(b)
        BY <1>1, <1>3, <1>6, <1>7, <1>8, <1>9, <1>12, <3>2, <4>1 DEF CalmStep, Story, Active,
          Agrees, Open, StillCovered, SameFunds, WroteBill, WroteNews
      <4>. QED  BY <1>11, <1>12, <4>2, FundsKept DEF CalmStep
    <3>. QED  BY <2>2, <3>1, <3>2
  <2>. QED  BY <2>4, <2>5, <2>6
<1>. QED  BY <1>1, <1>2, <1>10, <1>11, <1>12, BillKept

LEMMA NewsPendingKept ==
    ASSUME BillInv, NEW b \in Bills, NewsPending(b) PROVE BillInv'
<1>1. Budgets /\ BillTypeOK /\ BillsSolvent /\ Attempts(b)
  BY DEF BillInv, BillTyped
<1>2. Budgets' /\ CountsDown
  BY <1>1, BillAssumption, BudgetNotedAll DEF NewsPending
<1>3. notices[b]["pending"].at = "waiting" /\ bill[b].meta.told # "COMPLETED"
  BY DEF NewsPending, NewsOver
<1> DEFINE M == [bill[b].meta EXCEPT !.told = "PENDING", !.step = "PENDING"]
<1>4. bill[b].meta \in Metas
  BY <1>1, BillHere
<1>5. M \in Metas
  BY <1>4 DEF Metas, Steps
<1>6. /\ M.step = "PENDING" /\ M.hold = bill[b].meta.hold /\ M.cover = bill[b].meta.cover
      /\ M.added = bill[b].meta.added /\ M.told = "PENDING"
      /\ M.repair = bill[b].meta.repair /\ M.count = bill[b].meta.count
  BY <1>4 DEF Metas
<1>7. /\ SetBill(b, "PENDING", M)
      /\ NewsDone(b, "pending")
      /\ UNCHANGED <<purse, till, owed, paper, confirming, sale, filling, retrying, biller>>
  BY <1>3 DEF NewsPending
<1>. HIDE DEF M
<1>8. /\ WroteBill(b, "PENDING", bill[b].known, M)
      /\ WroteNews(b, "pending", "done")
  BY <1>1, <1>3, <1>5, <1>7, BillHere, BillWritten, NewsHandled DEF News
<1>9. BillTypeOK' /\ BillsSolvent'
  BY <1>1, <1>7, <1>8, BillTypes, BillTypesNext DEF WroteBill, WroteNews
<1>10. Aside(b) /\ Attempts(b)'
  BY <1>1, <1>3, <1>6, <1>7, <1>8, BillHere DEF Aside, Attempts, Active, News, WroteBill, WroteNews
<1>11. ASSUME CalmStep(b) PROVE Story(b)' /\ SameTurn(b) /\ SameFunds(b)
  <2>1. ~Overtakes(b)
    BY <1>1, <1>11, BillAssumption DEF CalmStep, BillsCalm, NewsPending, NoteAll, Untouched
  <2>2. Story(b)'
    BY SMTT(30), <1>1, <1>3, <1>6, <1>7, <1>8, <1>11, <2>1, BillHere, MetaTyped DEF CalmStep, Story,
      AskedFor, Active, Due, Agrees, Attempts, Overtakes, WroteBill, WroteNews
  <2>3. SameTurn(b) /\ SameFunds(b)
    BY <1>1, <1>3, <1>6, <1>7, <1>8, <1>11, <2>1, BillHere, MetaTyped DEF CalmStep, Story, Active,
      Agrees, Open, StillCovered, AskedFor, Attempts, News, SameTurn, SameFunds, WroteBill,
      WroteNews
  <2>. QED  BY <2>2, <2>3
<1>. QED  BY <1>1, <1>2, <1>9, <1>10, <1>11, BillKept

LEMMA NewsSkipKept ==
    ASSUME BillInv, NEW b \in Bills, NEW k \in News, NewsSkip(b, k) PROVE BillInv'
<1>1. Budgets /\ BillTypeOK /\ BillsSolvent /\ Attempts(b)
  BY DEF BillInv, BillTyped
<1>2. Budgets' /\ CountsDown
  BY <1>1, BillAssumption, BudgetSame DEF NewsSkip
<1>3. notices[b][k].at = "waiting"
  BY DEF NewsSkip
<1>4. /\ NewsDone(b, k)
      /\ UNCHANGED <<purse, till, owed, paper, bill, confirming, sale, filling, retrying,
                     biller>>
  BY <1>3 DEF NewsSkip
<1>5. WroteNews(b, k, "done")
  BY <1>1, <1>3, <1>4, BillHere, NewsHandled
<1>6. BillTypeOK' /\ BillsSolvent'
  BY <1>1, <1>4, <1>5, BillTypes, BillTypesNext DEF WroteNews
<1>7. Aside(b) /\ Attempts(b)'
  BY <1>1, <1>3, <1>4, <1>5, BillHere DEF Aside, Attempts, Active, News, WroteNews
<1>8. ASSUME CalmStep(b) PROVE Story(b)' /\ SameTurn(b) /\ SameFunds(b)
  <2>1. Story(b)'
    BY <1>1, <1>3, <1>4, <1>5, <1>8, BillHere DEF CalmStep, Story, AskedFor, Active, Due, Agrees,
      Attempts, WroteNews
  <2>2. SameTurn(b) /\ SameFunds(b)
    BY <1>4, <1>5, SameBill
  <2>. QED  BY <2>1, <2>2
<1>. QED  BY <1>1, <1>2, <1>6, <1>7, <1>8, BillKept

LEMMA NewsRedoKept ==
    ASSUME BillInv, NEW b \in Bills, NEW k \in News, NewsRedo(b, k) PROVE BillInv'
<1>1. Budgets /\ BillTypeOK /\ BillsSolvent /\ Attempts(b)
  BY DEF BillInv, BillTyped
<1>2. Budgets' /\ CountsDown
  BY <1>1, BillAssumption, BudgetSpent DEF NewsRedo
<1>3. notices[b][k].at = "done" /\ notices[b][k].tries > 1
  BY DEF NewsRedo
<1>4. /\ notices' = [notices EXCEPT ![b][k] = [at |-> "waiting",
                                              tries |-> notices[b][k].tries - 1]]
      /\ UNCHANGED <<purse, till, owed, paper, bill, confirming, sale, filling, retrying,
                     biller>>
  BY <1>3 DEF NewsRedo
<1>5. WroteNews(b, k, "waiting")
  BY <1>1, <1>3, <1>4, BillHere, NewsTried
<1>6. BillTypeOK' /\ BillsSolvent'
  BY <1>1, <1>4, <1>5, BillTypes, BillTypesNext DEF WroteNews
<1>7. Aside(b) /\ Attempts(b)'
  BY <1>1, <1>3, <1>4, <1>5, BillHere DEF Aside, Attempts, Active, News, WroteNews
<1>8. ASSUME CalmStep(b) PROVE Story(b)' /\ SameTurn(b) /\ SameFunds(b)
  <2>1. Story(b)'
    BY <1>1, <1>3, <1>4, <1>5, <1>8, BillHere DEF CalmStep, Story, AskedFor, Active, Due, Agrees,
      Attempts, WroteNews
  <2>2. SameTurn(b) /\ SameFunds(b)
    BY <1>4, <1>5, SameBill
  <2>. QED  BY <2>1, <2>2
<1>. QED  BY <1>1, <1>2, <1>6, <1>7, <1>8, BillKept

\* A crash drops what confirmations, jobs and the scheduler had in hand.
LEMMA BillCrashKept ==
    ASSUME BillInv, BillCrash PROVE BillInv'
<1>1. Budgets /\ BillTypeOK /\ BillsSolvent /\ \A b \in Bills : Attempts(b)
  BY DEF BillInv, BillTyped
<1>2. Budgets' /\ CountsDown /\ ~Untouched({"twice", "crash", "undeleted"})'
  BY <1>1, BillAssumption, BudgetSpent DEF BillCrash
<1>3. UNCHANGED <<purse, till, owed, paper, bill, sale, biller, notices>>
  BY DEF BillCrash
<1>4. FreshMeta \in Metas
  BY BillAssumption DEF FreshMeta, Metas, Steps
<1>5. \A b \in Bills : /\ confirming'[b] = IF confirming[b] = "new" THEN "new" ELSE "done"
                       /\ filling'[b].pc = "idle" /\ retrying'[b].pc = "idle"
  BY DEF BillCrash, AtRest
<1>6. BillTypeOK' /\ BillsSolvent'
  BY <1>4, <1>1, <1>3, BillTypes, BillTypesNext DEF BillCrash, Confirmations, AtRest, Fillings,
    Retryings
<1>7. ASSUME NEW b \in Bills PROVE Attempts(b)'
  BY <1>1, <1>3, <1>5 DEF Attempts, Active
<1>8. BillTyped'
  BY <1>2, <1>6, <1>7 DEF BillTyped
<1>9. ASSUME BillsCalm' PROVE BillTold'
  <2>1. BillTold /\ (Untouched({"error"})' => Untouched({"error"}))
    BY <1>1, <1>2, <1>9, UntouchedBack, BillAssumption DEF BillInv, BillsCalm
  <2>2. ASSUME NEW b \in Bills PROVE Story(b)'
    BY <1>3, <1>5, <2>1 DEF BillTold, Story, AskedFor, Active, Due, Agrees
  <2>3. OneConfirmed'
    BY <1>2 DEF OneConfirmed
  <2>4. BillFunds'
    BY <1>3, <2>1 DEF BillTold, BillFunds, OpenBills, CoveredBills, Open, StillCovered, Paid,
      Brought
  <2>. QED  BY <2>2, <2>3, <2>4 DEF BillTold
<1>. QED  BY <1>8, <1>9 DEF BillInv

LEMMA BillInvInit == BillsInit /\ budget = Budget => BillInv
<1>. SUFFICES ASSUME BillsInit, budget = Budget PROVE BillInv
  OBVIOUS
<1>1. Budgets
  BY MishapsAssumption DEF Budgets
<1>2. FreshMeta \in Metas
  BY BillAssumption DEF FreshMeta, Metas, Steps
<1>3. BillTypeOK /\ BillsSolvent
  BY BillAssumption, <1>2 DEF BillsInit, BillTypeOK, BillsSolvent, WalletSolvent, CompanySolvent,
    Wallets, AtRest
<1>4. ASSUME NEW b \in Bills
      PROVE  /\ bill[b].status = "none" /\ ~bill[b].known /\ bill[b].meta = FreshMeta
             /\ confirming[b] = "new" /\ biller[b] = "none" /\ sale[b].at = "none"
             /\ sale[b].event = "none" /\ sale[b].tries > 0
             /\ filling[b].pc = "idle" /\ retrying[b].pc = "idle"
             /\ \A k \in News : notices[b][k].at = "none" /\ notices[b][k].tries > 0
  BY BillAssumption DEF BillsInit, AtRest
<1>5. \A b \in Bills : Attempts(b)
  BY <1>4 DEF Attempts, Active, News
<1>6. \A b \in Bills : Story(b)
  BY <1>4, FreshFields DEF Story, AskedFor, Active, Due
<1>7. OneConfirmed
  BY <1>4 DEF OneConfirmed, UnderWay
<1>8. BillFunds
  <2>1. OpenBills = {} /\ CoveredBills = {} /\ Paid = {} /\ Brought = {}
    BY <1>4, FreshFields DEF OpenBills, CoveredBills, Paid, Brought, Open, StillCovered
  <2>2. \A n \in Nat : Times(n, {}) = 0
    BY FS_EmptySet DEF Times
  <2>. QED  BY <2>1, <2>2, BillAssumption DEF BillsInit, BillFunds
<1>. QED  BY <1>1, <1>3, <1>5, <1>6, <1>7, <1>8 DEF BillInv, BillTyped, BillTold

LEMMA BillInvNext == BillInv /\ [BillsNext]_billVars => BillInv'
<1>. SUFFICES ASSUME BillInv, [BillsNext]_billVars PROVE BillInv'
  OBVIOUS
<1>1. CASE UNCHANGED billVars
  BY <1>1 DEF billVars, BillInv, BillTyped, Budgets, BillTypeOK, BillsSolvent, WalletSolvent,
    CompanySolvent, Attempts, Active, BillsCalm, Untouched, BillTold, Story, AskedFor, Due, Agrees,
    OneConfirmed, UnderWay, BillFunds, OpenBills, CoveredBills, Paid, Brought, Open, StillCovered
<1>2. ASSUME NEW b \in Bills,
             \/ BillHold(b) \/ BillPost(b) \/ BillRecord(b) \/ BillForget(b)
             \/ BillUnsaved(b) \/ BillGiveUp(b) \/ BillerEnds(b) \/ BillerWaits(b)
      PROVE  BillInv'
  BY <1>2, BillHoldKept, BillPostKept, BillRecordKept, BillForgetKept, BillUnsavedKept,
    BillGiveUpKept, BillerEndsKept, BillerWaitsKept
<1>3. ASSUME NEW b \in Bills,
             \/ OrderEnds(b) \/ OrderEventAgain(b) \/ FillDrop(b) \/ FillCancelled(b)
             \/ FillAdd(b) \/ FillPay(b) \/ FillSave(b) \/ FillFail(b)
      PROVE  BillInv'
  BY <1>3, OrderEndsKept, OrderEventAgainKept, FillDropKept, FillCancelledKept, FillAddKept,
    FillPayKept, FillSaveKept, FillFailKept
<1>4. ASSUME NEW b \in Bills,
             \/ RepairSelect(b) \/ Repair(b) \/ RetryClaim(b) \/ RetryPay(b)
             \/ RetrySave(b) \/ RetryFail(b)
      PROVE  BillInv'
  BY <1>4, RepairSelectKept, RepairKept, RetryClaimKept, RetryPayKept, RetrySaveKept, RetryFailKept
<1>5. ASSUME NEW b \in Bills,
             \/ NewsTooLate(b) \/ NewsPaid(b) \/ NewsUnpaid(b) \/ NewsPending(b)
             \/ \E k \in News : NewsSkip(b, k) \/ NewsRedo(b, k)
      PROVE  BillInv'
  BY <1>5, NewsTooLateKept, NewsPaidKept, NewsUnpaidKept, NewsPendingKept, NewsSkipKept,
    NewsRedoKept
<1>. QED  BY <1>1, <1>2, <1>3, <1>4, <1>5, BillCrashKept DEF BillsNext

\* Types: whatever of the mishaps strikes, no job is run more often than it may be, the
\* scheduler asks no more than BillTries times, and what the company owes stays natural.
THEOREM BillsTyped == BillSpec => []BillTypeOK
<1>1. BillInv => BillTypeOK
  BY DEF BillInv, BillTyped
<1>. QED  BY <1>1, BillInvInit, BillInvNext, PTL DEF BillSpec

\* Neither the wallet nor the company's naira is held beyond what is there, even where the
\* order's job, the scheduler and Xpresspay's webhook write over each other.
THEOREM BillsAlwaysSolvent == BillSpec => []BillsSolvent
<1>1. BillInv => BillsSolvent
  BY DEF BillInv, BillTyped
<1>. QED  BY <1>1, BillInvInit, BillInvNext, PTL DEF BillSpec

\* The wallet and the company's naira hold what the open bills need and have given what the
\* paid ones cost, whichever of confirmation, order's job, scheduler and Xpresspay's webhook
\* came first: for any number of confirmations, any amounts and any number of attempts.
THEOREM BillsAlwaysBooked == BillSpec => []BillBooks
<1>1. BillInv => BillBooks
  <2>. SUFFICES ASSUME BillInv, BillsCalm PROVE BillBooks
    BY DEF BillBooks, BillsCalm
  <2>1. BillTypeOK /\ (\A b \in Bills : Story(b)) /\ OneConfirmed /\ BillFunds
    BY DEF BillInv, BillTyped, BillTold
  <2>2. /\ purse = [base |-> PurseBase - Times(BillTotal, Paid),
                    reserved |-> PurseHeld + Times(BillTotal, {b \in Bills : Open(b)})]
        /\ till = [total |-> NairaTotal + Times(BillSold, Brought) - Times(BillCost, Paid),
                    reserved |-> NairaHeld + Times(BillCost, {b \in Bills : StillCovered(b)})]
        /\ owed = CoinOwed - Times(BillTotal, Paid)
    BY <2>1 DEF BillTypeOK, Wallets, BillFunds, OpenBills, CoveredBills
  <2>3. ASSUME NEW b \in Paid
        PROVE  biller[b] = "paid" /\ (Untouched({"error"}) => b \in Brought)
    BY <2>1, BillHere DEF Paid, Story, AskedFor, Brought
  <2>4. ASSUME NEW b \in Bills, NEW c \in Bills, b # c, biller[b] = "paid", biller[c] = "paid"
        PROVE  ~Untouched({"twice", "crash", "undeleted"})
    BY <2>1, <2>4 DEF Story, AskedFor, OneConfirmed
  <2>. QED  BY <2>2, <2>3, <2>4 DEF BillBooks
<1>. QED  BY <1>1, BillInvInit, BillInvNext, PTL DEF BillSpec
===========================================================================
