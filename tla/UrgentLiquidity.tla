--------------------------- MODULE UrgentLiquidity ---------------------------
(***************************************************************************)
(* Urgent liquidity: a user is lent naira, and collateral from the user's  *)
(* wallet is sold at Quidax for it (urgent-liquidity.service.ts, the loan  *)
(* branches of order-done.handler.ts and payment-status.handler.ts). All   *)
(* loans here take the same collateral from one wallet.                    *)
(*                                                                         *)
(* Nothing is held between the quotation and the order's webhook. That     *)
(* webhook settles in one database transaction which calls Paystack before *)
(* it commits: the transfer stays when the transaction does not.           *)
(***************************************************************************)
EXTENDS Ledger, Mishaps, Sequences, FiniteSets

CONSTANTS Loans,
          Ask,            \* naira asked for, of each loan
          Rate,           \* naira for a unit of the collateral
          CollateralBase, \* what the wallet has of it
          CryptoInternal, \* what the company may owe its users of it
          Elsewhere,      \* what another service takes from the wallet
          LoanAttempts    \* how often a webhook's job is run (10 in the code)

ASSUME LoanAssumption ==
    /\ Ask \in [Loans -> Nat \ {0}] /\ Rate \in Nat \ {0}
    /\ CollateralBase \in Nat /\ CryptoInternal \subseteq Nat
    /\ Elsewhere \in Nat /\ LoanAttempts \in Nat \ {0}
    /\ IsFiniteSet(Loans) /\ 0 \notin Loans
    /\ {"lostAnswer", "refusal", "error", "again", "spentElsewhere", "timeout",
        "transferFailed", "crash", "early", "shared", "raced"} \subseteq Kinds
    /\ Budget["raced"] > 0

VARIABLES
    collateral, \* the wallet: baseBalance and loanCollateralAmount
    coLoan,     \* internalBalance of the company: the collateral and naira
    loan,       \* rows of "urgent_liquidity_loans"
    asking,     \* how far the user's requests for it are
    sales,      \* sell orders at Quidax, with their webhook and its tries left
    transfer,   \* transfers at Paystack, with their webhook
    checked,    \* loans whose transaction has found internalBalance large enough
    paying      \* the transaction that has the rows of wallet and company locked

loanVars == <<collateral, coLoan, loan, asking, sales, transfer, checked, paying, budget>>

NoOne == [loan |-> 0, transfer |-> 0]

LoanTypeOK ==
    /\ collateral \in [base : Nat, kept : Nat]
    /\ coLoan \in [crypto : Int, naira : Nat]
    /\ loan \in [Loans -> [status : {"none", "PENDING", "PAYSTACK_COMPLETED",
                                     "DISBURSED", "FAILED"},
                           known : BOOLEAN, transfer : Nat]]
    /\ asking \in [Loans -> {"new", "quoted", "created", "posted", "failed",
                             "done"}]
    /\ sales \in [Loans -> [at : {"none", "open", "sold", "cancelled"},
                            event : {"none", "waiting", "done"},
                            tries : 0..LoanAttempts]]
    /\ \A t \in DOMAIN transfer : transfer[t] \in
          [loan : Loans, at : {"open", "success", "failed"}, heard : BOOLEAN]
    /\ checked \in SUBSET Loans
    /\ paying = NoOne \/ paying \in [loan : Loans, transfer : Nat]

LoanInit ==
    /\ collateral = [base |-> CollateralBase, kept |-> 0]
    /\ coLoan \in [crypto : CryptoInternal, naira : {0}]
    /\ loan = [l \in Loans |-> [status |-> "none", known |-> FALSE,
                                transfer |-> 0]]
    /\ asking = [l \in Loans |-> "new"]
    /\ sales = [l \in Loans |-> [at |-> "none", event |-> "none",
                                 tries |-> LoanAttempts]]
    /\ transfer = <<>> /\ checked = {} /\ paying = NoOne

\* Sold for a loan, in units of the collateral rounded down; and the part of it
\* that loanCollateralAmount says is kept.
Pledge(l) == Ask[l] \div Rate
KeptOf(l) == (Pledge(l) * 20) \div 30

SetAsking(l, pc) == asking' = [asking EXCEPT ![l] = pc]
---------------------------------------------------------------------------
(* quote, preview and confirm                                              *)

\* The wallet's whole balance counts, whatever other loans will take of it.
LoanQuote(l) ==
    /\ asking[l] = "new" /\ 2 * Ask[l] <= collateral.base * Rate
    /\ SetAsking(l, "quoted")
    /\ UNCHANGED <<collateral, coLoan, loan, sales, transfer, checked, paying, budget>>

\* A withdrawal, say: what the loans count on is nobody's.
LoanWalletUsed ==
    /\ paying = NoOne /\ collateral.base >= Elsewhere /\ Spend("spentElsewhere")
    /\ collateral' = [collateral EXCEPT !.base = @ - Elsewhere]
    /\ UNCHANGED <<coLoan, loan, asking, sales, transfer, checked, paying>>

LoansPending == {k \in Loans : loan[k].status = "PENDING"}

\* The row comes first. The wallet is not looked at again: "shared" says that it,
\* or what the company's books owe, is less than what is asked of it by now.
LoanConfirm(l) ==
    LET asked == SumFunctionOnSet([k \in Loans |-> Pledge(k)], LoansPending \cup {l})
    IN
    /\ asking[l] = "quoted"
    /\ SetAsking(l, "created")
    /\ loan' = [loan EXCEPT ![l].status = "PENDING"]
    /\ Note(asked > collateral.base \/ asked > coLoan.crypto, "shared")
    /\ UNCHANGED <<collateral, coLoan, sales, transfer, checked, paying>>

LoanPost(l) ==
    /\ asking[l] = "created"
    /\ \/ /\ sales' = [sales EXCEPT ![l].at = "open"]
          /\ \/ SetAsking(l, "posted") /\ UNCHANGED budget
             \/ SetAsking(l, "failed") /\ Spend("lostAnswer")
       \/ SetAsking(l, "failed") /\ Spend("refusal") /\ UNCHANGED sales
    /\ UNCHANGED <<collateral, coLoan, loan, transfer, checked, paying>>

LoanRecord(l) ==
    /\ asking[l] = "posted"
    /\ \/ /\ loan' = [loan EXCEPT ![l].known = TRUE]
          /\ SetAsking(l, "done") /\ UNCHANGED budget
       \/ SetAsking(l, "failed") /\ Spend("error") /\ UNCHANGED loan
    /\ UNCHANGED <<collateral, coLoan, sales, transfer, checked, paying>>

\* Also when the order was placed.
LoanGiveUp(l) ==
    /\ asking[l] = "failed"
    /\ loan' = [loan EXCEPT ![l].status = "FAILED"]
    /\ SetAsking(l, "done")
    /\ UNCHANGED <<collateral, coLoan, sales, transfer, checked, paying, budget>>
---------------------------------------------------------------------------
(* The order's webhook                                                     *)

LoanOrderEnds(l) ==
    /\ sales[l].at = "open"
    /\ \E end \in {"sold", "cancelled"} :
          /\ sales' = [sales EXCEPT ![l].at = end, ![l].event = "waiting"]
          /\ IF end = "cancelled" THEN Spend("refusal") ELSE UNCHANGED budget
    /\ UNCHANGED <<collateral, coLoan, loan, asking, transfer, checked, paying>>

\* Delivered once more, to a job that is gone from the queue.
LoanEventAgain(l) ==
    /\ sales[l].event = "done" /\ Spend("again")
    /\ sales' = [sales EXCEPT ![l].event = "waiting", ![l].tries = LoanAttempts]
    /\ UNCHANGED <<collateral, coLoan, loan, asking, transfer, checked, paying>>

\* Mutation of LastLoanTry: an error is not tried again.
OnlyLoanTry(l) == TRUE

LastLoanTry(l) == sales[l].tries = 1

Handled(l) == sales' = [sales EXCEPT ![l].event = "done"]
LoanThrows(l) ==
    sales' = [sales EXCEPT ![l].event = IF LastLoanTry(l) THEN "done" ELSE "waiting",
                           ![l].tries = @ - 1]

\* Mutation of Payable: a loan that has its transfer gets another.
PayableAnyway(l) == loan[l].status \in {"PENDING", "PAYSTACK_COMPLETED"}

Payable(l) == loan[l].status = "PENDING" /\ loan[l].transfer = 0

\* A webhook that finds no loan with its order's id is dropped. The transaction
\* locks the loan's row and reads the company's, which others may be about to
\* change: "raced" says that one was.
LoanWebhook(l) ==
    /\ sales[l].event = "waiting" /\ paying.loan # l /\ l \notin checked
    /\ \/ /\ ~loan[l].known \/ ~Payable(l)
          /\ Handled(l) /\ Note(~loan[l].known, "early")
          /\ UNCHANGED <<loan, checked>>
       \/ /\ loan[l].known /\ Payable(l) /\ sales[l].at = "cancelled"
          /\ loan' = [loan EXCEPT ![l].status = "FAILED"]
          /\ Handled(l) /\ UNCHANGED <<checked, budget>>
       \/ /\ loan[l].known /\ Payable(l) /\ sales[l].at = "sold"
          /\ IF coLoan.crypto >= Pledge(l)
             THEN /\ checked' = checked \cup {l}
                  /\ Note(checked # {} \/ paying # NoOne, "raced")
                  /\ UNCHANGED sales
             ELSE LoanThrows(l) /\ UNCHANGED <<checked, budget>>
          /\ UNCHANGED loan
    /\ UNCHANGED <<collateral, coLoan, asking, transfer, paying>>

\* The decrement waits for the company's row, and is not conditional; that of the
\* wallet is. Nothing is seen of either before the commit.
LoanLock(l) ==
    /\ l \in checked /\ checked' = checked \ {l}
    /\ \/ /\ paying = NoOne /\ collateral.base >= Pledge(l)
          /\ paying' = [loan |-> l, transfer |-> 0]
          /\ UNCHANGED <<sales, budget>>
       \/ /\ \/ paying = NoOne /\ collateral.base < Pledge(l) /\ UNCHANGED budget
             \/ Spend("timeout")
          /\ LoanThrows(l) /\ UNCHANGED paying
    /\ UNCHANGED <<collateral, coLoan, loan, asking, transfer>>

\* The transfer carries no reference of ours: a second one is a second payment.
LoanPay(l) ==
    LET sent == Append(transfer, [loan |-> l, at |-> "open", heard |-> FALSE])
    IN  /\ paying = [loan |-> l, transfer |-> 0]
        /\ \/ /\ transfer' = sent /\ paying' = [paying EXCEPT !.transfer = Len(sent)]
              /\ UNCHANGED <<sales, budget>>
           \/ /\ transfer' = sent /\ Spend("lostAnswer")
              /\ paying' = NoOne /\ LoanThrows(l)
           \/ /\ transfer' = transfer /\ Spend("refusal")
              /\ paying' = NoOne /\ LoanThrows(l)
    /\ UNCHANGED <<collateral, coLoan, loan, asking, checked>>

\* The transaction is over, or has taken longer than it may and is undone.
LoanCommit(l) ==
    /\ paying.loan = l /\ paying.transfer # 0
    /\ paying' = NoOne
    /\ \/ /\ collateral' = [base |-> collateral.base - Pledge(l),
                            kept |-> collateral.kept + KeptOf(l)]
          /\ coLoan' = [crypto |-> coLoan.crypto - Pledge(l),
                        naira |-> coLoan.naira + Pledge(l) * Rate]
          /\ loan' = [loan EXCEPT ![l].status = "PAYSTACK_COMPLETED",
                                  ![l].transfer = paying.transfer]
          /\ Handled(l) /\ UNCHANGED budget
       \/ /\ Spend("timeout") /\ LoanThrows(l)
          /\ UNCHANGED <<collateral, coLoan, loan>>
    /\ UNCHANGED <<asking, transfer, checked>>
---------------------------------------------------------------------------
(* The transfer's webhook                                                  *)

LoanTransferEnds(t) ==
    /\ transfer[t].at = "open"
    /\ \/ transfer' = [transfer EXCEPT ![t].at = "success"] /\ UNCHANGED budget
       \/ transfer' = [transfer EXCEPT ![t].at = "failed"] /\ Spend("transferFailed")
    /\ UNCHANGED <<collateral, coLoan, loan, asking, sales, checked, paying>>

\* A success counts only for a loan whose status is QUIDAX_COMPLETED, which no
\* committed row ever has; a failure gives nothing back.
LoanTransferHeard(t) ==
    LET found == {l \in Loans : loan[l].transfer = t}
        failed == {l \in found : loan[l].status = "PAYSTACK_COMPLETED"}
    IN  /\ transfer[t].at # "open" /\ ~transfer[t].heard
        /\ \A l \in found : paying.loan # l
        /\ transfer' = [transfer EXCEPT ![t].heard = TRUE]
        /\ loan' = IF transfer[t].at = "failed"
                   THEN [l \in Loans |-> IF l \in failed
                                         THEN [loan[l] EXCEPT !.status = "FAILED"]
                                         ELSE loan[l]]
                   ELSE loan
        /\ UNCHANGED <<collateral, coLoan, asking, sales, checked, paying, budget>>

\* The process dies; the queue hands out its job again, a request is lost.
LoanCrash ==
    /\ Spend("crash")
    /\ paying' = NoOne /\ checked' = {}
    /\ asking' = [l \in Loans |-> IF asking[l] \in {"new", "quoted"}
                                  THEN asking[l] ELSE "done"]
    /\ UNCHANGED <<collateral, coLoan, loan, sales, transfer>>

LoanNext ==
    \/ \E l \in Loans : \/ LoanQuote(l) \/ LoanConfirm(l) \/ LoanPost(l)
                        \/ LoanRecord(l) \/ LoanGiveUp(l)
                        \/ LoanOrderEnds(l) \/ LoanEventAgain(l)
                        \/ LoanWebhook(l) \/ LoanLock(l)
                        \/ LoanPay(l) \/ LoanCommit(l)
    \/ \E t \in DOMAIN transfer : LoanTransferEnds(t) \/ LoanTransferHeard(t)
    \/ LoanWalletUsed \/ LoanCrash

\* Loans alone, with the whole budget to themselves.
LoanSpec == LoanInit /\ budget = Budget /\ [][LoanNext]_loanVars

\* The workers go on with what is in the queue, and with what they began.
LoanFairness ==
    WF_loanVars(/\ Of("loans")
                /\ \E l \in Loans : \/ LoanWebhook(l) \/ LoanLock(l)
                                     \/ LoanPay(l) \/ LoanCommit(l))
---------------------------------------------------------------------------
(***************************************************************************)
(* Properties                                                              *)
(***************************************************************************)
LoanSettled == {l \in Loans : loan[l].transfer # 0}
PaymentsOf(l) == {t \in DOMAIN transfer :
                     transfer[t].loan = l /\ transfer[t].at # "failed"}

\* The wallet and the company's books have given what the settled loans sold and
\* nothing else; naira went only to loans whose collateral was sold, and once,
\* unless a transaction was undone after it had paid; and a loan that failed
\* before it was paid has sold nothing, unless its order's answer was lost or
\* could not be written down. The company does not owe less than nothing, unless
\* two transactions have read what it owes before either took its part.
LoanBooks ==
    LET sold == SumFunctionOnSet([l \in Loans |-> Pledge(l)], LoanSettled)
        kept == SumFunctionOnSet([l \in Loans |-> KeptOf(l)], LoanSettled)
        spent == Elsewhere * (Budget["spentElsewhere"] - budget["spentElsewhere"])
    IN  /\ collateral = [base |-> CollateralBase - sold - spent, kept |-> kept]
        /\ coLoan.crypto + sold \in CryptoInternal /\ coLoan.naira = sold * Rate
        /\ Untouched({"raced"}) => coLoan.crypto >= 0
        /\ \A l \in Loans :
             /\ PaymentsOf(l) # {} => sales[l].at = "sold"
             /\ Untouched({"timeout", "lostAnswer", "crash"}) =>
                  \A t, u \in PaymentsOf(l) : t = u
             /\ /\ Untouched({"lostAnswer", "error"})
                /\ loan[l].status = "FAILED" /\ l \notin LoanSettled
                => sales[l].at \in {"none", "cancelled"}

\* Collateral that was sold for a loan is paid for, although a few calls fail;
\* unless the order's webhook came before its id was written down, or more was
\* asked of the wallet or of the books, by loans or by others, than they have.
LoansPaid ==
    \A l \in Loans :
        sales[l].at = "sold" /\ loan[l].known
          => l \in LoanSettled \/ ~Untouched({"early", "shared", "spentElsewhere"})
=============================================================================
