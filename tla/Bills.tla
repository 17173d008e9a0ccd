-------------------------------- MODULE Bills --------------------------------
(***************************************************************************)
(* Bills paid from a USDT wallet: a confirmation holds the wallet and the  *)
(* company's naira and sells the crypto (bills.service.ts); the order's    *)
(* webhook adds the proceeds and asks Xpresspay to pay (the bill branch of *)
(* order-done.handler.ts); Xpresspay's webhook settles the holds           *)
(* (xpresspay-webhook.handler.ts); a scheduler asks again and repairs      *)
(* (bill-payment-retry.scheduler.ts).                                      *)
(*                                                                         *)
(* All of them write the metadata of one transaction, which is one JSON    *)
(* value: those who call Xpresspay write back the copy they had before.    *)
(***************************************************************************)
EXTENDS Ledger, Mishaps, FiniteSets

CONSTANTS Confirms,  \* how often one quotation may be confirmed
          BillTotal, \* USDT held for a bill, its fee included
          BillCost,  \* naira it costs
          BillSold,  \* naira that its order brings
          PurseBase, PurseHeld,   \* the wallet, and what others hold of it
          NairaTotal, NairaHeld,  \* the company's naira, likewise
          CoinOwed,  \* USDT the company owes its users
          BillTries, \* how often the scheduler asks (5 in the code)
          BillJobs   \* how often a webhook's job is run (10 in the code)

ASSUME BillAssumption ==
    /\ Confirms \in Nat
    /\ BillTotal \in Nat \ {0} /\ BillCost \in Nat \ {0} /\ BillSold \in Nat
    /\ PurseHeld \in 0..PurseBase /\ NairaHeld \in 0..NairaTotal
    /\ PurseBase \in Nat /\ NairaTotal \in Nat /\ CoinOwed \in Nat
    /\ BillTries \in Nat \ {0} /\ BillJobs \in Nat \ {0}
    /\ {"twice", "lostAnswer", "refusal", "error", "early", "unpaid", "pending",
        "again", "lateNews", "crash", "undeleted", "uncaught"} \subseteq Kinds
    /\ \A f \in {"twice", "early", "lateNews"} : Budget[f] > 0

\* Numbered as they come.
Bills == 1..Confirms

VARIABLES
    purse, till, \* rows of "wallets" and "company_liquidity"
    owed,         \* internalBalance of the company's USDT
    paper,        \* the quotation in Redis is still there
    bill,         \* the transaction with its metadata, order and bill payment
    confirming,   \* where a confirmation is
    sale,         \* orders at Quidax, with their webhook's job
    filling,      \* that job between its calls, with the metadata it has read
    retrying,     \* the scheduler's run on a bill, likewise
    biller,       \* what Xpresspay has done about a bill
    notices          \* its webhooks and their jobs

billVars == <<purse, till, owed, paper, bill, confirming, sale, filling, retrying,
              biller, notices, budget>>

News == {"success", "failure", "pending"}
Steps == {"PENDING_ORDER", "PROCESSING", "ORDER_REFERENCE_PERSIST_FAILED",
          "FAILED_ORDER_SUBMIT", "PAYING", "PROVIDER_SUBMITTED",
          "PROVIDER_SUBMIT_FAILED_RETRYABLE", "PAYING_RETRY",
          "PROVIDER_SUBMIT_RETRY_EXHAUSTED", "MANUAL_RECONCILIATION_REQUIRED",
          "COMPLETED", "FAILED", "PENDING"}

\* step is billingStatus; hold and cover are the statuses of the two reservations;
\* added is sellProceedsLiquidityStatus; told is xpresspayWebhookStatus; repair is
\* billingRequiresReconciliation.
Metas == [step : Steps, hold : {"RESERVED", "RELEASED", "CONSUMED"},
          cover : {"RESERVED", "RELEASED", "CONSUMED"}, added : BOOLEAN,
          told : {"none", "COMPLETED", "FAILED", "PENDING", "SUCCESS_AFTER_RELEASE"},
          repair : BOOLEAN, count : 0..BillTries]

FreshMeta == [step |-> "PENDING_ORDER", hold |-> "RESERVED", cover |-> "RESERVED",
              added |-> FALSE, told |-> "none", repair |-> FALSE, count |-> 0]
AtRest == [pc |-> "idle", copy |-> FreshMeta]

BillTypeOK ==
    /\ purse \in Wallets /\ till \in [total : Nat, reserved : Nat] /\ owed \in Nat
    /\ paper \in BOOLEAN
    /\ bill \in [Bills -> [status : {"none", "PENDING", "COMPLETED", "FAILED"},
                           known : BOOLEAN, meta : Metas]]
    /\ confirming \in [Bills -> {"new", "held", "posted", "saved", "unsaved",
                                 "failed", "done"}]
    /\ sale \in [Bills -> [at : {"none", "open", "sold", "cancelled"},
                           event : {"none", "waiting", "done"}, tries : 0..BillJobs]]
    /\ filling \in [Bills -> [pc : {"idle", "pay", "save", "fail"}, copy : Metas]]
    /\ retrying \in [Bills -> [pc : {"idle", "repair", "pay", "save", "fail"},
                               copy : Metas]]
    /\ biller \in [Bills -> {"none", "open", "paid", "refused"}]
    /\ notices \in [Bills -> [News -> [at : {"none", "waiting", "done"},
                                    tries : 0..BillJobs]]]

BillsInit ==
    /\ purse = [base |-> PurseBase, reserved |-> PurseHeld]
    /\ till = [total |-> NairaTotal, reserved |-> NairaHeld] /\ owed = CoinOwed
    /\ paper = TRUE
    /\ bill = [b \in Bills |-> [status |-> "none", known |-> FALSE, meta |-> FreshMeta]]
    /\ confirming = [b \in Bills |-> "new"]
    /\ sale = [b \in Bills |-> [at |-> "none", event |-> "none", tries |-> BillJobs]]
    /\ filling = [b \in Bills |-> AtRest] /\ retrying = [b \in Bills |-> AtRest]
    /\ biller = [b \in Bills |-> "none"]
    /\ notices = [b \in Bills |-> [k \in News |-> [at |-> "none", tries |-> BillJobs]]]

SetBill(b, status, meta) == bill' = [bill EXCEPT ![b] = [@ EXCEPT !.status = status,
                                                                 !.meta = meta]]
SetBillMeta(b, meta) == bill' = [bill EXCEPT ![b].meta = meta]
SetKnown(b, meta) == bill' = [bill EXCEPT ![b] = [@ EXCEPT !.known = TRUE, !.meta = meta]]
Ended(b) == bill[b].status \in {"COMPLETED", "FAILED"}
SetConfirming(b, pc) == confirming' = [confirming EXCEPT ![b] = pc]
---------------------------------------------------------------------------
(* confirm                                                                 *)

\* The quotation is read long before it is deleted: "twice" says that another
\* confirmation of it is on its way.
BillHold(b) ==
    /\ confirming[b] = "new" /\ paper /\ \A c \in 1..(b - 1) : confirming[c] # "new"
    /\ Note(\E c \in Bills : confirming[c] \notin {"new", "done"}, "twice")
    /\ IF CanReserveBalance(purse, BillTotal) /\ CanReserveLiquidity(till, BillCost)
       THEN /\ purse' = ReserveBalance(purse, BillTotal)
            /\ till' = ReserveLiquidity(till, BillCost)
            /\ SetBill(b, "PENDING", FreshMeta) /\ SetConfirming(b, "held")
       ELSE SetConfirming(b, "done") /\ UNCHANGED <<purse, till, bill>>
    /\ UNCHANGED <<owed, paper, sale, filling, retrying, biller, notices>>

BillPost(b) ==
    /\ confirming[b] = "held"
    /\ \/ /\ sale' = [sale EXCEPT ![b].at = "open"]
          /\ \/ SetConfirming(b, "posted") /\ UNCHANGED budget
             \/ SetConfirming(b, "failed") /\ Spend("lostAnswer")
       \/ SetConfirming(b, "failed") /\ Spend("refusal") /\ UNCHANGED sale
    /\ UNCHANGED <<purse, till, owed, paper, bill, filling, retrying, biller, notices>>

BillRecord(b) ==
    /\ confirming[b] = "posted"
    /\ \/ /\ SetKnown(b, [bill[b].meta EXCEPT !.step = "PROCESSING"])
          /\ SetConfirming(b, "saved") /\ UNCHANGED budget
       \/ SetConfirming(b, "unsaved") /\ Spend("error") /\ UNCHANGED bill
    /\ UNCHANGED <<purse, till, owed, paper, sale, filling, retrying, biller, notices>>

\* What Redis does not delete is logged only: the quotation can be confirmed again.
Forget == \/ paper' = FALSE /\ UNCHANGED budget
          \/ Spend("undeleted") /\ UNCHANGED paper

BillForget(b) ==
    /\ confirming[b] = "saved" /\ SetConfirming(b, "done") /\ Forget
    /\ UNCHANGED <<purse, till, owed, bill, sale, filling, retrying, biller, notices>>

\* The catch block of an accepted order, which writes the reference after all,
\* and then deletes; or its transaction throws as well, and nothing is written.
BillUnsaved(b) ==
    /\ confirming[b] = "unsaved"
    /\ \/ /\ bill' = [bill EXCEPT ![b] = [status |-> "PENDING", known |-> TRUE,
                meta |-> [bill[b].meta EXCEPT !.step = "ORDER_REFERENCE_PERSIST_FAILED",
                                              !.repair = TRUE]]]
          /\ SetConfirming(b, "saved") /\ UNCHANGED budget
       \/ SetConfirming(b, "done") /\ Spend("uncaught") /\ UNCHANGED bill
    /\ UNCHANGED <<purse, till, owed, paper, sale, filling, retrying, biller, notices>>

\* The catch block otherwise, also when the order was placed.
BillGiveUp(b) ==
    /\ confirming[b] = "failed"
    /\ \/ /\ purse' = IF CanReleaseBalance(purse, BillTotal)
                      THEN ReleaseBalance(purse, BillTotal) ELSE purse
          /\ till' = IF CanReleaseLiquidity(till, BillCost)
                     THEN ReleaseLiquidity(till, BillCost) ELSE till
          /\ SetBill(b, "FAILED", [bill[b].meta EXCEPT !.cover = "RELEASED",
                                                       !.step = "FAILED_ORDER_SUBMIT"])
          /\ UNCHANGED budget
       \/ Spend("uncaught") /\ UNCHANGED <<purse, till, bill>>
    /\ SetConfirming(b, "done")
    /\ UNCHANGED <<owed, paper, sale, filling, retrying, biller, notices>>
---------------------------------------------------------------------------
(* Xpresspay                                                               *)

\* It pays a reference once, and answers a second request as it likes.
Asked(b, accepted, refused) ==
    \/ /\ biller[b] = "none" /\ biller' = [biller EXCEPT ![b] = "open"]
       /\ \/ accepted /\ UNCHANGED budget
          \/ refused /\ Spend("lostAnswer")
    \/ /\ biller[b] = "none" /\ refused /\ Spend("refusal") /\ UNCHANGED biller
    \/ /\ biller[b] # "none" /\ (accepted \/ refused) /\ UNCHANGED <<biller, budget>>

Sends(b, k) == notices' = [notices EXCEPT ![b][k].at = "waiting"]

BillerEnds(b) ==
    /\ biller[b] = "open"
    /\ \/ /\ biller' = [biller EXCEPT ![b] = "paid"] /\ Sends(b, "success")
          /\ UNCHANGED budget
       \/ /\ biller' = [biller EXCEPT ![b] = "refused"] /\ Sends(b, "failure")
          /\ Spend("unpaid")
    /\ UNCHANGED <<purse, till, owed, paper, bill, confirming, sale, filling, retrying>>

BillerWaits(b) ==
    /\ biller[b] = "open" /\ notices[b]["pending"].at = "none"
    /\ Spend("pending") /\ Sends(b, "pending")
    /\ UNCHANGED <<purse, till, owed, paper, bill, confirming, sale, filling, retrying,
                   biller>>
---------------------------------------------------------------------------
(* The order's webhook                                                     *)

OrderEnds(b) ==
    /\ sale[b].at = "open"
    /\ \E end \in {"sold", "cancelled"} :
          /\ sale' = [sale EXCEPT ![b] = [@ EXCEPT !.at = end, !.event = "waiting"]]
          /\ IF end = "cancelled" THEN Spend("refusal") ELSE UNCHANGED budget
    /\ UNCHANGED <<purse, till, owed, paper, bill, confirming, filling, retrying,
                   biller, notices>>

OrderEventAgain(b) ==
    /\ sale[b].event = "done" /\ filling[b].pc = "idle" /\ Spend("again")
    /\ sale' = [sale EXCEPT ![b] = [@ EXCEPT !.event = "waiting", !.tries = BillJobs]]
    /\ UNCHANGED <<purse, till, owed, paper, bill, confirming, filling, retrying,
                   biller, notices>>

JobDone(b) == sale' = [sale EXCEPT ![b].event = "done"]
JobThrows(b) ==
    sale' = [sale EXCEPT ![b] =
        [@ EXCEPT !.event = IF sale[b].event = "waiting" /\ sale[b].tries > 1
                            THEN "waiting" ELSE "done",
                  !.tries = sale[b].tries - 1]]

\* Asked for, or settled: the handler leaves it alone.
Paying(m) == m.step \notin {"PROVIDER_SUBMITTED", "COMPLETED"}

Ready(b) == sale[b].event = "waiting" /\ filling[b].pc = "idle"

\* No order has its reference yet, or its bill has ended.
FillDrop(b) ==
    /\ Ready(b) /\ (~bill[b].known \/ Ended(b))
    /\ JobDone(b) /\ Note(~bill[b].known, "early")
    /\ UNCHANGED <<purse, till, owed, paper, bill, confirming, filling, retrying,
                   biller, notices>>

\* A release of the wallet that finds too little is left out; one of the company's
\* naira undoes everything.
FillCancelled(b) ==
    LET m == bill[b].meta
    IN  /\ Ready(b) /\ bill[b].known /\ ~Ended(b) /\ sale[b].at = "cancelled"
        /\ JobDone(b)
        /\ IF m.cover = "RESERVED" /\ ~CanReleaseLiquidity(till, BillCost)
           THEN UNCHANGED <<purse, till, bill>>
           ELSE /\ purse' = IF CanReleaseBalance(purse, BillTotal)
                            THEN ReleaseBalance(purse, BillTotal) ELSE purse
                /\ till' = IF m.cover = "RESERVED"
                            THEN ReleaseLiquidity(till, BillCost) ELSE till
                /\ SetBill(b, "FAILED", [m EXCEPT !.cover =
                                            IF @ = "RESERVED" THEN "RELEASED" ELSE @])
        /\ UNCHANGED <<owed, paper, confirming, filling, retrying, biller, notices, budget>>

SetFilling(b, pc, copy) == filling' = [filling EXCEPT ![b] = [pc |-> pc, copy |-> copy]]

\* Mutation of Proceeds: every run of the job adds them.
ProceedsAgain(m) == BillSold

Proceeds(m) == IF m.added THEN 0 ELSE BillSold

FillAdd(b) ==
    LET m == bill[b].meta
        paid == [m EXCEPT !.added = TRUE, !.step = "PAYING"]
    IN  /\ Ready(b) /\ bill[b].known /\ ~Ended(b) /\ sale[b].at = "sold"
        /\ \/ /\ Paying(m)
              /\ till' = AddLiquidity(till, Proceeds(m))
              /\ SetBillMeta(b, paid) /\ SetFilling(b, "pay", paid)
              /\ UNCHANGED <<sale, budget>>
           \/ /\ ~Paying(m) /\ JobDone(b)
              /\ UNCHANGED <<till, bill, filling, budget>>
           \/ /\ Spend("error") /\ SetFilling(b, "fail", m)
              /\ UNCHANGED <<till, bill, sale>>
        /\ UNCHANGED <<purse, owed, paper, confirming, retrying, biller, notices>>

FillPay(b) ==
    LET copy == filling[b].copy
    IN  /\ filling[b].pc = "pay"
        /\ Asked(b, SetFilling(b, "save", copy), SetFilling(b, "fail", copy))
        /\ UNCHANGED <<purse, till, owed, paper, bill, confirming, sale, retrying, notices>>

FillSave(b) ==
    /\ filling[b].pc = "save"
    /\ \/ /\ SetBillMeta(b, [filling[b].copy EXCEPT !.step = "PROVIDER_SUBMITTED"])
          /\ SetFilling(b, "idle", FreshMeta) /\ JobDone(b) /\ UNCHANGED budget
       \/ /\ Spend("error") /\ SetFilling(b, "fail", filling[b].copy)
          /\ UNCHANGED <<bill, sale>>
    /\ UNCHANGED <<purse, till, owed, paper, confirming, retrying, biller, notices>>

FillFail(b) ==
    /\ filling[b].pc = "fail" /\ SetFilling(b, "idle", FreshMeta)
    /\ \/ /\ SetBill(b, "PENDING", [filling[b].copy EXCEPT
                                       !.step = "PROVIDER_SUBMIT_FAILED_RETRYABLE"])
          /\ JobDone(b) /\ UNCHANGED budget
       \/ Spend("error") /\ JobThrows(b) /\ UNCHANGED bill
    /\ UNCHANGED <<purse, till, owed, paper, confirming, retrying, biller, notices>>
---------------------------------------------------------------------------
(* The scheduler                                                           *)

SetRetrying(b, pc, copy) == retrying' = [retrying EXCEPT ![b] = [pc |-> pc, copy |-> copy]]

RepairSelect(b) ==
    /\ retrying[b].pc = "idle" /\ bill[b].status = "PENDING"
    /\ bill[b].meta.step = "ORDER_REFERENCE_PERSIST_FAILED" /\ bill[b].meta.repair
    /\ SetRetrying(b, "repair", FreshMeta)
    /\ UNCHANGED <<purse, till, owed, paper, bill, confirming, sale, filling, biller,
                   notices, budget>>

\* reconcileAcceptedOrder: the bill may have moved on since it was selected, and is
\* then put back.
Repair(b) ==
    LET m == bill[b].meta
    IN  /\ retrying[b].pc = "repair" /\ SetRetrying(b, "idle", FreshMeta)
        /\ IF bill[b].status = "PENDING"
                /\ (m.step = "ORDER_REFERENCE_PERSIST_FAILED" \/ m.repair)
           THEN /\ SetKnown(b, [m EXCEPT !.step = "PROCESSING", !.repair = FALSE])
                /\ Note(m.step # "ORDER_REFERENCE_PERSIST_FAILED", "early")
           ELSE UNCHANGED <<bill, budget>>
        /\ UNCHANGED <<purse, till, owed, paper, confirming, sale, filling, biller, notices>>

\* A claim is stale after a quarter of an hour, which no run takes.
Due(m) == m.step \in {"PROVIDER_SUBMIT_FAILED_RETRYABLE", "PAYING_RETRY"}

\* retryOne looks again under the row's lock.
RetryClaim(b) ==
    LET claim == [bill[b].meta EXCEPT !.step = "PAYING_RETRY"]
    IN  /\ retrying[b].pc = "idle" /\ bill[b].status = "PENDING"
        /\ Due(bill[b].meta) /\ bill[b].meta.count < BillTries
        /\ SetBillMeta(b, claim) /\ SetRetrying(b, "pay", claim)
        /\ UNCHANGED <<purse, till, owed, paper, confirming, sale, filling, biller, notices,
                       budget>>

RetryPay(b) ==
    LET copy == retrying[b].copy
    IN  /\ retrying[b].pc = "pay"
        /\ Asked(b, SetRetrying(b, "save", copy), SetRetrying(b, "fail", copy))
        /\ UNCHANGED <<purse, till, owed, paper, bill, confirming, sale, filling, notices>>

RetrySave(b) ==
    /\ retrying[b].pc = "save"
    /\ \/ /\ SetBillMeta(b, [retrying[b].copy EXCEPT !.step = "PROVIDER_SUBMITTED"])
          /\ SetRetrying(b, "idle", FreshMeta) /\ UNCHANGED budget
       \/ Spend("error") /\ SetRetrying(b, "fail", retrying[b].copy) /\ UNCHANGED bill
    /\ UNCHANGED <<purse, till, owed, paper, confirming, sale, filling, biller, notices>>

\* A hold that cannot be released leaves the bill open for an administrator.
RetryGivesUp(b, count) ==
    LET copy == retrying[b].copy
        own == copy.hold # "RELEASED"
        freed == own /\ CanReleaseBalance(purse, BillTotal)
        covered == copy.cover = "RESERVED"
        uncovered == covered /\ CanReleaseLiquidity(till, BillCost)
    IN  /\ purse' = IF freed THEN ReleaseBalance(purse, BillTotal) ELSE purse
        /\ till' = IF uncovered THEN ReleaseLiquidity(till, BillCost) ELSE till
        /\ SetBill(b, IF (own => freed) /\ (covered => uncovered) THEN "FAILED" ELSE "PENDING",
                   [copy EXCEPT !.step = "PROVIDER_SUBMIT_RETRY_EXHAUSTED", !.count = count,
                                !.hold = IF freed THEN "RELEASED" ELSE @,
                                !.cover = IF uncovered THEN "RELEASED" ELSE @])

RetryFail(b) ==
    LET count == retrying[b].copy.count + 1
    IN  /\ retrying[b].pc = "fail" /\ SetRetrying(b, "idle", FreshMeta)
        /\ \/ /\ count >= BillTries /\ RetryGivesUp(b, count) /\ UNCHANGED budget
           \/ /\ count < BillTries
              /\ SetBill(b, "PENDING", [retrying[b].copy EXCEPT !.count = count,
                            !.step = "PROVIDER_SUBMIT_FAILED_RETRYABLE"])
              /\ UNCHANGED <<purse, till, budget>>
           \/ Spend("error") /\ UNCHANGED <<purse, till, bill>>
        /\ UNCHANGED <<owed, paper, confirming, sale, filling, biller, notices>>
---------------------------------------------------------------------------
(* Xpresspay's webhook                                                     *)

\* Handled while another has read the metadata and not written it back yet.
Overtakes(b) == \/ filling[b].pc # "idle" \/ retrying[b].pc \notin {"idle", "repair"}
                \/ confirming[b] \in {"saved", "unsaved"}

NewsDone(b, k) == notices' = [notices EXCEPT ![b][k].at = "done"]

NewsOver(m, k) == m.told = "COMPLETED" \/ (m.told = "FAILED" /\ k = "failure")

NewsSkip(b, k) ==
    /\ notices[b][k].at = "waiting" /\ NewsOver(bill[b].meta, k) /\ NewsDone(b, k)
    /\ UNCHANGED <<purse, till, owed, paper, bill, confirming, sale, filling, retrying,
                   biller, budget>>

Given(m) == m.cover = "RELEASED" \/ m.told = "FAILED"

\* Paid after all, although the holds are gone: for an administrator.
NewsTooLate(b) ==
    LET m == bill[b].meta
    IN  /\ notices[b]["success"].at = "waiting" /\ ~NewsOver(m, "success") /\ Given(m)
        /\ SetBill(b, "PENDING", [m EXCEPT !.told = "SUCCESS_AFTER_RELEASE",
                                           !.step = "MANUAL_RECONCILIATION_REQUIRED"])
        /\ NewsDone(b, "success") /\ Note(Overtakes(b), "early")
        /\ UNCHANGED <<purse, till, owed, paper, confirming, sale, filling, retrying,
                       biller>>

\* The hold is released and the balance lowered in two statements, never below 0.
NewsPaid(b) ==
    LET m == bill[b].meta
        job == notices[b]["success"]
        able == /\ CanReleaseBalance(purse, BillTotal)
                /\ CanConsumeLiquidity(till, BillCost) /\ owed >= BillTotal
        rest == ReleaseBalance(purse, BillTotal)
    IN  /\ job.at = "waiting" /\ ~NewsOver(m, "success") /\ ~Given(m)
        /\ IF able
           THEN /\ purse' = [rest EXCEPT !.base = IF @ >= BillTotal THEN @ - BillTotal ELSE 0]
                /\ till' = ConsumeReservedLiquidity(till, BillCost)
                /\ owed' = owed - BillTotal
                /\ SetBill(b, "COMPLETED", [m EXCEPT !.hold = "CONSUMED", !.told = "COMPLETED",
                              !.cover = "CONSUMED", !.step = "COMPLETED"])
                /\ NewsDone(b, "success") /\ Note(Overtakes(b), "early")
           ELSE /\ notices' = [notices EXCEPT ![b]["success"] =
                      [at |-> IF job.tries > 1 THEN "waiting" ELSE "done",
                       tries |-> job.tries - 1]]
                /\ UNCHANGED <<purse, till, owed, bill, budget>>
        /\ UNCHANGED <<paper, confirming, sale, filling, retrying, biller>>

\* What cannot be released is left, with a note for an administrator.
NewsUnpaid(b) ==
    LET m == bill[b].meta
        freed == m.hold # "RELEASED" /\ CanReleaseBalance(purse, BillTotal)
        uncovered == m.cover = "RESERVED" /\ CanReleaseLiquidity(till, BillCost)
    IN  /\ notices[b]["failure"].at = "waiting" /\ ~NewsOver(m, "failure")
        /\ purse' = IF freed THEN ReleaseBalance(purse, BillTotal) ELSE purse
        /\ till' = IF uncovered THEN ReleaseLiquidity(till, BillCost) ELSE till
        /\ SetBill(b, "FAILED", [m EXCEPT !.hold = IF freed THEN "RELEASED" ELSE @,
                      !.cover = IF uncovered THEN "RELEASED" ELSE @,
                      !.told = "FAILED", !.step = "FAILED"])
        /\ NewsDone(b, "failure") /\ Note(Overtakes(b), "early")
        /\ UNCHANGED <<owed, paper, confirming, sale, filling, retrying, biller>>

\* Any other status opens the bill again, one that has failed too.
NewsPending(b) ==
    LET m == bill[b].meta
    IN  /\ notices[b]["pending"].at = "waiting" /\ ~NewsOver(m, "pending")
        /\ SetBill(b, "PENDING", [m EXCEPT !.told = "PENDING", !.step = "PENDING"])
        /\ NewsDone(b, "pending")
        /\ NoteAll((IF Overtakes(b) THEN {"early"} ELSE {})
                     \cup IF Given(m) THEN {"lateNews"} ELSE {})
        /\ UNCHANGED <<purse, till, owed, paper, confirming, sale, filling, retrying,
                       biller>>

\* The process died between the handler's transaction and the end of its job.
NewsRedo(b, k) ==
    /\ notices[b][k].at = "done" /\ notices[b][k].tries > 1 /\ Spend("crash")
    /\ notices' = [notices EXCEPT ![b][k] = [at |-> "waiting",
                                            tries |-> notices[b][k].tries - 1]]
    /\ UNCHANGED <<purse, till, owed, paper, bill, confirming, sale, filling, retrying,
                   biller>>

\* A job is handed out again; a request and the scheduler's run are gone.
BillCrash ==
    /\ Spend("crash")
    /\ confirming' = [b \in Bills |-> IF confirming[b] = "new" THEN "new" ELSE "done"]
    /\ filling' = [b \in Bills |-> AtRest] /\ retrying' = [b \in Bills |-> AtRest]
    /\ UNCHANGED <<purse, till, owed, paper, bill, sale, biller, notices>>

BillsNext ==
    \/ \E b \in Bills :
         \/ BillHold(b) \/ BillPost(b) \/ BillRecord(b) \/ BillForget(b)
         \/ BillUnsaved(b) \/ BillGiveUp(b)
         \/ OrderEnds(b) \/ OrderEventAgain(b) \/ FillDrop(b) \/ FillCancelled(b)
         \/ FillAdd(b) \/ FillPay(b) \/ FillSave(b) \/ FillFail(b)
         \/ RepairSelect(b) \/ Repair(b)
         \/ RetryClaim(b) \/ RetryPay(b) \/ RetrySave(b) \/ RetryFail(b)
         \/ BillerEnds(b) \/ BillerWaits(b)
         \/ NewsTooLate(b) \/ NewsPaid(b) \/ NewsUnpaid(b) \/ NewsPending(b)
         \/ \E k \in News : NewsSkip(b, k) \/ NewsRedo(b, k)
    \/ BillCrash

\* The jobs go on, one or the other; the scheduler's among them.
BillWork(b) ==
    \/ FillDrop(b) \/ FillCancelled(b) \/ FillAdd(b) \/ FillPay(b) \/ FillSave(b) \/ FillFail(b)
    \/ RepairSelect(b) \/ Repair(b)
    \/ RetryClaim(b) \/ RetryPay(b) \/ RetrySave(b) \/ RetryFail(b)
    \/ NewsTooLate(b) \/ NewsPaid(b) \/ NewsUnpaid(b) \/ NewsPending(b)
    \/ \E k \in News : NewsSkip(b, k)
BillSpec == BillsInit /\ budget = Budget /\ [][BillsNext]_billVars
BillFairness == WF_billVars(Of("bills") /\ \E b \in Bills : BillWork(b))
---------------------------------------------------------------------------
(***************************************************************************)
(* Properties                                                              *)
(***************************************************************************)
BillsSolvent == WalletSolvent(purse) /\ CompanySolvent(till)

Open(b) == bill[b].status = "PENDING" /\ bill[b].meta.hold = "RESERVED"
StillCovered(b) == bill[b].status # "none" /\ bill[b].meta.cover = "RESERVED"
Paid == {b \in Bills : bill[b].meta.hold = "CONSUMED"}
Brought == {b \in Bills : bill[b].meta.added}

Times(n, S) == n * Cardinality(S)

\* The wallet and the company's naira hold what the open bills need beside what
\* others hold, and have given what the paid ones cost, whichever of the order's
\* job, the scheduler and Xpresspay's webhook came first; the order's naira are
\* added once, unless one of them wrote over what another had settled. And one
\* quotation pays one bill, unless it was confirmed twice at once, or again after a
\* crash or a deletion that Redis did not make.
BillBooks ==
    Untouched({"early", "again"}) =>
        /\ purse = [base |-> PurseBase - Times(BillTotal, Paid),
                    reserved |-> PurseHeld + Times(BillTotal, {b \in Bills : Open(b)})]
        /\ till = [total |-> NairaTotal + Times(BillSold, Brought) - Times(BillCost, Paid),
                    reserved |-> NairaHeld + Times(BillCost, {b \in Bills : StillCovered(b)})]
        /\ owed = CoinOwed - Times(BillTotal, Paid)
        /\ \A b \in Paid : biller[b] = "paid" /\ (Untouched({"error"}) => b \in Brought)
        /\ \A b, c \in Bills : b # c /\ biller[b] = "paid" /\ biller[c] = "paid" =>
                ~Untouched({"twice", "crash", "undeleted"})

\* A bill whose order was sold is asked for or fails, and what Xpresspay says of it
\* is taken down; unless, again, one wrote over what another had settled.
BillsDone ==
    \A b \in Bills :
        /\ sale[b].at = "sold" /\ bill[b].known /\ Untouched({"early"})
             => biller[b] # "none" \/ bill[b].status = "FAILED"
        /\ biller[b] \in {"paid", "refused"} /\ Untouched({"early", "again", "lateNews"})
             => \/ bill[b].status # "PENDING"
                \/ bill[b].meta.told = "SUCCESS_AFTER_RELEASE"
===========================================================================
