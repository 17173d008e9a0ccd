---------------------------- MODULE Withdrawal ----------------------------
(***************************************************************************)
(* The withdrawal flow of one user's wallet in one currency: confirmSend   *)
(* and cancelWithdrawal (withdrawal.service.ts), the withdraw.* webhook    *)
(* handler (withdrawal.handler.ts) and the retry and expiry of withdrawals *)
(* queued for company liquidity (failed-company-liquidity.service.ts).     *)
(*                                                                         *)
(* A database transaction is one step; every await on a provider, and      *)
(* every transaction boundary, is a step boundary, and what was read       *)
(* before it is kept in the program counter of the request. The provider   *)
(* (Quidax) answers truthfully, refuses a reference it already has, and    *)
(* may carry out a call whose answer is lost.                              *)
(***************************************************************************)
EXTENDS Ledger, FiniteSets, Functions

CONSTANTS Withdrawals,  \* previewIds; each is also the provider reference
          Total,        \* totalDeductionBase of each
          Fee,          \* platformFeeBase of each, part of Total
          OnDefaultNet, \* those sent on the wallet's default network
          Cancellers,   \* cancel requests in flight at most once each
          Hourly,       \* the hourly failed-liquidity scheduler
          Admins,       \* admin requests that activate a queued record
          InitialBase, InitialInternal,
          MaxAttempts,  \* BullMQ attempts of a webhook job
          TopUpAmount,  \* company liquidity added by a settled sweep
          Beginnings    \* liquidity the company may begin with, and how often
                        \* each fault or outside event may then happen

Faults == {"crash", "lostAnswer", "lookup", "transient", "dbError", "expiry",
           "topup"}
Processors == {Hourly} \cup Admins

ASSUME AmountsAssumption ==
    /\ Total \in [Withdrawals -> Nat]
    /\ Fee \in [Withdrawals -> Nat]
    /\ \A w \in Withdrawals : Fee[w] <= Total[w]
    /\ InitialBase \in Nat /\ InitialInternal \in Nat
    /\ TopUpAmount \in Nat
ASSUME RequestsAssumption == IsFiniteSet(Withdrawals)
ASSUME BoundsAssumption ==
    /\ MaxAttempts \in Nat \ {0}
    /\ Beginnings \in SUBSET [company : Nat, budget : [Faults -> Nat]]

VARIABLES
    wallet,     \* the user's row of "wallets"
    company,    \* the currency's row of "company_liquidity"
    txn,        \* row of "transactions": status and isProcessed
    wd,         \* row of "withdrawals": status
    providerId, \* withdrawals whose providerWithdrawalId is recorded
    queued,     \* withdrawals with a failedCompanyLiquidityTransaction row
    quidax,     \* what Quidax did with the reference
    confirm,    \* progress of each confirmSend
    cancel,     \* progress of each cancelWithdrawal, per canceller
    job,        \* the webhook job of each withdrawal
    attempts,   \* attempts the job has left
    retry,      \* progress of each processor on each queued record
    budget      \* faults that may still happen

db == <<wallet, company, txn, wd, providerId, queued>>
vars == <<wallet, company, txn, wd, providerId, queued, quidax, confirm,
          cancel, job, attempts, retry, budget>>

TxStates == {"none", "PENDING", "COMPLETED", "FAILED"}
WdStates == {"none", "PENDING", "PROCESSING", "SUCCESS", "FAILED"}
QuidaxStates == {"none", "submitted", "Done", "Rejected", "Cancelled"}
ConfirmPc == {"idle", "posting", "accepted", "refused", "done"}
CancelPc == {"idle", "localQueued", "localReserved", "remote", "remoteDone",
             "done"}
JobPc == {"none", "waiting", "confirmed", "failing", "committed", "finished",
          "dead"}
RetryPc == {"idle", "expiring", "checked", "reserved", "posted", "refused",
            "recorded"}

TypeOK ==
    /\ wallet \in Wallets
    /\ company \in CompanyAccounts
    /\ txn \in [Withdrawals -> [status : TxStates, processed : BOOLEAN]]
    /\ wd \in [Withdrawals -> WdStates]
    /\ providerId \in SUBSET Withdrawals
    /\ queued \in SUBSET Withdrawals
    /\ quidax \in [Withdrawals -> QuidaxStates]
    /\ confirm \in [Withdrawals -> ConfirmPc]
    /\ cancel \in [Cancellers -> [Withdrawals -> CancelPc]]
    /\ job \in [Withdrawals -> JobPc]
    /\ attempts \in [Withdrawals -> Nat]
    /\ retry \in [Processors -> [Withdrawals -> RetryPc]]
    /\ budget \in [Faults -> Nat]

Init ==
    /\ wallet = [base |-> InitialBase, reserved |-> 0]
    /\ \E begin \in Beginnings :
          /\ company = [total |-> begin.company, reserved |-> 0,
                        internal |-> InitialInternal]
          /\ budget = begin.budget
    /\ txn = [w \in Withdrawals |-> [status |-> "none", processed |-> FALSE]]
    /\ wd = [w \in Withdrawals |-> "none"]
    /\ providerId = {} /\ queued = {}
    /\ quidax = [w \in Withdrawals |-> "none"]
    /\ confirm = [w \in Withdrawals |-> "idle"]
    /\ cancel = [c \in Cancellers |-> [w \in Withdrawals |-> "idle"]]
    /\ job = [w \in Withdrawals |-> "none"]
    /\ attempts = [w \in Withdrawals |-> MaxAttempts]
    /\ retry = [p \in Processors |-> [w \in Withdrawals |-> "idle"]]

Spend(f) == /\ budget[f] > 0
            /\ budget' = [budget EXCEPT ![f] = @ - 1]

SetTxn(w, status, processed) ==
    txn' = [txn EXCEPT ![w] = [status |-> status, processed |-> processed]]
SetWd(w, status) == wd' = [wd EXCEPT ![w] = status]

\* isRetryableTransaction: the transaction is pending and nobody settled it.
Open(w) == txn[w].status = "PENDING" /\ ~txn[w].processed

\* Both reservations of a withdrawal go back, in one database transaction.
CanReleaseBoth(w) == /\ CanReleaseBalance(wallet, Total[w])
                     /\ CanReleaseLiquidity(company, Total[w])

\* Mutation of ReleaseBoth: the user's hold is forgotten.
ReleaseCompany(w) == /\ company' = ReleaseLiquidity(company, Total[w])
                     /\ UNCHANGED wallet

ReleaseBoth(w) == /\ wallet' = ReleaseBalance(wallet, Total[w])
                  /\ company' = ReleaseLiquidity(company, Total[w])

---------------------------------------------------------------------------
(* confirmSend                                                             *)

\* The single transaction block: hold the user's balance, create the records,
\* and hold company liquidity or queue the withdrawal for it.
ConfirmReserve(w) ==
    /\ confirm[w] = "idle"
    /\ CanReserveBalance(wallet, Total[w])
    /\ wallet' = ReserveBalance(wallet, Total[w])
    /\ SetTxn(w, "PENDING", FALSE)
    /\ \/ /\ CanReserveLiquidity(company, Total[w])
          /\ company' = ReserveLiquidity(company, Total[w])
          /\ SetWd(w, "PROCESSING")
          /\ confirm' = [confirm EXCEPT ![w] = "posting"]
          /\ UNCHANGED queued
       \/ /\ ~CanReserveLiquidity(company, Total[w])
          /\ SetWd(w, "PENDING")
          /\ queued' = queued \cup {w}
          /\ confirm' = [confirm EXCEPT ![w] = "done"]
          /\ UNCHANGED company
    /\ UNCHANGED <<providerId, quidax, cancel, job, attempts, retry, budget>>

\* The POST to Quidax: accepted, refused (or answered without an id), or
\* accepted with the answer lost, which the caller cannot tell from refused.
ConfirmPost(w) ==
    /\ confirm[w] = "posting"
    /\ \/ /\ quidax[w] = "none"
          /\ quidax' = [quidax EXCEPT ![w] = "submitted"]
          /\ \/ /\ confirm' = [confirm EXCEPT ![w] = "accepted"]
                /\ UNCHANGED budget
             \/ /\ confirm' = [confirm EXCEPT ![w] = "refused"]
                /\ Spend("lostAnswer")
       \/ /\ confirm' = [confirm EXCEPT ![w] = "refused"]
          /\ UNCHANGED <<quidax, budget>>
    /\ UNCHANGED <<db, cancel, job, attempts, retry>>

\* compensateFailedWithdrawal; when a release finds too little reserved the
\* transaction rolls back and the request ends with the error.
ConfirmCompensate(w) ==
    /\ confirm[w] = "refused"
    /\ confirm' = [confirm EXCEPT ![w] = "done"]
    /\ IF CanReleaseBoth(w)
       THEN /\ ReleaseBoth(w)
            /\ SetTxn(w, "FAILED", FALSE)
            /\ SetWd(w, "FAILED")
       ELSE UNCHANGED <<wallet, company, txn, wd>>
    /\ UNCHANGED <<providerId, queued, quidax, cancel, job, attempts, retry,
                   budget>>

\* The provider id is written whatever happened to the records meanwhile.
ConfirmRecord(w) ==
    /\ confirm[w] = "accepted"
    /\ confirm' = [confirm EXCEPT ![w] = "done"]
    /\ providerId' = providerId \cup {w}
    /\ UNCHANGED <<wallet, company, txn, wd, queued, quidax, cancel, job,
                   attempts, retry, budget>>

\* A query or transaction after the first fails: the request ends there.
ConfirmError(w) ==
    /\ confirm[w] \in {"posting", "refused", "accepted"}
    /\ Spend("dbError")
    /\ confirm' = [confirm EXCEPT ![w] = "done"]
    /\ UNCHANGED <<db, quidax, cancel, job, attempts, retry>>

---------------------------------------------------------------------------
(* cancelWithdrawal                                                        *)

SetCancel(c, w, pc) == cancel' = [cancel EXCEPT ![c][w] = pc]

\* The reads that decide: isProcessed, the withdrawal's status, and whether
\* a provider id is recorded yet. A canceller makes one request.
CancelRead(c, w) ==
    /\ \A v \in Withdrawals : cancel[c][v] = "idle"
    /\ txn[w].status # "none" /\ ~txn[w].processed
    /\ wd[w] \in {"PENDING", "PROCESSING"}
    /\ SetCancel(c, w, IF w \in providerId THEN "remote"
                       ELSE IF wd[w] = "PROCESSING" THEN "localReserved"
                       ELSE "localQueued")
    /\ UNCHANGED <<db, quidax, confirm, job, attempts, retry, budget>>

\* releaseBalance is given the transaction's network and throws when it is
\* not the wallet's default network.
CancelNetworkOk(w) == w \in OnDefaultNet

CancelRecords(w) == SetTxn(w, "FAILED", FALSE) /\ SetWd(w, "FAILED")

\* Pre-provider cancellation, decided on the reads above and not on a re-read.
CancelLocal(c, w) ==
    /\ cancel[c][w] \in {"localQueued", "localReserved"}
    /\ SetCancel(c, w, "done")
    /\ \/ /\ cancel[c][w] = "localReserved"
          /\ CancelNetworkOk(w) /\ CanReleaseBoth(w)
          /\ ReleaseBoth(w) /\ CancelRecords(w)
       \/ /\ cancel[c][w] = "localQueued"
          /\ CancelNetworkOk(w) /\ CanReleaseBalance(wallet, Total[w])
          /\ wallet' = ReleaseBalance(wallet, Total[w])
          /\ CancelRecords(w)
          /\ UNCHANGED company
       \/ /\ \/ ~CancelNetworkOk(w)
             \/ ~CanReleaseBalance(wallet, Total[w])
             \/ cancel[c][w] = "localReserved" /\ ~CanReleaseBoth(w)
          /\ UNCHANGED <<wallet, company, txn, wd>>
    /\ UNCHANGED <<providerId, queued, quidax, confirm, job, attempts, retry,
                   budget>>

\* Quidax is told to cancel first; it agrees only while it has not finished.
\* An error, a refusal or a lost answer ends the request with an exception.
CancelRemote(c, w) ==
    /\ cancel[c][w] = "remote"
    /\ \/ /\ quidax[w] = "submitted"
          /\ quidax' = [quidax EXCEPT ![w] = "Cancelled"]
          /\ \/ SetCancel(c, w, "remoteDone") /\ UNCHANGED budget
             \/ SetCancel(c, w, "done") /\ Spend("lostAnswer")
       \/ /\ SetCancel(c, w, "done")
          /\ UNCHANGED <<quidax, budget>>
    /\ UNCHANGED <<db, confirm, job, attempts, retry>>

CancelFinish(c, w) ==
    /\ cancel[c][w] = "remoteDone"
    /\ SetCancel(c, w, "done")
    /\ IF CancelNetworkOk(w) /\ CanReleaseBoth(w)
       THEN ReleaseBoth(w) /\ CancelRecords(w)
       ELSE UNCHANGED <<wallet, company, txn, wd>>
    /\ UNCHANGED <<providerId, queued, quidax, confirm, job, attempts, retry,
                   budget>>

\* Its transaction fails, after Quidax was told to cancel or without.
CancelError(c, w) ==
    /\ cancel[c][w] \in {"localQueued", "localReserved", "remoteDone"}
    /\ Spend("dbError")
    /\ SetCancel(c, w, "done")
    /\ UNCHANGED <<db, quidax, confirm, job, attempts, retry>>

---------------------------------------------------------------------------
(* Quidax and the webhook handler                                          *)

\* Quidax ends a withdrawal and sends withdraw.successful or
\* withdraw.rejected: one webhook, one job.
QuidaxFinish(w) ==
    /\ quidax[w] = "submitted"
    /\ \E s \in {"Done", "Rejected"} : quidax' = [quidax EXCEPT ![w] = s]
    /\ job' = [job EXCEPT ![w] = "waiting"]
    /\ UNCHANGED <<db, confirm, cancel, attempts, retry, budget>>

\* Mutation of Terminal: the terminal-status check is left out.
NeverTerminal(w) == FALSE

Terminal(w) == wd[w] \in {"SUCCESS", "FAILED"}

\* Mutation of ProviderConfirms: the event is believed without asking Quidax.
EventBelieved(w) == TRUE

\* The confirmation fetched by reference must say Done, for either event.
ProviderConfirms(w) == quidax[w] = "Done"

\* Load the records, skip a terminal one, fetch Quidax's view. Every early
\* return ends the job as processed.
JobCheck(w) ==
    /\ job[w] = "waiting"
    /\ \/ /\ ~Terminal(w) /\ ProviderConfirms(w)
          /\ job' = [job EXCEPT ![w] = "confirmed"]
          /\ UNCHANGED budget
       \/ /\ Terminal(w) \/ ~ProviderConfirms(w)
          /\ job' = [job EXCEPT ![w] = "finished"]
          /\ UNCHANGED budget
       \/ /\ ~Terminal(w) /\ Spend("lookup")
          /\ job' = [job EXCEPT ![w] = "finished"]
    /\ UNCHANGED <<db, quidax, confirm, cancel, attempts, retry>>

\* What left the company: the platform fee stays in the total as revenue.
Sent(w) == Total[w] - Fee[w]

\* The four guarded updates of the settlement; any of them aborts it.
CanSettle(w) == /\ CanFinalizeBalance(wallet, Total[w])
                /\ CanSubtractInternal(company, Sent(w))
                /\ CanConsumeLiquidity(company, Sent(w))
                /\ company.reserved >= Total[w]

Settled(c, w) ==
    ReleaseLiquidity(
        ConsumeReservedLiquidity(SubtractInternal(c, Sent(w)), Sent(w)), Fee[w])

\* The settlement transaction. It does not look at the statuses again. The
\* branch for withdraw.rejected is not reachable from JobCheck.
JobCommit(w) ==
    /\ job[w] = "confirmed" /\ CanSettle(w)
    /\ wallet' = FinalizeBalance(wallet, Total[w])
    /\ company' = Settled(company, w)
    /\ SetWd(w, "SUCCESS")
    /\ SetTxn(w, "COMPLETED", TRUE)
    /\ job' = [job EXCEPT ![w] = "committed"]
    /\ UNCHANGED <<providerId, queued, quidax, confirm, cancel, attempts,
                   retry, budget>>

\* An error that is not transient ends in the handler's error branch: a
\* guarded update found too little, the database failed the transaction, or,
\* after the commit, it failed the query of the liquidity cache's refresh.
JobError(w) ==
    /\ \/ job[w] = "confirmed" /\ ~CanSettle(w) /\ UNCHANGED budget
       \/ job[w] \in {"confirmed", "committed"} /\ Spend("dbError")
    /\ job' = [job EXCEPT ![w] = "failing"]
    /\ UNCHANGED <<db, quidax, confirm, cancel, attempts, retry>>

\* The error branch marks the withdrawal FAILED in a statement of its own,
\* whatever it is by then; the reservations stay and the job returns normally.
JobMarkFailed(w) ==
    /\ job[w] = "failing"
    /\ SetWd(w, "FAILED")
    /\ job' = [job EXCEPT ![w] = "finished"]
    /\ UNCHANGED <<wallet, company, txn, providerId, queued, quidax, confirm,
                   cancel, attempts, retry, budget>>

\* Mutation of LastAttempt: the job is added without the attempts option.
OnlyAttempt(w) == TRUE

LastAttempt(w) == attempts[w] = 1

\* A transient database error rolls back and is rethrown for BullMQ to retry.
JobTransient(w) ==
    /\ job[w] \in {"confirmed", "committed"}
    /\ Spend("transient")
    /\ attempts' = [attempts EXCEPT ![w] = @ - 1]
    /\ job' = [job EXCEPT ![w] = IF LastAttempt(w) THEN "dead" ELSE "waiting"]
    /\ UNCHANGED <<db, quidax, confirm, cancel, retry>>

\* The webhook row is marked processed and the job is removed.
JobFinish(w) ==
    /\ job[w] = "committed"
    /\ job' = [job EXCEPT ![w] = "finished"]
    /\ UNCHANGED <<db, quidax, confirm, cancel, attempts, retry, budget>>

---------------------------------------------------------------------------
(* Retry and expiry of queued withdrawals                                  *)

SetRetry(p, w, pc) == retry' = [retry EXCEPT ![p][w] = pc]

\* A processor walks its records one at a time.
IdleProcessor(p) == \A v \in Withdrawals : retry[p][v] = "idle"

\* Re-read the record; drop it when its transaction is no longer retryable.
RetryCheck(p, w) ==
    /\ IdleProcessor(p) /\ w \in queued
    /\ \/ /\ Open(w)
          /\ SetRetry(p, w, "checked")
          /\ UNCHANGED queued
       \/ /\ ~Open(w)
          /\ queued' = queued \ {w}
          /\ UNCHANGED retry
    /\ UNCHANGED <<wallet, company, txn, wd, providerId, quidax, confirm,
                   cancel, job, attempts, budget>>

RetryReserve(p, w) ==
    /\ retry[p][w] = "checked"
    /\ \/ /\ CanReserveLiquidity(company, Total[w])
          /\ company' = ReserveLiquidity(company, Total[w])
          /\ SetRetry(p, w, "reserved")
       \/ /\ ~CanReserveLiquidity(company, Total[w])
          /\ SetRetry(p, w, "idle")
          /\ UNCHANGED company
    /\ UNCHANGED <<wallet, txn, wd, providerId, queued, quidax, confirm,
                   cancel, job, attempts, budget>>

\* resumeWithdrawal's POST, under the reference of the first attempt.
RetryPost(p, w) ==
    /\ retry[p][w] = "reserved"
    /\ \/ /\ quidax[w] = "none"
          /\ quidax' = [quidax EXCEPT ![w] = "submitted"]
          /\ \/ SetRetry(p, w, "posted") /\ UNCHANGED budget
             \/ SetRetry(p, w, "refused") /\ Spend("lostAnswer")
       \/ /\ SetRetry(p, w, "refused")
          /\ UNCHANGED <<quidax, budget>>
    /\ UNCHANGED <<db, confirm, cancel, job, attempts>>

\* The records are set back to PROCESSING / PENDING whatever they are now.
RetryRecord(p, w) ==
    /\ retry[p][w] = "posted"
    /\ SetRetry(p, w, "recorded")
    /\ providerId' = providerId \cup {w}
    /\ SetWd(w, "PROCESSING")
    /\ SetTxn(w, "PENDING", txn[w].processed)
    /\ UNCHANGED <<wallet, company, queued, quidax, confirm, cancel, job,
                   attempts, budget>>

RetryFinish(p, w) ==
    /\ retry[p][w] = "recorded"
    /\ SetRetry(p, w, "idle")
    /\ queued' = queued \ {w}
    /\ UNCHANGED <<wallet, company, txn, wd, providerId, quidax, confirm,
                   cancel, job, attempts, budget>>

\* Mutation of GivenBack: the failed retry keeps its reservation.
KeptReserved(w) == company

\* releaseLiquidity throws, changing nothing, when too little is reserved.
GivenBack(w) == IF CanReleaseLiquidity(company, Total[w])
                THEN ReleaseLiquidity(company, Total[w]) ELSE company

\* The retry failed: its reservation is released; the record stays queued.
RetryUndo(p, w) ==
    /\ retry[p][w] = "refused"
    /\ SetRetry(p, w, "idle")
    /\ company' = GivenBack(w)
    /\ UNCHANGED <<wallet, txn, wd, providerId, queued, quidax, confirm,
                   cancel, job, attempts, budget>>

\* The database fails the retry. Before the records are written it is a retry
\* that failed, even if Quidax accepted the withdrawal; an error of the release
\* or of the record's deletion is only logged, and the reservation stays.
RetryError(p, w) ==
    /\ retry[p][w] \in {"checked", "posted", "recorded", "refused", "expiring"}
    /\ Spend("dbError")
    /\ SetRetry(p, w, IF retry[p][w] = "posted" THEN "refused" ELSE "idle")
    /\ UNCHANGED <<db, quidax, confirm, cancel, job, attempts>>

\* expireStaleFailedRecords reads the records older than three days first.
ExpireRead(w) ==
    /\ IdleProcessor(Hourly) /\ w \in queued
    /\ Spend("expiry")
    /\ \/ /\ Open(w)
          /\ SetRetry(Hourly, w, "expiring")
          /\ UNCHANGED queued
       \/ /\ ~Open(w)
          /\ queued' = queued \ {w}
          /\ UNCHANGED retry
    /\ UNCHANGED <<wallet, company, txn, wd, providerId, quidax, confirm,
                   cancel, job, attempts>>

\* Mutation of ExpireRecords: the transaction is left PENDING.
ExpireQueueOnly(w) == queued' = queued \ {w} /\ UNCHANGED txn

ExpireRecords(w) == SetTxn(w, "FAILED", TRUE) /\ queued' = queued \ {w}

\* ... and then gives the user's hold back, unless the record has gone. The
\* withdrawal row keeps its status.
ExpireCommit(w) ==
    /\ retry[Hourly][w] = "expiring"
    /\ SetRetry(Hourly, w, "idle")
    /\ IF w \in queued /\ CanReleaseBalance(wallet, Total[w])
       THEN /\ wallet' = ReleaseBalance(wallet, Total[w])
            /\ ExpireRecords(w)
       ELSE UNCHANGED <<wallet, txn, queued>>
    /\ UNCHANGED <<company, wd, providerId, quidax, confirm, cancel, job,
                   attempts, budget>>

---------------------------------------------------------------------------
(* Outside events                                                          *)

\* A settled deposit sweep adds to the company's total.
TopUp ==
    /\ Spend("topup")
    /\ company' = AddLiquidity(company, TopUpAmount)
    /\ UNCHANGED <<wallet, txn, wd, providerId, queued, quidax, confirm,
                   cancel, job, attempts, retry>>

\* The process dies: requests and scheduler runs are lost, a job that was
\* being worked on is stalled and BullMQ hands it out again.
Crash ==
    /\ Spend("crash")
    /\ confirm' = [w \in Withdrawals |->
                     IF confirm[w] = "idle" THEN "idle" ELSE "done"]
    /\ cancel' = [c \in Cancellers |-> [w \in Withdrawals |->
                     IF cancel[c][w] = "idle" THEN "idle" ELSE "done"]]
    /\ job' = [w \in Withdrawals |->
                     IF job[w] \in {"confirmed", "failing", "committed"}
                     THEN "waiting" ELSE job[w]]
    /\ retry' = [p \in Processors |-> [w \in Withdrawals |-> "idle"]]
    /\ UNCHANGED <<db, quidax, attempts>>

ConfirmStep(w) == \/ ConfirmReserve(w) \/ ConfirmPost(w) \/ ConfirmError(w)
                  \/ ConfirmCompensate(w) \/ ConfirmRecord(w)
CancelStep(c, w) == \/ CancelRead(c, w) \/ CancelLocal(c, w)
                    \/ CancelRemote(c, w) \/ CancelFinish(c, w)
                    \/ CancelError(c, w)
JobStep(w) == \/ JobCheck(w) \/ JobCommit(w) \/ JobError(w)
              \/ JobMarkFailed(w) \/ JobTransient(w) \/ JobFinish(w)
RetryStep(p, w) == \/ RetryCheck(p, w) \/ RetryReserve(p, w)
                   \/ RetryPost(p, w) \/ RetryRecord(p, w)
                   \/ RetryFinish(p, w) \/ RetryUndo(p, w)
                   \/ RetryError(p, w)
ExpireStep(w) == ExpireRead(w) \/ ExpireCommit(w)

Next ==
    \/ \E w \in Withdrawals :
         \/ ConfirmStep(w) \/ JobStep(w) \/ ExpireStep(w) \/ QuidaxFinish(w)
         \/ \E c \in Cancellers : CancelStep(c, w)
         \/ \E p \in Processors : RetryStep(p, w)
    \/ TopUp
    \/ Crash

Spec == Init /\ [][Next]_vars

(***************************************************************************)
(* Workers keep taking jobs and Quidax ends what it accepted; nothing      *)
(* obliges a user, an admin or the environment to act.                     *)
(***************************************************************************)
FairSpec == /\ Spec
            /\ \A w \in Withdrawals :
                 /\ WF_vars(QuidaxFinish(w))
                 /\ WF_vars(JobCheck(w) \/ JobCommit(w) \/ JobError(w)
                              \/ JobMarkFailed(w) \/ JobFinish(w))
                 /\ WF_vars(ConfirmPost(w) \/ ConfirmCompensate(w)
                              \/ ConfirmRecord(w) \/ ConfirmError(w))
---------------------------------------------------------------------------
(***************************************************************************)
(* Properties. Which of them survive which faults is the point: a run      *)
(* checks each under the faults and requests its configuration allows.     *)
(***************************************************************************)
SumOver(S) == SumFunctionOnSet(Total, S)

\* No update sequence of confirmSend, cancelWithdrawal, the webhook handler,
\* the retry and the expiry over-reserves or overdraws either row.
Solvent == WalletSolvent(wallet) /\ CompanySolvent(company)

\* And no step, in whatever order, takes a column out of its type.
Safe == TypeOK /\ Solvent

\* A transaction is COMPLETED, or its withdrawal SUCCESS, only if Quidax
\* really paid it, whatever the webhook, a retry or a crash did in between.
CompletedWasPaid ==
    \A w \in Withdrawals :
        txn[w].status = "COMPLETED" \/ wd[w] = "SUCCESS" => quidax[w] = "Done"

\* The wallet's reservation is exactly the holds of the transactions that are
\* still open: no release, settlement, expiry or rerun of a job takes a hold
\* twice, or another withdrawal's hold, and none leaves one behind.
HoldsExact == wallet.reserved = SumOver({w \in Withdrawals : Open(w)})

\* Every reserved unit of the wallet belongs to a transaction still open: a
\* finished withdrawal never leaves money locked.
NoPhantomHold == wallet.reserved <= SumOver({w \in Withdrawals : Open(w)})

\* Withdrawals the company's reservation must cover: open and past the queue,
\* or reserved for by the retry that is resuming them.
CompanyHeld == {w \in Withdrawals :
    /\ Open(w)
    /\ \/ w \notin queued
       \/ \E p \in Processors :
            retry[p][w] \in {"reserved", "posted", "refused", "recorded"}}

\* The company's reservation is exactly what the withdrawals past the queue
\* need: no payout goes to Quidax without liquidity behind it, and no retry,
\* compensation or settlement leaves a reservation behind.
CompanyExact == company.reserved = SumOver(CompanyHeld)

\* The two tables a settlement writes tell the same story: no rerun of the job
\* and no error after the commit leaves a paid withdrawal marked as failed.
RecordsAgree ==
    \A w \in Withdrawals : txn[w].status = "COMPLETED" <=> wd[w] = "SUCCESS"

\* Holds, reservation and tables together, through crashes and database errors
\* that are retried, or through a retry and an expiry.
BooksExact == HoldsExact /\ CompanyExact /\ RecordsAgree

\* Nothing is locked for a finished withdrawal, and none is finished as paid
\* that was not: through every fault, what a user cannot dispose of is open.
NeverShort == NoPhantomHold /\ CompletedWasPaid

\* The wallet is charged once for a withdrawal: only the step that completes
\* one, which Quidax paid and nobody completed before, takes its total. A job
\* that is run again, by BullMQ or after a crash, finds it completed; only the
\* late reply of a retry (Reopens, below) makes it uncompleted again.
ChargedOnce ==
    [][wallet'.base # wallet.base =>
         \E w \in Withdrawals :
            /\ quidax[w] = "Done"
            /\ txn[w].status # "COMPLETED" /\ txn'[w].status = "COMPLETED"
            /\ wallet'.base = wallet.base - Total[w]]_vars

\* What Quidax paid is eventually booked: the webhook's job completes the
\* transaction although it may be retried or its worker may die.
PaidSettles ==
    \A w \in Withdrawals :
        quidax[w] = "Done" /\ job[w] = "waiting" ~> txn[w].status = "COMPLETED"

\* The flow implements the reserve / settle / release protocol. Only a retry
\* whose reply comes after the webhook reopens what is settled.
Holds == INSTANCE HoldLedger WITH
    Operations <- Withdrawals,
    Amount <- Total,
    hold <- [w \in Withdrawals |->
               IF txn[w].status = "none" THEN "none"
               ELSE IF Open(w) THEN "held"
               ELSE IF txn[w].status = "FAILED" THEN "released"
               ELSE "settled"]
Reopens == \E w \in Withdrawals : /\ txn[w].status = "COMPLETED"
                                  /\ txn[w].status' = "PENDING"
ImplementsHolds ==
    /\ Holds!HInit
    /\ [][~Reopens => Holds!HNext]_(Holds!hvars)

\* withdrawal.service.ts:637 says of a cancellation without provider id that
\* no Quidax call was ever made.
PreProviderCancel ==
    \A c \in Cancellers, w \in Withdrawals :
        cancel[c][w] \in {"localQueued", "localReserved"} => quidax[w] = "none"

\* The report (section 14.5) says a failed withdrawal's webhook releases the
\* reserved balance and marks the transaction FAILED.
RejectedReleased ==
    \A w \in Withdrawals :
        quidax[w] = "Rejected" /\ job[w] = "finished" => ~Open(w)
===========================================================================
