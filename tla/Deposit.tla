------------------------------ MODULE Deposit ------------------------------
(***************************************************************************)
(* Deposits of one user in one currency: the deposit.successful handler    *)
(* credits the wallet and sends the deposit on to the company's main       *)
(* account (deposit-successful.handler.ts), and the webhook of that sweep  *)
(* adds it to the company's liquidity (withdrawal.handler.ts), either in   *)
(* its own job or from company-withdrawal-retry.scheduler.ts.              *)
(*                                                                         *)
(* The webhook pipeline puts at most one job per event on a queue          *)
(* (WebhookPipeline!SingleJob), but BullMQ takes a job whose lock ran out  *)
(* from a worker that is still busy with it, so a job may have two runs.   *)
(***************************************************************************)
EXTENDS Ledger, FiniteSets, Functions

CONSTANTS Deposits, Amount, InitialBase, InitialCompany, InitialInternal,
          Runs,        \* worker slots that run the deposit handler
          Worker,      \* runs the sweep's webhook job
          Scheduler,   \* re-reads old unprocessed webhooks of sweeps
          MaxAttempts, \* backoff_retries
          Budget       \* how often each fault or outside event may happen

Faults == {"crash", "stall", "fetchError", "noData", "creditError", "lostAnswer",
           "recordError", "lookup", "transient", "dbError", "hour"}
Handlers == {Worker, Scheduler}

ASSUME DepositAssumption ==
    /\ Amount \in [Deposits -> Nat]
    /\ InitialBase \in Nat /\ InitialCompany \in Nat /\ InitialInternal \in Nat
    /\ MaxAttempts \in Nat \ {0}
    /\ Budget \in [Faults -> Nat]
    /\ Runs \cap {"none", "waiting", "done", "dead"} = {}
    /\ Worker # Scheduler

VARIABLES
    wallet,    \* the user's row of "wallets"
    company,   \* the currency's row of "company_liquidity"
    credited,  \* deposits with their COMPLETED transaction
    sweepRow,  \* row of "company_withdrawals": its status, and whether its
               \* providerReference is the one Quidax uses
    quidax,    \* what Quidax did with the sweep
    hook,      \* the sweep's webhook row
    job,       \* the deposit's job: its state, or the run that holds it
    attempts,  \* attempts the deposit's job has left
    run,       \* progress of each run of the deposit handler
    sweepJob,  \* the job of the sweep's webhook
    sweepAttempts,
    handler,   \* progress of each execution of the sweep's handler
    budget     \* faults that may still happen

deposit == <<job, attempts, run>>
sweep == <<hook, sweepJob, sweepAttempts, handler>>
vars == <<wallet, company, credited, sweepRow, quidax, hook, job, attempts,
          run, sweepJob, sweepAttempts, handler, budget>>

RowStates == {"none", "PENDING", "SUCCESS", "FAILED"}
QuidaxStates == {"none", "submitted", "Done", "Rejected"}
RunPc == {"idle", "checked", "credited", "posted", "refused"}
HandlerPc == {"idle", "confirmed", "committed", "failing", "marking"}
JobStates == {"none", "waiting", "done", "dead"}

TypeOK ==
    /\ wallet \in Wallets /\ company \in CompanyAccounts
    /\ credited \in SUBSET Deposits
    /\ sweepRow \in [Deposits -> [status : RowStates, found : BOOLEAN]]
    /\ quidax \in [Deposits -> QuidaxStates]
    /\ hook \in [Deposits -> {"none", "pending", "processed"}]
    /\ job \in [Deposits -> JobStates \cup Runs]
    /\ attempts \in [Deposits -> Nat]
    /\ run \in [Runs -> [Deposits -> RunPc]]
    /\ sweepJob \in [Deposits -> {"none", "waiting", "active", "done", "dead"}]
    /\ sweepAttempts \in [Deposits -> Nat]
    /\ handler \in [Handlers -> [Deposits -> HandlerPc]]
    /\ budget \in [Faults -> Nat]

Init ==
    /\ wallet = [base |-> InitialBase, reserved |-> 0]
    /\ company = [total |-> InitialCompany, reserved |-> 0,
                  internal |-> InitialInternal]
    /\ credited = {}
    /\ sweepRow = [d \in Deposits |-> [status |-> "none", found |-> FALSE]]
    /\ quidax = [d \in Deposits |-> "none"]
    /\ hook = [d \in Deposits |-> "none"]
    /\ job = [d \in Deposits |-> "none"]
    /\ attempts = [d \in Deposits |-> MaxAttempts]
    /\ run = [r \in Runs |-> [d \in Deposits |-> "idle"]]
    /\ sweepJob = [d \in Deposits |-> "none"]
    /\ sweepAttempts = [d \in Deposits |-> MaxAttempts]
    /\ handler = [h \in Handlers |-> [d \in Deposits |-> "idle"]]
    /\ budget = Budget

Spend(f) == /\ budget[f] > 0
            /\ budget' = [budget EXCEPT ![f] = @ - 1]
SetRun(r, d, pc) == run' = [run EXCEPT ![r][d] = pc]
SetRow(d, status, found) ==
    sweepRow' = [sweepRow EXCEPT ![d] = [status |-> status, found |-> found]]
SetHandler(h, d, pc) == handler' = [handler EXCEPT ![h][d] = pc]

---------------------------------------------------------------------------
(* The deposit.successful job                                              *)

\* The pipeline queues the event of a deposit Quidax accepted.
Arrive(d) ==
    /\ job[d] = "none"
    /\ job' = [job EXCEPT ![d] = "waiting"]
    /\ UNCHANGED <<wallet, company, credited, sweepRow, quidax, sweep,
                   attempts, run, budget>>

\* The run returned: the job is complete if the run still holds it.
Return(r, d) == /\ SetRun(r, d, "idle")
                /\ job' = [job EXCEPT ![d] = IF @ = r THEN "done" ELSE @]
                /\ UNCHANGED attempts

\* Mutations of LastAttempt: the job is added without the attempts option, or
\* is retried without end.
OnlyAttempt(left) == TRUE
NeverLast(left) == FALSE

LastAttempt(left) == left = 1

Retried(d) ==
    /\ attempts' = [attempts EXCEPT ![d] = @ - 1]
    /\ job' = [job EXCEPT ![d] =
                  IF LastAttempt(attempts[d]) THEN "dead" ELSE "waiting"]

\* The run threw: the job it still holds is retried while attempts are left.
Throw(r, d) ==
    /\ SetRun(r, d, "idle")
    /\ IF job[d] = r THEN Retried(d) ELSE UNCHANGED <<attempts, job>>

\* The check before the database transaction.
FirstRun(d) == d \notin credited

\* A free worker slot takes the job, fetches the deposit from Quidax and looks
\* for its transaction. An answer without the deposit, which is what is made of an
\* error body of Quidax, or a user or wallet that is not there ends the job as done.
DepositCheck(r, d) ==
    /\ job[d] = "waiting"
    /\ \A e \in Deposits : run[r][e] = "idle"
    /\ \/ /\ FirstRun(d)
          /\ SetRun(r, d, "checked")
          /\ job' = [job EXCEPT ![d] = r]
          /\ UNCHANGED <<attempts, budget>>
       \/ /\ ~FirstRun(d)
          /\ job' = [job EXCEPT ![d] = "done"]
          /\ UNCHANGED <<attempts, run, budget>>
       \/ Spend("fetchError") /\ Retried(d) /\ UNCHANGED run
       \/ /\ Spend("noData")
          /\ job' = [job EXCEPT ![d] = "done"]
          /\ UNCHANGED <<attempts, run>>
    /\ UNCHANGED <<wallet, company, credited, sweepRow, quidax, sweep>>

\* Mutation of Uncredited: the check inside the transaction is left out.
AnyDeposit(d) == TRUE

\* The check inside the database transaction, and the unique key behind it.
Uncredited(d) == d \notin credited

\* Mutation of CreditError: the catch block logs the error and goes on.
CreditErrorSwallowed(r, d) == /\ SetRun(r, d, "credited")
                              /\ UNCHANGED <<job, attempts>>

CreditError(r, d) == Throw(r, d)

\* The credit: transaction row, wallet and internal balance together.
DepositCredit(r, d) ==
    /\ run[r][d] = "checked"
    /\ \/ /\ Uncredited(d)
          /\ credited' = credited \cup {d}
          /\ wallet' = CreditBalance(wallet, Amount[d])
          /\ company' = AddInternal(company, Amount[d])
          /\ SetRun(r, d, "credited")
          /\ UNCHANGED <<job, attempts, budget>>
       \/ /\ ~Uncredited(d)
          /\ Return(r, d)
          /\ UNCHANGED <<wallet, company, credited, budget>>
       \/ /\ Spend("creditError")
          /\ CreditError(r, d)
          /\ UNCHANGED <<wallet, company, credited>>
    /\ UNCHANGED <<sweepRow, quidax, sweep>>

\* The credited transaction is read again, which may fail, and the sweep is
\* posted to Quidax under a reference made from the deposit's id.
DepositPost(r, d) ==
    /\ run[r][d] = "credited"
    /\ \/ /\ quidax[d] = "none"
          /\ quidax' = [quidax EXCEPT ![d] = "submitted"]
          /\ \/ SetRun(r, d, "posted") /\ UNCHANGED budget
             \/ SetRun(r, d, "refused") /\ Spend("lostAnswer")
          /\ UNCHANGED <<job, attempts>>
       \/ /\ SetRun(r, d, "refused")
          /\ UNCHANGED <<quidax, budget, job, attempts>>
       \/ Spend("recordError") /\ Throw(r, d) /\ UNCHANGED quidax
    /\ UNCHANGED <<wallet, company, credited, sweepRow, sweep>>

\* Without an answer the row gets a made-up reference.
WriteRow(r, d) == IF run[r][d] = "posted" THEN SetRow(d, "PENDING", TRUE)
                  ELSE SetRow(d, "FAILED", FALSE)

\* The row of the sweep, created only now. If the database errs, the FAILED
\* row of the catch block is tried; if that or the refresh of the liquidity
\* cache errs too, the handler throws.
DepositRecord(r, d) ==
    /\ run[r][d] \in {"posted", "refused"}
    /\ \/ WriteRow(r, d) /\ Return(r, d) /\ UNCHANGED budget
       \/ /\ Spend("recordError")
          /\ \/ /\ run[r][d] = "posted" /\ SetRow(d, "FAILED", TRUE)
                /\ Return(r, d)
             \/ /\ WriteRow(r, d) \/ UNCHANGED sweepRow
                /\ Throw(r, d)
    /\ UNCHANGED <<wallet, company, credited, quidax, sweep>>

\* The worker loses its lock on the job while its run goes on.
Stall(d) ==
    /\ job[d] \in Runs
    /\ Spend("stall")
    /\ job' = [job EXCEPT ![d] = "waiting"]
    /\ UNCHANGED <<wallet, company, credited, sweepRow, quidax, sweep,
                   attempts, run>>

---------------------------------------------------------------------------
(* The sweep's webhook                                                     *)

\* Quidax ends the sweep and its webhook is stored and queued.
QuidaxFinish(d) ==
    /\ quidax[d] = "submitted"
    /\ \E s \in {"Done", "Rejected"} : quidax' = [quidax EXCEPT ![d] = s]
    /\ hook' = [hook EXCEPT ![d] = "pending"]
    /\ sweepJob' = [sweepJob EXCEPT ![d] = "waiting"]
    /\ UNCHANGED <<wallet, company, credited, sweepRow, deposit,
                   sweepAttempts, handler, budget>>

\* Mutation of SweepOpen: a row in a terminal status is taken again.
AnyFound(d) == sweepRow[d].found

\* The row is found by its reference and is not in a terminal status.
SweepOpen(d) == /\ sweepRow[d].found
                /\ sweepRow[d].status \notin {"SUCCESS", "FAILED"}

\* Mutations of Confirmed: the event is believed without asking Quidax; Quidax's
\* status is compared in the wrong case.
EventBelieved(d) == TRUE
WrongCase(d) == quidax[d] = "done"

\* Quidax's view of the sweep must be Done.
Confirmed(d) == quidax[d] = "Done"

\* Load and confirm. Every early return counts as success.
Load(h, d) ==
    \/ /\ SweepOpen(d) /\ Confirmed(d)
       /\ SetHandler(h, d, "confirmed")
    \/ /\ ~SweepOpen(d) \/ ~Confirmed(d)
       /\ SetHandler(h, d, "marking")

SweepTake(d) ==
    /\ sweepJob[d] = "waiting"
    /\ sweepJob' = [sweepJob EXCEPT ![d] = "active"]
    /\ \/ Load(Worker, d) /\ UNCHANGED budget
       \/ SetHandler(Worker, d, "marking") /\ Spend("lookup")
    /\ UNCHANGED <<wallet, company, credited, sweepRow, quidax, deposit, hook,
                   sweepAttempts>>

\* The scheduler takes a webhook that is an hour old and not processed; one
\* whose row it cannot find it leaves alone.
SweepRetake(d) ==
    /\ \A e \in Deposits : handler[Scheduler][e] = "idle"
    /\ hook[d] = "pending" /\ sweepRow[d].found
    /\ Spend("hour")
    /\ Load(Scheduler, d)
    /\ UNCHANGED <<wallet, company, credited, sweepRow, quidax, deposit, hook,
                   sweepJob, sweepAttempts>>

\* The sweep's transaction; the status is not looked at again.
SweepCommit(h, d) ==
    /\ handler[h][d] = "confirmed"
    /\ company' = AddLiquidity(company, Amount[d])
    /\ SetRow(d, "SUCCESS", TRUE)
    /\ SetHandler(h, d, "committed")
    /\ UNCHANGED <<wallet, credited, quidax, deposit, hook, sweepJob,
                   sweepAttempts, budget>>

\* The cache refresh after the commit succeeds.
SweepRefresh(h, d) ==
    /\ handler[h][d] = "committed"
    /\ SetHandler(h, d, "marking")
    /\ UNCHANGED <<wallet, company, credited, sweepRow, quidax, deposit, hook,
                   sweepJob, sweepAttempts, budget>>

\* An error that is not transient, in the transaction or in the refresh.
SweepError(h, d) ==
    /\ handler[h][d] \in {"confirmed", "committed"}
    /\ Spend("dbError")
    /\ SetHandler(h, d, "failing")
    /\ UNCHANGED <<wallet, company, credited, sweepRow, quidax, deposit, hook,
                   sweepJob, sweepAttempts>>

SweepMarkFailed(h, d) ==
    /\ handler[h][d] = "failing"
    /\ SetRow(d, "FAILED", TRUE)
    /\ SetHandler(h, d, "marking")
    /\ UNCHANGED <<wallet, company, credited, quidax, deposit, hook, sweepJob,
                   sweepAttempts, budget>>

\* A transient error is thrown to BullMQ by the worker; the scheduler logs it
\* and goes on to mark the webhook processed.
SweepTransient(h, d) ==
    /\ handler[h][d] \in {"confirmed", "committed"}
    /\ Spend("transient")
    /\ \/ /\ h = Worker
          /\ SetHandler(h, d, "idle")
          /\ sweepAttempts' = [sweepAttempts EXCEPT ![d] = @ - 1]
          /\ sweepJob' = [sweepJob EXCEPT ![d] =
               IF LastAttempt(sweepAttempts[d]) THEN "dead" ELSE "waiting"]
       \/ /\ h = Scheduler
          /\ SetHandler(h, d, "marking")
          /\ UNCHANGED <<sweepAttempts, sweepJob>>
    /\ UNCHANGED <<wallet, company, credited, sweepRow, quidax, deposit, hook>>

SweepDone(h, d) ==
    /\ handler[h][d] = "marking"
    /\ hook' = [hook EXCEPT ![d] = "processed"]
    /\ SetHandler(h, d, "idle")
    /\ sweepJob' = [sweepJob EXCEPT ![d] = IF h = Worker THEN "done" ELSE @]
    /\ UNCHANGED <<wallet, company, credited, sweepRow, quidax, deposit,
                   sweepAttempts, budget>>

---------------------------------------------------------------------------
\* The process dies; stalled jobs are handed out again.
Crash ==
    /\ Spend("crash")
    /\ run' = [r \in Runs |-> [d \in Deposits |-> "idle"]]
    /\ job' = [d \in Deposits |-> IF job[d] \in Runs THEN "waiting"
                                  ELSE job[d]]
    /\ handler' = [h \in Handlers |-> [d \in Deposits |-> "idle"]]
    /\ sweepJob' = [d \in Deposits |-> IF sweepJob[d] = "active"
                                       THEN "waiting" ELSE sweepJob[d]]
    /\ UNCHANGED <<wallet, company, credited, sweepRow, quidax, hook,
                   attempts, sweepAttempts>>

RunStep(r, d) == \/ DepositCheck(r, d) \/ DepositCredit(r, d)
                 \/ DepositPost(r, d) \/ DepositRecord(r, d)
HandlerStep(h, d) == \/ SweepCommit(h, d) \/ SweepRefresh(h, d)
                     \/ SweepError(h, d) \/ SweepMarkFailed(h, d)
                     \/ SweepTransient(h, d) \/ SweepDone(h, d)

Next ==
    \/ \E d \in Deposits :
         \/ Arrive(d) \/ Stall(d) \/ QuidaxFinish(d)
         \/ SweepTake(d) \/ SweepRetake(d)
         \/ \E r \in Runs : RunStep(r, d)
         \/ \E h \in Handlers : HandlerStep(h, d)
    \/ Crash

Spec == Init /\ [][Next]_vars

\* Workers take jobs and go on with them.
FairSpec == /\ Spec
            /\ \A d \in Deposits :
                 /\ WF_vars(\E r \in Runs : DepositCheck(r, d))
                 /\ \A r \in Runs : WF_vars(\/ DepositCredit(r, d)
                                            \/ DepositPost(r, d)
                                            \/ DepositRecord(r, d))
                 /\ WF_vars(QuidaxFinish(d))
                 /\ WF_vars(\/ SweepTake(d) \/ SweepCommit(Worker, d)
                            \/ SweepRefresh(Worker, d)
                            \/ SweepMarkFailed(Worker, d)
                            \/ SweepDone(Worker, d))
---------------------------------------------------------------------------
(***************************************************************************)
(* Properties                                                              *)
(***************************************************************************)
AmountOf(S) == SumFunctionOnSet(Amount, S)

\* The wallet, and with it what the company owes its users, has grown by each
\* credited deposit exactly once, whichever of two runs of its job credits it
\* and wherever either of them stops or throws.
CreditedExactly ==
    /\ wallet.base - InitialBase = AmountOf(credited)
    /\ company.internal - InitialInternal = wallet.base - InitialBase

\* A sweep is booked as SUCCESS only if Quidax carried it out and the user had
\* been credited, whichever of the worker and the scheduler books it.
SweepWasPaid ==
    \A d \in Deposits :
        sweepRow[d].status = "SUCCESS" => quidax[d] = "Done" /\ d \in credited

\* A deposit leaves the user's account at Quidax only after the user was
\* credited for it, whichever run posts the sweep.
SweptWasCredited ==
    \A d \in Deposits : quidax[d] # "none" => d \in credited

\* A sweep follows its credit and is booked only after it was carried out.
SweepsInOrder == SweepWasPaid /\ SweptWasCredited

\* A deposit whose event was queued is credited in the end, as long as its
\* job errors fewer times than it has attempts. One that Quidax did not show when it
\* was asked for has used up its event, and nobody asks again.
ArrivedIsCredited ==
    \A d \in Deposits :
        job[d] = "waiting" ~>
            d \in credited \/ (job[d] = "done" /\ budget["noData"] < Budget["noData"])

\* Neither the scheduler nor an error after a commit has interfered yet.
Undisturbed == \A f \in {"hour", "dbError"} : budget[f] = Budget[f]

\* Deposits and sweeps implement the credit ledger, step by step, until the
\* scheduler adds a sweep again or an error marks a counted one as FAILED.
Credits == INSTANCE CreditLedger WITH
    stage <- [d \in Deposits |->
                IF sweepRow[d].status = "SUCCESS" THEN "swept"
                ELSE IF d \in credited THEN "credited" ELSE "seen"]
ImplementsCredits ==
    /\ Credits!CInit
    /\ [][Undisturbed' => Credits!CNext]_(Credits!cvars)

\* The report (section 15) says the sweep keeps the company's main account
\* balance accurate. It does for a sweep whose row is there before Quidax ends
\* it: that one is counted, unless a lookup or a database error intervenes. One
\* that is ended earlier is marked processed and never counted.
RecordedIsCounted ==
    \A d \in Deposits :
        SweepOpen(d) /\ quidax[d] = "submitted" ~>
            \/ sweepRow[d].status = "SUCCESS" \/ quidax[d] = "Rejected"
            \/ \E f \in {"lookup", "transient", "dbError"} :
                  budget[f] < Budget[f]

\* What arrived is credited, and what was recorded in time is counted.
BothSettle == ArrivedIsCredited /\ RecordedIsCounted
===========================================================================
