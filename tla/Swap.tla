------------------------------- MODULE Swap -------------------------------
(***************************************************************************)
(* Instant swaps of one user between two currencies: confirmSwap holds the *)
(* amount and the fee and has Quidax execute the swap (swap.service.ts),   *)
(* the swap_transaction webhook exchanges or releases it                   *)
(* (swap-transaction.handler.ts, regular path), and swaps the company has  *)
(* no liquidity for are retried and expired                                *)
(* (failed-company-liquidity.service.ts).                                  *)
(*                                                                         *)
(* As in Deposit, an event has at most one job, which may have two runs.   *)
(***************************************************************************)
EXTENDS Ledger, FiniteSets, Functions

CONSTANTS Swaps, Exact, Fee,
          Received,    \* what Quidax gives in the target currency
          InitialBase,
          Liquidity,   \* amounts the company may start with
          Runs,        \* worker slots that run the handler
          Processors,  \* the hourly scheduler and admins that retry
          MaxAttempts, \* backoff_retries
          Budget       \* how often each fault or outside event may happen

Faults == {"crash", "stall", "lostAnswer", "lag", "expiry", "error"}

ASSUME SwapAssumption ==
    /\ Exact \in [Swaps -> Nat] /\ Fee \in [Swaps -> Nat]
    /\ Received \in [Swaps -> Nat]
    /\ InitialBase \in Nat /\ Liquidity \in SUBSET Nat
    /\ MaxAttempts \in Nat \ {0}
    /\ Budget \in [Faults -> Nat]
    /\ Runs \cap {"none", "waiting", "done", "dead"} = {}

\* The sums below are over what the tables hold and what is running.
ASSUME FiniteAssumption == IsFiniteSet(Swaps) /\ IsFiniteSet(Processors)

VARIABLES
    wallet,   \* the source wallet
    company,  \* company liquidity in the source currency
    target,   \* the target wallet's and the company's books of what came in
    txn,      \* status of the DEBIT transaction
    row,      \* status of the SwapTransaction row
    queued,   \* swaps waiting for company liquidity
    quidax,   \* what Quidax did with the swap
    confirm,  \* progress of confirmSwap
    job,      \* the job of the swap's event: its state, or the run holding it
    attempts, \* attempts the job has left
    run,      \* progress of each run of the handler
    retry,    \* progress of each retry of a queued swap
    budget    \* faults that may still happen

vars == <<wallet, company, target, txn, row, queued, quidax, confirm, job,
          attempts, run, retry, budget>>
books == <<wallet, company, target, txn, row>>
work == <<job, attempts, run>>

TxStates == {"none", "PENDING", "COMPLETED", "FAILED"}
RowStates == {"none", "PENDING", "COMPLETED", "FAILED", "reversed"}
QuidaxStates == {"none", "submitted", "completed", "failed", "reversed"}
ConfirmPc == {"new", "reserved", "accepted", "refused", "done"}
RunPc == {"idle", "failing", "fetched", "committed"}

TypeOK ==
    /\ wallet \in Wallets /\ company \in CompanyAccounts
    /\ target \in [base : Nat, internal : Nat]
    /\ txn \in [Swaps -> TxStates] /\ row \in [Swaps -> RowStates]
    /\ queued \in SUBSET Swaps
    /\ quidax \in [Swaps -> QuidaxStates]
    /\ confirm \in [Swaps -> ConfirmPc]
    /\ job \in [Swaps -> {"none", "waiting", "done", "dead"} \cup Runs]
    /\ attempts \in [Swaps -> Nat]
    /\ run \in [Runs -> [Swaps -> RunPc]]
    /\ retry \in [Processors -> [Swaps -> {"idle", "reserved"}]]
    /\ budget \in [Faults -> Nat]

Init ==
    /\ wallet = [base |-> InitialBase, reserved |-> 0]
    /\ \E t \in Liquidity :
          company = [total |-> t, reserved |-> 0, internal |-> InitialBase]
    /\ target = [base |-> 0, internal |-> 0]
    /\ txn = [s \in Swaps |-> "none"] /\ row = [s \in Swaps |-> "none"]
    /\ queued = {}
    /\ quidax = [s \in Swaps |-> "none"]
    /\ confirm = [s \in Swaps |-> "new"]
    /\ job = [s \in Swaps |-> "none"]
    /\ attempts = [s \in Swaps |-> MaxAttempts]
    /\ run = [r \in Runs |-> [s \in Swaps |-> "idle"]]
    /\ retry = [p \in Processors |-> [s \in Swaps |-> "idle"]]
    /\ budget = Budget

Spend(f) == /\ budget[f] > 0
            /\ budget' = [budget EXCEPT ![f] = @ - 1]
SetTxn(s, status) == txn' = [txn EXCEPT ![s] = status]
SetRow(s, status) == row' = [row EXCEPT ![s] = status]
SetConfirm(s, pc) == confirm' = [confirm EXCEPT ![s] = pc]
SetRun(r, s, pc) == run' = [run EXCEPT ![r][s] = pc]

\* The hold on the wallet: the amount and the platform fee.
Held(s) == Exact[s] + Fee[s]

---------------------------------------------------------------------------
(* confirmSwap. A quote has one transaction: transactionUniqueId is unique *)

\* One database transaction: the PENDING transaction, the hold, and company
\* liquidity or a place in the queue. When the hold fails nothing is written.
ConfirmReserve(s) ==
    /\ confirm[s] = "new"
    /\ CanReserveBalance(wallet, Held(s))
    /\ wallet' = ReserveBalance(wallet, Held(s))
    /\ SetTxn(s, "PENDING")
    /\ \/ /\ CanReserveLiquidity(company, Exact[s])
          /\ company' = ReserveLiquidity(company, Exact[s])
          /\ SetConfirm(s, "reserved")
          /\ UNCHANGED queued
       \/ /\ ~CanReserveLiquidity(company, Exact[s])
          /\ queued' = queued \cup {s}
          /\ SetConfirm(s, "done")
          /\ UNCHANGED company
    /\ UNCHANGED <<target, row, quidax, work, retry, budget>>

\* Quidax executes the swap or refuses; any error counts as a refusal.
ConfirmQuidax(s) ==
    /\ confirm[s] = "reserved"
    /\ \/ /\ quidax' = [quidax EXCEPT ![s] = "submitted"]
          /\ \/ SetConfirm(s, "accepted") /\ UNCHANGED budget
             \/ SetConfirm(s, "refused") /\ Spend("lostAnswer")
       \/ SetConfirm(s, "refused") /\ UNCHANGED <<quidax, budget>>
    /\ UNCHANGED <<books, queued, work, retry>>

\* Both guarded updates of a release.
CanGiveBack(s) == /\ CanReleaseBalance(wallet, Held(s))
                  /\ CanReleaseLiquidity(company, Exact[s])
GiveBack(s) == /\ wallet' = ReleaseBalance(wallet, Held(s))
               /\ company' = ReleaseLiquidity(company, Exact[s])

\* The compensation; when it throws, the holds and the transaction stay.
ConfirmCompensate(s) ==
    /\ confirm[s] = "refused"
    /\ SetConfirm(s, "done")
    /\ \/ /\ CanGiveBack(s) /\ GiveBack(s)
          /\ SetTxn(s, "FAILED")
          /\ UNCHANGED budget
       \/ /\ ~CanGiveBack(s)
          /\ UNCHANGED <<wallet, company, txn, budget>>
       \/ /\ Spend("error")
          /\ UNCHANGED <<wallet, company, txn>>
    /\ UNCHANGED <<target, row, queued, quidax, work, retry>>

\* The SwapTransaction row under which webhooks find the swap, together with
\* the swap's id on the transaction.
ConfirmRecord(s) ==
    /\ confirm[s] = "accepted"
    /\ SetConfirm(s, "done")
    /\ \/ SetRow(s, "PENDING") /\ UNCHANGED budget
       \/ Spend("error") /\ UNCHANGED row
    /\ UNCHANGED <<wallet, company, target, txn, queued, quidax, work, retry>>

---------------------------------------------------------------------------
(* The webhook                                                             *)

\* Quidax ends the swap and the event's job is queued.
QuidaxFinish(s) ==
    /\ quidax[s] = "submitted"
    /\ \E end \in {"completed", "failed", "reversed"} :
          quidax' = [quidax EXCEPT ![s] = end]
    /\ job' = [job EXCEPT ![s] = "waiting"]
    /\ UNCHANGED <<books, queued, confirm, attempts, run, retry, budget>>

Return(r, s) == /\ SetRun(r, s, "idle")
                /\ job' = [job EXCEPT ![s] = IF @ = r THEN "done" ELSE @]
                /\ UNCHANGED attempts

\* Mutations of LastAttempt: the job is added without the attempts option, or
\* is retried without end.
OnlyAttempt(left) == TRUE
NeverLast(left) == FALSE

LastAttempt(left) == left = 1

Retried(s) ==
    /\ attempts' = [attempts EXCEPT ![s] = @ - 1]
    /\ job' = [job EXCEPT ![s] =
                  IF LastAttempt(attempts[s]) THEN "dead" ELSE "waiting"]

\* The run threw: the job it still holds is retried while attempts are left.
Throw(r, s) ==
    /\ SetRun(r, s, "idle")
    /\ IF job[s] = r THEN Retried(s) ELSE UNCHANGED <<attempts, job>>

\* Mutation of Terminal: the fast path for finished swaps is left out.
NeverTerminal(s) == FALSE

Terminal(s) == row[s] \in {"COMPLETED", "FAILED", "reversed"}

\* The reads up to the database transaction. Without a row, for a finished
\* swap, or when Quidax does not show the swap as completed yet, the handler
\* returns and the event is used up.
HandlerTake(r, s) ==
    /\ job[s] = "waiting"
    /\ \A t \in Swaps : run[r][t] = "idle"
    /\ \/ /\ row[s] = "none" \/ Terminal(s)
          /\ job' = [job EXCEPT ![s] = "done"]
          /\ UNCHANGED <<attempts, run, budget>>
       \/ /\ row[s] # "none" /\ ~Terminal(s)
          /\ SetRun(r, s, IF quidax[s] = "completed" THEN "fetched"
                          ELSE "failing")
          /\ job' = [job EXCEPT ![s] = r]
          /\ UNCHANGED <<attempts, budget>>
       \/ /\ row[s] # "none" /\ ~Terminal(s) /\ quidax[s] = "completed"
          /\ \/ Spend("error") /\ Retried(s)
             \/ /\ Spend("lag")
                /\ job' = [job EXCEPT ![s] = "done"] /\ UNCHANGED attempts
          /\ UNCHANGED run
    /\ UNCHANGED <<books, queued, quidax, confirm, retry>>

\* handleFailureOrReversal: one transaction that reads no status again.
HandlerFail(r, s) ==
    /\ run[r][s] = "failing"
    /\ \/ /\ CanGiveBack(s) /\ GiveBack(s)
          /\ SetRow(s, IF quidax[s] = "reversed" THEN "reversed" ELSE "FAILED")
          /\ SetTxn(s, "FAILED")
          /\ SetRun(r, s, "committed")
          /\ UNCHANGED <<job, attempts, budget>>
       \/ /\ ~CanGiveBack(s) /\ Throw(r, s)
          /\ UNCHANGED <<wallet, company, txn, row, budget>>
       \/ /\ Spend("error") /\ Throw(r, s)
          /\ UNCHANGED <<wallet, company, txn, row>>
    /\ UNCHANGED <<target, queued, quidax, confirm, retry>>

\* Mutation of Unsettled: the two rows are not locked and read again.
AnySwap(s) == TRUE

\* The row and the transaction, locked and read again.
Unsettled(s) == ~Terminal(s) /\ txn[s] \notin {"COMPLETED", "FAILED"}

CanExchange(s) == /\ CanFinalizeBalance(wallet, Held(s))
                  /\ CanSubtractInternal(company, Exact[s])
                  /\ CanReleaseLiquidity(company, Exact[s])

\* Amount and fee leave the source wallet, the proceeds enter the target; the
\* company's books follow, except that the fee stays on them.
Exchange(s) ==
    /\ wallet' = FinalizeBalance(wallet, Held(s))
    /\ company' = ReleaseLiquidity(SubtractInternal(company, Exact[s]),
                                   Exact[s])
    /\ target' = [base |-> target.base + Received[s],
                  internal |-> target.internal + Received[s]]

\* Both records say so, and the received side has one of its own.
MarkSettled(s) == SetTxn(s, "COMPLETED") /\ SetRow(s, "COMPLETED")

\* The settlement, serializable.
HandlerSettle(r, s) ==
    /\ run[r][s] = "fetched"
    /\ \/ /\ Unsettled(s) /\ CanExchange(s)
          /\ Exchange(s) /\ MarkSettled(s)
          /\ SetRun(r, s, "committed")
          /\ UNCHANGED <<job, attempts, budget>>
       \/ /\ ~Unsettled(s) /\ Return(r, s)
          /\ UNCHANGED <<books, budget>>
       \/ /\ Unsettled(s) /\ ~CanExchange(s) /\ Throw(r, s)
          /\ UNCHANGED <<books, budget>>
       \/ /\ Spend("error") /\ Throw(r, s)
          /\ UNCHANGED books
    /\ UNCHANGED <<queued, quidax, confirm, retry>>

\* Notifications, and for a completed swap the liquidity cache, whose refresh
\* may throw after the commit.
HandlerFinish(r, s) ==
    /\ run[r][s] = "committed"
    /\ \/ Return(r, s) /\ UNCHANGED budget
       \/ quidax[s] = "completed" /\ Spend("error") /\ Throw(r, s)
    /\ UNCHANGED <<books, queued, quidax, confirm, retry>>

\* The worker loses its lock on the job while its run goes on.
Stall(s) ==
    /\ job[s] \in Runs
    /\ Spend("stall")
    /\ job' = [job EXCEPT ![s] = "waiting"]
    /\ UNCHANGED <<books, queued, quidax, confirm, attempts, run, retry>>

---------------------------------------------------------------------------
(* Queued swaps                                                            *)

\* processFailedRecord reserves in a transaction of its own.
RetryReserve(p, s) ==
    /\ \A t \in Swaps : retry[p][t] = "idle"
    /\ s \in queued /\ txn[s] = "PENDING"
    /\ CanReserveLiquidity(company, Exact[s])
    /\ company' = ReserveLiquidity(company, Exact[s])
    /\ retry' = [retry EXCEPT ![p][s] = "reserved"]
    /\ UNCHANGED <<wallet, target, txn, row, queued, quidax, confirm, work,
                   budget>>

\* Mutation of GivenBack: a retry that failed keeps what it reserved.
KeptReserved(c, a) == c

GivenBack(c, a) == ReleaseLiquidity(c, a)

\* resumeSwap looks for the swap's row, which a queued swap never has, so it
\* returns false and the reservation is given back.
RetryUndo(p, s) ==
    /\ retry[p][s] = "reserved"
    /\ \/ /\ CanReleaseLiquidity(company, Exact[s])
          /\ company' = GivenBack(company, Exact[s])
       \/ /\ ~CanReleaseLiquidity(company, Exact[s])
          /\ UNCHANGED company
    /\ retry' = [retry EXCEPT ![p][s] = "idle"]
    /\ UNCHANGED <<wallet, target, txn, row, queued, quidax, confirm, work,
                   budget>>

\* createTransaction stores no totalAmountSentBase, so the expiry falls back
\* to the amount without the fee.
ExpiryRelease(s) == Exact[s]

\* After three days the queued swap fails and its hold is released.
Expire(s) ==
    /\ s \in queued /\ txn[s] = "PENDING"
    /\ Spend("expiry")
    /\ CanReleaseBalance(wallet, ExpiryRelease(s))
    /\ wallet' = ReleaseBalance(wallet, ExpiryRelease(s))
    /\ SetTxn(s, "FAILED")
    /\ queued' = queued \ {s}
    /\ UNCHANGED <<company, target, row, quidax, confirm, work, retry>>

---------------------------------------------------------------------------
\* The process dies; stalled jobs are handed out again.
Crash ==
    /\ Spend("crash")
    /\ confirm' = [s \in Swaps |-> IF confirm[s] = "new" THEN "new" ELSE "done"]
    /\ run' = [r \in Runs |-> [s \in Swaps |-> "idle"]]
    /\ job' = [s \in Swaps |-> IF job[s] \in Runs THEN "waiting" ELSE job[s]]
    /\ retry' = [p \in Processors |-> [s \in Swaps |-> "idle"]]
    /\ UNCHANGED <<books, queued, quidax, attempts>>

ConfirmStep(s) == \/ ConfirmReserve(s) \/ ConfirmQuidax(s)
                  \/ ConfirmCompensate(s) \/ ConfirmRecord(s)
HandlerStep(r, s) == \/ HandlerTake(r, s) \/ HandlerFail(r, s)
                     \/ HandlerSettle(r, s) \/ HandlerFinish(r, s)
RetryStep(p, s) == RetryReserve(p, s) \/ RetryUndo(p, s)

Next ==
    \/ \E s \in Swaps :
         \/ ConfirmStep(s) \/ QuidaxFinish(s) \/ Stall(s) \/ Expire(s)
         \/ \E r \in Runs : HandlerStep(r, s)
         \/ \E p \in Processors : RetryStep(p, s)
    \/ Crash

Spec == Init /\ [][Next]_vars

\* Workers take jobs and go on with them.
FairSpec == /\ Spec
            /\ \A s \in Swaps :
                 /\ WF_vars(\E r \in Runs : HandlerTake(r, s))
                 /\ \A r \in Runs : WF_vars(\/ HandlerFail(r, s)
                                            \/ HandlerSettle(r, s)
                                            \/ HandlerFinish(r, s))
---------------------------------------------------------------------------
(***************************************************************************)
(* Properties                                                              *)
(***************************************************************************)
In(status) == {s \in Swaps : txn[s] = status}
Untouched(F) == \A f \in F : budget[f] = Budget[f]

\* No order of confirmations, webhooks, retries and expiries over-reserves or
\* overdraws the source wallet or the company.
Solvent == WalletSolvent(wallet) /\ CompanySolvent(company)

\* And no step, in whatever order, takes a column out of its type.
Safe == TypeOK /\ Solvent

\* The four balances a swap moves, in two currencies, have moved by exactly
\* the completed swaps, each once: whichever of two runs settles it, wherever
\* it stops or throws, and whatever becomes of the others.
ExchangedTogether ==
    LET Of(f) == SumFunctionOnSet(f, In("COMPLETED"))
    IN  /\ InitialBase - wallet.base = Of(Exact) + Of(Fee)
        /\ InitialBase - company.internal = Of(Exact)
        /\ target.base = Of(Received)
        /\ target.internal = Of(Received)

\* The company's reservation covers every swap it committed to: no retry, no
\* failure and no other swap's settlement takes it away; and nothing of it is
\* left behind, besides what running retries reserve. Two runs of a failure,
\* which do not read the status again, break the first, a crash in a retry the
\* second.
CompanyBacked ==
    LET committed == SumFunctionOnSet(Exact, In("PENDING") \ queued)
        Retrying(p) == {s \in Swaps : retry[p][s] = "reserved"}
    IN  Untouched({"stall"}) =>
          /\ company.reserved >= committed
          /\ Untouched({"crash"}) =>
                company.reserved <= committed
                  + SumFunction([p \in Processors |->
                                   SumFunctionOnSet(Exact, Retrying(p))])

\* A swap whose row was there when its event came is settled, as long as its
\* job errs fewer times than it has attempts, Quidax does not show an older
\* state than its event, and no second run of a failure takes its hold.
RecordedIsSettled ==
    \A s \in Swaps :
        row[s] = "PENDING" /\ job[s] = "waiting" ~>
            \/ Terminal(s)
            \/ Budget["error"] - budget["error"] >= MaxAttempts
            \/ ~Untouched({"lag", "stall"})

\* Swaps implement the reserve / settle / release protocol on the source
\* wallet, until a failure runs twice or an expiry leaves the fee reserved.
Holds == INSTANCE HoldLedger WITH
    Operations <- Swaps,
    Amount <- [s \in Swaps |-> Held(s)],
    hold <- [s \in Swaps |-> CASE txn[s] = "none" -> "none"
                               [] txn[s] = "PENDING" -> "held"
                               [] txn[s] = "COMPLETED" -> "settled"
                               [] txn[s] = "FAILED" -> "released"]
ImplementsHolds ==
    /\ Holds!HInit
    /\ [][Untouched({"stall", "expiry"})' => Holds!HNext]_(Holds!hvars)

\* The report (section 13) has the SwapTransaction record created before the
\* swap is confirmed at Quidax, and the webhook complete it: once its job is
\* done, a completed swap is booked.
CompletedIsBooked ==
    \A s \in Swaps :
        quidax[s] = "completed" /\ job[s] = "done" => txn[s] = "COMPLETED"
===========================================================================
