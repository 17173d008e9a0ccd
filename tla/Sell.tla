-------------------------------- MODULE Sell --------------------------------
(***************************************************************************)
(* Sales of crypto for naira by one user. confirmSell holds the crypto and *)
(* the company's naira and places an order at Quidax (sell.service.ts);    *)
(* order.done books the proceeds and starts the payout at Paystack         *)
(* (order-done.handler.ts, its sell branch); transfer.success debits the   *)
(* wallet and transfer.failed or .reversed reopens the sale                *)
(* (payment-status.handler.ts). Sales without naira behind them are        *)
(* retried and expired (failed-company-liquidity.service.ts).              *)
(*                                                                         *)
(* A retry may place another order and a rerun job start another payout,   *)
(* so both are numbered; a sale knows one of each, ref and payref. Events  *)
(* have one job each, which may have several runs at a time.               *)
(***************************************************************************)
EXTENDS Ledger, FiniteSets, Functions

CONSTANTS Sells, Exact, Fee,   \* crypto sold and fee, in the wallet's currency
          Payout,              \* naira reserved for the sale and paid out
          Proceeds,            \* naira Quidax gives for the crypto
          InitialBase, OtherHeld,         \* the wallet, and other flows' holds
          InitialCompany, OtherReserved,  \* the same of the company's naira
          Cryptos,     \* what the company's row of the crypto may be
          Runs,        \* worker slots that run the handlers
          Hourly,      \* the hourly failed-liquidity scheduler
          Admins,      \* admin requests that activate a queued record
          Cap,         \* orders and payouts a sale may come to
          MaxAttempts, \* backoff_retries
          Budget,      \* how often each fault or outside event may happen
          MaxFaults    \* and how many of them there may be

\* "undeleted": the queue's record of a sale that was resumed is not deleted.
Faults == {"crash", "stall", "lostAnswer", "error", "undeleted", "expiry",
           "reversal", "shortage"}
Processors == {Hourly} \cup Admins
Nrs == 1..Cap

ASSUME SellAssumption ==
    /\ Exact \in [Sells -> Nat] /\ Fee \in [Sells -> Nat]
    /\ Payout \in [Sells -> Nat] /\ Proceeds \in [Sells -> Nat]
    /\ InitialBase \in Nat /\ OtherHeld \in 0..InitialBase
    /\ InitialCompany \in Nat /\ OtherReserved \in 0..InitialCompany
    /\ \A row \in Cryptos : row \in CompanyAccounts /\ CompanySolvent(row)
    /\ Cap \in Nat \ {0} /\ MaxAttempts \in Nat \ {0}
    /\ Budget \in [Faults -> Nat] /\ MaxFaults \in Nat
    /\ Runs \cap {"none", "waiting", "done", "dead"} = {}
ASSUME FiniteAssumption == IsFiniteSet(Sells) /\ IsFiniteSet(Runs)

Events == [type : {"order", "success", "failure"}, sell : Sells, nr : Nrs]

VARIABLES
    wallet,   \* the user's crypto wallet
    company,  \* the company's naira
    crypto,   \* the company's row of the crypto sold
    txn,      \* status and isProcessed of the DEBIT transaction
    liq,      \* liquidityReservationStatus of its metadata
    proceeds, \* whether the proceeds are on the company's books
    payout,   \* payoutStatus of its metadata
    ref,      \* the Quidax order the sale's order row refers to, or 0
    payref,   \* the Paystack transfer it refers to, or 0
    queued,   \* sales with a record in the queue for company liquidity
    excess,   \* those whose record is, or was, about the crypto
    quidax,   \* the orders of each sale at Quidax
    paystack, \* the transfers of each sale at Paystack
    confirm,  \* progress of confirmSell
    job,      \* the job of each event: its state, or the run holding it
    attempts, \* attempts each job has left
    run,      \* progress of each run
    seen,     \* the metadata a run has read, and the number of its transfer
    retry,    \* progress of each retry and of the expiry
    posted,   \* the order each retry has placed
    borrowed, \* processors whose retry reserves of the crypto
    budget    \* faults that may still happen

rows == <<txn, liq, proceeds, payout, ref, payref>>
books == <<wallet, company, crypto, rows>>
providers == <<quidax, paystack>>
work == <<job, attempts, run, seen>>
queue == <<queued, excess>>
retries == <<queue, retry, posted, borrowed>>
vars == <<books, providers, confirm, work, retries, budget>>

LiqStates == {"none", "RESERVED", "INSUFFICIENT", "RELEASED"}
PayoutStates == {"none", "initiated", "failed_retry_required", "success"}
ConfirmPc == {"new", "reserved", "posting", "accepted", "refused", "done"}
RunPc == {"idle", "failing", "adding", "paying", "paid", "unpaid",
          "settling", "reverting", "committed"}
RetryPc == {"idle", "checked", "reserved", "posted", "refused", "recorded",
            "expiring"}

TypeOK ==
    /\ wallet \in Wallets
    /\ company \in CompanyAccounts /\ crypto \in CompanyAccounts
    /\ txn \in [Sells -> [status : {"none", "PENDING", "COMPLETED", "FAILED"},
                          processed : BOOLEAN]]
    /\ liq \in [Sells -> LiqStates]
    /\ proceeds \in [Sells -> BOOLEAN]
    /\ payout \in [Sells -> PayoutStates]
    /\ ref \in [Sells -> 0..Cap] /\ payref \in [Sells -> 0..Cap]
    /\ queued \in SUBSET Sells /\ excess \in SUBSET Sells
    /\ quidax \in [Sells -> [Nrs -> {"none", "open", "filled", "cancelled"}]]
    /\ paystack \in [Sells -> [Nrs ->
                       {"none", "pending", "success", "failed", "reversed"}]]
    /\ confirm \in [Sells -> ConfirmPc]
    /\ job \in [Events -> {"none", "waiting", "done", "dead"} \cup Runs]
    /\ attempts \in [Events -> Nat]
    /\ run \in [Runs -> [Events -> RunPc]]
    /\ seen \in [Runs -> [liq : LiqStates, proceeds : BOOLEAN,
                          payout : PayoutStates, nr : 0..Cap]]
    /\ retry \in [Processors -> [Sells -> RetryPc]]
    /\ posted \in [Processors -> 0..Cap] /\ borrowed \in SUBSET Processors
    /\ budget \in [Faults -> Nat]

Unseen == [liq |-> "none", proceeds |-> FALSE, payout |-> "none", nr |-> 0]

Init ==
    /\ wallet = [base |-> InitialBase, reserved |-> OtherHeld]
    /\ company = [total |-> InitialCompany, reserved |-> OtherReserved,
                  internal |-> 0]
    /\ crypto \in Cryptos
    /\ txn = [s \in Sells |-> [status |-> "none", processed |-> FALSE]]
    /\ liq = [s \in Sells |-> "none"]
    /\ proceeds = [s \in Sells |-> FALSE]
    /\ payout = [s \in Sells |-> "none"]
    /\ ref = [s \in Sells |-> 0] /\ payref = [s \in Sells |-> 0]
    /\ queued = {} /\ excess = {}
    /\ quidax = [s \in Sells |-> [n \in Nrs |-> "none"]]
    /\ paystack = [s \in Sells |-> [n \in Nrs |-> "none"]]
    /\ confirm = [s \in Sells |-> "new"]
    /\ job = [e \in Events |-> "none"]
    /\ attempts = [e \in Events |-> MaxAttempts]
    /\ run = [r \in Runs |-> [e \in Events |-> "idle"]]
    /\ seen = [r \in Runs |-> Unseen]
    /\ retry = [p \in Processors |-> [s \in Sells |-> "idle"]]
    /\ posted = [p \in Processors |-> 0] /\ borrowed = {}
    /\ budget = Budget

Spent(F) == SumFunctionOnSet([f \in F |-> Budget[f] - budget[f]], F)
Spend(f) == /\ budget[f] > 0 /\ Spent(Faults) < MaxFaults
            /\ budget' = [budget EXCEPT ![f] = @ - 1]
SetTxn(s, status, processed) ==
    txn' = [txn EXCEPT ![s] = [status |-> status, processed |-> processed]]
SetLiq(s, status) == liq' = [liq EXCEPT ![s] = status]
SetPayout(s, status) == payout' = [payout EXCEPT ![s] = status]
SetProceeds(s, booked) == proceeds' = [proceeds EXCEPT ![s] = booked]
SetConfirm(s, pc) == confirm' = [confirm EXCEPT ![s] = pc]
SetRun(r, e, pc) == run' = [run EXCEPT ![r][e] = pc]
SetRetry(p, s, pc) == retry' = [retry EXCEPT ![p][s] = pc]

Finished(s) == txn[s].status \in {"COMPLETED", "FAILED"}

\* The hold on the wallet: what is sold and the platform fee.
Held(s) == Exact[s] + Fee[s]

\* Orders and transfers are numbered in the order they are made.
Unused(made, n) == made[n] = "none" /\ \A m \in 1..(n - 1) : made[m] # "none"
Place(s, n) == /\ Unused(quidax[s], n)
               /\ quidax' = [quidax EXCEPT ![s][n] = "open"]
               /\ UNCHANGED paystack
---------------------------------------------------------------------------
(* confirmSell                                                             *)

Enqueue(s) == queued' = queued \cup {s}

\* The PENDING transaction, with its order row, and the hold.
NewSale(s) == /\ CanReserveBalance(wallet, Held(s))
              /\ wallet' = ReserveBalance(wallet, Held(s))
              /\ SetTxn(s, "PENDING", FALSE)

\* The company's naira or a place in the queue. When another transaction takes
\* the naira between the look and the reservation, the metadata says RESERVED.
ReservePayout(s) ==
    \/ /\ CanReserveLiquidity(company, Payout[s])
       /\ company' = ReserveLiquidity(company, Payout[s])
       /\ SetLiq(s, "RESERVED")
       /\ SetConfirm(s, "reserved")
       /\ UNCHANGED queued
    \/ /\ ~CanReserveLiquidity(company, Payout[s])
       /\ Enqueue(s)
       /\ \E status \in {"INSUFFICIENT", "RESERVED"} : SetLiq(s, status)
       /\ SetConfirm(s, "done")
       /\ UNCHANGED company

\* One database transaction.
ConfirmReserve(s) ==
    /\ confirm[s] = "new"
    /\ NewSale(s)
    /\ ReservePayout(s)
    /\ UNCHANGED <<crypto, proceeds, payout, ref, payref, providers, work,
                   excess, retry, posted, borrowed, budget>>

\* The copy of the Paystack balance in Redis, refreshed by a scheduler, may
\* say anything; when it is too small the sale is queued after all.
ConfirmPaystack(s) ==
    /\ confirm[s] = "reserved"
    /\ \/ SetConfirm(s, "posting") /\ UNCHANGED <<company, liq, queued>>
       \/ /\ SetConfirm(s, "done")
          /\ IF CanReleaseLiquidity(company, Payout[s])
             THEN /\ company' = ReleaseLiquidity(company, Payout[s])
                  /\ Enqueue(s)
                  /\ SetLiq(s, "INSUFFICIENT")
             ELSE UNCHANGED <<company, liq, queued>>
    /\ UNCHANGED <<wallet, crypto, txn, proceeds, payout, ref, payref, providers,
                   work, excess, retry, posted, borrowed, budget>>

\* The POST has no handler for errors: a request that fails, or whose answer is
\* lost, leaves everything as it is. Only an answer that says so is a refusal.
ConfirmPost(s) ==
    /\ confirm[s] = "posting"
    /\ \/ /\ Place(s, 1)
          /\ \/ SetConfirm(s, "accepted") /\ UNCHANGED budget
             \/ SetConfirm(s, "done") /\ Spend("lostAnswer")
       \/ /\ \E pc \in {"refused", "done"} : SetConfirm(s, pc)
          /\ UNCHANGED <<providers, budget>>
    /\ UNCHANGED <<books, work, retries>>

CanGiveBack(s) == /\ CanReleaseBalance(wallet, Held(s))
                  /\ CanReleaseLiquidity(company, Payout[s])

ConfirmCompensate(s) ==
    /\ confirm[s] = "refused"
    /\ SetConfirm(s, "done")
    /\ \/ /\ CanGiveBack(s)
          /\ wallet' = ReleaseBalance(wallet, Held(s))
          /\ company' = ReleaseLiquidity(company, Payout[s])
          /\ SetTxn(s, "FAILED", TRUE) /\ SetLiq(s, "RELEASED")
          /\ UNCHANGED budget
       \/ /\ ~CanGiveBack(s)
          /\ UNCHANGED <<wallet, company, txn, liq, budget>>
       \/ Spend("error") /\ UNCHANGED <<wallet, company, txn, liq>>
    /\ UNCHANGED <<crypto, proceeds, payout, ref, payref, providers, work,
                   retries>>

\* Only now can order.done find the order row.
ConfirmRecord(s) ==
    /\ confirm[s] = "accepted"
    /\ SetConfirm(s, "done")
    /\ \/ ref' = [ref EXCEPT ![s] = 1] /\ UNCHANGED budget
       \/ Spend("error") /\ UNCHANGED ref
    /\ UNCHANGED <<wallet, company, crypto, txn, liq, proceeds, payout, payref,
                   providers, work, retries>>
---------------------------------------------------------------------------
(* Providers and jobs                                                      *)

Deliver(type, s, n) ==
    job' = [job EXCEPT ![[type |-> type, sell |-> s, nr |-> n]] = "waiting"]

QuidaxFinish(s, n) ==
    /\ quidax[s][n] = "open"
    /\ \E end \in {"filled", "cancelled"} :
          quidax' = [quidax EXCEPT ![s][n] = end]
    /\ Deliver("order", s, n)
    /\ UNCHANGED <<books, paystack, confirm, attempts, run, seen, retries,
                   budget>>

PaystackFinish(s, n) ==
    /\ \/ /\ paystack[s][n] = "pending"
          /\ \/ /\ paystack' = [paystack EXCEPT ![s][n] = "success"]
                /\ Deliver("success", s, n)
             \/ /\ paystack' = [paystack EXCEPT ![s][n] = "failed"]
                /\ Deliver("failure", s, n)
          /\ UNCHANGED budget
       \/ /\ paystack[s][n] = "success"
          /\ Spend("reversal")
          /\ paystack' = [paystack EXCEPT ![s][n] = "reversed"]
          /\ Deliver("failure", s, n)
    /\ UNCHANGED <<books, quidax, confirm, attempts, run, seen, retries>>

\* Mutations of LastAttempt: the job is added without the attempts option; the
\* attempts of a job are not counted.
OnlyAttempt(left) == TRUE
NeverLast(left) == FALSE

LastAttempt(left) == left = 1

Retried(e) ==
    /\ attempts' = [attempts EXCEPT ![e] = @ - 1]
    /\ job' = [job EXCEPT ![e] =
                  IF LastAttempt(attempts[e]) THEN "dead" ELSE "waiting"]

Used(e) == job' = [job EXCEPT ![e] = "done"] /\ UNCHANGED attempts

\* A run ends; it completes or fails the job only if it still holds it.
Return(r, e) ==
    /\ SetRun(r, e, "idle") /\ seen' = [seen EXCEPT ![r] = Unseen]
    /\ IF job[e] = r THEN Used(e) ELSE UNCHANGED <<job, attempts>>
Throw(r, e) ==
    /\ SetRun(r, e, "idle") /\ seen' = [seen EXCEPT ![r] = Unseen]
    /\ IF job[e] = r THEN Retried(e) ELSE UNCHANGED <<job, attempts>>
Go(r, e, pc) == SetRun(r, e, pc) /\ UNCHANGED <<job, attempts>>

\* The metadata is one JSON column: a handler that changes a field of it writes
\* back the others as it has read them.
Metadata(s) == [liq |-> liq[s], proceeds |-> proceeds[s],
                payout |-> payout[s], nr |-> 0]

\* A worker takes the job and the handler reads: it goes on at pc, or the
\* event is of no use, or the reads throw.
Take(r, e, useful, pc) ==
    /\ job[e] = "waiting"
    /\ \A f \in Events : run[r][f] = "idle"
    /\ \/ /\ useful
          /\ SetRun(r, e, pc) /\ job' = [job EXCEPT ![e] = r]
          /\ seen' = [seen EXCEPT ![r] = Metadata(e.sell)]
          /\ UNCHANGED <<attempts, budget>>
       \/ ~useful /\ Used(e) /\ UNCHANGED <<run, seen, budget>>
       \/ Spend("error") /\ Retried(e) /\ UNCHANGED <<run, seen>>
    /\ UNCHANGED <<books, providers, confirm, retries>>
---------------------------------------------------------------------------
(* order.done                                                              *)

KnownOrder(s, n) == ref[s] = n

OrderTake(r, e) ==
    LET s == e.sell
        cancelled == quidax[s][e.nr] = "cancelled"
    IN  /\ e.type = "order"
        /\ Take(r, e, KnownOrder(s, e.nr) /\ (cancelled \/ ~Finished(s)),
                IF cancelled THEN "failing" ELSE "adding")

\* A cancelled order: a release of the hold that fails is ignored, one of the
\* naira that fails undoes everything, and the job completes all the same.
OrderFail(r, e) ==
    LET s == e.sell
        reserved == seen[r].liq = "RESERVED"
    IN  /\ run[r][e] = "failing"
        /\ \/ /\ ~Finished(s)
              /\ reserved => CanReleaseLiquidity(company, Payout[s])
              /\ SetTxn(s, "FAILED", TRUE)
              /\ wallet' = IF CanReleaseBalance(wallet, Held(s))
                           THEN ReleaseBalance(wallet, Held(s)) ELSE wallet
              /\ IF reserved
                 THEN /\ company' = ReleaseLiquidity(company, Payout[s])
                      /\ SetLiq(s, "RELEASED")
                      /\ SetProceeds(s, seen[r].proceeds)
                      /\ SetPayout(s, seen[r].payout)
                 ELSE UNCHANGED <<company, liq, proceeds, payout>>
              /\ Return(r, e) /\ UNCHANGED budget
           \/ /\ \/ Finished(s)
                 \/ reserved /\ ~CanReleaseLiquidity(company, Payout[s])
              /\ Return(r, e)
              /\ UNCHANGED <<wallet, company, txn, liq, proceeds, payout, budget>>
           \/ /\ Spend("error")
              /\ Return(r, e) \/ Throw(r, e)
              /\ UNCHANGED <<wallet, company, txn, liq, proceeds, payout>>
        /\ UNCHANGED <<crypto, ref, payref, providers, confirm, retries>>

\* Mutation of Unbooked: the metadata is not read again under the lock.
AnySale(s) == TRUE

Unbooked(s) == ~proceeds[s]

\* Mutation of AddFailed: the error is swallowed, and the payout starts.
PayAnyway(r, e) == Go(r, e, "paying")

AddFailed(r, e) == Go(r, e, "unpaid")

\* The proceeds are booked once, under a lock on the transaction.
OrderAdd(r, e) ==
    LET s == e.sell
    IN  /\ run[r][e] = "adding"
        /\ \/ /\ IF Unbooked(s)
                 THEN /\ company' = AddLiquidity(company, Proceeds[s])
                      /\ SetProceeds(s, TRUE)
                 ELSE UNCHANGED <<company, proceeds>>
              /\ seen' = [seen EXCEPT ![r] = [Metadata(s) EXCEPT !.proceeds = TRUE]]
              /\ Go(r, e, "paying") /\ UNCHANGED budget
           \/ /\ Spend("error") /\ AddFailed(r, e)
              /\ UNCHANGED <<company, proceeds, seen>>
        /\ UNCHANGED <<wallet, crypto, txn, liq, payout, ref, payref, providers,
                       confirm, retries>>

\* The transfer carries no reference of ours: Paystack takes each for new.
OrderPay(r, e) ==
    LET s == e.sell
    IN  /\ run[r][e] = "paying"
        /\ \/ \E n \in Nrs :
                /\ Unused(paystack[s], n)
                /\ paystack' = [paystack EXCEPT ![s][n] = "pending"]
                /\ \/ /\ Go(r, e, "paid")
                      /\ seen' = [seen EXCEPT ![r].nr = n]
                      /\ UNCHANGED budget
                   \/ /\ Spend("lostAnswer") /\ Go(r, e, "unpaid")
                      /\ UNCHANGED seen
           \/ /\ \/ Spend("error")
                 \/ /\ \A n \in Nrs : ~Unused(paystack[s], n)
                    /\ UNCHANGED budget
              /\ Go(r, e, "unpaid") /\ UNCHANGED <<paystack, seen>>
        /\ UNCHANGED <<books, quidax, confirm, retries>>

\* The metadata read before the calls goes back with the transfer's reference.
OrderPaid(r, e) ==
    LET s == e.sell
    IN  /\ run[r][e] = "paid"
        /\ \/ /\ payref' = [payref EXCEPT ![s] = seen[r].nr]
              /\ SetPayout(s, "initiated") /\ SetLiq(s, seen[r].liq)
              /\ SetProceeds(s, seen[r].proceeds)
              /\ Go(r, e, "committed") /\ UNCHANGED budget
           \/ /\ Spend("error") /\ Go(r, e, "unpaid")
              /\ UNCHANGED <<payref, payout, liq, proceeds>>
        /\ UNCHANGED <<wallet, company, crypto, txn, ref, providers, confirm,
                       seen, retries>>

\* The sale is PENDING again, whatever it was.
Reopen(r, s) == /\ SetTxn(s, "PENDING", FALSE)
                /\ SetPayout(s, "failed_retry_required")
                /\ SetLiq(s, "RESERVED") /\ SetProceeds(s, seen[r].proceeds)

\* The catch branch, whose own transaction may fail; the job runs again.
OrderUnpaid(r, e) ==
    LET s == e.sell
    IN  /\ run[r][e] = "unpaid"
        /\ \/ Reopen(r, s) /\ UNCHANGED budget
           \/ Spend("error") /\ UNCHANGED <<txn, payout, liq, proceeds>>
        /\ Throw(r, e)
        /\ UNCHANGED <<wallet, company, crypto, ref, payref, providers, confirm,
                       retries>>

\* The refresh of the liquidity cache after a commit may throw.
Finish(r, e) ==
    /\ run[r][e] = "committed"
    /\ \/ Return(r, e) /\ UNCHANGED budget
       \/ Spend("error") /\ Throw(r, e)
    /\ UNCHANGED <<books, providers, confirm, retries>>
---------------------------------------------------------------------------
(* transfer.success, transfer.failed and transfer.reversed                 *)

Unsettled(s) == payout[s] # "success"

Succeeded(e) == e.type = "success"

\* The order row is found by the transfer's reference. The status of the
\* payout is read here, and a failed one is never "failed".
TransferTake(r, e) ==
    LET known == payref[e.sell] = e.nr
    IN  /\ e.type # "order"
        /\ \/ /\ Succeeded(e)
              /\ Take(r, e, known /\ Unsettled(e.sell), "settling")
           \/ ~Succeeded(e) /\ Take(r, e, known, "reverting")

\* isInternalBalanceExceeding: the company owes its users more than it has.
Exceeding(row) == row.internal > row.total

\* The queue has one record per sale: another cannot be created.
CanSettle(s) ==
    /\ CanReleaseLiquidity(company, Payout[s])
    /\ CanFinalizeBalance(wallet, Exact[s])
    /\ CanSubtractInternal(crypto, Exact[s])
    /\ s \in queued => ~Exceeding(SubtractInternal(crypto, Exact[s]))

\* The crypto is owed to the user no more; a record in the queue tells of what
\* the company then still lacks.
SettleInternal(s) ==
    /\ crypto' = SubtractInternal(crypto, Exact[s])
    /\ IF Exceeding(crypto')
       THEN Enqueue(s) /\ excess' = excess \cup {s}
       ELSE UNCHANGED queue

\* What was sold leaves the wallet; the fee stays, and stays reserved.
TransferSettle(r, e) ==
    LET s == e.sell
    IN  /\ run[r][e] = "settling"
        /\ \/ /\ CanSettle(s)
              /\ company' = ReleaseLiquidity(company, Payout[s])
              /\ wallet' = FinalizeBalance(wallet, Exact[s])
              /\ SetTxn(s, "COMPLETED", TRUE)
              /\ SetPayout(s, "success") /\ SetLiq(s, "RELEASED")
              /\ SetProceeds(s, seen[r].proceeds)
              /\ SettleInternal(s)
              /\ Go(r, e, "committed") /\ UNCHANGED <<seen, budget>>
           \/ /\ \/ ~CanSettle(s) /\ UNCHANGED budget
                 \/ Spend("error")
              /\ Throw(r, e)
              /\ UNCHANGED <<wallet, company, crypto, txn, payout, liq,
                             proceeds, queue>>
        /\ UNCHANGED <<ref, payref, providers, confirm, retry, posted, borrowed>>

TransferRevert(r, e) ==
    LET s == e.sell
    IN  /\ run[r][e] = "reverting"
        /\ \/ Reopen(r, s) /\ Return(r, e) /\ UNCHANGED budget
           \/ /\ Spend("error") /\ Throw(r, e)
              /\ UNCHANGED <<txn, payout, liq, proceeds>>
        /\ UNCHANGED <<wallet, company, crypto, ref, payref, providers, confirm,
                       retries>>
---------------------------------------------------------------------------
(* Queued sales                                                            *)

Retryable(s) == txn[s].status = "PENDING" /\ ~txn[s].processed

\* A processor handles one record at a time; one that cannot be retried any
\* more is deleted. It says what is to be reserved, naira or crypto.
RetryCheck(p, s) ==
    /\ \A t \in Sells : retry[p][t] = "idle"
    /\ s \in queued
    /\ IF Retryable(s)
       THEN /\ SetRetry(p, s, "checked") /\ UNCHANGED queued
            /\ borrowed' = {q \in Processors :
                              IF q = p THEN s \in excess ELSE q \in borrowed}
       ELSE queued' = queued \ {s} /\ UNCHANGED <<retry, borrowed>>
    /\ UNCHANGED <<books, providers, confirm, work, excess, posted, budget>>

RetryReserve(p, s) ==
    /\ retry[p][s] = "checked"
    /\ \/ /\ p \notin borrowed /\ CanReserveLiquidity(company, Payout[s])
          /\ company' = ReserveLiquidity(company, Payout[s])
          /\ SetRetry(p, s, "reserved") /\ UNCHANGED crypto
       \/ /\ p \in borrowed /\ CanReserveLiquidity(crypto, Exact[s])
          /\ crypto' = ReserveLiquidity(crypto, Exact[s])
          /\ SetRetry(p, s, "reserved") /\ UNCHANGED company
       \/ /\ IF p \in borrowed THEN ~CanReserveLiquidity(crypto, Exact[s])
             ELSE ~CanReserveLiquidity(company, Payout[s])
          /\ SetRetry(p, s, "idle") /\ UNCHANGED <<company, crypto>>
    /\ UNCHANGED <<wallet, rows, providers, confirm, work, queue, posted,
                   borrowed, budget>>

RetryPost(p, s) ==
    /\ retry[p][s] = "reserved"
    /\ \/ \E n \in Nrs :
            /\ Place(s, n)
            /\ \/ /\ SetRetry(p, s, "posted")
                  /\ posted' = [posted EXCEPT ![p] = n]
                  /\ UNCHANGED budget
               \/ /\ SetRetry(p, s, "refused") /\ Spend("lostAnswer")
                  /\ UNCHANGED posted
       \/ SetRetry(p, s, "refused") /\ UNCHANGED <<providers, posted, budget>>
    /\ UNCHANGED <<books, confirm, work, queue, borrowed>>

\* Whatever became of the sale meanwhile, it is PENDING again; its metadata
\* still says INSUFFICIENT.
RetryRecord(p, s) ==
    /\ retry[p][s] = "posted"
    /\ \/ /\ ref' = [ref EXCEPT ![s] = posted[p]]
          /\ SetTxn(s, "PENDING", txn[s].processed)
          /\ SetRetry(p, s, "recorded") /\ UNCHANGED budget
       \/ /\ Spend("error") /\ SetRetry(p, s, "refused")
          /\ UNCHANGED <<ref, txn>>
    /\ posted' = [posted EXCEPT ![p] = 0]
    /\ UNCHANGED <<wallet, company, crypto, liq, proceeds, payout, payref,
                   providers, confirm, work, queue, borrowed>>

Dequeue(s) == queued' = queued \ {s}

RetryFinish(p, s) ==
    /\ retry[p][s] = "recorded"
    /\ Dequeue(s)
    /\ SetRetry(p, s, "idle")
    /\ UNCHANGED <<books, providers, confirm, work, excess, posted, borrowed,
                   budget>>

GiveBack(row, a) ==
    IF CanReleaseLiquidity(row, a) THEN ReleaseLiquidity(row, a) ELSE row

RetryUndo(p, s) ==
    /\ retry[p][s] = "refused"
    /\ IF p \in borrowed
       THEN crypto' = GiveBack(crypto, Exact[s]) /\ UNCHANGED company
       ELSE company' = GiveBack(company, Payout[s]) /\ UNCHANGED crypto
    /\ SetRetry(p, s, "idle")
    /\ UNCHANGED <<wallet, rows, providers, confirm, work, queue, posted,
                   borrowed, budget>>

\* An error, which is logged, leaves things as they are: the record of a sale
\* whose order has been placed too, when it is its deletion that fails.
RetryError(p, s) ==
    /\ \/ retry[p][s] \in {"checked", "refused", "expiring"} /\ Spend("error")
       \/ retry[p][s] = "recorded" /\ Spend("undeleted")
    /\ SetRetry(p, s, "idle")
    /\ UNCHANGED <<books, providers, confirm, work, queue, posted, borrowed>>

\* Records older than three days are read in one go ...
ExpireRead(s) ==
    /\ \A t \in Sells : retry[Hourly][t] = "idle"
    /\ s \in queued /\ Retryable(s)
    /\ Spend("expiry")
    /\ SetRetry(Hourly, s, "expiring")
    /\ UNCHANGED <<books, providers, confirm, work, queue, posted, borrowed>>

\* Mutation of ExpireRecords: the transaction is left as it is.
ExpireQueueOnly(s) == queued' = queued \ {s} /\ UNCHANGED txn

ExpireRecords(s) == SetTxn(s, "FAILED", TRUE) /\ queued' = queued \ {s}

\* ... and fail one by one, giving back the hold without the fee, which
\* totalAmountSentBase would hold if createTransaction stored it.
ExpireCommit(s) ==
    /\ retry[Hourly][s] = "expiring"
    /\ SetRetry(Hourly, s, "idle")
    /\ IF s \in queued /\ CanReleaseBalance(wallet, Exact[s])
       THEN /\ wallet' = ReleaseBalance(wallet, Exact[s])
            /\ ExpireRecords(s)
       ELSE UNCHANGED <<wallet, txn, queued>>
    /\ UNCHANGED <<company, crypto, liq, proceeds, payout, ref, payref,
                   providers, confirm, work, excess, posted, borrowed, budget>>
---------------------------------------------------------------------------
\* Other flows reserve what is left of the company's naira.
OthersReserve ==
    LET left == company.total - company.reserved
    IN  /\ left > 0 /\ Spend("shortage")
        /\ company' = ReserveLiquidity(company, left)
        /\ UNCHANGED <<wallet, crypto, rows, providers, confirm, work, retries>>

\* The worker loses its lock on the job while its run goes on.
Stall(e) ==
    /\ job[e] \in Runs
    /\ Spend("stall")
    /\ job' = [job EXCEPT ![e] = "waiting"]
    /\ UNCHANGED <<books, providers, confirm, attempts, run, seen, retries>>

\* The process dies; stalled jobs are handed out again.
Crash ==
    /\ Spend("crash")
    /\ confirm' = [s \in Sells |-> IF confirm[s] = "new" THEN "new" ELSE "done"]
    /\ run' = [r \in Runs |-> [e \in Events |-> "idle"]]
    /\ seen' = [r \in Runs |-> Unseen]
    /\ job' = [e \in Events |-> IF job[e] \in Runs THEN "waiting" ELSE job[e]]
    /\ retry' = [p \in Processors |-> [s \in Sells |-> "idle"]]
    /\ posted' = [p \in Processors |-> 0] /\ borrowed' = {}
    /\ UNCHANGED <<books, providers, attempts, queue>>

ConfirmStep(s) == \/ ConfirmReserve(s) \/ ConfirmPaystack(s) \/ ConfirmPost(s)
                  \/ ConfirmCompensate(s) \/ ConfirmRecord(s)
OrderStep(r, e) == \/ OrderFail(r, e) \/ OrderAdd(r, e) \/ OrderPay(r, e)
                   \/ OrderPaid(r, e) \/ OrderUnpaid(r, e)
HandlerStep(r, e) == \/ OrderStep(r, e) \/ TransferSettle(r, e)
                     \/ TransferRevert(r, e) \/ Finish(r, e)
RetryStep(p, s) == \/ RetryCheck(p, s) \/ RetryReserve(p, s)
                   \/ RetryPost(p, s) \/ RetryRecord(p, s)
                   \/ RetryFinish(p, s) \/ RetryUndo(p, s) \/ RetryError(p, s)

Next ==
    \/ \E s \in Sells :
         \/ ConfirmStep(s) \/ ExpireRead(s) \/ ExpireCommit(s)
         \/ \E n \in Nrs : QuidaxFinish(s, n) \/ PaystackFinish(s, n)
         \/ \E p \in Processors : RetryStep(p, s)
    \/ \E e \in Events :
         \/ Stall(e)
         \/ \E r \in Runs : \/ OrderTake(r, e) \/ TransferTake(r, e)
                            \/ HandlerStep(r, e)
    \/ OthersReserve \/ Crash

Spec == Init /\ [][Next]_vars

\* Workers take jobs and go on with them.
FairSpec ==
    /\ Spec
    /\ \A e \in Events :
         /\ WF_vars(\E r \in Runs : OrderTake(r, e) \/ TransferTake(r, e))
         /\ \A r \in Runs : WF_vars(HandlerStep(r, e))
---------------------------------------------------------------------------
(***************************************************************************)
(* Properties                                                              *)
(***************************************************************************)
Untouched(F) == \A f \in F : budget[f] = Budget[f]
Sum(f, S) == SumFunctionOnSet(f, S)
Arrived(s) == {n \in Nrs : paystack[s][n] \in {"success", "reversed"}}
In(status) == {s \in Sells : txn[s].status = status}

\* No order of confirmations, orders, payouts, retries and expiries
\* over-reserves or overdraws the wallet or the company's naira and crypto.
Solvent == /\ WalletSolvent(wallet)
           /\ CompanySolvent(company) /\ CompanySolvent(crypto)

\* And no step, in whatever order, takes a column out of its type.
Safe == TypeOK /\ Solvent

\* Two retries may each place an order for one sale and record it: those of two
\* processors, one that died or failed before it deleted the queue's record, and
\* one of the record that a settlement left.
OneTry == Admins = {} /\ Untouched({"crash", "undeleted"}) /\ excess = {}
OneOrder ==
    \/ OneTry
    \/ \A s \in Sells : \A n \in Nrs \ {1} : quidax[s][n] = "none"

\* The proceeds of a sale are on the company's books, once, however often
\* order.done is handled, and only if Quidax filled an order of that sale. But
\* an error in one of two runs, or the failure of one of two orders, writes back
\* metadata that says nothing of them.
ProceedsOnce ==
    LET booked == InitialCompany + Sum(Proceeds, {s \in Sells : proceeds[s]})
    IN  /\ company.total >= booked
        /\ OneOrder /\ (Untouched({"stall"}) \/ Untouched({"error"})) =>
              company.total = booked
        /\ \A s \in Sells :
              proceeds[s] => \E n \in Nrs : quidax[s][n] = "filled"

\* Nobody is paid for crypto that was not sold: the company has the proceeds of
\* every sale with a payout.
PaidWasSold ==
    company.total >= InitialCompany
        + Sum(Proceeds, {s \in Sells : \E n \in Nrs : paystack[s][n] # "none"})

\* One payout per filled order, and one more for every fault at most that
\* reruns the order's job after its transfer.
PaidOnce ==
    \A s \in Sells :
        Cardinality({n \in Nrs : paystack[s][n] # "none"})
            <= Cardinality({n \in Nrs : quidax[s][n] = "filled"})
                 + Spent({"crash", "stall", "lostAnswer", "error"})

\* Nobody is paid without a sale nor, but for faults, twice.
PayoutsEarned == PaidWasSold /\ PaidOnce

\* What other flows hold on the wallet is there, and so is the hold of every
\* open sale until its user has been paid, whatever answers are lost, payouts
\* reversed and sales expired. A job that runs again may reopen the sale, and so
\* may an admin who resumes one that is just being expired or has an order; the
\* record that a settlement left lets a sale expire whose payout is reversed.
HoldsKept ==
    /\ Untouched({"crash", "stall", "error", "undeleted"}) /\ OneOrder
    /\ excess = {} \/ Untouched({"reversal"})
    /\ Admins = {} \/ Untouched({"expiry"})
    => wallet.reserved >= OtherHeld
         + SumFunction([s \in Sells |->
              IF txn[s].status = "PENDING" /\ Arrived(s) = {}
              THEN Held(s) ELSE 0])

\* The naira of every sale under way at a provider are reserved.
PayoutBacked ==
    Untouched({"crash", "stall", "error", "reversal"}) =>
        company.reserved >= OtherReserved + Sum(Payout, In("PENDING") \ queued)

\* No single fault, but a second run of one job, makes the wallet pay more
\* than once for a payout that reached the user, unless a second order of the
\* sale reopens it.
NeverOvercharged ==
    Untouched({"stall"}) /\ Spent(Faults) <= 1 /\ OneOrder =>
        InitialBase - wallet.base
            <= SumFunction([s \in Sells |->
                              Exact[s] * Cardinality(Arrived(s))])

\* Both sides of a sale keep what it needs until it has been paid, and the
\* wallet is not charged for what did not reach the user.
SaleBacked == HoldsKept /\ PayoutBacked /\ NeverOvercharged

\* A filled order the sale knows is paid out: its job goes on until Paystack
\* has a transfer, unless the sale ends or another order takes its place.
FilledIsPaid ==
    \A s \in Sells, n \in Nrs :
        LET e == [type |-> "order", sell |-> s, nr |-> n]
        IN  quidax[s][n] = "filled" /\ ref[s] = n /\ job[e] = "waiting" ~>
              \/ \E m \in Nrs : paystack[s][m] # "none"
              \/ Finished(s) \/ ref[s] # n

\* A payout that reached the user is booked, if its event finds the transfer's
\* reference on the order and has more attempts left than the fault can take: the
\* wallet pays and the sale is COMPLETED, unless an earlier payout has used up
\* what covers it, the crypto is not on the company's internal balance, or the
\* record it would leave in the queue has a twin.
PaidIsBooked ==
    \A s \in Sells, n \in Nrs :
        LET e == [type |-> "success", sell |-> s, nr |-> n]
        IN  payref[s] = n /\ job[e] = "waiting" /\ attempts[e] > 1 ~>
              payout[s] = "success" \/ payref[s] # n \/ ~CanSettle(s)

\* A sale settles: what is sold is paid, and what is paid is booked, whatever
\* single fault happens.
SaleSettles == FilledIsPaid /\ PaidIsBooked
=============================================================================
