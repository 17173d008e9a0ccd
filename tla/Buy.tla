-------------------------------- MODULE Buy --------------------------------
(***************************************************************************)
(* Purchases of crypto with naira. confirmBuy reserves the company's naira *)
(* and has Paystack charge the user (buy.service.ts); charge.success       *)
(* places an order at Quidax, or gives the naira back                      *)
(* (payment-status.handler.ts); order.done consumes the naira and credits  *)
(* the user (order-done.handler.ts, its buy branch). Purchases the company *)
(* has no naira for are retried and expired                                *)
(* (failed-company-liquidity.service.ts). Outside production no provider   *)
(* is called and confirmBuy completes the purchase itself.                 *)
(*                                                                         *)
(* The handlers hand on what they know in one JSON column, which each      *)
(* reads, and later writes back as a whole. Jobs are as in Sell.           *)
(***************************************************************************)
EXTENDS Ledger, Mishaps, FiniteSets

CONSTANTS Buys,
          Cost,        \* naira a purchase reserves: the price without the fee
          Volume,      \* crypto it gives
          Naira,       \* amounts of naira other flows may have brought in
          OtherReserved, \* what other flows have reserved of them
          Runs,        \* worker slots that run the handlers
          Hourly,      \* the hourly failed-liquidity scheduler
          Admins,      \* admin requests that activate a queued record
          Cap,         \* orders a purchase may come to
          MaxAttempts  \* backoff_retries

Processors == {Hourly} \cup Admins
Nrs == 1..Cap

ASSUME BuyAssumption ==
    /\ Cost \in [Buys -> Nat] /\ Volume \in [Buys -> Nat]
    /\ Naira \in SUBSET Nat /\ OtherReserved \in Nat
    /\ \A f \in Naira : OtherReserved <= f
    /\ Cap \in Nat \ {0} /\ MaxAttempts \in Nat \ {0}
    /\ Runs \cap {"none", "waiting", "done", "dead"} = {}

\* charge.success comes once per purchase, order.done once per order.
Events == [type : {"charge"}, buy : Buys, nr : {1}]
            \cup [type : {"order"}, buy : Buys, nr : Nrs]

VARIABLES
    production, \* NODE_ENV
    funds,      \* naira other flows have brought in
    naira,      \* the company's naira
    crypto,     \* what the user's wallet and the company's books have got
    txn,        \* status and isProcessed of the CREDIT transaction
    meta,       \* its paymentMetadata
    order,      \* the purchase's order row
    queued,     \* purchases waiting for company liquidity
    charge,     \* what Paystack did
    quidax,     \* the orders of each purchase at Quidax
    confirm,    \* progress of confirmBuy
    job,        \* the job of each event: its state, or the run holding it
    attempts,   \* attempts each job has left
    run,        \* progress of each run
    seen,       \* the metadata a run has read, and the number of its order
    retry,      \* progress of each retry and of the expiry
    known       \* the metadata a retry has read

rows == <<txn, meta, order>>
books == <<production, funds, naira, crypto, rows>>
providers == <<charge, quidax>>
work == <<job, attempts, run, seen>>
retries == <<queued, retry, known>>
buyVars == <<books, providers, confirm, work, retries, budget>>

Metadata == [liq : {"none", "RESERVED", "INSUFFICIENT", "RELEASED", "CONSUMED"},
             processing : BOOLEAN,  \* quidaxOrderProcessing
             nr : 0..Cap]           \* quidaxOrderReference, quidaxOrderId
Blank == [liq |-> "none", processing |-> FALSE, nr |-> 0]

ConfirmPc == {"new", "reserved", "charged", "refused", "released", "done"}
RunPc == {"idle", "ordering", "posting", "ordered", "refused", "declined",
          "releasing", "marking", "stamping", "failing", "settling",
          "rejecting", "committed"}
RetryPc == {"idle", "checked", "reserved", "charged", "refused", "recorded",
            "expiring"}

BuyTypeOK ==
    /\ production \in BOOLEAN
    /\ funds \in Nat /\ naira \in CompanyAccounts
    /\ crypto \in [base : Nat, internal : Nat]
    /\ txn \in [Buys -> [status : {"none", "PENDING", "COMPLETED", "FAILED"},
                         processed : BOOLEAN]]
    /\ meta \in [Buys -> Metadata]
    /\ order \in [Buys -> [nr : 0..Cap, status : {"none", "PENDING",
                                                  "COMPLETED", "FAILED"}]]
    /\ queued \in SUBSET Buys
    /\ charge \in [Buys -> {"none", "open", "paid", "reversed"}]
    /\ quidax \in [Buys -> [Nrs -> {"none", "open", "filled", "cancelled"}]]
    /\ confirm \in [Buys -> ConfirmPc]
    /\ job \in [Events -> {"none", "waiting", "done", "dead"} \cup Runs]
    /\ attempts \in [Events -> Nat]
    /\ run \in [Runs -> [Events -> RunPc]]
    /\ seen \in [Runs -> Metadata]
    /\ retry \in [Processors -> [Buys -> RetryPc]]
    /\ known \in [Processors -> Metadata]

BuyInit ==
    /\ production \in BOOLEAN
    /\ funds \in Naira
    /\ naira = [total |-> funds, reserved |-> OtherReserved, internal |-> 0]
    /\ crypto = [base |-> 0, internal |-> 0]
    /\ txn = [b \in Buys |-> [status |-> "none", processed |-> FALSE]]
    /\ meta = [b \in Buys |-> Blank]
    /\ order = [b \in Buys |-> [nr |-> 0, status |-> "none"]]
    /\ queued = {}
    /\ charge = [b \in Buys |-> "none"]
    /\ quidax = [b \in Buys |-> [n \in Nrs |-> "none"]]
    /\ confirm = [b \in Buys |-> "new"]
    /\ job = [e \in Events |-> "none"]
    /\ attempts = [e \in Events |-> MaxAttempts]
    /\ run = [r \in Runs |-> [e \in Events |-> "idle"]]
    /\ seen = [r \in Runs |-> Blank]
    /\ retry = [p \in Processors |-> [b \in Buys |-> "idle"]]
    /\ known = [p \in Processors |-> Blank]

SetTxn(b, status, processed) ==
    txn' = [txn EXCEPT ![b] = [status |-> status, processed |-> processed]]
SetMeta(b, m) == meta' = [meta EXCEPT ![b] = m]
SetLiq(b, m, status) == SetMeta(b, [m EXCEPT !.liq = status])
SetOrder(b, n, status) ==
    order' = [order EXCEPT ![b] = [nr |-> n, status |-> status]]
SetConfirm(b, pc) == confirm' = [confirm EXCEPT ![b] = pc]
SetRun(r, e, pc) == run' = [run EXCEPT ![r][e] = pc]
SetRetry(p, b, pc) == retry' = [retry EXCEPT ![p][b] = pc]

Finished(b) == txn[b].status \in {"COMPLETED", "FAILED"}

Credit(b) == crypto' = [base |-> crypto.base + Volume[b],
                        internal |-> crypto.internal + Volume[b]]
---------------------------------------------------------------------------
(* confirmBuy. transactionUniqueId is the quote's id and unique: a second  *)
(* request for a quote finds the transaction and only deletes the quote.   *)

\* One database transaction: the PENDING transaction and the company's naira,
\* or a place in the queue. Outside production nothing is reserved.
ConfirmReserve(b) ==
    /\ confirm[b] = "new"
    /\ SetTxn(b, "PENDING", FALSE)
    /\ \/ /\ production => CanReserveLiquidity(naira, Cost[b])
          /\ naira' = IF production THEN ReserveLiquidity(naira, Cost[b])
                      ELSE naira
          /\ SetLiq(b, Blank, "RESERVED")
          /\ SetConfirm(b, "reserved")
          /\ UNCHANGED queued
       \/ /\ production /\ ~CanReserveLiquidity(naira, Cost[b])
          /\ queued' = queued \cup {b}
          /\ SetLiq(b, Blank, "INSUFFICIENT")
          /\ SetConfirm(b, "done")
          /\ UNCHANGED naira
    /\ UNCHANGED <<production, funds, crypto, order, providers, work, retry,
                   known, budget>>

\* Paystack charges the saved card or opens a checkout. The call has no handler
\* for errors: only an answer that says so is a refusal.
ConfirmCharge(b) ==
    /\ production /\ confirm[b] = "reserved"
    /\ \/ /\ charge' = [charge EXCEPT ![b] = "open"]
          /\ \/ SetConfirm(b, "charged") /\ UNCHANGED budget
             \/ SetConfirm(b, "done") /\ Spend("lostAnswer")
       \/ /\ \E pc \in {"refused", "done"} : SetConfirm(b, pc)
          /\ UNCHANGED <<charge, budget>>
    /\ UNCHANGED <<books, quidax, work, retries>>

\* Two statements without a transaction around them: the naira go back ...
ConfirmRelease(b) ==
    /\ confirm[b] = "refused"
    /\ IF CanReleaseLiquidity(naira, Cost[b])
       THEN /\ naira' = ReleaseLiquidity(naira, Cost[b])
            /\ SetConfirm(b, "released")
       ELSE SetConfirm(b, "done") /\ UNCHANGED naira
    /\ UNCHANGED <<production, funds, crypto, rows, providers, work, retries,
                   budget>>

\* ... and the transaction fails; its metadata still say RESERVED.
ConfirmFail(b) ==
    /\ confirm[b] = "released"
    /\ SetConfirm(b, "done")
    /\ \/ SetTxn(b, "FAILED", txn[b].processed) /\ UNCHANGED budget
       \/ Spend("error") /\ UNCHANGED txn
    /\ UNCHANGED <<production, funds, naira, crypto, meta, order, providers,
                   work, retries>>

\* Paystack's reference is added to the metadata the transaction began with.
ConfirmRecord(b) ==
    /\ confirm[b] = "charged"
    /\ SetConfirm(b, "done")
    /\ \/ SetLiq(b, Blank, "RESERVED") /\ UNCHANGED budget
       \/ Spend("error") /\ UNCHANGED meta
    /\ UNCHANGED <<production, funds, naira, crypto, txn, order, providers,
                   work, retries>>

\* Outside production: the wallet is credited and everything is COMPLETED.
Complete(b) == /\ SetOrder(b, 0, "COMPLETED")
               /\ SetTxn(b, "COMPLETED", TRUE)
CreditWallet(b) == crypto' = [crypto EXCEPT !.base = @ + Volume[b]]

ConfirmBypass(b) ==
    /\ ~production /\ confirm[b] = "reserved"
    /\ SetConfirm(b, "done")
    /\ CreditWallet(b) /\ Complete(b)
    /\ UNCHANGED <<production, funds, naira, meta, providers, work, retries,
                   budget>>

\* completeNonProductionBuyConfirm: a second request finds a transaction that
\* is not COMPLETED and completes it.
ConfirmAgain(b) ==
    /\ ~production /\ txn[b].status = "PENDING"
    /\ Spend("repeat")
    /\ IF order[b].status # "COMPLETED" THEN CreditWallet(b)
       ELSE UNCHANGED crypto
    /\ Complete(b)
    /\ UNCHANGED <<production, funds, naira, meta, providers, confirm, work,
                   retries>>
---------------------------------------------------------------------------
(* Providers and jobs                                                      *)

Deliver(type, b, n) ==
    job' = [job EXCEPT ![[type |-> type, buy |-> b, nr |-> n]] = "waiting"]

\* The user pays, perhaps before the reply to confirmBuy or to a retry has been
\* written down; a paid charge may show as reversed when it is verified.
Unrecorded(b) == \/ confirm[b] = "charged"
                 \/ \E p \in Processors : retry[p][b] = "charged"
Pay(b) ==
    /\ charge[b] = "open"
    /\ charge' = [charge EXCEPT ![b] = "paid"]
    /\ Deliver("charge", b, 1)
    /\ IF Unrecorded(b) THEN Spend("early") ELSE UNCHANGED budget
    /\ UNCHANGED <<books, quidax, confirm, attempts, run, seen, retries>>

Reverse(b) ==
    /\ charge[b] = "paid" /\ Spend("reversal")
    /\ charge' = [charge EXCEPT ![b] = "reversed"]
    /\ UNCHANGED <<books, quidax, confirm, work, retries>>

\* Quidax ends the order, perhaps before the handler has written it down.
QuidaxFinish(b, n) ==
    /\ quidax[b][n] = "open"
    /\ \E end \in {"filled", "cancelled"} :
          quidax' = [quidax EXCEPT ![b][n] = end]
    /\ Deliver("order", b, n)
    /\ IF order[b].nr # n THEN Spend("early") ELSE UNCHANGED budget
    /\ UNCHANGED <<books, charge, confirm, attempts, run, seen, retries>>

LastAttempt(left) == left = 1

Retried(e) ==
    /\ attempts' = [attempts EXCEPT ![e] = @ - 1]
    /\ job' = [job EXCEPT ![e] =
                  IF LastAttempt(attempts[e]) THEN "dead" ELSE "waiting"]
Used(e) == job' = [job EXCEPT ![e] = "done"] /\ UNCHANGED attempts

\* A run ends; it completes or fails the job only if it still holds it.
Return(r, e) ==
    /\ SetRun(r, e, "idle") /\ seen' = [seen EXCEPT ![r] = Blank]
    /\ IF job[e] = r THEN Used(e) ELSE UNCHANGED <<job, attempts>>
Throw(r, e) ==
    /\ SetRun(r, e, "idle") /\ seen' = [seen EXCEPT ![r] = Blank]
    /\ IF job[e] = r THEN Retried(e) ELSE UNCHANGED <<job, attempts>>
See(r, e, m, pc) == /\ SetRun(r, e, pc) /\ seen' = [seen EXCEPT ![r] = m]
                    /\ UNCHANGED <<job, attempts>>
Go(r, e, pc) == See(r, e, seen[r], pc)

\* A worker takes the job and the handler reads: it goes on at pc, or the
\* event is of no use, or the reads throw.
Take(r, e, useful, pc) ==
    /\ job[e] = "waiting"
    /\ \A f \in Events : run[r][f] = "idle"
    /\ \/ /\ useful
          /\ SetRun(r, e, pc) /\ job' = [job EXCEPT ![e] = r]
          /\ seen' = [seen EXCEPT ![r] = meta[e.buy]]
          /\ UNCHANGED <<attempts, budget>>
       \/ ~useful /\ Used(e) /\ UNCHANGED <<run, seen, budget>>
       \/ Spend("error") /\ Retried(e) /\ UNCHANGED <<run, seen>>
    /\ UNCHANGED <<books, providers, confirm, retries>>
---------------------------------------------------------------------------
(* charge.success                                                          *)

\* A COMPLETED purchase is not turned away here. What Paystack says when the
\* charge is verified decides.
ChargeTake(r, e) ==
    /\ e.type = "charge"
    /\ Take(r, e, txn[e.buy].status # "FAILED",
            IF charge[e.buy] = "paid" THEN "ordering" ELSE "declined")

Ordered(m) == m.liq = "RELEASED" \/ m.nr # 0 \/ m.processing

\* Under a lock the purchase is marked, unless another run has done so.
ChargeMark(r, e) ==
    LET b == e.buy
    IN  /\ run[r][e] = "ordering"
        /\ \/ /\ ~Ordered(meta[b])
              /\ SetMeta(b, [meta[b] EXCEPT !.processing = TRUE])
              /\ See(r, e, meta[b], "posting") /\ UNCHANGED budget
           \/ Ordered(meta[b]) /\ Go(r, e, "marking") /\ UNCHANGED <<meta, budget>>
           \/ Spend("error") /\ Throw(r, e) /\ UNCHANGED meta
        /\ UNCHANGED <<production, funds, naira, crypto, txn, order, providers,
                       confirm, retries>>

\* The order carries no reference of ours. A call that fails, or whose answer
\* is lost, throws and leaves the mark.
Unused(b, n) == quidax[b][n] = "none" /\ \A m \in 1..(n - 1) : quidax[b][m] # "none"
ChargePost(r, e) ==
    LET b == e.buy
    IN  /\ run[r][e] = "posting"
        /\ \/ \E n \in Nrs :
                /\ Unused(b, n)
                /\ quidax' = [quidax EXCEPT ![b][n] = "open"]
                /\ \/ See(r, e, [seen[r] EXCEPT !.nr = n], "ordered")
                      /\ UNCHANGED budget
                   \/ Spend("lostAnswer") /\ Throw(r, e)
           \/ Spend("refusal") /\ Go(r, e, "refused") /\ UNCHANGED quidax
           \/ Spend("error") /\ Throw(r, e) /\ UNCHANGED quidax
        /\ UNCHANGED <<books, charge, confirm, retries>>

\* The metadata as they were before the mark, and the job runs again.
ChargeRefused(r, e) ==
    /\ run[r][e] = "refused"
    /\ \/ SetMeta(e.buy, seen[r]) /\ UNCHANGED budget
       \/ Spend("error") /\ UNCHANGED meta
    /\ Throw(r, e)
    /\ UNCHANGED <<production, funds, naira, crypto, txn, order, providers,
                   confirm, retries>>

\* The order row, under which order.done finds the purchase.
ChargeRecord(r, e) ==
    /\ run[r][e] = "ordered"
    /\ \/ /\ SetOrder(e.buy, seen[r].nr, "PENDING")
          /\ SetMeta(e.buy, seen[r])
          /\ Go(r, e, "marking") /\ UNCHANGED budget
       \/ Spend("error") /\ Throw(r, e) /\ UNCHANGED <<meta, order>>
    /\ UNCHANGED <<production, funds, naira, crypto, txn, providers, confirm,
                   retries>>

\* handleFailure reads without a lock ...
ChargeDeclined(r, e) ==
    /\ run[r][e] = "declined"
    /\ See(r, e, meta[e.buy], "releasing")
    /\ UNCHANGED <<books, providers, confirm, retries, budget>>

\* ... and writes by what it has read, whatever the status is.
ChargeRelease(r, e) ==
    LET b == e.buy
        reserved == seen[r].liq = "RESERVED"
    IN  /\ run[r][e] = "releasing"
        /\ \/ /\ reserved => CanReleaseLiquidity(naira, Cost[b])
              /\ naira' = IF reserved THEN ReleaseLiquidity(naira, Cost[b])
                          ELSE naira
              /\ SetTxn(b, "FAILED", TRUE) /\ SetLiq(b, seen[r], "RELEASED")
              /\ Go(r, e, "marking") /\ UNCHANGED budget
           \/ /\ \/ Spend("error")
                 \/ /\ reserved /\ ~CanReleaseLiquidity(naira, Cost[b])
                    /\ UNCHANGED budget
              /\ Throw(r, e) /\ UNCHANGED <<naira, txn, meta>>
        /\ UNCHANGED <<production, funds, crypto, order, providers, confirm,
                       retries>>

\* markPaystackWebhookProcessed reads the metadata ...
ChargeReread(r, e) ==
    /\ run[r][e] = "marking"
    /\ \/ See(r, e, meta[e.buy], "stamping") /\ UNCHANGED budget
       \/ Spend("error") /\ Throw(r, e)
    /\ UNCHANGED <<books, providers, confirm, retries>>

\* ... and writes them back with a time stamp; an error is ignored.
ChargeStamp(r, e) ==
    /\ run[r][e] = "stamping"
    /\ \/ SetMeta(e.buy, seen[r]) /\ UNCHANGED budget
       \/ Spend("error") /\ UNCHANGED meta
    /\ Return(r, e)
    /\ UNCHANGED <<production, funds, naira, crypto, txn, order, providers,
                   confirm, retries>>
---------------------------------------------------------------------------
(* order.done                                                              *)

\* An event without an order row is used up.
OrderTake(r, e) ==
    LET b == e.buy
        cancelled == quidax[b][e.nr] = "cancelled"
    IN  /\ e.type = "order"
        /\ Take(r, e, order[b].nr = e.nr /\ (cancelled \/ ~Finished(b)),
                IF cancelled THEN "failing" ELSE "settling")

\* A cancelled order: the metadata read before the lock say whether there is
\* anything to release. Other errors than transient ones end the job.
OrderFail(r, e) ==
    LET b == e.buy
        reserved == seen[r].liq = "RESERVED"
    IN  /\ run[r][e] = "failing"
        /\ \/ /\ ~Finished(b)
              /\ reserved => CanReleaseLiquidity(naira, Cost[b])
              /\ SetTxn(b, "FAILED", TRUE) /\ SetOrder(b, order[b].nr, "FAILED")
              /\ IF reserved
                 THEN /\ naira' = ReleaseLiquidity(naira, Cost[b])
                      /\ SetLiq(b, seen[r], "RELEASED")
                 ELSE UNCHANGED <<naira, meta>>
              /\ Return(r, e) /\ UNCHANGED budget
           \/ /\ \/ Finished(b)
                 \/ reserved /\ ~CanReleaseLiquidity(naira, Cost[b])
              /\ Return(r, e) /\ UNCHANGED <<naira, txn, meta, order, budget>>
           \/ /\ Spend("error")
              /\ Return(r, e) \/ Throw(r, e)
              /\ UNCHANGED <<naira, txn, meta, order>>
        /\ UNCHANGED <<production, funds, crypto, providers, confirm, retries>>

\* Mutation of Unsettled: the status is not read again under the lock.
AnyPurchase(b) == TRUE

Unsettled(b) == ~Finished(b)

Consumed(c, a) == ConsumeReservedLiquidity(c, a)

\* Under a lock: the naira are consumed, if the metadata read before it say
\* that they are reserved, and the user is credited.
OrderSettle(r, e) ==
    LET b == e.buy
        reserved == seen[r].liq = "RESERVED"
    IN  /\ run[r][e] = "settling"
        /\ \/ /\ Unsettled(b)
              /\ reserved => CanConsumeLiquidity(naira, Cost[b])
              /\ SetTxn(b, "COMPLETED", TRUE)
              /\ SetOrder(b, order[b].nr, "COMPLETED")
              /\ IF reserved
                 THEN /\ naira' = Consumed(naira, Cost[b])
                      /\ SetLiq(b, seen[r], "CONSUMED")
                 ELSE UNCHANGED <<naira, meta>>
              /\ Credit(b)
              /\ Go(r, e, "committed") /\ UNCHANGED budget
           \/ /\ ~Unsettled(b) /\ Return(r, e)
              /\ UNCHANGED <<naira, crypto, rows, budget>>
           \/ /\ Unsettled(b) /\ reserved /\ ~CanConsumeLiquidity(naira, Cost[b])
              /\ Go(r, e, "rejecting")
              /\ UNCHANGED <<naira, crypto, rows, budget>>
           \/ /\ Spend("error")
              /\ Throw(r, e) \/ Go(r, e, "rejecting")
              /\ UNCHANGED <<naira, crypto, rows>>
        /\ UNCHANGED <<production, funds, providers, confirm, retries>>

\* An error that is not transient fails the purchase, without looking at what
\* became of it meanwhile.
OrderReject(r, e) ==
    LET b == e.buy
        reserved == seen[r].liq = "RESERVED"
    IN  /\ run[r][e] = "rejecting"
        /\ \/ /\ reserved => CanReleaseLiquidity(naira, Cost[b])
              /\ naira' = IF reserved THEN ReleaseLiquidity(naira, Cost[b])
                          ELSE naira
              /\ SetTxn(b, "FAILED", TRUE) /\ SetOrder(b, order[b].nr, "FAILED")
              /\ SetMeta(b, seen[r])
              /\ Return(r, e) /\ UNCHANGED budget
           \/ /\ \/ Spend("error")
                 \/ /\ reserved /\ ~CanReleaseLiquidity(naira, Cost[b])
                    /\ UNCHANGED budget
              /\ Throw(r, e) /\ UNCHANGED <<naira, rows>>
        /\ UNCHANGED <<production, funds, crypto, providers, confirm, retries>>

\* The refresh of the liquidity cache after the commit may throw.
OrderFinish(r, e) ==
    /\ run[r][e] = "committed"
    /\ \/ Return(r, e) /\ UNCHANGED budget
       \/ Spend("error") /\ Throw(r, e)
    /\ UNCHANGED <<books, providers, confirm, retries>>
---------------------------------------------------------------------------
(* Queued purchases                                                        *)

Retryable(b) == txn[b].status = "PENDING" /\ ~txn[b].processed

RetryCheck(p, b) ==
    /\ \A c \in Buys : retry[p][c] = "idle"
    /\ b \in queued
    /\ IF Retryable(b) THEN SetRetry(p, b, "checked") /\ UNCHANGED queued
       ELSE queued' = queued \ {b} /\ UNCHANGED retry
    /\ UNCHANGED <<books, providers, confirm, work, known, budget>>

RetryReserve(p, b) ==
    /\ retry[p][b] = "checked"
    /\ IF CanReserveLiquidity(naira, Cost[b])
       THEN /\ naira' = ReserveLiquidity(naira, Cost[b])
            /\ SetRetry(p, b, "reserved")
       ELSE SetRetry(p, b, "idle") /\ UNCHANGED naira
    /\ UNCHANGED <<production, funds, crypto, rows, providers, confirm, work,
                   queued, known, budget>>

\* resumeBuy: Paystack takes each reference once.
RetryCharge(p, b) ==
    /\ retry[p][b] = "reserved"
    /\ \/ /\ charge[b] = "none"
          /\ charge' = [charge EXCEPT ![b] = "open"]
          /\ \/ /\ SetRetry(p, b, "charged")
                /\ known' = [known EXCEPT ![p] = meta[b]]
                /\ UNCHANGED budget
             \/ /\ SetRetry(p, b, "refused") /\ Spend("lostAnswer")
                /\ UNCHANGED known
       \/ SetRetry(p, b, "refused") /\ UNCHANGED <<charge, known, budget>>
    /\ UNCHANGED <<books, quidax, confirm, work, queued>>

\* Whatever became of the purchase meanwhile, it is PENDING again.
RetryRecord(p, b) ==
    /\ retry[p][b] = "charged"
    /\ \/ /\ SetLiq(b, known[p], "RESERVED")
          /\ SetTxn(b, "PENDING", txn[b].processed)
          /\ SetRetry(p, b, "recorded") /\ UNCHANGED budget
       \/ /\ Spend("error") /\ SetRetry(p, b, "refused")
          /\ UNCHANGED <<meta, txn>>
    /\ known' = [known EXCEPT ![p] = Blank]
    /\ UNCHANGED <<production, funds, naira, crypto, order, providers, confirm,
                   work, queued>>

RetryFinish(p, b) ==
    /\ retry[p][b] = "recorded"
    /\ queued' = queued \ {b}
    /\ SetRetry(p, b, "idle")
    /\ UNCHANGED <<books, providers, confirm, work, known, budget>>

\* Mutation of GivenBack: a retry that failed keeps what it reserved.
KeptReserved(c, a) == c

GivenBack(c, a) == ReleaseLiquidity(c, a)

RetryUndo(p, b) ==
    /\ retry[p][b] = "refused"
    /\ naira' = IF CanReleaseLiquidity(naira, Cost[b])
                THEN GivenBack(naira, Cost[b]) ELSE naira
    /\ SetRetry(p, b, "idle")
    /\ UNCHANGED <<production, funds, crypto, rows, providers, confirm, work,
                   queued, known, budget>>

\* Records older than three days are read in one go and fail one by one; a
\* queued purchase holds nothing of the user's.
ExpireRead(b) ==
    /\ \A c \in Buys : retry[Hourly][c] = "idle"
    /\ b \in queued /\ Retryable(b)
    /\ Spend("expiry")
    /\ SetRetry(Hourly, b, "expiring")
    /\ UNCHANGED <<books, providers, confirm, work, queued, known>>

ExpireCommit(b) ==
    /\ retry[Hourly][b] = "expiring"
    /\ SetRetry(Hourly, b, "idle")
    /\ IF b \in queued
       THEN SetTxn(b, "FAILED", TRUE) /\ queued' = queued \ {b}
       ELSE UNCHANGED <<txn, queued>>
    /\ UNCHANGED <<production, funds, naira, crypto, meta, order, providers,
                   confirm, work, known, budget>>
---------------------------------------------------------------------------
\* Other flows bring in naira.
TopUp ==
    \E f \in Naira :
        /\ f > funds
        /\ funds' = f /\ naira' = AddLiquidity(naira, f - funds)
        /\ UNCHANGED <<production, crypto, rows, providers, confirm, work,
                       retries, budget>>

\* The worker loses its lock on the job while its run goes on.
Stall(e) ==
    /\ job[e] \in Runs
    /\ Spend("stall")
    /\ job' = [job EXCEPT ![e] = "waiting"]
    /\ UNCHANGED <<books, providers, confirm, attempts, run, seen, retries>>

\* The process dies; stalled jobs are handed out again.
Crash ==
    /\ Spend("crash")
    /\ confirm' = [b \in Buys |-> IF confirm[b] = "new" THEN "new" ELSE "done"]
    /\ run' = [r \in Runs |-> [e \in Events |-> "idle"]]
    /\ seen' = [r \in Runs |-> Blank]
    /\ job' = [e \in Events |-> IF job[e] \in Runs THEN "waiting" ELSE job[e]]
    /\ retry' = [p \in Processors |-> [b \in Buys |-> "idle"]]
    /\ known' = [p \in Processors |-> Blank]
    /\ UNCHANGED <<books, providers, attempts, queued>>

ConfirmStep(b) == \/ ConfirmReserve(b) \/ ConfirmCharge(b) \/ ConfirmRelease(b)
                  \/ ConfirmFail(b) \/ ConfirmRecord(b) \/ ConfirmBypass(b)
                  \/ ConfirmAgain(b)
ChargeStep(r, e) == \/ ChargeMark(r, e) \/ ChargePost(r, e)
                    \/ ChargeRefused(r, e) \/ ChargeRecord(r, e)
                    \/ ChargeDeclined(r, e) \/ ChargeRelease(r, e)
                    \/ ChargeReread(r, e) \/ ChargeStamp(r, e)
OrderStep(r, e) == \/ OrderFail(r, e) \/ OrderSettle(r, e)
                   \/ OrderReject(r, e) \/ OrderFinish(r, e)
RetryStep(p, b) == \/ RetryCheck(p, b) \/ RetryReserve(p, b)
                   \/ RetryCharge(p, b) \/ RetryRecord(p, b)
                   \/ RetryFinish(p, b) \/ RetryUndo(p, b)

BuyNext ==
    \/ \E b \in Buys :
         \/ ConfirmStep(b) \/ Pay(b) \/ Reverse(b)
         \/ ExpireRead(b) \/ ExpireCommit(b)
         \/ \E n \in Nrs : QuidaxFinish(b, n)
         \/ \E p \in Processors : RetryStep(p, b)
    \/ \E e \in Events :
         \/ Stall(e)
         \/ \E r \in Runs : \/ ChargeTake(r, e) \/ OrderTake(r, e)
                            \/ ChargeStep(r, e) \/ OrderStep(r, e)
    \/ TopUp \/ Crash

\* Workers take jobs and go on with them, one or the other.
BuyWork(r, e) == \/ ChargeTake(r, e) \/ OrderTake(r, e)
                 \/ ChargeStep(r, e) \/ OrderStep(r, e)
BuyFairness == WF_buyVars(Of("buy") /\ \E r \in Runs, e \in Events : BuyWork(r, e))
---------------------------------------------------------------------------
(***************************************************************************)
(* Properties                                                              *)
(***************************************************************************)
Sum(f, S) == SumFunctionOnSet(f, S)
In(status) == {b \in Buys : txn[b].status = status}
Orders(b) == {n \in Nrs : quidax[b][n] # "none"}

\* No order of confirmations, charges, orders, retries and expiries commits
\* more naira than the company has; and the state is of its type.
BuySafe == BuyTypeOK /\ CompanySolvent(naira)

\* What the user has got, what the company owes for it and what the company
\* has spent are those of the completed purchases, each once, whichever run
\* settles it and wherever it stops. Left out are an expiry or a reversal that
\* fails what is settled meanwhile, a failed run that rejects what another has
\* settled, a reply written down late that reopens it, and, outside production,
\* a second request that is as fast as the first. A retry that does not learn
\* that Paystack took its charge gives the naira back, and they are not spent.
BoughtExactly ==
    /\ Untouched({"early", "reversal", "expiry"})
    /\ Untouched({"stall"}) \/ Untouched({"error"})
    => LET spent == Sum(Cost, In("COMPLETED"))
       IN  /\ Untouched({"repeat"}) => crypto.base = Sum(Volume, In("COMPLETED"))
           /\ production =>
                /\ crypto.internal = crypto.base
                /\ naira.total >= funds - spent
                /\ Untouched({"crash", "lostAnswer", "error"}) =>
                      naira.total = funds - spent

\* The naira of every purchase the user may still pay for, or has paid for, are
\* reserved, and nothing else but what retries are about to use; a confirmation
\* that was refused gives them back just before it fails.
NairaBacked ==
    LET open == {b \in In("PENDING") \ queued : confirm[b] # "released"}
        Retrying(p) == {b \in Buys : retry[p][b] \in
                          {"reserved", "charged", "refused", "recorded"}}
    IN  production /\ Untouched({"early", "crash", "stall", "error"}
                        \cup IF Admins = {} THEN {} ELSE {"expiry"}) =>
          /\ naira.reserved >= OtherReserved + Sum(Cost, open)
          /\ naira.reserved <= OtherReserved + Sum(Cost, open)
                + SumFunction([p \in Processors |-> Sum(Cost, Retrying(p))])

\* The company buys the crypto of a purchase once, whichever faults rerun its
\* job. Only a reply of Paystack that is written down after the order's mark,
\* which it wipes out, lets another run place a second order.
OrderedOnce ==
    Untouched({"early"}) \/ Spent(Kinds) <= 1 =>
        \A b \in Buys : Cardinality(Orders(b)) <= 1

\* A charge that was paid becomes an order although Quidax refuses it once,
\* unless a run stops between the mark and the answer: no other run will order.
\* And a filled order is settled, unless its event comes before the order row
\* says its number.
PurchasesDone ==
    \A b \in Buys :
        /\ charge[b] = "paid"
             => \/ Orders(b) # {} \/ txn[b].status = "FAILED"
                \/ ~Untouched({"crash", "stall", "lostAnswer", "error", "early"})
        /\ \A n \in Nrs :
             quidax[b][n] = "filled" /\ order[b].nr = n
               => Finished(b) \/ ~Untouched({"early"})
===========================================================================
