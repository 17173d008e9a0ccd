---------------------------- MODULE Sell_proofs ----------------------------
(***************************************************************************)
(* Theorems about Sell, for every set of sales, every amount, any number   *)
(* of worker slots, orders, payouts and processors, and every budget.      *)
(*                                                                         *)
(* Sound carries the types and the solvency of both rows. A job that is    *)
(* not dead has an attempt left, and an order or transfer has the jobs     *)
(* only of events it has had; without these, balances and attempts could   *)
(* go below zero.                                                          *)
(*                                                                         *)
(* Progress follows each sale through its runs, orders and retries. With   *)
(* it, BookedOnce and BookedExactly have the company's total as a sum over *)
(* the sales booked. PaidWithin counts the payouts of a sale, made and     *)
(* still to come, against its filled orders and the faults.                *)
(***************************************************************************)
EXTENDS Sell, Ledger_proofs

AttemptsLeft == \A e \in Events : job[e] # "dead" => attempts[e] > 0

Event(type, s, n) == [type |-> type, sell |-> s, nr |-> n]

\* No job comes before its event.
NotYet ==
    \A s \in Sells, n \in Nrs :
        /\ quidax[s][n] \in {"none", "open"} => job[Event("order", s, n)] = "none"
        /\ paystack[s][n] \in {"none", "pending"}
             => job[Event("success", s, n)] = "none"
        /\ paystack[s][n] \in {"none", "pending", "success"}
             => job[Event("failure", s, n)] = "none"

Sound == TypeOK /\ Solvent /\ AttemptsLeft /\ NotYet

Rows == GoodWallet(wallet) /\ GoodCompany(company) /\ GoodCompany(crypto)

TxnRows == [status : {"none", "PENDING", "COMPLETED", "FAILED"},
            processed : BOOLEAN]

\* The columns of the sales, and the queue.
ColumnTypes ==
    /\ txn \in [Sells -> TxnRows]
    /\ liq \in [Sells -> LiqStates]
    /\ proceeds \in [Sells -> BOOLEAN]
    /\ payout \in [Sells -> PayoutStates]
    /\ ref \in [Sells -> 0..Cap] /\ payref \in [Sells -> 0..Cap]
    /\ queued \in SUBSET Sells /\ excess \in SUBSET Sells

ProviderTypes ==
    /\ quidax \in [Sells -> [Nrs -> {"none", "open", "filled", "cancelled"}]]
    /\ paystack \in [Sells -> [Nrs ->
                       {"none", "pending", "success", "failed", "reversed"}]]

SeenRows == [liq : LiqStates, proceeds : BOOLEAN, payout : PayoutStates,
             nr : 0..Cap]

WorkTypes ==
    /\ confirm \in [Sells -> ConfirmPc]
    /\ run \in [Runs -> [Events -> RunPc]]
    /\ seen \in [Runs -> SeenRows]
    /\ retry \in [Processors -> [Sells -> RetryPc]]
    /\ posted \in [Processors -> 0..Cap] /\ borrowed \in SUBSET Processors
    /\ budget \in [Faults -> Nat]

JobStates == {"none", "waiting", "done", "dead"} \cup Runs

\* The job and its attempts.
JobSound ==
    /\ job \in [Events -> JobStates]
    /\ attempts \in [Events -> Nat]
    /\ AttemptsLeft

LEMMA SoundParts ==
    Sound <=> Rows /\ ColumnTypes /\ ProviderTypes /\ WorkTypes /\ JobSound /\ NotYet
BY DEF Sound, TypeOK, Solvent, Rows, ColumnTypes, TxnRows, ProviderTypes, WorkTypes, SeenRows,
  JobSound, JobStates, GoodWallet, GoodCompany

LEMMA SoundNextParts ==
    ASSUME Rows', ColumnTypes', ProviderTypes', WorkTypes', JobSound', NotYet'
    PROVE Sound'
BY DEF Sound, TypeOK, Solvent, Rows, ColumnTypes, TxnRows, ProviderTypes, WorkTypes, SeenRows,
  JobSound, JobStates, GoodWallet, GoodCompany

LEMMA Amounts ==
    ASSUME NEW s \in Sells
    PROVE /\ Exact[s] \in Nat /\ Held(s) \in Nat
          /\ Payout[s] \in Nat /\ Proceeds[s] \in Nat
BY SellAssumption DEF Held

LEMMA Numbers ==
    /\ Nrs \subseteq Nat /\ Nrs \subseteq 0..Cap
    /\ 0 \in 0..Cap /\ 1 \in 0..Cap /\ 1 \in Nrs
BY SellAssumption DEF Nrs

LEMMA SoundInit == Init => Sound
<1> SUFFICES ASSUME Init PROVE Sound
  OBVIOUS
<1>1. Rows
  BY SellAssumption DEF Init, Rows, GoodWallet, GoodCompany, Wallets, CompanyAccounts,
    WalletSolvent, CompanySolvent
<1>2. ColumnTypes /\ ProviderTypes
  BY Numbers DEF Init, ColumnTypes, TxnRows, ProviderTypes, LiqStates, PayoutStates
<1>3. WorkTypes
  BY Numbers, SellAssumption DEF Init, WorkTypes, SeenRows, ConfirmPc, RunPc, RetryPc, LiqStates,
    PayoutStates, Unseen
<1>4. JobSound
  BY SellAssumption DEF Init, JobSound, JobStates, AttemptsLeft
<1>5. NotYet
  BY DEF Init, NotYet, Event, Events
<1>. QED  BY <1>1, <1>2, <1>3, <1>4, <1>5, SoundParts

---------------------------------------------------------------------------
(* What the updates the actions share leave behind.                        *)

LEMMA SpendType ==
    ASSUME WorkTypes, NEW f \in Faults, Spend(f)
    PROVE budget' \in [Faults -> Nat]
  BY DEF WorkTypes, Spend

LEMMA TxnRowsMade ==
    /\ [status |-> "PENDING", processed |-> FALSE] \in TxnRows
    /\ [status |-> "COMPLETED", processed |-> TRUE] \in TxnRows
    /\ [status |-> "FAILED", processed |-> TRUE] \in TxnRows
BY DEF TxnRows

LEMMA TxnType ==
    ASSUME ColumnTypes, NEW s \in Sells, NEW w \in TxnRows,
           txn' \in {txn, [txn EXCEPT ![s] = w]}
    PROVE txn' \in [Sells -> TxnRows]
BY DEF ColumnTypes

LEMMA SetRunType ==
    ASSUME WorkTypes, NEW r \in Runs, NEW e \in Events, NEW pc \in RunPc,
           SetRun(r, e, pc)
    PROVE run' \in [Runs -> [Events -> RunPc]]
BY DEF WorkTypes, SetRun

LEMMA EventParts ==
    ASSUME NEW e \in Events
    PROVE /\ e.sell \in Sells /\ e.nr \in Nrs
          /\ e.type \in {"order", "success", "failure"}
          /\ e = Event(e.type, e.sell, e.nr)
BY DEF Events, Event

LEMMA EventsOf ==
    ASSUME NEW s \in Sells, NEW n \in Nrs,
           NEW type \in {"order", "success", "failure"}
    PROVE Event(type, s, n) \in Events
BY DEF Events, Event

LEMMA RunNames ==
    \A r \in Runs : r # "dead" /\ r # "none" /\ r # "waiting" /\ r # "done"
BY SellAssumption

\* A job that is held, or waits, has an attempt to lose.
LEMMA RetriedSound ==
    ASSUME JobSound, NEW e \in Events, job[e] # "dead", Retried(e)
    PROVE JobSound'
<1>1. attempts[e] \in Nat /\ attempts[e] > 0
  BY DEF JobSound, AttemptsLeft
<1>2. attempts' \in [Events -> Nat]
  BY <1>1 DEF JobSound, Retried
<1>3. job' \in [Events -> JobStates]
  BY DEF JobSound, Retried, JobStates
<1>4. ASSUME NEW d \in Events, job'[d] # "dead" PROVE attempts'[d] > 0
  <2>1. CASE d = e
    BY <1>4, <2>1, <1>1 DEF Retried, LastAttempt, JobSound
  <2>2. CASE d # e
    BY <1>4, <2>2 DEF Retried, JobSound, AttemptsLeft
  <2>. QED  BY <2>1, <2>2
<1>. QED  BY <1>2, <1>3, <1>4 DEF JobSound, AttemptsLeft

\* A job may be given any state but a new life.
LEMMA JobSetSound ==
    ASSUME JobSound, NEW e \in Events, NEW j \in JobStates, job[e] # "dead",
           job' = [job EXCEPT ![e] = j], UNCHANGED attempts
    PROVE JobSound'
BY DEF JobSound, AttemptsLeft

\* What a run may do to its job, its place in the handler and what it has read.
RunKept ==
    /\ JobSound'
    /\ run' \in [Runs -> [Events -> RunPc]]
    /\ \A e \in Events : job[e] = "none" => job'[e] = "none"

LEMMA UnseenType ==
    Unseen \in SeenRows
BY Numbers DEF Unseen, SeenRows, LiqStates, PayoutStates

LEMMA EndRun ==
    ASSUME JobSound, WorkTypes, NEW r \in Runs, NEW e \in Events,
           Return(r, e) \/ Throw(r, e)
    PROVE /\ RunKept
          /\ seen' \in [Runs -> SeenRows]
<1>1. run' \in [Runs -> [Events -> RunPc]]
  BY SetRunType DEF Return, Throw, RunPc
<1>2. seen' \in [Runs -> SeenRows]
  BY UnseenType DEF Return, Throw, WorkTypes
<1>3. JobSound'
  <2>1. CASE job[e] = r /\ Used(e)
    BY <2>1, RunNames, JobSetSound DEF Used, JobStates
  <2>2. CASE job[e] = r /\ Retried(e)
    BY <2>2, RunNames, RetriedSound
  <2>3. CASE UNCHANGED <<job, attempts>>
    BY <2>3 DEF JobSound, AttemptsLeft
  <2>. QED  BY <2>1, <2>2, <2>3 DEF Return, Throw
<1>4. \A d \in Events : job[d] = "none" => job'[d] = "none"
  BY RunNames DEF Return, Throw, Used, Retried, JobSound
<1>. QED  BY <1>1, <1>2, <1>3, <1>4 DEF RunKept

LEMMA GoOn ==
    ASSUME JobSound, WorkTypes, NEW r \in Runs, NEW e \in Events,
           NEW pc \in RunPc, Go(r, e, pc)
    PROVE RunKept
BY SetRunType DEF Go, RunKept, JobSound, AttemptsLeft

LEMMA MetadataType ==
    ASSUME ColumnTypes, NEW s \in Sells
    PROVE Metadata(s) \in SeenRows
BY Numbers DEF ColumnTypes, SeenRows, Metadata

\* Steps of the runs and the processors leave events and their jobs in order.
LEMMA NotYetKept ==
    ASSUME NotYet, UNCHANGED providers,
           \A e \in Events : job[e] = "none" => job'[e] = "none"
    PROVE NotYet'
BY EventsOf DEF NotYet, providers

\* A new order or transfer has no jobs either.
LEMMA NotYetPlaced ==
    ASSUME NotYet, ProviderTypes, NEW s \in Sells, NEW n \in Nrs,
           \/ /\ quidax[s][n] = "none" /\ UNCHANGED paystack
              /\ quidax' = [quidax EXCEPT ![s][n] = "open"]
           \/ /\ paystack[s][n] = "none" /\ UNCHANGED quidax
              /\ paystack' = [paystack EXCEPT ![s][n] = "pending"],
           \A e \in Events : job[e] = "none" => job'[e] = "none"
    PROVE NotYet'
<1> SUFFICES ASSUME NEW t \in Sells, NEW m \in Nrs
             PROVE /\ quidax'[t][m] \in {"none", "open"}
                        => job'[Event("order", t, m)] = "none"
                   /\ paystack'[t][m] \in {"none", "pending"}
                        => job'[Event("success", t, m)] = "none"
                   /\ paystack'[t][m] \in {"none", "pending", "success"}
                        => job'[Event("failure", t, m)] = "none"
  BY DEF NotYet
<1>1. quidax'[t][m] = quidax[t][m] \/ quidax[t][m] = "none"
  BY DEF ProviderTypes
<1>2. paystack'[t][m] = paystack[t][m] \/ paystack[t][m] = "none"
  BY DEF ProviderTypes
<1>3. \A type \in {"order", "success", "failure"} :
        job[Event(type, t, m)] = "none" => job'[Event(type, t, m)] = "none"
  BY EventsOf
<1>. QED  BY <1>1, <1>2, <1>3 DEF NotYet

LEMMA PlaceTypes ==
    ASSUME NotYet, ProviderTypes, NEW s \in Sells, NEW n \in Nrs, Place(s, n),
           UNCHANGED job
    PROVE ProviderTypes' /\ NotYet'
  BY NotYetPlaced DEF Place, Unused, ProviderTypes

---------------------------------------------------------------------------
(* One lemma per handler, with one step per part of Sound.                 *)

LEMMA SoundConfirm ==
    ASSUME Sound, NEW s \in Sells, ConfirmStep(s)
    PROVE Sound'
<1>1. Rows /\ ColumnTypes /\ ProviderTypes /\ WorkTypes /\ JobSound /\ NotYet
  BY SoundParts
<1>2. UNCHANGED work
  BY DEF ConfirmStep, ConfirmReserve, NewSale, ReservePayout, ConfirmPaystack, ConfirmPost,
    ConfirmCompensate, ConfirmRecord
<1>3. JobSound'
  BY <1>1, <1>2 DEF work, JobSound, AttemptsLeft
<1>4. CASE ConfirmReserve(s)
  <2>1. Rows'
    BY <1>1, <1>4, Amounts, ReserveBalanceGood, ReserveLiquidityGood DEF ConfirmReserve, NewSale,
      ReservePayout, Rows
  <2>2. ColumnTypes'
    BY <1>1, <1>4 DEF ConfirmReserve, NewSale, ReservePayout, ColumnTypes, TxnRows, SetTxn, SetLiq,
      Enqueue, LiqStates
  <2>3. ProviderTypes' /\ WorkTypes'
    BY <1>1, <1>2, <1>4 DEF ConfirmReserve, NewSale, ReservePayout, ProviderTypes, WorkTypes,
      providers, work, SetConfirm, ConfirmPc
  <2>4. NotYet'
    BY <1>1, <1>2, <1>4, NotYetKept DEF ConfirmReserve, NewSale, ReservePayout, work
  <2>. QED  BY <1>3, <2>1, <2>2, <2>3, <2>4, SoundNextParts
<1>5. CASE ConfirmPaystack(s)
  <2>1. Rows'
    BY <1>1, <1>5, Amounts, ReleaseLiquidityGood DEF ConfirmPaystack, Rows
  <2>2. ColumnTypes'
    BY <1>1, <1>5 DEF ConfirmPaystack, ColumnTypes, SetLiq, Enqueue, LiqStates
  <2>3. ProviderTypes' /\ WorkTypes'
    BY <1>1, <1>2, <1>5 DEF ConfirmPaystack, ProviderTypes, WorkTypes, providers, work, SetConfirm,
      ConfirmPc
  <2>4. NotYet'
    BY <1>1, <1>2, <1>5, NotYetKept DEF ConfirmPaystack, work
  <2>. QED  BY <1>3, <2>1, <2>2, <2>3, <2>4, SoundNextParts
<1>6. CASE ConfirmPost(s)
  <2>1. Rows' /\ ColumnTypes'
    BY <1>1, <1>6 DEF ConfirmPost, books, rows, retries, queue, Rows, ColumnTypes
  <2>2. ProviderTypes' /\ NotYet'
    <3>1. CASE Place(s, 1)
      BY <1>1, <1>2, <3>1, PlaceTypes, Numbers DEF work
    <3>2. CASE UNCHANGED providers
      BY <1>1, <3>2, <1>2, NotYetKept DEF ProviderTypes, providers, work
    <3>. QED  BY <1>6, <3>1, <3>2 DEF ConfirmPost
  <2>3. budget' \in [Faults -> Nat]
    BY <1>1, <1>6, SpendType DEF ConfirmPost, Faults, WorkTypes
  <2>4. WorkTypes'
    BY <1>1, <1>2, <1>6, <2>3 DEF ConfirmPost, WorkTypes, work, retries, SetConfirm, ConfirmPc
  <2>. QED  BY <1>3, <2>1, <2>2, <2>4, SoundNextParts
<1>7. CASE ConfirmCompensate(s)
  <2>1. Rows'
    BY <1>1, <1>7, Amounts, ReleaseBalanceGood, ReleaseLiquidityGood DEF ConfirmCompensate,
      CanGiveBack, Rows
  <2>2. ColumnTypes'
    <3>1. txn' \in [Sells -> TxnRows]
      BY <1>7, <1>1, TxnRowsMade, TxnType DEF ConfirmCompensate, SetTxn
    <3>2. liq' \in [Sells -> LiqStates]
      BY <1>1, <1>7 DEF ConfirmCompensate, ColumnTypes, SetLiq, LiqStates
    <3>3. UNCHANGED <<proceeds, payout, ref, payref, queue>>
      BY <1>7 DEF ConfirmCompensate, retries, queue
    <3>. QED  BY <1>1, <3>1, <3>2, <3>3 DEF ColumnTypes, queue
  <2>3. budget' \in [Faults -> Nat]
    BY <1>1, <1>7, SpendType DEF ConfirmCompensate, Faults, WorkTypes
  <2>4. ProviderTypes' /\ WorkTypes'
    BY <1>1, <1>2, <1>7, <2>3 DEF ConfirmCompensate, ProviderTypes, WorkTypes, providers, work,
      retries, queue, SetConfirm, ConfirmPc
  <2>5. NotYet'
    BY <1>1, <1>2, <1>7, NotYetKept DEF ConfirmCompensate, work
  <2>. QED  BY <1>3, <2>1, <2>2, <2>4, <2>5, SoundNextParts
<1>8. CASE ConfirmRecord(s)
  <2>1. Rows' /\ ColumnTypes'
    BY <1>1, <1>8, Numbers DEF ConfirmRecord, Rows, ColumnTypes, retries, queue
  <2>3. budget' \in [Faults -> Nat]
    BY <1>1, <1>8, SpendType DEF ConfirmRecord, Faults, WorkTypes
  <2>4. ProviderTypes' /\ WorkTypes'
    BY <1>1, <1>2, <1>8, <2>3 DEF ConfirmRecord, ProviderTypes, WorkTypes, providers, work, retries,
      queue, SetConfirm, ConfirmPc
  <2>5. NotYet'
    BY <1>1, <1>2, <1>8, NotYetKept DEF ConfirmRecord, work
  <2>. QED  BY <1>3, <2>1, <2>4, <2>5, SoundNextParts
<1>. QED  BY <1>4, <1>5, <1>6, <1>7, <1>8 DEF ConfirmStep

\* What is left of Sound when a run's own state is in order.
LEMMA RunSound ==
    ASSUME Sound, Rows', ColumnTypes', ProviderTypes', NotYet', RunKept,
           seen' \in [Runs -> SeenRows], budget' \in [Faults -> Nat],
           UNCHANGED <<confirm, retry, posted, borrowed>>
    PROVE Sound'
  BY SoundParts, SoundNextParts DEF WorkTypes, RunKept

\* A worker takes a job, uses it up or fails it.
TakeEffect(r, e) ==
    /\ job[e] = "waiting"
    /\ \/ /\ \E pc \in RunPc : SetRun(r, e, pc)
          /\ job' = [job EXCEPT ![e] = r]
          /\ seen' = [seen EXCEPT ![r] = Metadata(e.sell)]
          /\ UNCHANGED <<attempts, budget>>
       \/ Used(e) /\ UNCHANGED <<run, seen, budget>>
       \/ Spend("error") /\ Retried(e) /\ UNCHANGED <<run, seen>>
    /\ UNCHANGED <<books, providers, confirm, retries>>

LEMMA SoundTake ==
    ASSUME Sound, NEW r \in Runs, NEW e \in Events, TakeEffect(r, e)
    PROVE Sound'
<1>1. Rows /\ ColumnTypes /\ ProviderTypes /\ WorkTypes /\ JobSound /\ NotYet
  BY SoundParts
<1>2. Rows' /\ ColumnTypes' /\ ProviderTypes'
  BY <1>1 DEF TakeEffect, books, rows, providers, retries, queue, Rows, ColumnTypes, ProviderTypes
<1>3. \A d \in Events : job[d] = "none" => job'[d] = "none"
  BY <1>1 DEF TakeEffect, Used, Retried, JobSound
<1>4. NotYet'
  BY <1>1, <1>3, NotYetKept DEF TakeEffect
<1>5. JobSound'
  <2>1. job[e] # "dead"
    BY DEF TakeEffect
  <2>2. CASE Retried(e)
    BY <1>1, <2>1, <2>2, RetriedSound
  <2>3. CASE /\ UNCHANGED attempts
                /\ \E j \in {"done", r} : job' = [job EXCEPT ![e] = j]
    BY <1>1, <2>1, <2>3, JobSetSound DEF JobStates
  <2>. QED  BY <2>2, <2>3 DEF TakeEffect, Used
<1>6. run' \in [Runs -> [Events -> RunPc]]
  BY <1>1, SetRunType DEF TakeEffect, WorkTypes
<1>7. seen' \in [Runs -> SeenRows]
  BY <1>1, EventParts, MetadataType DEF TakeEffect, WorkTypes
<1>8. budget' \in [Faults -> Nat]
  BY <1>1, SpendType DEF TakeEffect, Faults, WorkTypes
<1>. QED  BY <1>2, <1>3, <1>4, <1>5, <1>6, <1>7, <1>8, RunSound DEF RunKept, TakeEffect, retries

\* Every event is taken the same way.
LEMMA SoundTakes ==
    ASSUME Sound, NEW r \in Runs, NEW e \in Events,
           OrderTake(r, e) \/ TransferTake(r, e)
    PROVE Sound'
  BY SoundTake DEF OrderTake, TransferTake, Take, TakeEffect, RunPc

LEMMA SeenParts ==
    ASSUME WorkTypes, NEW r \in Runs
    PROVE /\ seen[r].liq \in LiqStates /\ seen[r].proceeds \in BOOLEAN
          /\ seen[r].payout \in PayoutStates /\ seen[r].nr \in 0..Cap
BY DEF WorkTypes, SeenRows

\* The metadata columns, however a handler writes them.
LEMMA MetadataWritten ==
    ASSUME ColumnTypes, NEW s \in Sells, NEW l \in LiqStates,
           NEW b \in BOOLEAN, NEW q \in PayoutStates,
           liq' \in {liq, [liq EXCEPT ![s] = l]},
           proceeds' \in {proceeds, [proceeds EXCEPT ![s] = b]},
           payout' \in {payout, [payout EXCEPT ![s] = q]}
    PROVE /\ liq' \in [Sells -> LiqStates] /\ proceeds' \in [Sells -> BOOLEAN]
          /\ payout' \in [Sells -> PayoutStates]
  BY DEF ColumnTypes

\* A handler that only writes the columns of one sale.
LEMMA ColumnsWritten ==
    ASSUME ColumnTypes, txn' \in [Sells -> TxnRows],
           liq' \in [Sells -> LiqStates], proceeds' \in [Sells -> BOOLEAN],
           payout' \in [Sells -> PayoutStates],
           UNCHANGED <<ref, payref, queue>>
    PROVE ColumnTypes'
BY DEF ColumnTypes, queue

LEMMA ProvidersLeft ==
    ASSUME ProviderTypes, NotYet, RunKept, UNCHANGED providers
    PROVE ProviderTypes' /\ NotYet'
  BY NotYetKept DEF ProviderTypes, providers, RunKept

LEMMA SoundFail ==
    ASSUME Sound, NEW r \in Runs, NEW e \in Events, OrderFail(r, e)
    PROVE Sound'
<1> DEFINE s == e.sell
<1>1. Rows /\ ColumnTypes /\ ProviderTypes /\ WorkTypes /\ JobSound /\ NotYet
  BY SoundParts
<1>2. s \in Sells
  BY EventParts
<1>3. RunKept /\ seen' \in [Runs -> SeenRows]
  BY <1>1, EndRun DEF OrderFail
<1>4. Rows'
  BY <1>1, <1>2, Amounts, ReleaseBalanceGood, ReleaseLiquidityGood DEF OrderFail, Rows
<1>5. ColumnTypes'
  <2>1. txn' \in [Sells -> TxnRows]
    BY <1>1, <1>2, TxnRowsMade, TxnType DEF OrderFail, SetTxn
  <2>2. /\ liq' \in {liq, [liq EXCEPT ![s] = "RELEASED"]}
        /\ proceeds' \in {proceeds, [proceeds EXCEPT ![s] = seen[r].proceeds]}
        /\ payout' \in {payout, [payout EXCEPT ![s] = seen[r].payout]}
    BY DEF OrderFail, SetLiq, SetProceeds, SetPayout
  <2>3. "RELEASED" \in LiqStates
    BY DEF LiqStates
  <2>4. UNCHANGED <<ref, payref, queue>>
    BY DEF OrderFail, retries, queue
  <2>5. /\ liq' \in [Sells -> LiqStates] /\ proceeds' \in [Sells -> BOOLEAN]
        /\ payout' \in [Sells -> PayoutStates]
    BY <1>1, <1>2, <2>2, <2>3, SeenParts, MetadataWritten
  <2>. QED  BY <1>1, <2>1, <2>4, <2>5, ColumnsWritten
<1>6. ProviderTypes' /\ NotYet'
  BY <1>1, <1>3, ProvidersLeft DEF OrderFail
<1>7. budget' \in [Faults -> Nat]
  BY <1>1, SpendType DEF OrderFail, Faults, WorkTypes
<1>8. UNCHANGED <<confirm, retry, posted, borrowed>>
  BY DEF OrderFail, retries, queue
<1>. QED  BY <1>3, <1>4, <1>5, <1>6, <1>7, <1>8, RunSound

LEMMA SoundAdd ==
    ASSUME Sound, NEW r \in Runs, NEW e \in Events, OrderAdd(r, e)
    PROVE Sound'
<1> DEFINE s == e.sell
<1>1. Rows /\ ColumnTypes /\ ProviderTypes /\ WorkTypes /\ JobSound /\ NotYet
  BY SoundParts
<1>2. s \in Sells
  BY EventParts
<1>3. RunKept /\ seen' \in [Runs -> SeenRows]
  BY <1>1, GoOn, <1>2, MetadataType DEF OrderAdd, AddFailed, RunPc, SeenRows, WorkTypes
<1>4. Rows'
  <2>1. /\ UNCHANGED <<wallet, crypto>>
        /\ company' \in {company, AddLiquidity(company, Proceeds[s])}
    BY DEF OrderAdd
  <2>. QED  BY <1>1, <1>2, <2>1, Amounts, AddLiquidityGood DEF Rows
<1>5. ColumnTypes'
  BY <1>1, <1>2 DEF OrderAdd, SetProceeds, retries, ColumnTypes, queue
<1>6. ProviderTypes' /\ NotYet'
  BY <1>1, <1>3, ProvidersLeft DEF OrderAdd
<1>7. budget' \in [Faults -> Nat]
  BY <1>1, SpendType DEF OrderAdd, Faults, WorkTypes
<1>8. UNCHANGED <<confirm, retry, posted, borrowed>>
  BY DEF OrderAdd, retries, queue
<1>. QED  BY <1>3, <1>4, <1>5, <1>6, <1>7, <1>8, RunSound

LEMMA SoundPay ==
    ASSUME Sound, NEW r \in Runs, NEW e \in Events, OrderPay(r, e)
    PROVE Sound'
<1> DEFINE s == e.sell
<1>1. Rows /\ ColumnTypes /\ ProviderTypes /\ WorkTypes /\ JobSound /\ NotYet
  BY SoundParts
<1>2. s \in Sells
  BY EventParts
<1>3. RunKept /\ seen' \in [Runs -> SeenRows]
  <2>1. Go(r, e, "paid") \/ Go(r, e, "unpaid")
    BY DEF OrderPay
  <2>2. RunKept
    BY <1>1, <2>1, GoOn DEF RunPc
  <2>3. seen' = seen \/ \E n \in Nrs : seen' = [seen EXCEPT ![r].nr = n]
    BY DEF OrderPay
  <2>. QED  BY <1>1, <2>2, <2>3, Numbers DEF WorkTypes, SeenRows
<1>4. Rows' /\ ColumnTypes'
  BY <1>1 DEF OrderPay, books, rows, retries, queue, Rows, ColumnTypes
<1>5. UNCHANGED quidax
      /\ \/ UNCHANGED paystack
         \/ \E n \in Nrs : /\ paystack[s][n] = "none"
                           /\ paystack' = [paystack EXCEPT ![s][n] = "pending"]
  BY DEF OrderPay, Unused
<1>6. ProviderTypes' /\ NotYet'
  <2>1. CASE UNCHANGED paystack
    BY <1>1, <1>3, <1>5, <2>1, ProvidersLeft DEF providers
  <2>2. CASE \E n \in Nrs : /\ paystack[s][n] = "none"
                           /\ paystack' = [paystack EXCEPT ![s][n] = "pending"]
    <3>1. PICK n \in Nrs : /\ paystack[s][n] = "none"
                           /\ paystack' = [paystack EXCEPT ![s][n] = "pending"]
      BY <2>2
    <3>2. ProviderTypes'
      BY <1>1, <1>2, <1>5, <3>1 DEF ProviderTypes
    <3>3. NotYet'
      BY <1>1, <1>2, <1>3, <1>5, <3>1, NotYetPlaced DEF RunKept
    <3>. QED  BY <3>2, <3>3
  <2>. QED  BY <1>5, <2>1, <2>2
<1>7. budget' \in [Faults -> Nat]
  BY <1>1, SpendType DEF OrderPay, Faults, WorkTypes
<1>8. UNCHANGED <<confirm, retry, posted, borrowed>>
  BY DEF OrderPay, retries, queue
<1>. QED  BY <1>3, <1>4, <1>5, <1>6, <1>7, <1>8, RunSound

LEMMA SoundPaid ==
    ASSUME Sound, NEW r \in Runs, NEW e \in Events, OrderPaid(r, e)
    PROVE Sound'
<1> DEFINE s == e.sell
<1>1. Rows /\ ColumnTypes /\ ProviderTypes /\ WorkTypes /\ JobSound /\ NotYet
  BY SoundParts
<1>2. s \in Sells
  BY EventParts
<1>3. RunKept /\ seen' \in [Runs -> SeenRows]
  BY <1>1, GoOn DEF OrderPaid, RunPc, WorkTypes
<1>4. Rows'
  BY <1>1 DEF OrderPaid, Rows
<1>5. ColumnTypes'
  <2>1. /\ liq' \in {liq, [liq EXCEPT ![s] = seen[r].liq]}
        /\ proceeds' \in {proceeds, [proceeds EXCEPT ![s] = seen[r].proceeds]}
        /\ payout' \in {payout, [payout EXCEPT ![s] = "initiated"]}
        /\ payref' \in {payref, [payref EXCEPT ![s] = seen[r].nr]}
    BY DEF OrderPaid, SetLiq, SetProceeds, SetPayout
  <2>2. /\ liq' \in [Sells -> LiqStates] /\ proceeds' \in [Sells -> BOOLEAN]
        /\ payout' \in [Sells -> PayoutStates]
    BY <1>1, <1>2, <2>1, SeenParts, MetadataWritten DEF PayoutStates
  <2>3. payref' \in [Sells -> 0..Cap]
    BY <1>1, <1>2, <2>1, SeenParts DEF ColumnTypes
  <2>4. UNCHANGED <<txn, ref, queue>>
    BY DEF OrderPaid, retries, queue
  <2>. QED  BY <1>1, <2>2, <2>3, <2>4 DEF ColumnTypes, queue
<1>6. ProviderTypes' /\ NotYet'
  BY <1>1, <1>3, ProvidersLeft DEF OrderPaid
<1>7. budget' \in [Faults -> Nat]
  BY <1>1, SpendType DEF OrderPaid, Faults, WorkTypes
<1>8. UNCHANGED <<confirm, retry, posted, borrowed>>
  BY DEF OrderPaid, retries, queue
<1>. QED  BY <1>3, <1>4, <1>5, <1>6, <1>7, <1>8, RunSound

\* A sale that is reopened, or not.
LEMMA ReopenTypes ==
    ASSUME ColumnTypes, WorkTypes, NEW r \in Runs, NEW s \in Sells,
           Reopen(r, s) \/ UNCHANGED <<txn, payout, liq, proceeds>>,
           UNCHANGED <<ref, payref, queue>>
    PROVE ColumnTypes'
<1>1. txn' \in [Sells -> TxnRows]
  BY TxnRowsMade, TxnType DEF Reopen, SetTxn
<1>2. /\ liq' \in {liq, [liq EXCEPT ![s] = "RESERVED"]}
      /\ proceeds' \in {proceeds, [proceeds EXCEPT ![s] = seen[r].proceeds]}
      /\ payout' \in {payout, [payout EXCEPT ![s] = "failed_retry_required"]}
  BY DEF Reopen, SetLiq, SetProceeds, SetPayout
<1>3. "RESERVED" \in LiqStates /\ "failed_retry_required" \in PayoutStates
  BY DEF LiqStates, PayoutStates
<1>4. /\ liq' \in [Sells -> LiqStates] /\ proceeds' \in [Sells -> BOOLEAN]
      /\ payout' \in [Sells -> PayoutStates]
  BY <1>2, <1>3, SeenParts, MetadataWritten
<1>. QED  BY <1>1, <1>4, ColumnsWritten

LEMMA SoundReopen ==
    ASSUME Sound, NEW r \in Runs, NEW e \in Events,
           OrderUnpaid(r, e) \/ TransferRevert(r, e)
    PROVE Sound'
<1> DEFINE s == e.sell
<1>1. Rows /\ ColumnTypes /\ ProviderTypes /\ WorkTypes /\ JobSound /\ NotYet
  BY SoundParts
<1>2. s \in Sells
  BY EventParts
<1>3. RunKept /\ seen' \in [Runs -> SeenRows]
  BY <1>1, EndRun DEF OrderUnpaid, TransferRevert
<1>4. Rows'
  BY <1>1 DEF OrderUnpaid, TransferRevert, Rows
<1>5. ColumnTypes'
  BY <1>1, <1>2, ReopenTypes DEF OrderUnpaid, TransferRevert, retries, queue
<1>6. ProviderTypes' /\ NotYet'
  BY <1>1, <1>3, ProvidersLeft DEF OrderUnpaid, TransferRevert
<1>7. budget' \in [Faults -> Nat]
  BY <1>1, SpendType DEF OrderUnpaid, TransferRevert, Faults, WorkTypes
<1>8. UNCHANGED <<confirm, retry, posted, borrowed>>
  BY DEF OrderUnpaid, TransferRevert, retries, queue
<1>. QED  BY <1>3, <1>4, <1>5, <1>6, <1>7, <1>8, RunSound

LEMMA SoundSettle ==
    ASSUME Sound, NEW r \in Runs, NEW e \in Events, TransferSettle(r, e)
    PROVE Sound'
<1> DEFINE s == e.sell
<1>1. Rows /\ ColumnTypes /\ ProviderTypes /\ WorkTypes /\ JobSound /\ NotYet
  BY SoundParts
<1>2. s \in Sells
  BY EventParts
<1>3. RunKept /\ seen' \in [Runs -> SeenRows]
  <2>1. CASE Go(r, e, "committed") /\ UNCHANGED seen
    BY <1>1, <2>1, GoOn DEF RunPc, WorkTypes
  <2>2. CASE Throw(r, e)
    BY <1>1, <2>2, EndRun
  <2>. QED  BY <2>1, <2>2 DEF TransferSettle
<1>4. Rows'
  <2>1. \/ UNCHANGED <<wallet, company, crypto>>
        \/ /\ CanSettle(s)
           /\ company' = ReleaseLiquidity(company, Payout[s])
           /\ wallet' = FinalizeBalance(wallet, Exact[s])
           /\ crypto' = SubtractInternal(crypto, Exact[s])
    BY DEF TransferSettle, SettleInternal
  <2>. QED  BY <1>1, <1>2, <2>1, Amounts, ReleaseLiquidityGood, FinalizeBalanceGood,
    SubtractInternalGood DEF CanSettle, Rows
<1>5. ColumnTypes'
  <2>1. txn' \in [Sells -> TxnRows]
    BY <1>1, <1>2, TxnRowsMade, TxnType DEF TransferSettle, SetTxn
  <2>2. /\ liq' \in {liq, [liq EXCEPT ![s] = "RELEASED"]}
        /\ proceeds' \in {proceeds, [proceeds EXCEPT ![s] = seen[r].proceeds]}
        /\ payout' \in {payout, [payout EXCEPT ![s] = "success"]}
    BY DEF TransferSettle, SetLiq, SetProceeds, SetPayout
  <2>3. "RELEASED" \in LiqStates /\ "success" \in PayoutStates
    BY DEF LiqStates, PayoutStates
  <2>4. UNCHANGED <<ref, payref>>
        /\ queued' \in {queued, queued \cup {s}}
        /\ excess' \in {excess, excess \cup {s}}
    BY DEF TransferSettle, SettleInternal, Enqueue, queue
  <2>5. /\ liq' \in [Sells -> LiqStates] /\ proceeds' \in [Sells -> BOOLEAN]
        /\ payout' \in [Sells -> PayoutStates]
    BY <1>1, <1>2, <2>2, <2>3, SeenParts, MetadataWritten
  <2>. QED  BY <1>1, <1>2, <2>1, <2>4, <2>5 DEF ColumnTypes
<1>6. ProviderTypes' /\ NotYet'
  BY <1>1, <1>3, ProvidersLeft DEF TransferSettle
<1>7. budget' \in [Faults -> Nat]
  BY <1>1, SpendType DEF TransferSettle, Faults, WorkTypes
<1>8. UNCHANGED <<confirm, retry, posted, borrowed>>
  BY DEF TransferSettle, retries, queue
<1>. QED  BY <1>3, <1>4, <1>5, <1>6, <1>7, <1>8, RunSound

LEMMA SoundFinish ==
    ASSUME Sound, NEW r \in Runs, NEW e \in Events, Finish(r, e)
    PROVE Sound'
<1>1. Rows /\ ColumnTypes /\ ProviderTypes /\ WorkTypes /\ JobSound /\ NotYet
  BY SoundParts
<1>2. RunKept /\ seen' \in [Runs -> SeenRows]
  BY <1>1, EndRun DEF Finish
<1>3. Rows' /\ ColumnTypes'
  BY <1>1 DEF Finish, books, rows, retries, queue, Rows, ColumnTypes
<1>4. ProviderTypes' /\ NotYet'
  BY <1>1, <1>2, ProvidersLeft DEF Finish
<1>5. budget' \in [Faults -> Nat]
  BY <1>1, SpendType DEF Finish, Faults, WorkTypes
<1>6. UNCHANGED <<confirm, retry, posted, borrowed>>
  BY DEF Finish, retries, queue
<1>. QED  BY <1>2, <1>3, <1>4, <1>5, <1>6, RunSound

---------------------------------------------------------------------------
(* Queued sales, providers and faults.                                     *)

\* A processor's place and the order it has placed.
LEMMA SetRetryType ==
    ASSUME WorkTypes, NEW p \in Processors, NEW s \in Sells, NEW pc \in RetryPc,
           SetRetry(p, s, pc)
    PROVE retry' \in [Processors -> [Sells -> RetryPc]]
BY DEF WorkTypes, SetRetry

LEMMA SoundRetry ==
    ASSUME Sound, NEW p \in Processors, NEW s \in Sells, RetryStep(p, s)
    PROVE Sound'
<1>1. Rows /\ ColumnTypes /\ ProviderTypes /\ WorkTypes /\ JobSound /\ NotYet
  BY SoundParts
<1> USE DEF RetryCheck, RetryReserve, RetryPost, RetryRecord, RetryFinish,
            RetryUndo, RetryError
<1>2. UNCHANGED <<confirm, work>>
  BY DEF RetryStep
<1>3. JobSound'
  BY <1>1, <1>2 DEF work, JobSound, AttemptsLeft
<1>4. Rows'
  BY <1>1, Amounts, ReserveLiquidityGood, ReleaseLiquidityGood DEF RetryStep, books, GiveBack, Rows
<1>5. ColumnTypes'
  <2>1. CASE RetryRecord(p, s)
    <3>1. ref' \in [Sells -> 0..Cap]
      BY <1>1, <2>1 DEF ColumnTypes, WorkTypes
    <3>2. txn' \in [Sells -> TxnRows]
      BY <1>1, <2>1, TxnType DEF ColumnTypes, TxnRows, SetTxn
    <3>. QED  BY <1>1, <2>1, <3>1, <3>2 DEF ColumnTypes, queue
  <2>2. CASE UNCHANGED <<rows, excess>> /\ queued' \in {queued, queued \ {s}}
    BY <1>1, <2>2 DEF ColumnTypes, rows
  <2>. QED  BY <2>1, <2>2 DEF RetryStep, books, Dequeue, queue
<1>6. ProviderTypes' /\ NotYet'
  <2>1. CASE UNCHANGED providers
    BY <1>1, <2>1, <1>2, NotYetKept DEF ProviderTypes, providers, work
  <2>2. CASE \E n \in Nrs : Place(s, n)
    BY <1>1, <1>2, <2>2, PlaceTypes DEF work
  <2>. QED  BY <2>1, <2>2 DEF RetryStep
<1>7. WorkTypes'
  <2>1. retry' \in [Processors -> [Sells -> RetryPc]]
    BY <1>1, SetRetryType DEF RetryStep, RetryPc, WorkTypes
  <2>2. posted' \in [Processors -> 0..Cap]
    BY Numbers, <1>1 DEF RetryStep, WorkTypes
  <2>3. budget' \in [Faults -> Nat]
    BY <1>1, SpendType DEF RetryStep, Faults, WorkTypes
  <2>4. borrowed' \in SUBSET Processors
    BY <1>1 DEF RetryStep, WorkTypes
  <2>. QED  BY <1>1, <1>2, <2>1, <2>2, <2>3, <2>4 DEF WorkTypes, work
<1>. QED  BY <1>3, <1>4, <1>5, <1>6, <1>7, SoundNextParts

LEMMA SoundExpiry ==
    ASSUME Sound, NEW s \in Sells, ExpireRead(s) \/ ExpireCommit(s)
    PROVE Sound'
<1>1. Rows /\ ColumnTypes /\ ProviderTypes /\ WorkTypes /\ JobSound /\ NotYet
  BY SoundParts
<1> USE DEF ExpireRead, ExpireCommit
<1>2. UNCHANGED <<confirm, work, providers, posted, borrowed>>
  OBVIOUS
<1>3. JobSound'
  BY <1>1, <1>2 DEF work, JobSound, AttemptsLeft
<1>4. Rows'
  BY <1>1, Amounts, ReleaseBalanceGood DEF books, Rows
<1>5. ColumnTypes'
  <2>1. txn' \in [Sells -> TxnRows]
    BY <1>1, TxnRowsMade, TxnType DEF ExpireRecords, SetTxn, books, rows
  <2>2. UNCHANGED <<liq, proceeds, payout, ref, payref, excess>>
        /\ queued' \in {queued, queued \ {s}}
    BY DEF ExpireRecords, books, rows, queue
  <2>. QED  BY <1>1, <2>1, <2>2 DEF ColumnTypes
<1>6. ProviderTypes' /\ NotYet'
  BY <1>1, <1>2, NotYetKept DEF ProviderTypes, providers, work
<1>7. WorkTypes'
  BY <1>1, SetRetryType, SpendType, <1>2 DEF RetryPc, Processors, Faults, WorkTypes, work
<1>. QED  BY <1>3, <1>4, <1>5, <1>6, <1>7, SoundNextParts

\* A provider's answer is the first and only life of its event's job.
LEMMA DeliverSound ==
    ASSUME JobSound, NEW s \in Sells, NEW n \in Nrs,
           NEW type \in {"order", "success", "failure"},
           job[Event(type, s, n)] = "none", Deliver(type, s, n),
           UNCHANGED attempts
    PROVE /\ JobSound'
          /\ \A d \in Events : d # Event(type, s, n) => job'[d] = job[d]
  BY EventsOf, JobSetSound DEF Deliver, Event, JobStates, JobSound

LEMMA EventsDiffer ==
    ASSUME NEW x, NEW y, NEW s, NEW t, NEW n, NEW m,
           Event(x, s, n) = Event(y, t, m)
    PROVE x = y /\ s = t /\ n = m
BY DEF Event

LEMMA SoundQuidax ==
    ASSUME Sound, NEW s \in Sells, NEW n \in Nrs, QuidaxFinish(s, n)
    PROVE Sound'
<1>1. Rows /\ ColumnTypes /\ ProviderTypes /\ WorkTypes /\ JobSound /\ NotYet
  BY SoundParts
<1>2. Rows' /\ ColumnTypes' /\ WorkTypes'
  BY <1>1 DEF QuidaxFinish, books, rows, retries, queue, Rows, ColumnTypes, WorkTypes
<1>3. job[Event("order", s, n)] = "none"
  BY <1>1 DEF QuidaxFinish, NotYet
<1>4. JobSound' /\ \A d \in Events : d # Event("order", s, n) => job'[d] = job[d]
  BY <1>1, <1>3, DeliverSound DEF QuidaxFinish
<1>5. ProviderTypes'
  BY <1>1 DEF QuidaxFinish, ProviderTypes
<1>6. NotYet'
  <2> SUFFICES ASSUME NEW t \in Sells, NEW m \in Nrs
               PROVE /\ quidax'[t][m] \in {"none", "open"}
                          => job'[Event("order", t, m)] = "none"
                     /\ paystack'[t][m] \in {"none", "pending"}
                          => job'[Event("success", t, m)] = "none"
                     /\ paystack'[t][m] \in {"none", "pending", "success"}
                          => job'[Event("failure", t, m)] = "none"
    BY DEF NotYet
  <2>1. quidax'[t][m] = quidax[t][m] \/ quidax'[t][m] \notin {"none", "open"}
    BY <1>1 DEF QuidaxFinish, ProviderTypes
  <2>2. quidax'[s][n] \notin {"none", "open"}
    BY <1>1 DEF QuidaxFinish, ProviderTypes
  <2>3. job'[Event("success", t, m)] = job[Event("success", t, m)]
        /\ job'[Event("failure", t, m)] = job[Event("failure", t, m)]
    BY <1>4, EventsOf, EventsDiffer
  <2>4. CASE t = s /\ m = n
    BY <1>1, <2>2, <2>3, <2>4 DEF QuidaxFinish, NotYet
  <2>5. CASE ~(t = s /\ m = n)
    BY <1>4, <2>5, EventsOf, EventsDiffer, <1>1, <2>1, <2>3 DEF QuidaxFinish, NotYet
  <2>. QED  BY <2>4, <2>5
<1>. QED  BY <1>2, <1>4, <1>5, <1>6, SoundNextParts

LEMMA SoundPaystack ==
    ASSUME Sound, NEW s \in Sells, NEW n \in Nrs, PaystackFinish(s, n)
    PROVE Sound'
<1>1. Rows /\ ColumnTypes /\ ProviderTypes /\ WorkTypes /\ JobSound /\ NotYet
  BY SoundParts
<1>2. budget' \in [Faults -> Nat]
  BY <1>1, SpendType DEF PaystackFinish, Faults, WorkTypes
<1>3. Rows' /\ ColumnTypes' /\ WorkTypes'
  BY <1>1, <1>2 DEF PaystackFinish, books, rows, retries, queue, Rows, ColumnTypes, WorkTypes
<1>4. PICK type \in {"success", "failure"},
          end \in {"success", "failed", "reversed"} :
        /\ job[Event(type, s, n)] = "none" /\ Deliver(type, s, n)
        /\ paystack' = [paystack EXCEPT ![s][n] = end]
        /\ type = "success" <=> end = "success"
        /\ paystack[s][n] = "success" => type = "failure"
        /\ paystack[s][n] \in {"pending", "success"}
  BY <1>1 DEF PaystackFinish, NotYet
<1>5. ProviderTypes'
  BY <1>1, <1>4 DEF PaystackFinish, ProviderTypes
<1>6. JobSound' /\ \A d \in Events : d # Event(type, s, n) => job'[d] = job[d]
  BY <1>1, <1>4, DeliverSound DEF PaystackFinish
<1>7. NotYet'
  <2> SUFFICES ASSUME NEW t \in Sells, NEW m \in Nrs
               PROVE /\ quidax'[t][m] \in {"none", "open"}
                          => job'[Event("order", t, m)] = "none"
                     /\ paystack'[t][m] \in {"none", "pending"}
                          => job'[Event("success", t, m)] = "none"
                     /\ paystack'[t][m] \in {"none", "pending", "success"}
                          => job'[Event("failure", t, m)] = "none"
    BY DEF NotYet
  <2>1. job'[Event("order", t, m)] = job[Event("order", t, m)]
    BY <1>6, EventsOf, EventsDiffer
  <2>2. CASE t = s /\ m = n
    BY <1>1, <1>4, <2>2, <1>6, EventsOf, EventsDiffer, <2>1 DEF ProviderTypes, PaystackFinish,
      NotYet
  <2>3. CASE ~(t = s /\ m = n)
    <3>1. paystack'[t][m] = paystack[t][m]
      BY <1>1, <1>4, <2>3 DEF ProviderTypes
    <3>2. job'[Event("success", t, m)] = job[Event("success", t, m)]
          /\ job'[Event("failure", t, m)] = job[Event("failure", t, m)]
      BY <1>6, <2>3, EventsOf, EventsDiffer
    <3>. QED  BY <1>1, <2>1, <3>1, <3>2 DEF PaystackFinish, NotYet
  <2>. QED  BY <2>2, <2>3
<1>. QED  BY <1>3, <1>5, <1>6, <1>7, SoundNextParts

LEMMA SoundOthers ==
    ASSUME Sound, OthersReserve
    PROVE Sound'
<1>1. Rows /\ ColumnTypes /\ ProviderTypes /\ WorkTypes /\ JobSound /\ NotYet
  BY SoundParts
<1>2. Rows'
  <2> DEFINE left == company.total - company.reserved
  <2>1. left \in Nat /\ CanReserveLiquidity(company, left)
    BY <1>1 DEF OthersReserve, Rows, GoodCompany, CompanyAccounts, CanReserveLiquidity
  <2>2. UNCHANGED <<wallet, crypto>> /\ company' = ReserveLiquidity(company, left)
    BY DEF OthersReserve
  <2>. QED  BY <1>1, <2>1, <2>2, ReserveLiquidityGood DEF Rows
<1>3. budget' \in [Faults -> Nat]
  BY <1>1, SpendType DEF OthersReserve, Faults
<1>4. ColumnTypes' /\ ProviderTypes' /\ WorkTypes' /\ JobSound'
  BY <1>1, <1>3 DEF OthersReserve, rows, providers, retries, queue, work, ColumnTypes,
    ProviderTypes, WorkTypes, JobSound, AttemptsLeft
<1>5. NotYet'
  BY <1>1, NotYetKept DEF OthersReserve, work
<1>. QED  BY <1>2, <1>4, <1>5, SoundNextParts

LEMMA SoundStall ==
    ASSUME Sound, NEW e \in Events, Stall(e)
    PROVE Sound'
<1>1. Rows /\ ColumnTypes /\ ProviderTypes /\ WorkTypes /\ JobSound /\ NotYet
  BY SoundParts
<1>2. job[e] # "dead" /\ job[e] # "none"
  BY RunNames DEF Stall
<1>3. budget' \in [Faults -> Nat]
  BY <1>1, SpendType DEF Stall, Faults
<1>4. Rows' /\ ColumnTypes' /\ ProviderTypes' /\ WorkTypes'
  BY <1>1, <1>3 DEF Stall, books, rows, providers, retries, queue, Rows, ColumnTypes, ProviderTypes,
    WorkTypes
<1>5. JobSound'
  BY <1>1, <1>2, JobSetSound DEF Stall, JobStates
<1>6. NotYet'
  BY <1>1, <1>2, NotYetKept DEF Stall, JobSound
<1>. QED  BY <1>4, <1>5, <1>6, SoundNextParts

LEMMA SoundCrash ==
    ASSUME Sound, Crash
    PROVE Sound'
<1>1. Rows /\ ColumnTypes /\ ProviderTypes /\ WorkTypes /\ JobSound /\ NotYet
  BY SoundParts
<1>2. Rows' /\ ColumnTypes' /\ ProviderTypes'
  BY <1>1 DEF Crash, books, rows, queue, providers, Rows, ColumnTypes, ProviderTypes
<1>3. budget' \in [Faults -> Nat]
  BY <1>1, SpendType DEF Crash, Faults
<1>4. WorkTypes'
  BY <1>1, <1>3, UnseenType, Numbers DEF Crash, WorkTypes, ConfirmPc, RunPc, RetryPc
<1>5. JobSound'
  BY <1>1, RunNames DEF Crash, JobSound, JobStates, AttemptsLeft
<1>6. \A e \in Events : job[e] = "none" => job'[e] = "none"
  BY <1>1, RunNames DEF Crash
<1>7. NotYet'
  BY <1>1, <1>6, NotYetKept DEF Crash
<1>. QED  BY <1>2, <1>4, <1>5, <1>7, SoundNextParts

LEMMA SoundNext == Sound /\ [Next]_vars => Sound'
<1> SUFFICES ASSUME Sound, [Next]_vars PROVE Sound'
  OBVIOUS
<1>1. CASE UNCHANGED vars
  <2>1. Rows' /\ ColumnTypes' /\ ProviderTypes' /\ WorkTypes' /\ JobSound'
    BY <1>1, SoundParts DEF vars, books, rows, providers, work, retries, queue, Rows, ColumnTypes,
      ProviderTypes, WorkTypes, JobSound, AttemptsLeft
  <2>2. NotYet'
    BY <1>1, SoundParts, NotYetKept DEF vars, work
  <2>. QED  BY <2>1, <2>2, SoundNextParts
<1>2. ASSUME NEW e \in Events, NEW r \in Runs, HandlerStep(r, e)
      PROVE Sound'
  BY <1>2, SoundFail, SoundAdd, SoundPay, SoundPaid, SoundReopen, SoundSettle, SoundFinish DEF
    HandlerStep, OrderStep
<1>. QED
  BY <1>1, <1>2, SoundConfirm, SoundTakes, SoundRetry, SoundExpiry, SoundQuidax, SoundPaystack,
    SoundOthers, SoundStall, SoundCrash DEF Next

---------------------------------------------------------------------------
\* The invariant the theorems follow from.
THEOREM SoundAlways == Spec => []Sound
BY SoundInit, SoundNext, PTL DEF Spec

\* Every column, event, job and progress of the sales keeps its type; no
\* balance, budget or count of attempts goes below zero.
THEOREM TypeCorrect == Spec => []TypeOK
<1>1. Sound => TypeOK
  BY DEF Sound
<1>. QED  BY <1>1, SoundAlways, PTL

\* No sequence of confirmations, orders, payouts, settlements, reversals,
\* retries and expiries reserves more than the wallet or the company holds.
THEOREM AlwaysSolvent == Spec => []Solvent
<1>1. Sound => Solvent
  BY DEF Sound
<1>. QED  BY <1>1, SoundAlways, PTL

\* Both together, for any amounts, runs, retries and faults.
THEOREM AlwaysSafe == Spec => []Safe
BY TypeCorrect, AlwaysSolvent, PTL DEF Safe

---------------------------------------------------------------------------
(* How far each sale is at the providers, in the handlers and in the queue. *)

Busy(r, e) == run[r][e] # "idle"

\* A slot handles one event at a time, and a processor one sale.
OneAtATime ==
    /\ \A r \in Runs : \A e, d \in Events : Busy(r, e) /\ Busy(r, d) => e = d
    /\ \A p \in Processors : \A s, t \in Sells :
          retry[p][s] # "idle" /\ retry[p][t] # "idle" => s = t

\* A run is where what it has found at the provider leads, and what it has read
\* says that the proceeds are booked once it has seen to that.
RunFollows(r, e) ==
    /\ Busy(r, e) => job[e] # "none"
    /\ run[r][e] \in {"adding", "paying", "paid", "unpaid"} =>
          e.type = "order" /\ quidax[e.sell][e.nr] = "filled"
    /\ run[r][e] = "failing" =>
          e.type = "order" /\ quidax[e.sell][e.nr] = "cancelled"
    /\ run[r][e] \in {"settling", "reverting"} => e.type # "order"
    /\ run[r][e] \in {"paying", "paid"} => seen[r].proceeds
    /\ run[r][e] = "unpaid" /\ Untouched({"error"}) => seen[r].proceeds

RunsFollow == \A r \in Runs, e \in Events : RunFollows(r, e)

\* Without a stall a run holds its job.
JobHeld ==
    Untouched({"stall"}) =>
        \A r \in Runs, e \in Events : Busy(r, e) => job[e] = r

\* An order is recorded after it has been placed.
OrderNumbers ==
    /\ \A s \in Sells : /\ ref[s] # 0 => quidax[s][ref[s]] # "none"
                        /\ confirm[s] = "accepted" => quidax[s][1] # "none"
    /\ \A p \in Processors, s \in Sells :
          retry[p][s] = "posted" => /\ posted[p] \in Nrs
                                    /\ quidax[s][posted[p]] # "none"

\* With one processor, and no record left behind, a sale in the queue has no order but the
\* one a retry has just recorded.
QueuedOnce ==
    OneTry =>
        \A s \in Sells :
            /\ confirm[s] # "done" => /\ s \notin queued /\ ref[s] = 0
                                      /\ retry[Hourly][s] = "idle"
            /\ retry[Hourly][s] \in {"checked", "reserved", "posted", "refused"}
                 => ref[s] = 0
            /\ s \in queued /\ ref[s] # 0 => retry[Hourly][s] = "recorded"

\* The order under way is the one the sale refers to.
RefHeld ==
    OneOrder => \A r \in Runs, s \in Sells, n \in Nrs :
                    Busy(r, Event("order", s, n)) => ref[s] = n

BudgetBounded == \A f \in Faults : budget[f] <= Budget[f]

Progress == /\ OneAtATime /\ RunsFollow /\ JobHeld /\ OrderNumbers
            /\ QueuedOnce /\ RefHeld /\ BudgetBounded

---------------------------------------------------------------------------
(* The proceeds.                                                           *)

\* Sales whose proceeds are booked, even if a stale write has hidden it: a run
\* has read it, or there is a payout.
Booked(s) ==
    \/ proceeds[s]
    \/ \E r \in Runs, e \in Events :
          e.sell = s /\ Busy(r, e) /\ seen[r].proceeds
    \/ \E n \in Nrs : paystack[s][n] # "none"

BookedSales == {s \in Sells : Booked(s)}

BookedOnce ==
    /\ company.total >= InitialCompany + Sum(Proceeds, BookedSales)
    /\ \A s \in BookedSales : \E n \in Nrs : quidax[s][n] = "filled"

Careful == OneOrder /\ (Untouched({"stall"}) \/ Untouched({"error"}))

\* A run that may still write the metadata knows whether the proceeds are
\* booked; one that is about to book them reads it again, and knows it already
\* unless a second run of its job may have done so.
SeenFresh(r, e) ==
    /\ Busy(r, e) /\ seen[r].proceeds => proceeds[e.sell]
    /\ /\ run[r][e] \notin {"idle", "committed"}
       /\ run[r][e] = "adding" => Untouched({"stall"})
       => (proceeds[e.sell] => seen[r].proceeds)

BookedExactly ==
    Careful =>
        /\ company.total
             = InitialCompany + Sum(Proceeds, {s \in Sells : proceeds[s]})
        /\ \A r \in Runs, e \in Events : SeenFresh(r, e)
        /\ \A s \in Sells, n \in Nrs : paystack[s][n] # "none" => proceeds[s]

---------------------------------------------------------------------------
(* The payouts.                                                            *)

PaidFor(s) == {n \in Nrs : paystack[s][n] # "none"}
Filled(s) == {n \in Nrs : quidax[s][n] = "filled"}

\* Orders the sale refers to, or will once they are recorded.
Nameable(s, n) ==
    \/ ref[s] = n
    \/ n = 1 /\ confirm[s] = "accepted"
    \/ \E p \in Processors : retry[p][s] = "posted" /\ posted[p] = n

\* Filled orders whose job may start a run, and runs that may start a payout.
MayRun(s) == {n \in Filled(s) : /\ job[Event("order", s, n)] = "waiting"
                                /\ Nameable(s, n)}
MayPay(s) == {r \in Runs : \E n \in Nrs : run[r][Event("order", s, n)]
                                              \in {"adding", "paying", "unpaid"}}
Reruns == {"crash", "stall", "lostAnswer", "error"}

Within(s) ==
    Cardinality(PaidFor(s)) + Cardinality(MayRun(s)) + Cardinality(MayPay(s))
        <= Cardinality(Filled(s)) + Spent(Reruns)

PaidWithin == \A s \in Sells : Within(s)

---------------------------------------------------------------------------
(* Steps as the runs and their jobs see them.                              *)

\* Faults are spent, never given back.
LEMMA BudgetSteps ==
    ASSUME [Next]_vars
    PROVE  (\E f \in Faults : Spend(f)) \/ budget' = budget
<1>. DEFINE Q == (\E f \in Faults : Spend(f)) \/ budget' = budget
<1>1. ASSUME NEW s \in Sells, ConfirmStep(s) PROVE Q
  BY <1>1 DEF ConfirmStep, ConfirmReserve, ConfirmPaystack, ConfirmPost, ConfirmCompensate,
    ConfirmRecord, Faults
<1>2. ASSUME NEW s \in Sells, NEW n \in Nrs,
             QuidaxFinish(s, n) \/ PaystackFinish(s, n)
      PROVE  Q
  BY <1>2 DEF QuidaxFinish, PaystackFinish, Faults
<1>3. ASSUME NEW r \in Runs, NEW e \in Events,
             OrderTake(r, e) \/ TransferTake(r, e)
      PROVE  Q
  BY <1>3 DEF OrderTake, TransferTake, Take, Faults
<1>4. ASSUME NEW r \in Runs, NEW e \in Events, HandlerStep(r, e) PROVE Q
  BY <1>4 DEF HandlerStep, OrderStep, OrderFail, OrderAdd, OrderPay, OrderPaid, OrderUnpaid,
    TransferSettle, TransferRevert, Finish, Faults
<1>5. ASSUME NEW p \in Processors, NEW s \in Sells, RetryStep(p, s) PROVE Q
  BY <1>5 DEF RetryStep, RetryCheck, RetryReserve, RetryPost, RetryRecord, RetryFinish, RetryUndo,
    RetryError, Faults
<1>6. ASSUME NEW s \in Sells, ExpireRead(s) \/ ExpireCommit(s) PROVE Q
  BY <1>6 DEF ExpireRead, ExpireCommit, Faults
<1>7. ASSUME OthersReserve \/ Crash \/ \E e \in Events : Stall(e) PROVE Q
  BY <1>7 DEF OthersReserve, Crash, Stall, Faults
<1>8. CASE UNCHANGED vars
  BY <1>8 DEF vars
<1>. QED
  BY <1>1, <1>2, <1>3, <1>4, <1>5, <1>6, <1>7, <1>8 DEF Next

LEMMA BudgetFalls ==
    ASSUME WorkTypes, [Next]_vars
    PROVE  \A f \in Faults : budget'[f] <= budget[f]
<1>1. ASSUME NEW g \in Faults, Spend(g)
      PROVE  \A f \in Faults : budget'[f] <= budget[f]
  BY <1>1 DEF Spend, WorkTypes
<1>2. ASSUME budget' = budget
      PROVE  \A f \in Faults : budget'[f] <= budget[f]
  BY <1>2 DEF WorkTypes
<1>. QED  BY <1>1, <1>2, BudgetSteps

LEMMA BudgetBoundedNext ==
    WorkTypes /\ WorkTypes' /\ BudgetBounded /\ [Next]_vars => BudgetBounded'
  BY SellAssumption, BudgetFalls DEF BudgetBounded, WorkTypes

\* What has not happened after a step had not happened before it, and is not
\* the step.
LEMMA UntouchedBefore ==
    ASSUME WorkTypes, WorkTypes', BudgetBounded, [Next]_vars,
           NEW F \in SUBSET Faults, Untouched(F)'
    PROVE  Untouched(F) /\ \A f \in F : ~Spend(f)
<1>1. \A f \in F : /\ budget[f] <= Budget[f] /\ budget'[f] = Budget[f]
                   /\ budget'[f] <= budget[f]
                   /\ budget[f] \in Nat /\ Budget[f] \in Nat
  BY SellAssumption, BudgetFalls DEF BudgetBounded, WorkTypes, Untouched
<1>2. \A f \in F : budget'[f] = budget[f] /\ budget[f] = Budget[f]
  BY <1>1
<1>3. \A f \in F : ~Spend(f)
  BY <1>1, <1>2 DEF Spend, WorkTypes
<1>. QED  BY <1>2, <1>3 DEF Untouched

\* The same for each fault the invariants speak of.
LEMMA Before ==
    ASSUME WorkTypes, WorkTypes', BudgetBounded, [Next]_vars
    PROVE  /\ Untouched({"stall"})' => Untouched({"stall"}) /\ ~Spend("stall")
           /\ Untouched({"error"})' => Untouched({"error"}) /\ ~Spend("error")
           /\ Untouched({"crash", "undeleted"})'
                => /\ Untouched({"crash", "undeleted"})
                   /\ ~Spend("crash") /\ ~Spend("undeleted")
BY UntouchedBefore DEF Faults

\* A step of a run touches that run and its job alone.
Elsewhere(r, e) ==
    /\ \A q \in Runs, d \in Events : q # r \/ d # e => run'[q][d] = run[q][d]
    /\ \A q \in Runs \ {r} : seen'[q] = seen[q]
    /\ \A d \in Events \ {e} : job'[d] = job[d]

\* A run starts ...
Started(r, e) ==
    /\ Elsewhere(r, e)
    /\ \A d \in Events : ~Busy(r, d)
    /\ job[e] = "waiting" /\ job'[e] = r
    /\ seen'[r] = Metadata(e.sell)
    /\ \/ /\ e.type = "order" /\ ref[e.sell] = e.nr
          /\ \/ quidax[e.sell][e.nr] = "cancelled" /\ run'[r][e] = "failing"
             \/ quidax[e.sell][e.nr] = "filled" /\ run'[r][e] = "adding"
       \/ e.type # "order" /\ run'[r][e] \in {"settling", "reverting"}
    /\ UNCHANGED <<books, providers, confirm, retries, budget>>

\* ... or not, ...
Dropped(e) ==
    /\ job[e] = "waiting" /\ job'[e] \in {"done", "waiting", "dead"}
    /\ \A d \in Events \ {e} : job'[d] = job[d]
    /\ UNCHANGED <<run, seen, books, providers, confirm, retries>>

\* ... and goes on or ends.
Moved(r, e) ==
    /\ Elsewhere(r, e) /\ Busy(r, e)
    /\ \/ job' = job
       \/ /\ job[e] = r /\ run'[r][e] = "idle"
          /\ job'[e] \in {"done", "waiting", "dead"}
    /\ UNCHANGED <<quidax, ref, confirm, retry, posted>>

\* All other steps but a crash: they book nothing and pay nobody.
Aside ==
    /\ UNCHANGED <<run, seen, proceeds>>
    /\ company'.total = company.total
    /\ \A s \in Sells, n \in Nrs :
          paystack'[s][n] = "none" <=> paystack[s][n] = "none"
    /\ \A d \in Events : \/ job'[d] = job[d]
                         \/ job[d] = "none" /\ job'[d] = "waiting"
                         \/ job'[d] = "waiting" /\ Spend("stall")
    /\ \A s \in Sells, n \in Nrs :
          quidax[s][n] \in {"filled", "cancelled"} => quidax'[s][n] = quidax[s][n]

LEMMA TakeSteps ==
    ASSUME Sound, NEW r \in Runs, NEW e \in Events,
           OrderTake(r, e) \/ TransferTake(r, e)
    PROVE  Started(r, e) \/ Dropped(e)
<1>1. ProviderTypes /\ WorkTypes /\ JobSound /\ NotYet
  BY SoundParts
<1>2. /\ job[e] = "waiting" /\ \A d \in Events : run[r][d] = "idle"
      /\ UNCHANGED <<books, providers, confirm, retries>>
  BY DEF OrderTake, TransferTake, Take
<1>3. ASSUME Used(e) \/ Retried(e), UNCHANGED <<run, seen>>
      PROVE  Dropped(e)
  BY <1>1, <1>2, <1>3 DEF Used, Retried, Dropped, JobSound
<1>4. ASSUME NEW pc \in RunPc, SetRun(r, e, pc), job' = [job EXCEPT ![e] = r],
             seen' = [seen EXCEPT ![r] = Metadata(e.sell)]
      PROVE  /\ Elsewhere(r, e) /\ job'[e] = r /\ seen'[r] = Metadata(e.sell)
             /\ run'[r][e] = pc
  BY <1>1, <1>4 DEF SetRun, WorkTypes, JobSound, Elsewhere
<1>5. CASE OrderTake(r, e)
  <2>1. e.type = "order" /\ e.sell \in Sells /\ e.nr \in Nrs
    BY <1>5, EventParts DEF OrderTake
  <2>2. quidax[e.sell][e.nr] \in {"filled", "cancelled"}
    BY <1>2, <2>1, EventParts, <1>1 DEF NotYet, ProviderTypes
  <2>. QED
    BY <1>2, <1>3, <1>4, <1>5, <2>1, <2>2 DEF OrderTake, Take, Started, Busy, KnownOrder, RunPc
<1>6. CASE TransferTake(r, e)
  BY <1>2, <1>3, <1>4, <1>6 DEF TransferTake, Take, Started, Busy, RunPc
<1>. QED  BY <1>5, <1>6

LEMMA HandlerSteps ==
    ASSUME Sound, NEW r \in Runs, NEW e \in Events, HandlerStep(r, e)
    PROVE  Moved(r, e)
<1>1. ProviderTypes /\ WorkTypes /\ JobSound
  BY SoundParts
<1>2. ASSUME Return(r, e) \/ Throw(r, e)
      PROVE  /\ Elsewhere(r, e)
             /\ \/ job' = job
                \/ /\ job[e] = r /\ run'[r][e] = "idle"
                   /\ job'[e] \in {"done", "waiting", "dead"}
  BY <1>1, <1>2 DEF Return, Throw, Used, Retried, SetRun, Elsewhere, WorkTypes, JobSound
<1>3. ASSUME NEW pc \in RunPc, Go(r, e, pc),
             \/ seen' = seen
             \/ \E x \in SeenRows : seen' = [seen EXCEPT ![r] = x]
      PROVE  Elsewhere(r, e) /\ job' = job
  BY <1>1, <1>3 DEF Go, SetRun, Elsewhere, WorkTypes
<1>4. Busy(r, e) /\ UNCHANGED <<quidax, ref, confirm, retry, posted>>
  BY DEF HandlerStep, OrderStep, OrderFail, OrderAdd, OrderPay, OrderPaid, OrderUnpaid,
    TransferSettle, TransferRevert, Finish, Busy, providers, books, rows, retries
<1>5. /\ Elsewhere(r, e)
      /\ \/ job' = job
         \/ /\ job[e] = r /\ run'[r][e] = "idle"
            /\ job'[e] \in {"done", "waiting", "dead"}
  <2>1. CASE Return(r, e) \/ Throw(r, e)
    BY <1>2, <2>1
  <2>2. ASSUME OrderAdd(r, e) PROVE Elsewhere(r, e) /\ job' = job
    BY SoundParts, EventParts, MetadataType, <2>2, <1>3 DEF SeenRows, OrderAdd, AddFailed, RunPc
  <2>3. ASSUME OrderPay(r, e) PROVE Elsewhere(r, e) /\ job' = job
    <3>1. \E pc \in {"paid", "unpaid"} : Go(r, e, pc)
      BY <2>3 DEF OrderPay
    <3>2. \/ seen' = seen
          \/ \E n \in Nrs : seen' = [seen EXCEPT ![r] = [@ EXCEPT !.nr = n]]
      BY <2>3 DEF OrderPay
    <3>3. \A n \in Nrs : [seen[r] EXCEPT !.nr = n] \in SeenRows
      BY <1>1, Numbers DEF WorkTypes, SeenRows
    <3>. QED  BY <1>3, <3>1, <3>2, <3>3 DEF RunPc
  <2>4. ASSUME NEW pc \in {"committed", "unpaid"}, Go(r, e, pc), UNCHANGED seen
        PROVE  Elsewhere(r, e) /\ job' = job
    BY <1>3, <2>4 DEF RunPc
  <2>5. CASE OrderPaid(r, e)
    BY <2>4, <2>5 DEF OrderPaid
  <2>6. CASE TransferSettle(r, e)
    BY <2>1, <2>4, <2>6 DEF TransferSettle
  <2>. QED
    BY <2>1, <2>2, <2>3, <2>5, <2>6 DEF HandlerStep, OrderStep, OrderFail, OrderUnpaid,
      TransferRevert, Finish
<1>. QED  BY <1>4, <1>5 DEF Moved

LEMMA AsideSteps ==
    ASSUME Sound, [Next]_vars
    PROVE  \/ Aside \/ Crash
           \/ \E r \in Runs, e \in Events :
                Started(r, e) \/ Dropped(e) \/ HandlerStep(r, e)
<1>1. Rows /\ ProviderTypes /\ WorkTypes /\ JobSound /\ NotYet
  BY SoundParts
<1>2. ASSUME NEW a \in Nat
      PROVE  /\ ReserveLiquidity(company, a).total = company.total
             /\ ReleaseLiquidity(company, a).total = company.total
  BY <1>1 DEF Rows, GoodCompany, CompanyAccounts, ReserveLiquidity, ReleaseLiquidity
<1>3. ASSUME UNCHANGED <<run, seen, job, proceeds>>, company'.total = company.total,
             \/ UNCHANGED providers
             \/ \E s \in Sells, n \in Nrs : Place(s, n)
      PROVE  Aside
  <2>1. ASSUME NEW s \in Sells, NEW n \in Nrs,
               quidax[s][n] \in {"filled", "cancelled"}
        PROVE  quidax'[s][n] = quidax[s][n]
    BY <1>1, <1>3, <2>1 DEF Place, Unused, ProviderTypes, providers
  <2>2. paystack' = paystack
    BY <1>3 DEF Place, providers
  <2>. QED  BY <1>3, <2>1, <2>2 DEF Aside
<1>4. ASSUME NEW s \in Sells, ConfirmStep(s) PROVE Aside
  <2>1. UNCHANGED <<work, proceeds>>
    BY <1>4 DEF ConfirmStep, ConfirmReserve, ConfirmPaystack, ConfirmPost, ConfirmCompensate,
      ConfirmRecord, books, rows
  <2>2. UNCHANGED providers \/ Place(s, 1)
    BY <1>4 DEF ConfirmStep, ConfirmReserve, ConfirmPaystack, ConfirmPost, ConfirmCompensate,
      ConfirmRecord
  <2>3. company'.total = company.total
    BY <1>2, <1>4, Amounts DEF ConfirmStep, ConfirmReserve, ReservePayout, ConfirmPaystack,
      ConfirmPost, ConfirmCompensate, ConfirmRecord, books
  <2>. QED  BY <1>3, <2>1, <2>2, <2>3, Numbers DEF work
<1>5. ASSUME NEW p \in Processors, NEW s \in Sells, RetryStep(p, s) PROVE Aside
  <2>1. UNCHANGED <<work, proceeds>>
    BY <1>5 DEF RetryStep, RetryCheck, RetryReserve, RetryPost, RetryRecord, RetryFinish, RetryUndo,
      RetryError, books, rows
  <2>2. UNCHANGED providers \/ \E n \in Nrs : Place(s, n)
    BY <1>5 DEF RetryStep, RetryCheck, RetryReserve, RetryPost, RetryRecord, RetryFinish, RetryUndo,
      RetryError
  <2>3. company'.total = company.total
    BY <1>2, <1>5, Amounts DEF RetryStep, RetryCheck, RetryReserve, RetryPost, RetryRecord,
      RetryFinish, RetryUndo, RetryError, GiveBack, books, rows
  <2>. QED  BY <1>3, <2>1, <2>2, <2>3 DEF work
<1>6. ASSUME NEW s \in Sells, ExpireRead(s) \/ ExpireCommit(s) PROVE Aside
  BY <1>6, <1>3 DEF ExpireRead, ExpireCommit, books, rows, work
<1>7. ASSUME NEW s \in Sells, NEW n \in Nrs, QuidaxFinish(s, n) PROVE Aside
  <2>1. quidax[s][n] = "open" /\ UNCHANGED <<run, seen, proceeds, company, paystack>>
    BY <1>7 DEF QuidaxFinish, books, rows
  <2>2. job[Event("order", s, n)] = "none"
    BY <1>1, <2>1 DEF NotYet
  <2>3. \A d \in Events : \/ job'[d] = job[d]
                          \/ job[d] = "none" /\ job'[d] = "waiting"
    BY <1>1, <1>7, <2>2 DEF QuidaxFinish, Deliver, Event, JobSound
  <2>4. \A t \in Sells, m \in Nrs : quidax[t][m] \in {"filled", "cancelled"} =>
                                      quidax'[t][m] = quidax[t][m]
    BY <1>1, <1>7, <2>1 DEF QuidaxFinish, ProviderTypes
  <2>. QED  BY <2>1, <2>3, <2>4 DEF Aside
<1>8. ASSUME NEW s \in Sells, NEW n \in Nrs, PaystackFinish(s, n) PROVE Aside
  <2>1. UNCHANGED <<run, seen, proceeds, company, quidax>>
    BY <1>8 DEF PaystackFinish, books, rows
  <2>2. \E type \in {"success", "failure"} :
           /\ job[Event(type, s, n)] = "none"
           /\ Deliver(type, s, n)
    BY <1>1, <1>8 DEF PaystackFinish, NotYet
  <2>3. \A d \in Events : \/ job'[d] = job[d]
                          \/ job[d] = "none" /\ job'[d] = "waiting"
    BY <1>1, <2>2 DEF Deliver, Event, JobSound
  <2>4. \A t \in Sells, m \in Nrs :
           paystack'[t][m] = "none" <=> paystack[t][m] = "none"
    BY <1>1, <1>8 DEF PaystackFinish, ProviderTypes
  <2>. QED  BY <2>1, <2>3, <2>4 DEF Aside
<1>9. ASSUME NEW e \in Events, Stall(e) PROVE Aside
  BY <1>1, <1>9 DEF Stall, JobSound, Aside, providers, books, rows
<1>10. CASE OthersReserve
  BY <1>1, <1>10, <1>3 DEF OthersReserve, Rows, GoodCompany, CompanyAccounts, ReserveLiquidity,
    work, rows
<1>11. CASE UNCHANGED vars
  BY <1>3, <1>11 DEF vars, work, books, rows
<1>. QED
  BY <1>4, <1>5, <1>6, <1>7, <1>8, <1>9, <1>10, <1>11, TakeSteps DEF Next

---------------------------------------------------------------------------
(* Progress is inductive.                                                  *)

LEMMA ProgressInit == Init => Progress
<1>. SUFFICES ASSUME Init PROVE Progress
  OBVIOUS
<1>1. OneAtATime /\ RunsFollow /\ JobHeld /\ RefHeld
  BY EventsOf DEF Init, OneAtATime, RunsFollow, RunFollows, JobHeld, RefHeld, Busy
<1>2. OrderNumbers /\ QueuedOnce
  BY DEF Init, OrderNumbers, QueuedOnce, Processors
<1>3. BudgetBounded
  BY SellAssumption DEF Init, BudgetBounded
<1>. QED  BY <1>1, <1>2, <1>3 DEF Progress

\* A processor starts with a sale when it has none, and goes on with that one.
LEMMA RetryMoves ==
    ASSUME [Next]_vars
    PROVE  \/ UNCHANGED retry
           \/ Crash
           \/ \E p \in Processors, s \in Sells, pc \in RetryPc :
                /\ SetRetry(p, s, pc)
                /\ \A t \in Sells : t = s \/ retry[p][s] # "idle" \/ retry[p][t] = "idle"
<1>1. ASSUME NEW s \in Sells, ConfirmStep(s) PROVE UNCHANGED retry
  BY <1>1 DEF ConfirmStep, ConfirmReserve, ConfirmPaystack, ConfirmPost, ConfirmCompensate,
    ConfirmRecord, retries
<1>2. ASSUME NEW s \in Sells, NEW n \in Nrs,
             QuidaxFinish(s, n) \/ PaystackFinish(s, n)
      PROVE  UNCHANGED retry
  BY <1>2 DEF QuidaxFinish, PaystackFinish, retries
<1>3. ASSUME NEW r \in Runs, NEW e \in Events,
             OrderTake(r, e) \/ TransferTake(r, e)
      PROVE  UNCHANGED retry
  BY <1>3 DEF OrderTake, TransferTake, Take, retries
<1>4. ASSUME NEW r \in Runs, NEW e \in Events, HandlerStep(r, e)
      PROVE  UNCHANGED retry
  BY <1>4 DEF HandlerStep, OrderStep, OrderFail, OrderAdd, OrderPay, OrderPaid, OrderUnpaid,
    TransferSettle, TransferRevert, Finish, retries
<1>5. ASSUME NEW p \in Processors, NEW s \in Sells, RetryStep(p, s)
      PROVE  \/ UNCHANGED retry
             \/ \E pc \in RetryPc :
                  /\ SetRetry(p, s, pc)
                  /\ \A t \in Sells : retry[p][s] # "idle" \/ retry[p][t] = "idle"
  BY <1>5 DEF RetryStep, RetryCheck, RetryReserve, RetryPost, RetryRecord, RetryFinish, RetryUndo,
    RetryError, RetryPc
<1>6. ASSUME NEW s \in Sells, ExpireRead(s) \/ ExpireCommit(s)
      PROVE  \E pc \in RetryPc :
                /\ SetRetry(Hourly, s, pc)
                /\ \A t \in Sells : retry[Hourly][s] # "idle"
                                    \/ retry[Hourly][t] = "idle"
  BY <1>6 DEF ExpireRead, ExpireCommit, RetryPc
<1>7. ASSUME OthersReserve \/ \E e \in Events : Stall(e) PROVE UNCHANGED retry
  BY <1>7 DEF OthersReserve, Stall, retries
<1>8. CASE UNCHANGED vars
  BY <1>8 DEF vars, retries
<1>9. Hourly \in Processors
  BY DEF Processors
<1>. QED
  BY <1>1, <1>2, <1>3, <1>4, <1>5, <1>6, <1>7, <1>8, <1>9 DEF Next

LEMMA OneAtATimeNext ==
    ASSUME Sound, OneAtATime, [Next]_vars
    PROVE  OneAtATime'
<1>0. WorkTypes
  BY SoundParts
<1>1. ASSUME NEW r \in Runs, NEW e \in Events, NEW d \in Events,
             Busy(r, e)', Busy(r, d)'
      PROVE  e = d
  <2>1. CASE Aside \/ \E f \in Events : Dropped(f)
    BY <1>1, <2>1 DEF OneAtATime, Aside, Dropped, Busy
  <2>2. CASE Crash
    BY <1>1, <2>2 DEF Crash, Busy
  <2>3. ASSUME NEW q \in Runs, NEW f \in Events, Started(q, f) PROVE e = d
    BY <1>1, <2>3 DEF OneAtATime, Started, Elsewhere, Busy
  <2>4. ASSUME NEW q \in Runs, NEW f \in Events, HandlerStep(q, f) PROVE e = d
    BY <1>1, <2>4, HandlerSteps DEF OneAtATime, Moved, Elsewhere, Busy
  <2>. QED  BY <2>1, <2>2, <2>3, <2>4, AsideSteps
<1>2. ASSUME NEW p \in Processors, NEW s \in Sells, NEW t \in Sells,
             retry'[p][s] # "idle", retry'[p][t] # "idle"
      PROVE  s = t
  <2>1. CASE UNCHANGED retry
    BY <1>2, <2>1 DEF OneAtATime
  <2>2. CASE Crash
    BY <1>2, <2>2 DEF Crash
  <2>3. ASSUME NEW q \in Processors, NEW u \in Sells, NEW pc \in RetryPc,
               SetRetry(q, u, pc),
               \A v \in Sells : v = u \/ retry[q][u] # "idle" \/ retry[q][v] = "idle"
        PROVE  s = t
    BY <1>0, <1>2, <2>3 DEF OneAtATime, SetRetry, WorkTypes
  <2>. QED  BY <2>1, <2>2, <2>3, RetryMoves
<1>. QED  BY <1>1, <1>2 DEF OneAtATime

LEMMA HandlerFollows ==
    ASSUME Sound, RunsFollow, NEW r \in Runs, NEW e \in Events,
           HandlerStep(r, e), BudgetBounded, WorkTypes', [Next]_vars
    PROVE  RunFollows(r, e)'
<1>0. WorkTypes /\ RunFollows(r, e) /\ Moved(r, e) /\ e.sell \in Sells
  BY SoundParts, HandlerSteps, EventParts DEF RunsFollow
<1>1. Untouched({"error"})' => Untouched({"error"}) /\ ~Spend("error")
  BY <1>0, Before
<1>2. job'[e] # "none"
  BY <1>0, RunNames DEF Moved, RunFollows
<1>3. quidax' = quidax
  BY <1>0 DEF Moved
<1>4. ASSUME Return(r, e) \/ Throw(r, e) PROVE run'[r][e] = "idle"
  BY <1>0, <1>4 DEF Return, Throw, SetRun, WorkTypes
<1>5. ASSUME NEW pc \in RunPc, Go(r, e, pc) PROVE run'[r][e] = pc
  BY <1>0, <1>5 DEF Go, SetRun, WorkTypes
<1>6. CASE run'[r][e] \in {"idle", "committed"}
  BY <1>2, <1>6 DEF RunFollows, Busy
<1>7. CASE OrderAdd(r, e)
  <2>1. e.type = "order" /\ quidax[e.sell][e.nr] = "filled"
    BY <1>0, <1>7 DEF OrderAdd, RunFollows
  <2>2. \/ run'[r][e] = "paying" /\ seen'[r].proceeds
        \/ run'[r][e] = "unpaid" /\ Spend("error")
    BY <1>0, <1>5, <1>7 DEF OrderAdd, AddFailed, RunPc, WorkTypes, SeenRows, Metadata
  <2>. QED  BY <1>1, <1>2, <1>3, <2>1, <2>2 DEF RunFollows, Busy
<1>8. CASE OrderPay(r, e)
  <2>1. /\ e.type = "order" /\ quidax[e.sell][e.nr] = "filled"
        /\ seen[r].proceeds
    BY <1>0, <1>8 DEF OrderPay, RunFollows
  <2>2. run'[r][e] \in {"paid", "unpaid"}
    BY <1>5, <1>8 DEF OrderPay, RunPc
  <2>3. seen'[r].proceeds = seen[r].proceeds
    BY <1>0, <1>8 DEF OrderPay, WorkTypes, SeenRows
  <2>. QED  BY <1>2, <1>3, <2>1, <2>2, <2>3 DEF RunFollows, Busy
<1>9. CASE OrderPaid(r, e)
  BY <1>0, <1>9, <1>5, <1>1, <1>2, <1>3, <1>6 DEF OrderPaid, RunFollows, RunPc, Busy
<1>10. CASE \/ OrderFail(r, e) \/ OrderUnpaid(r, e) \/ TransferSettle(r, e)
            \/ TransferRevert(r, e) \/ Finish(r, e)
  BY <1>10, <1>4, <1>5, <1>6 DEF OrderFail, OrderUnpaid, TransferSettle, TransferRevert, Finish,
    RunPc
<1>. QED  BY <1>7, <1>8, <1>9, <1>10 DEF HandlerStep, OrderStep

LEMMA RunsFollowNext ==
    ASSUME Sound, WorkTypes', OneAtATime, RunsFollow, BudgetBounded, [Next]_vars
    PROVE  RunsFollow'
<1>. SUFFICES ASSUME NEW r \in Runs, NEW e \in Events PROVE RunFollows(r, e)'
  BY DEF RunsFollow
<1>0. WorkTypes /\ RunFollows(r, e) /\ e.sell \in Sells /\ e.nr \in Nrs
  BY SoundParts, EventParts DEF RunsFollow
<1>1. Untouched({"error"})' => Untouched({"error"})
  BY <1>0, Before
<1>2. ASSUME run'[r][e] = run[r][e], seen'[r] = seen[r],
             job[e] # "none" => job'[e] # "none",
             quidax[e.sell][e.nr] \in {"filled", "cancelled"} =>
                quidax'[e.sell][e.nr] = quidax[e.sell][e.nr]
      PROVE  RunFollows(r, e)'
  BY <1>0, <1>1, <1>2 DEF RunFollows, Busy
<1>3. CASE run'[r][e] = "idle"
  BY <1>3 DEF RunFollows, Busy
<1>4. CASE Aside
  BY <1>0, <1>2, <1>4 DEF Aside
<1>5. CASE Crash
  BY <1>3, <1>5 DEF Crash
<1>6. ASSUME NEW q \in Runs, NEW f \in Events, Started(q, f)
      PROVE  RunFollows(r, e)'
  <2>1. job'[e] # "none" \/ job'[e] = job[e]
    BY <1>6, RunNames DEF Started, Elsewhere
  <2>2. quidax' = quidax
    BY <1>6 DEF Started, providers
  <2>3. CASE q = r /\ f = e
    BY <1>6, <2>2, <2>3, RunNames DEF Started, RunFollows
  <2>4. CASE q # r
    BY <1>2, <1>6, <2>1, <2>2, <2>4 DEF Started, Elsewhere
  <2>5. CASE q = r /\ f # e
    BY <1>3, <1>6, <2>5 DEF Started, Elsewhere, Busy
  <2>. QED  BY <2>3, <2>4, <2>5
<1>7. ASSUME NEW f \in Events, Dropped(f) PROVE RunFollows(r, e)'
  BY <1>2, <1>7 DEF Dropped, providers
<1>8. ASSUME NEW q \in Runs, NEW f \in Events, HandlerStep(q, f)
      PROVE  RunFollows(r, e)'
  <2>1. Moved(q, f)
    BY <1>8, HandlerSteps
  <2>2. job'[e] # "none" \/ job'[e] = job[e]
    BY <2>1, RunNames DEF Moved, Elsewhere
  <2>3. CASE q = r /\ f = e
    BY <1>8, <2>3, HandlerFollows
  <2>4. CASE q # r
    BY <1>2, <2>1, <2>2, <2>4 DEF Moved, Elsewhere
  <2>5. CASE q = r /\ f # e
    BY <1>3, <2>1, <2>5 DEF Moved, Elsewhere, Busy, OneAtATime
  <2>. QED  BY <2>3, <2>4, <2>5
<1>. QED  BY <1>4, <1>5, <1>6, <1>7, <1>8, AsideSteps

LEMMA JobHeldNext ==
    ASSUME Sound, WorkTypes', JobHeld, BudgetBounded, [Next]_vars
    PROVE  JobHeld'
<1>. SUFFICES ASSUME Untouched({"stall"})', NEW r \in Runs, NEW e \in Events,
                     Busy(r, e)'
              PROVE  job'[e] = r
  BY DEF JobHeld
<1>1. WorkTypes
  BY SoundParts
<1>2. Untouched({"stall"}) /\ ~Spend("stall")
  BY <1>1, Before
<1>3. \A q \in Runs, d \in Events : Busy(q, d) => job[d] = q
  BY <1>2 DEF JobHeld
<1>4. CASE Aside
  BY <1>2, <1>3, <1>4, RunNames DEF Aside, Busy
<1>5. CASE Crash
  BY <1>5 DEF Crash, Busy
<1>6. ASSUME NEW q \in Runs, NEW f \in Events, Started(q, f) PROVE job'[e] = r
  BY <1>3, <1>6, RunNames DEF Started, Elsewhere, Busy
<1>7. ASSUME NEW f \in Events, Dropped(f) PROVE job'[e] = r
  BY <1>3, <1>7, RunNames DEF Dropped, Busy
<1>8. ASSUME NEW q \in Runs, NEW f \in Events, HandlerStep(q, f)
      PROVE  job'[e] = r
  BY <1>3, <1>8, HandlerSteps DEF Moved, Elsewhere, Busy
<1>. QED  BY <1>4, <1>5, <1>6, <1>7, <1>8, AsideSteps

\* Orders stay placed.
LEMMA OrdersStay ==
    ASSUME Sound, [Next]_vars, NEW s \in Sells, NEW n \in Nrs,
           quidax[s][n] # "none"
    PROVE  quidax'[s][n] # "none"
<1>0. ProviderTypes
  BY SoundParts
<1>1. ASSUME NEW t \in Sells, NEW m \in Nrs, NEW st \in {"open", "filled", "cancelled"},
             quidax' = [quidax EXCEPT ![t][m] = st]
      PROVE  quidax'[s][n] # "none"
  BY <1>0, <1>1 DEF ProviderTypes
<1>2. ASSUME NEW t \in Sells, ConfirmStep(t) PROVE quidax'[s][n] # "none"
  BY <1>1, <1>2, Numbers DEF ConfirmStep, ConfirmReserve, ConfirmPaystack, ConfirmPost, Place,
    ConfirmCompensate, ConfirmRecord, providers
<1>3. ASSUME NEW p \in Processors, NEW t \in Sells, RetryStep(p, t)
      PROVE  quidax'[s][n] # "none"
  BY <1>1, <1>3 DEF RetryStep, RetryCheck, RetryReserve, RetryPost, RetryRecord, RetryFinish,
    RetryUndo, RetryError, Place, providers
<1>4. ASSUME NEW t \in Sells, NEW m \in Nrs,
             QuidaxFinish(t, m) \/ PaystackFinish(t, m)
      PROVE  quidax'[s][n] # "none"
  BY <1>1, <1>4 DEF QuidaxFinish, PaystackFinish
<1>5. ASSUME NEW r \in Runs, NEW e \in Events, HandlerStep(r, e)
      PROVE  quidax'[s][n] # "none"
  BY <1>5, HandlerSteps DEF Moved
<1>6. ASSUME NEW r \in Runs, NEW e \in Events,
             OrderTake(r, e) \/ TransferTake(r, e)
      PROVE  quidax'[s][n] # "none"
  BY <1>6 DEF OrderTake, TransferTake, Take, providers
<1>7. ASSUME NEW t \in Sells, ExpireRead(t) \/ ExpireCommit(t)
      PROVE  quidax'[s][n] # "none"
  BY <1>7 DEF ExpireRead, ExpireCommit, providers
<1>8. CASE OthersReserve \/ Crash \/ (\E e \in Events : Stall(e)) \/ UNCHANGED vars
  BY <1>8 DEF OthersReserve, Crash, Stall, vars, providers
<1>. QED  BY <1>2, <1>3, <1>4, <1>5, <1>6, <1>7, <1>8 DEF Next

\* What a sale refers to, and where its confirmation and retries are.
Referring == <<ref, confirm, retry, posted>>

LEMMA ReferringSteps ==
    ASSUME [Next]_vars
    PROVE  \/ UNCHANGED Referring /\ (UNCHANGED queued \/ excess' # {})
           \/ Crash
           \/ \E s \in Sells : \/ ConfirmStep(s) \/ ExpireRead(s) \/ ExpireCommit(s)
                               \/ \E p \in Processors : RetryStep(p, s)
<1>1. ASSUME NEW s \in Sells, NEW n \in Nrs,
             QuidaxFinish(s, n) \/ PaystackFinish(s, n)
      PROVE  UNCHANGED <<Referring, queued>>
  BY <1>1 DEF QuidaxFinish, PaystackFinish, Referring, books, rows, retries, queue
<1>2. ASSUME NEW r \in Runs, NEW e \in Events,
             OrderTake(r, e) \/ TransferTake(r, e)
      PROVE  UNCHANGED <<Referring, queued>>
  BY <1>2 DEF OrderTake, TransferTake, Take, Referring, books, rows, retries, queue
<1>3. ASSUME NEW r \in Runs, NEW e \in Events, HandlerStep(r, e)
      PROVE  UNCHANGED Referring /\ (UNCHANGED queued \/ excess' # {})
  BY <1>3 DEF HandlerStep, OrderStep, OrderFail, OrderAdd, OrderPay, OrderPaid, OrderUnpaid,
    TransferSettle, SettleInternal, TransferRevert, Finish, Referring, books, rows, retries, queue
<1>4. CASE OthersReserve \/ (\E e \in Events : Stall(e)) \/ UNCHANGED vars
  BY <1>4 DEF OthersReserve, Stall, vars, Referring, books, rows, retries, queue
<1>. QED  BY <1>1, <1>2, <1>3, <1>4 DEF Next

\* A record that a settlement has left is remembered.
LEMMA ExcessStays ==
    ASSUME [Next]_vars
    PROVE  \/ UNCHANGED excess
           \/ \E s \in Sells : excess' = excess \cup {s}
<1>1. ASSUME NEW s \in Sells,
             \/ ConfirmStep(s) \/ ExpireRead(s) \/ ExpireCommit(s)
             \/ \E n \in Nrs : QuidaxFinish(s, n) \/ PaystackFinish(s, n)
      PROVE  UNCHANGED excess
  BY <1>1 DEF ConfirmStep, ConfirmReserve, ConfirmPaystack, ConfirmPost, ConfirmCompensate,
    ConfirmRecord, ExpireRead, ExpireCommit, QuidaxFinish, PaystackFinish, retries, queue
<1>2. ASSUME NEW s \in Sells, NEW p \in Processors, RetryStep(p, s)
      PROVE  UNCHANGED excess
  BY <1>2 DEF RetryStep, RetryCheck, RetryReserve, RetryPost, RetryRecord, RetryFinish, RetryUndo,
    RetryError, queue
<1>3. ASSUME NEW r \in Runs, NEW e \in Events, HandlerStep(r, e)
      PROVE  UNCHANGED excess \/ excess' = excess \cup {e.sell}
  BY <1>3 DEF HandlerStep, OrderStep, OrderFail, OrderAdd, OrderPay, OrderPaid, OrderUnpaid,
    TransferSettle, SettleInternal, TransferRevert, Finish, retries, queue
<1>4. ASSUME NEW r \in Runs, NEW e \in Events,
             OrderTake(r, e) \/ TransferTake(r, e)
      PROVE  UNCHANGED excess
  BY <1>4 DEF OrderTake, TransferTake, Take, retries, queue
<1>5. CASE OthersReserve \/ Crash \/ (\E e \in Events : Stall(e)) \/ UNCHANGED vars
  BY <1>5 DEF OthersReserve, Crash, Stall, vars, retries, queue
<1>. QED  BY <1>1, <1>2, <1>3, <1>4, <1>5, EventParts DEF Next

\* What has not happened before a second try has not happened earlier either.
LEMMA OneTryBefore ==
    ASSUME WorkTypes, WorkTypes', BudgetBounded, [Next]_vars, OneTry'
    PROVE  OneTry /\ excess' = {} /\ ~Spend("crash") /\ ~Spend("undeleted")
BY Before, ExcessStays DEF OneTry

LEMMA OrderNumbersNext ==
    ASSUME Sound, OneAtATime, OrderNumbers, [Next]_vars
    PROVE  OrderNumbers'
<1>0. ColumnTypes /\ WorkTypes /\ ProviderTypes
  BY SoundParts
<1>1. \A s \in Sells : ref[s] \in Nrs \/ ref[s] = 0
  BY <1>0 DEF ColumnTypes, Nrs
<1>2. \A s \in Sells, n \in Nrs : quidax[s][n] # "none" => quidax'[s][n] # "none"
  BY OrdersStay
<1>3. ASSUME UNCHANGED Referring PROVE OrderNumbers'
  BY <1>1, <1>2, <1>3, Numbers DEF OrderNumbers, Referring
<1>4. ASSUME NEW s \in Sells, ConfirmStep(s) PROVE OrderNumbers'
  <2>1. UNCHANGED <<retry, posted>>
    BY <1>4 DEF ConfirmStep, ConfirmReserve, ConfirmPaystack, ConfirmPost, ConfirmCompensate,
      ConfirmRecord, retries
  <2>2. CASE ConfirmPost(s)
    <3>1. UNCHANGED ref
      BY <2>2 DEF ConfirmPost, books, rows
    <3>2. ASSUME NEW t \in Sells, confirm'[t] = "accepted"
          PROVE  quidax'[t][1] # "none"
      BY <1>0, <1>2, <2>2, <3>2, Numbers DEF ConfirmPost, SetConfirm, Place, OrderNumbers,
        WorkTypes, ProviderTypes
    <3>. QED  BY <1>1, <1>2, <2>1, <3>1, <3>2 DEF OrderNumbers
  <2>3. CASE ConfirmRecord(s)
    <3>1. \A t \in Sells : confirm'[t] = "accepted" => confirm[t] = "accepted"
      BY <1>0, <2>3 DEF ConfirmRecord, SetConfirm, WorkTypes
    <3>2. \A t \in Sells : ref'[t] = ref[t] \/ (ref'[t] = 1 /\ t = s)
      BY <1>0, <2>3 DEF ConfirmRecord, ColumnTypes
    <3>3. quidax'[s][1] # "none"
      BY <1>2, <2>3, Numbers DEF ConfirmRecord, OrderNumbers
    <3>4. \A t \in Sells : ref'[t] # 0 => quidax'[t][ref'[t]] # "none"
      BY <1>1, <1>2, <3>2, <3>3 DEF OrderNumbers
    <3>5. \A t \in Sells : confirm'[t] = "accepted" => quidax'[t][1] # "none"
      BY <1>2, <3>1, Numbers DEF OrderNumbers
    <3>. QED  BY <1>2, <2>1, <3>4, <3>5 DEF OrderNumbers
  <2>4. CASE ~ConfirmPost(s) /\ ~ConfirmRecord(s)
    <3>1. UNCHANGED ref
      BY <1>4, <2>4 DEF ConfirmStep, ConfirmReserve, ConfirmPaystack, ConfirmCompensate
    <3>2. \A t \in Sells : confirm'[t] = "accepted" => confirm[t] = "accepted"
      BY <1>0, <1>4, <2>4 DEF ConfirmStep, ConfirmReserve, ReservePayout, ConfirmPaystack,
        ConfirmCompensate, SetConfirm, WorkTypes
    <3>. QED  BY <1>1, <1>2, <2>1, <3>1, <3>2, Numbers DEF OrderNumbers
  <2>. QED  BY <2>2, <2>3, <2>4
<1>5. ASSUME NEW s \in Sells, NEW p \in Processors, RetryStep(p, s)
      PROVE  OrderNumbers'
  <2>1. UNCHANGED confirm
    BY <1>5 DEF RetryStep, RetryCheck, RetryReserve, RetryPost, RetryRecord, RetryFinish, RetryUndo,
      RetryError
  <2>2. CASE RetryPost(p, s)
    <3>1. UNCHANGED ref
      BY <2>2 DEF RetryPost, books, rows
    <3>2. ASSUME NEW q \in Processors, NEW t \in Sells, retry'[q][t] = "posted"
          PROVE  posted'[q] \in Nrs /\ quidax'[t][posted'[q]] # "none"
      <4>1. CASE q = p
        <5>1. t = s
          BY <1>0, <2>2, <3>2, <4>1 DEF RetryPost, SetRetry, OneAtATime, WorkTypes
        <5>2. \E n \in Nrs : Place(s, n) /\ posted' = [posted EXCEPT ![p] = n]
          BY <1>0, <2>2, <3>2, <4>1, <5>1 DEF RetryPost, SetRetry, WorkTypes
        <5>. QED  BY <1>0, <4>1, <5>1, <5>2 DEF Place, WorkTypes, ProviderTypes
      <4>2. CASE q # p
        BY <1>0, <2>2, <3>2, <4>2, <1>2 DEF RetryPost, SetRetry, WorkTypes, OrderNumbers
      <4>. QED  BY <4>1, <4>2
    <3>. QED  BY <1>1, <1>2, <2>1, <3>1, <3>2, Numbers DEF OrderNumbers
  <2>3. CASE RetryRecord(p, s)
    <3>1. \A t \in Sells : ref'[t] = ref[t] \/ (ref'[t] = posted[p] /\ t = s)
      BY <1>0, <2>3 DEF RetryRecord, ColumnTypes
    <3>2. posted[p] \in Nrs /\ quidax[s][posted[p]] # "none"
      BY <2>3 DEF RetryRecord, OrderNumbers
    <3>3. ASSUME NEW q \in Processors, NEW t \in Sells, retry'[q][t] = "posted"
          PROVE  retry[q][t] = "posted" /\ posted'[q] = posted[q]
      BY <1>0, <2>3, <3>3 DEF RetryRecord, SetRetry, OneAtATime, WorkTypes
    <3>4. \A t \in Sells : ref'[t] # 0 => quidax'[t][ref'[t]] # "none"
      BY <1>1, <1>2, <3>1, <3>2 DEF OrderNumbers
    <3>5. \A t \in Sells : confirm'[t] = "accepted" => quidax'[t][1] # "none"
      BY <1>2, <2>1, Numbers DEF OrderNumbers
    <3>. QED  BY <1>2, <3>3, <3>4, <3>5 DEF OrderNumbers
  <2>4. CASE ~RetryPost(p, s) /\ ~RetryRecord(p, s)
    <3>1. UNCHANGED <<ref, posted>>
      BY <1>5, <2>4 DEF RetryStep, RetryCheck, RetryReserve, RetryFinish, RetryUndo, RetryError,
        books, rows
    <3>2. \A q \in Processors, t \in Sells :
             retry'[q][t] = "posted" => retry[q][t] = "posted"
      BY <1>0, <1>5, <2>4 DEF RetryStep, RetryCheck, RetryReserve, RetryFinish, RetryUndo,
        RetryError, SetRetry, WorkTypes
    <3>. QED  BY <1>1, <1>2, <2>1, <3>1, <3>2, Numbers DEF OrderNumbers
  <2>. QED  BY <2>2, <2>3, <2>4
<1>6. ASSUME NEW s \in Sells, ExpireRead(s) \/ ExpireCommit(s)
      PROVE  OrderNumbers'
  <2>1. UNCHANGED <<ref, confirm, posted>>
    BY <1>6 DEF ExpireRead, ExpireCommit, books, rows
  <2>2. \A q \in Processors, t \in Sells :
           retry'[q][t] = "posted" => retry[q][t] = "posted"
    BY <1>0, <1>6 DEF ExpireRead, ExpireCommit, SetRetry, WorkTypes, Processors
  <2>. QED  BY <1>1, <1>2, <2>1, <2>2, Numbers DEF OrderNumbers
<1>7. CASE Crash
  BY <1>1, <1>2, <1>7 DEF Crash, OrderNumbers, books, rows
<1>. QED
  BY <1>3, <1>4, <1>5, <1>6, <1>7, ReferringSteps

LEMMA QueuedOnceNext ==
    ASSUME Sound, WorkTypes', QueuedOnce, BudgetBounded, [Next]_vars
    PROVE  QueuedOnce'
<1>. SUFFICES ASSUME OneTry' PROVE QueuedOnce'
  BY DEF QueuedOnce
<1>. DEFINE Once(s) ==
              /\ confirm[s] # "done" => /\ s \notin queued /\ ref[s] = 0
                                        /\ retry[Hourly][s] = "idle"
              /\ retry[Hourly][s] \in {"checked", "reserved", "posted", "refused"}
                   => ref[s] = 0
              /\ s \in queued /\ ref[s] # 0 => retry[Hourly][s] = "recorded"
<1>0. /\ ColumnTypes /\ WorkTypes
      /\ OneTry /\ excess' = {} /\ ~Spend("crash") /\ ~Spend("undeleted")
  BY SoundParts, OneTryBefore
<1>1. /\ \A s \in Sells : Once(s)
      /\ \A p \in Processors : p = Hourly
      /\ Hourly \in Processors
  BY <1>0 DEF QueuedOnce, OneTry, Processors
<1>. SUFFICES ASSUME NEW s \in Sells PROVE Once(s)'
  BY DEF QueuedOnce
<1>2. CASE UNCHANGED Referring /\ (UNCHANGED queued \/ excess' # {})
  BY <1>0, <1>1, <1>2 DEF Referring
<1>3. ASSUME NEW t \in Sells, ConfirmStep(t) PROVE Once(s)'
  <2>1. UNCHANGED retry
    BY <1>3 DEF ConfirmStep, ConfirmReserve, ConfirmPaystack, ConfirmPost, ConfirmCompensate,
      ConfirmRecord, retries
  <2>2. CASE s # t
    <3>1. confirm'[s] = confirm[s] /\ ref'[s] = ref[s]
      BY <1>0, <1>3, <2>2 DEF ConfirmStep, ConfirmReserve, ReservePayout, ConfirmPaystack,
        ConfirmPost, ConfirmCompensate, ConfirmRecord, SetConfirm, ColumnTypes, WorkTypes, books,
        rows
    <3>2. s \in queued' <=> s \in queued
      BY <1>3, <2>2 DEF ConfirmStep, ConfirmReserve, ReservePayout, ConfirmPaystack, ConfirmPost,
        ConfirmCompensate, ConfirmRecord, Enqueue, retries, queue
    <3>. QED  BY <1>1, <2>1, <3>1, <3>2
  <2>3. CASE s = t
    <3>1. /\ confirm[s] # "done"
          /\ s \notin queued /\ ref[s] = 0 /\ retry[Hourly][s] = "idle"
      BY <1>1, <1>3, <2>3 DEF ConfirmStep, ConfirmReserve, ConfirmPaystack, ConfirmPost,
        ConfirmCompensate, ConfirmRecord
    <3>2. /\ confirm'[s] # "done" => s \notin queued' /\ ref'[s] = 0
          /\ s \in queued' => ref'[s] = 0
      <4>1. CASE ConfirmReserve(t) \/ ConfirmPaystack(t)
        BY <1>0, <2>3, <3>1, <4>1 DEF ConfirmReserve, ReservePayout, ConfirmPaystack, SetConfirm,
          WorkTypes
      <4>2. CASE ConfirmPost(t) \/ ConfirmCompensate(t) \/ ConfirmRecord(t)
        BY <1>0, <2>3, <3>1, <4>2 DEF ConfirmPost, ConfirmCompensate, ConfirmRecord, SetConfirm,
          WorkTypes, books, rows, retries, queue
      <4>. QED  BY <1>3, <4>1, <4>2 DEF ConfirmStep
    <3>. QED  BY <2>1, <3>1, <3>2
  <2>. QED  BY <2>2, <2>3
<1>4. ASSUME NEW t \in Sells,
             \/ ExpireRead(t) \/ ExpireCommit(t)
             \/ \E p \in Processors : RetryStep(p, t)
      PROVE  Once(s)'
  <2>1. UNCHANGED confirm
    BY <1>4 DEF RetryStep, RetryCheck, RetryReserve, RetryPost, RetryRecord, RetryFinish, RetryUndo,
      RetryError, ExpireRead, ExpireCommit
  <2>2. \E pc \in RetryPc : SetRetry(Hourly, t, pc) \/ UNCHANGED retry
    BY <1>1, <1>4 DEF RetryStep, RetryCheck, RetryReserve, RetryPost, RetryRecord, RetryFinish,
      RetryUndo, RetryError, ExpireRead, ExpireCommit, RetryPc
  <2>3. CASE s # t
    <3>1. retry'[Hourly][s] = retry[Hourly][s]
      BY <1>0, <1>1, <2>2, <2>3 DEF SetRetry, WorkTypes
    <3>2. ref'[s] = ref[s]
      BY <1>0, <1>4, <2>3 DEF RetryStep, RetryCheck, RetryReserve, RetryPost, RetryRecord,
        RetryFinish, RetryUndo, RetryError, ExpireRead, ExpireCommit, books, rows, ColumnTypes
    <3>3. s \in queued' <=> s \in queued
      BY <1>4, <2>3 DEF RetryStep, RetryCheck, RetryReserve, RetryPost, RetryRecord, RetryFinish,
        RetryUndo, RetryError, ExpireRead, ExpireCommit, Dequeue, ExpireRecords, queue
    <3>. QED  BY <1>1, <2>1, <3>1, <3>2, <3>3
  <2>4. ASSUME s = t, NEW pc \in RetryPc, SetRetry(Hourly, t, pc)
        PROVE  retry'[Hourly][s] = pc
    BY <1>0, <1>1, <2>4 DEF SetRetry, WorkTypes
  <2>5. CASE s = t /\ RetryCheck(Hourly, t)
    BY <2>5, <2>4, <1>1, <2>1 DEF RetryCheck, books, rows, RetryPc
  <2>6. CASE s = t /\ RetryRecord(Hourly, t)
    BY <2>4, <2>6, <1>1, <2>1 DEF RetryRecord, RetryPc, queue
  <2>7. CASE s = t /\ (RetryReserve(Hourly, t) \/ RetryPost(Hourly, t))
    BY <2>7, <1>1, <2>1 DEF RetryReserve, RetryPost, books, rows, queue
  <2>8. CASE s = t /\ \/ RetryFinish(Hourly, t) \/ RetryUndo(Hourly, t)
                       \/ RetryError(Hourly, t)
    BY <1>0, <2>4, <2>8, <1>1, <2>1 DEF RetryFinish, RetryUndo, RetryError, Dequeue, books, rows,
      queue, RetryPc
  <2>9. CASE s = t /\ (ExpireRead(t) \/ ExpireCommit(t))
    BY <2>4, <2>9, <1>1, <2>1 DEF ExpireRead, ExpireCommit, ExpireRecords, books, rows, queue,
      RetryPc
  <2>. QED
    BY <1>1, <1>4, <2>3, <2>5, <2>6, <2>7, <2>8, <2>9 DEF RetryStep
<1>5. ~Crash
  BY <1>0 DEF Crash
<1>. QED  BY <1>2, <1>3, <1>4, <1>5, ReferringSteps

\* A sale with one order keeps to it.
LEMMA RefFixed ==
    ASSUME Sound, OrderNumbers, QueuedOnce, OneOrder, ~Crash, [Next]_vars,
           NEW s \in Sells, ref[s] # 0
    PROVE  ref'[s] = ref[s]
<1>0. ColumnTypes /\ ref[s] \in Nrs /\ quidax[s][ref[s]] # "none"
  BY SoundParts DEF ColumnTypes, Nrs, OrderNumbers
<1>1. ASSUME NEW n \in Nrs, quidax[s][n] # "none",
             ~OneTry
      PROVE  n = ref[s]
  BY <1>1, <1>0 DEF OneOrder
<1>2. ASSUME ConfirmRecord(s) PROVE ref'[s] = ref[s]
  BY <1>2, <1>0, <1>1, Numbers DEF ConfirmRecord, QueuedOnce, OrderNumbers, ColumnTypes
<1>3. ASSUME NEW p \in Processors, RetryRecord(p, s) PROVE ref'[s] = ref[s]
  BY <1>3, <1>0, <1>1 DEF RetryRecord, QueuedOnce, OneTry, Processors, OrderNumbers, ColumnTypes
<1>4. ASSUME NEW t \in Sells, t # s,
             ConfirmRecord(t) \/ \E p \in Processors : RetryRecord(p, t)
      PROVE  ref'[s] = ref[s]
  BY <1>0, <1>4 DEF ConfirmRecord, RetryRecord, ColumnTypes
<1>5. ASSUME NEW t \in Sells,
             \/ ConfirmStep(t) /\ ~ConfirmRecord(t)
             \/ ExpireRead(t) \/ ExpireCommit(t)
             \/ \E p \in Processors : RetryStep(p, t) /\ ~RetryRecord(p, t)
      PROVE  ref' = ref
  BY <1>5 DEF ConfirmStep, ConfirmReserve, ConfirmPaystack, ConfirmPost, ConfirmCompensate,
    ExpireRead, ExpireCommit, RetryStep, RetryCheck, RetryReserve, RetryPost, RetryFinish,
    RetryUndo, RetryError, books, rows
<1>6. CASE UNCHANGED Referring
  BY <1>6 DEF Referring
<1>. QED
  BY <1>2, <1>3, <1>4, <1>5, <1>6, ReferringSteps DEF ConfirmStep, RetryStep

\* That a sale has one order is lost, never regained.
LEMMA OneOrderBefore ==
    ASSUME Sound, WorkTypes', BudgetBounded, [Next]_vars, OneOrder'
    PROVE  OneOrder
<1>0. WorkTypes /\ Nrs \subseteq Nat
  BY SoundParts, Numbers
<1>1. OneTry' => OneTry
  BY <1>0, OneTryBefore
<1>2. ASSUME NEW s \in Sells, NEW n \in Nrs, quidax'[s][n] = "none"
      PROVE  quidax[s][n] = "none"
  BY <1>2, OrdersStay
<1>. QED  BY <1>1, <1>2 DEF OneOrder

LEMMA RefHeldNext ==
    ASSUME Sound, WorkTypes', OrderNumbers, QueuedOnce, RefHeld, BudgetBounded,
           [Next]_vars
    PROVE  RefHeld'
<1>. SUFFICES ASSUME OneOrder', NEW r \in Runs, NEW s \in Sells, NEW n \in Nrs,
                     Busy(r, Event("order", s, n))'
              PROVE  ref'[s] = n
  BY DEF RefHeld
<1>. DEFINE e == Event("order", s, n)
<1>0. /\ OneOrder /\ e \in Events /\ n # 0
      /\ e.type = "order" /\ e.sell = s /\ e.nr = n
  <2>1. OneOrder
    BY OneOrderBefore
  <2>2. e \in Events /\ n # 0
    BY EventsOf DEF Nrs
  <2>3. e.type = "order" /\ e.sell = s /\ e.nr = n
    BY DEF Event
  <2>. QED  BY <2>1, <2>2, <2>3
<1>1. ~Crash
  BY <1>0 DEF Crash, Busy
<1>. HIDE DEF e
<1>2. Busy(r, e) => ref'[s] = n
  BY <1>0, <1>1, RefFixed DEF RefHeld, e
<1>3. ASSUME NEW q \in Runs, NEW f \in Events, Started(q, f)
      PROVE  Busy(r, e) \/ ref'[s] = n
  BY <1>0, <1>3 DEF Started, Elsewhere, Busy, e, books, rows
<1>4. ASSUME NEW q \in Runs, NEW f \in Events, HandlerStep(q, f)
      PROVE  Busy(r, e)
  BY <1>0, <1>4, HandlerSteps DEF Moved, Elsewhere, Busy, e
<1>5. CASE Aside \/ \E f \in Events : Dropped(f)
  BY <1>2, <1>5 DEF Aside, Dropped, Busy, e
<1>. QED  BY <1>1, <1>2, <1>3, <1>4, <1>5, AsideSteps

LEMMA ProgressNext == Sound /\ Sound' /\ Progress /\ [Next]_vars => Progress'
<1>. SUFFICES ASSUME Sound, Sound', Progress, [Next]_vars PROVE Progress'
  OBVIOUS
<1>1. WorkTypes /\ WorkTypes'
  BY DEF Sound, TypeOK, WorkTypes, SeenRows
<1>2. /\ OneAtATime /\ RunsFollow /\ JobHeld /\ OrderNumbers /\ QueuedOnce
      /\ RefHeld /\ BudgetBounded
  BY DEF Progress
<1>. QED
  BY <1>1, <1>2, OneAtATimeNext, RunsFollowNext, JobHeldNext, OrderNumbersNext, QueuedOnceNext,
    RefHeldNext, BudgetBoundedNext DEF Progress

\* How far each sale is, for every interleaving.
THEOREM ProgressAlways == Spec => [](Sound /\ Progress)
BY SoundAlways, ProgressInit, ProgressNext, PTL DEF Spec

---------------------------------------------------------------------------
(* The proceeds: sums over the sales whose proceeds are booked.            *)

\* A run writes back the metadata it has read ...
Wrote(r, e) ==
    /\ company'.total = company.total
    /\ \/ UNCHANGED proceeds
       \/ /\ run[r][e] \in {"failing", "paid", "unpaid", "settling", "reverting"}
          /\ proceeds' = [proceeds EXCEPT ![e.sell] = seen[r].proceeds]
    /\ \/ run'[r][e] = "idle"
       \/ run[r][e] # "committed" /\ seen'[r].proceeds = seen[r].proceeds
    /\ run'[r][e] # "adding"
    /\ run[r][e] = "adding" => run'[r][e] = "unpaid" /\ Spend("error")
    /\ run'[r][e] = "idle" => ~seen'[r].proceeds
    /\ \A s \in Sells, n \in Nrs :
          paystack'[s][n] # "none" =>
             \/ paystack[s][n] # "none"
             \/ s = e.sell /\ run[r][e] = "paying"

\* ... or finds or books the proceeds.
Booking(r, e) ==
    /\ run[r][e] = "adding" /\ run'[r][e] = "paying" /\ seen'[r].proceeds
    /\ proceeds' = [proceeds EXCEPT ![e.sell] = TRUE]
    /\ \/ proceeds[e.sell] /\ company'.total = company.total
       \/ ~proceeds[e.sell]
          /\ company'.total = company.total + Proceeds[e.sell]
    /\ UNCHANGED paystack

LEMMA WriteSteps ==
    ASSUME Sound, NEW r \in Runs, NEW e \in Events, HandlerStep(r, e)
    PROVE  Wrote(r, e) \/ Booking(r, e)
<1>. DEFINE s == e.sell
<1>0. /\ Rows /\ ColumnTypes /\ ProviderTypes /\ WorkTypes
      /\ s \in Sells /\ e.nr \in Nrs
  BY SoundParts, EventParts
<1>1. ASSUME NEW a \in Nat
      PROVE  ReleaseLiquidity(company, a).total = company.total
  BY <1>0 DEF Rows, GoodCompany, CompanyAccounts, ReleaseLiquidity
<1>2. ASSUME Return(r, e) \/ Throw(r, e)
      PROVE  run'[r][e] = "idle" /\ ~seen'[r].proceeds
  BY <1>0, <1>2 DEF Return, Throw, SetRun, WorkTypes, Unseen, SeenRows
<1>3. ASSUME NEW pc \in RunPc, Go(r, e, pc) PROVE run'[r][e] = pc
  BY <1>0, <1>3 DEF Go, SetRun, WorkTypes
<1>4. CASE OrderFail(r, e)
  BY <1>0, <1>1, <1>4, Amounts, <1>2 DEF OrderFail, SetProceeds, providers, Wrote
<1>5. CASE OrderAdd(r, e)
  <2>1. run[r][e] = "adding" /\ UNCHANGED paystack
    BY <1>5 DEF OrderAdd, providers
  <2>2. CASE Spend("error") /\ AddFailed(r, e) /\ UNCHANGED <<company, proceeds, seen>>
    BY <1>3, <2>2, <2>1 DEF AddFailed, RunPc, Wrote
  <2>3. CASE /\ Go(r, e, "paying")
             /\ seen' = [seen EXCEPT ![r] = [Metadata(s) EXCEPT !.proceeds = TRUE]]
             /\ IF Unbooked(s)
                THEN /\ company' = AddLiquidity(company, Proceeds[s])
                     /\ SetProceeds(s, TRUE)
                ELSE UNCHANGED <<company, proceeds>>
    <3>1. run'[r][e] = "paying"
      BY <1>3, <2>3 DEF RunPc
    <3>2. seen'[r].proceeds
      BY <1>0, <2>3 DEF WorkTypes, Metadata
    <3>3. proceeds' = [proceeds EXCEPT ![s] = TRUE]
      BY <1>0, <2>3 DEF Unbooked, SetProceeds, ColumnTypes
    <3>4. \/ proceeds[s] /\ company'.total = company.total
          \/ ~proceeds[s] /\ company'.total = company.total + Proceeds[s]
      BY <1>0, <2>3 DEF Unbooked, AddLiquidity, Rows, GoodCompany, CompanyAccounts
    <3>. QED  BY <2>1, <3>1, <3>2, <3>3, <3>4 DEF Booking
  <2>. QED  BY <1>5, <2>2, <2>3 DEF OrderAdd
<1>6. CASE OrderPay(r, e)
  <2>1. run[r][e] = "paying" /\ UNCHANGED <<company, proceeds>>
    BY <1>6 DEF OrderPay, books, rows
  <2>2. run'[r][e] \in {"paid", "unpaid"}
    BY <1>3, <1>6 DEF OrderPay, RunPc
  <2>3. seen'[r].proceeds = seen[r].proceeds
    BY <1>0, <1>6 DEF OrderPay, WorkTypes, SeenRows
  <2>4. \A t \in Sells, n \in Nrs :
           paystack'[t][n] # "none" => paystack[t][n] # "none" \/ t = s
    BY <1>0, <1>6 DEF OrderPay, ProviderTypes
  <2>. QED  BY <2>1, <2>2, <2>3, <2>4 DEF Wrote
<1>7. CASE OrderPaid(r, e)
  BY <1>7, <1>3 DEF OrderPaid, providers, SetProceeds, RunPc, Wrote
<1>8. CASE OrderUnpaid(r, e) \/ TransferRevert(r, e)
  BY <1>8, <1>2 DEF OrderUnpaid, TransferRevert, providers, Reopen, SetProceeds, Wrote
<1>9. CASE TransferSettle(r, e)
  BY <1>9, <1>0, <1>1, Amounts, <1>2, <1>3 DEF TransferSettle, providers, SetProceeds, RunPc, Wrote
<1>10. CASE Finish(r, e)
  BY <1>10, <1>2 DEF Finish, books, rows, providers, Wrote
<1>. QED
  BY <1>4, <1>5, <1>6, <1>7, <1>8, <1>9, <1>10 DEF HandlerStep, OrderStep

\* The proceeds of some sales, and of one more.
LEMMA ProceedsSums ==
    ASSUME NEW S \in SUBSET Sells
    PROVE  /\ SumFunctionOnSet(Proceeds, S) \in Nat
           /\ \A T \in SUBSET S : /\ SumFunctionOnSet(Proceeds, T) \in Nat
                                  /\ SumFunctionOnSet(Proceeds, T)
                                       <= SumFunctionOnSet(Proceeds, S)
           /\ \A s \in Sells \ S :
                 SumFunctionOnSet(Proceeds, S \cup {s})
                   = Proceeds[s] + SumFunctionOnSet(Proceeds, S)
<1>1. IsFiniteSet(S) /\ \A T \in SUBSET S : IsFiniteSet(T)
  BY FiniteAssumption, FS_Subset
<1>2. \A s \in Sells : Proceeds[s] \in Nat
  BY SellAssumption
<1>3. \A T \in SUBSET S : SumFunctionOnSet(Proceeds, T) \in Nat
  BY <1>1, <1>2, SumNatural
<1>4. ASSUME NEW T \in SUBSET S
      PROVE  SumFunctionOnSet(Proceeds, T) <= SumFunctionOnSet(Proceeds, S)
  BY <1>1, <1>2, SumSubset
<1>5. ASSUME NEW s \in Sells \ S
      PROVE  SumFunctionOnSet(Proceeds, S \cup {s})
               = Proceeds[s] + SumFunctionOnSet(Proceeds, S)
  <2>1. \A y \in S \cup {s} : Proceeds[y] \in Int
    BY <1>2
  <2>. QED  BY <1>1, <2>1, SumAdd
<1>. QED  BY <1>3, <1>4, <1>5

\* Nothing is booked before a run books it.
LEMMA BookedStep ==
    ASSUME Sound, OneAtATime, RunsFollow, [Next]_vars, NEW s \in Sells, Booked(s)'
    PROVE  \/ Booked(s)
           \/ \E r \in Runs, e \in Events :
                HandlerStep(r, e) /\ Booking(r, e) /\ e.sell = s
<1>0. ColumnTypes /\ WorkTypes
  BY SoundParts
<1>1. CASE Aside \/ \E f \in Events : Dropped(f)
  BY <1>1 DEF Aside, Dropped, Booked, Busy, books, rows, providers
<1>2. CASE Crash
  BY <1>2 DEF Crash, Booked, Busy, books, rows, providers
<1>3. ASSUME NEW r \in Runs, NEW e \in Events, Started(r, e) PROVE Booked(s)
  <2>1. UNCHANGED <<proceeds, paystack>>
    BY <1>3 DEF Started, books, rows, providers
  <2>2. ASSUME NEW q \in Runs, NEW f \in Events, f.sell = s, Busy(q, f)',
               seen'[q].proceeds
        PROVE  Booked(s)
    <3>1. CASE q = r /\ f = e
      BY <1>3, <2>2, <3>1 DEF Started, Metadata, Booked
    <3>2. CASE q = r /\ f # e
      BY <1>3, <2>2, <3>2 DEF Started, Elsewhere, Busy
    <3>3. CASE q # r
      BY <1>3, <2>2, <3>3 DEF Started, Elsewhere, Busy, Booked
    <3>. QED  BY <3>1, <3>2, <3>3
  <2>. QED  BY <2>1, <2>2 DEF Booked
<1>4. ASSUME NEW r \in Runs, NEW e \in Events, HandlerStep(r, e), Wrote(r, e)
      PROVE  Booked(s)
  <2>1. Moved(r, e) /\ RunFollows(r, e)
    BY <1>4, HandlerSteps DEF RunsFollow
  <2>2. CASE proceeds'[s]
    BY <1>0, <1>4, <2>1, <2>2 DEF Wrote, Moved, Booked, ColumnTypes
  <2>3. ASSUME NEW q \in Runs, NEW f \in Events, f.sell = s, Busy(q, f)',
               seen'[q].proceeds
        PROVE  Booked(s)
    <3>1. CASE q = r
      BY <1>4, <2>3, <3>1, <2>1 DEF Wrote, Moved, Elsewhere, Busy, Booked
    <3>2. CASE q # r
      BY <2>1, <2>3, <3>2 DEF Moved, Elsewhere, Busy, Booked
    <3>. QED  BY <3>1, <3>2
  <2>4. ASSUME NEW n \in Nrs, paystack'[s][n] # "none" PROVE Booked(s)
    BY <1>4, <2>1, <2>4 DEF Wrote, RunFollows, Booked, Moved
  <2>. QED  BY <2>2, <2>3, <2>4 DEF Booked
<1>5. ASSUME NEW r \in Runs, NEW e \in Events, HandlerStep(r, e), Booking(r, e),
             e.sell # s
      PROVE  Booked(s)
  <2>1. Moved(r, e)
    BY <1>5, HandlerSteps
  <2>2. proceeds'[s] = proceeds[s] /\ UNCHANGED paystack
    BY <1>0, <1>5 DEF Booking, ColumnTypes
  <2>3. ASSUME NEW q \in Runs, NEW f \in Events, f.sell = s, Busy(q, f)',
               seen'[q].proceeds
        PROVE  Booked(s)
    BY <1>5, <2>1, <2>3 DEF Moved, Elsewhere, Busy, OneAtATime, Booked
  <2>. QED  BY <2>2, <2>3 DEF Booked
<1>. QED  BY <1>1, <1>2, <1>3, <1>4, <1>5, AsideSteps, WriteSteps

LEMMA BookedInit == Init => BookedOnce /\ BookedExactly
<1>. SUFFICES ASSUME Init PROVE BookedOnce /\ BookedExactly
  OBVIOUS
<1>1. BookedSales = {} /\ {s \in Sells : proceeds[s]} = {}
  BY DEF Init, BookedSales, Booked, Busy
<1>2. Sum(Proceeds, {}) = 0
  BY SumEmpty DEF Sum
<1>3. company.total = InitialCompany /\ InitialCompany \in Nat
  BY SellAssumption DEF Init
<1>4. BookedOnce
  BY <1>1, <1>2, <1>3 DEF BookedOnce
<1>5. \A r \in Runs, e \in Events : SeenFresh(r, e)
  BY DEF Init, SeenFresh, Busy
<1>6. company.total = InitialCompany + Sum(Proceeds, {s \in Sells : proceeds[s]})
  BY <1>1, <1>2, <1>3
<1>7. \A s \in Sells, n \in Nrs : paystack[s][n] = "none"
  BY DEF Init
<1>8. BookedExactly
  BY <1>5, <1>6, <1>7 DEF BookedExactly
<1>. QED  BY <1>4, <1>8

\* A filled order stays filled.
LEMMA FilledStays ==
    ASSUME Sound, [Next]_vars, NEW s \in Sells, NEW n \in Nrs,
           quidax[s][n] = "filled"
    PROVE  quidax'[s][n] = "filled"
BY AsideSteps, HandlerSteps DEF Aside, Crash, Started, Dropped, Moved, providers

LEMMA TotalSteps ==
    ASSUME Sound, [Next]_vars
    PROVE  \/ company'.total = company.total
           \/ \E r \in Runs, e \in Events :
                 /\ HandlerStep(r, e) /\ Booking(r, e)
                 /\ ~proceeds[e.sell]
                 /\ company'.total = company.total + Proceeds[e.sell]
BY AsideSteps, WriteSteps DEF Aside, Crash, Started, Dropped, Wrote, Booking, books

LEMMA BookedOnceNext ==
    ASSUME Sound, OneAtATime, RunsFollow, BookedOnce, [Next]_vars
    PROVE  BookedOnce'
<1>. DEFINE B == BookedSales
            S(T) == SumFunctionOnSet(Proceeds, T)
<1>0. /\ B \in SUBSET Sells /\ BookedSales' \in SUBSET Sells
      /\ company.total \in Nat /\ company'.total \in Nat
      /\ InitialCompany \in Nat
      /\ company.total >= InitialCompany + S(B)
  <2>1. company.total \in Nat /\ company'.total \in Nat
    BY SoundNext, SoundParts DEF Sound, TypeOK, Solvent, Rows, GoodWallet, GoodCompany,
      CompanyAccounts
  <2>. QED  BY <2>1, SellAssumption DEF BookedSales, BookedOnce, Sum
<1>1. ASSUME NEW s \in BookedSales'
      PROVE  \E n \in Nrs : quidax'[s][n] = "filled"
  <2>1. CASE Booked(s)
    BY <2>1, FilledStays DEF BookedOnce, BookedSales
  <2>2. ASSUME NEW r \in Runs, NEW e \in Events, HandlerStep(r, e),
               Booking(r, e), e.sell = s
        PROVE  \E n \in Nrs : quidax'[s][n] = "filled"
    BY <2>2, EventParts, FilledStays DEF Booking, RunsFollow, RunFollows, BookedSales
  <2>. QED  BY <2>1, <2>2, BookedStep DEF BookedSales
<1>2. company'.total >= InitialCompany + S(BookedSales')
  <2>1. CASE BookedSales' \subseteq B
    <3>1. S(BookedSales') <= S(B) /\ S(B) \in Nat /\ S(BookedSales') \in Nat
      <4>. HIDE DEF B
      <4>. QED  BY <1>0, <2>1, ProceedsSums
    <3>2. company'.total >= company.total
      BY <1>0, Amounts, EventParts, TotalSteps
    <3>. HIDE DEF B, S
    <3>. QED  BY <1>0, <3>1, <3>2
  <2>2. ASSUME NEW r \in Runs, NEW e \in Events, HandlerStep(r, e),
               Booking(r, e)
        PROVE  company'.total >= InitialCompany + S(BookedSales')
    <3>. DEFINE s == e.sell
    <3>1. s \in Sells /\ Proceeds[s] \in Nat
      BY EventParts, Amounts
    <3>2. BookedSales' \subseteq B \cup {s}
      <4>1. ASSUME NEW t \in BookedSales', t # s PROVE t \in B
        <5>1. ASSUME NEW q \in Runs, NEW f \in Events, HandlerStep(q, f),
                     Booking(q, f), f.sell = t
              PROVE  FALSE
          BY <2>2, <5>1, HandlerSteps, <4>1 DEF Moved, Elsewhere, Busy, Booking
        <5>. QED  BY <4>1, <5>1, BookedStep DEF BookedSales
      <4>. QED  BY <4>1
    <3>3. CASE s \in B
      BY <3>2, <3>3, <2>1
    <3>4. CASE s \notin B
      <4>1. company'.total = company.total + Proceeds[s]
        BY <2>2, <3>1, <3>4 DEF Booking, BookedSales, Booked
      <4>2. S(B \cup {s}) = Proceeds[s] + S(B) /\ S(B) \in Nat
        <5>. HIDE DEF B, s
        <5>. QED  BY <1>0, <3>1, <3>4, ProceedsSums
      <4>3. S(BookedSales') <= S(B \cup {s}) /\ S(BookedSales') \in Nat
        <5>1. B \cup {s} \in SUBSET Sells
          BY <1>0, <3>1
        <5>. HIDE DEF B, s
        <5>. QED  BY <3>2, <5>1, ProceedsSums
      <4>. HIDE DEF B, S, s
      <4>. QED  BY <1>0, <3>1, <4>1, <4>2, <4>3
    <3>. QED  BY <3>3, <3>4
  <2>3. ASSUME ~\E r \in Runs, e \in Events : HandlerStep(r, e) /\ Booking(r, e)
        PROVE  BookedSales' \subseteq B
    BY <2>3, BookedStep DEF BookedSales
  <2>. QED  BY <2>1, <2>2, <2>3
<1>. QED  BY <1>1, <1>2 DEF BookedOnce, Sum

LEMMA CarefulBefore ==
    ASSUME Sound, WorkTypes', BudgetBounded, [Next]_vars, Careful'
    PROVE  Careful
BY SoundParts, Before, OneOrderBefore DEF Careful

\* What a run has read is still so if nothing is booked.
LEMMA FreshKept ==
    ASSUME Sound, WorkTypes', Progress, Careful', [Next]_vars,
           \A q \in Runs, d \in Events : SeenFresh(q, d),
           UNCHANGED proceeds, NEW q \in Runs, NEW d \in Events
    PROVE  SeenFresh(q, d)'
<1>0. /\ OneAtATime /\ RunFollows(q, d) /\ SeenFresh(q, d) /\ BudgetBounded
      /\ WorkTypes /\ d.sell \in Sells
  BY SoundParts, EventParts DEF Progress, RunsFollow
<1>1. /\ Untouched({"stall"})' => Untouched({"stall"})
      /\ Untouched({"error"})' => Untouched({"error"}) /\ ~Spend("error")
  BY <1>0, Before
<1>2. ASSUME run'[q][d] = run[q][d], seen'[q] = seen[q] PROVE SeenFresh(q, d)'
  BY <1>0, <1>1, <1>2 DEF SeenFresh, Busy
<1>3. CASE run'[q][d] = "idle"
  BY <1>3 DEF SeenFresh, Busy
<1>4. CASE Aside \/ Crash \/ \E e \in Events : Dropped(e)
  BY <1>2, <1>3, <1>4 DEF Aside, Crash, Dropped
<1>5. ASSUME NEW r \in Runs, NEW e \in Events, Started(r, e)
      PROVE  SeenFresh(q, d)'
  <2>1. CASE q = r /\ d = e
    BY <1>5, <2>1 DEF Started, Metadata, SeenFresh
  <2>2. CASE q # r
    BY <1>2, <1>5, <2>2 DEF Started, Elsewhere
  <2>3. CASE q = r /\ d # e
    BY <1>3, <1>5, <2>3 DEF Started, Elsewhere, Busy
  <2>. QED  BY <2>1, <2>2, <2>3
<1>6. ASSUME NEW r \in Runs, NEW e \in Events, HandlerStep(r, e)
      PROVE  SeenFresh(q, d)'
  <2>1. Moved(r, e)
    BY <1>6, HandlerSteps
  <2>2. CASE q # r
    BY <1>2, <2>1, <2>2 DEF Moved, Elsewhere
  <2>3. CASE q = r /\ d # e
    BY <1>0, <1>3, <2>1, <2>3 DEF Moved, Elsewhere, Busy, OneAtATime
  <2>4. CASE q = r /\ d = e /\ Wrote(r, e)
    <3>1. CASE run[r][e] = "adding"
      BY <2>4, <3>1, <1>1, <1>0 DEF Wrote, Careful, SeenFresh, Busy
    <3>2. CASE run[r][e] # "adding" /\ run'[r][e] # "idle"
      BY <2>1, <2>4, <3>2, <1>0 DEF Wrote, Moved, Busy, SeenFresh
    <3>. QED  BY <1>3, <2>4, <3>1, <3>2
  <2>5. CASE q = r /\ d = e /\ Booking(r, e)
    BY <1>0, <2>5, SoundParts DEF Booking, ColumnTypes, SeenFresh
  <2>. QED  BY <1>6, <2>2, <2>3, <2>4, <2>5, WriteSteps
<1>. QED  BY <1>4, <1>5, <1>6, AsideSteps

\* A run that may write the metadata of a sale whose proceeds another run books
\* has found them booked, or is about to book them itself.
LEMMA FreshBooked ==
    ASSUME Sound, WorkTypes', Progress, BookedExactly, Careful, [Next]_vars,
           NEW r \in Runs, NEW e \in Events, HandlerStep(r, e), Booking(r, e),
           ~proceeds[e.sell], NEW q \in Runs, NEW d \in Events
    PROVE  SeenFresh(q, d)'
<1>0. /\ OneAtATime /\ RunFollows(q, d) /\ RunFollows(r, e) /\ BudgetBounded
      /\ JobHeld /\ RefHeld
      /\ ColumnTypes /\ ProviderTypes /\ WorkTypes /\ NotYet /\ Moved(r, e)
      /\ SeenFresh(q, d)
      /\ d.sell \in Sells /\ e.sell \in Sells /\ d.nr \in Nrs /\ e.nr \in Nrs
  BY SoundParts, HandlerSteps, EventParts DEF Progress, RunsFollow, BookedExactly
<1>1. /\ Untouched({"stall"})' => Untouched({"stall"})
      /\ Untouched({"error"})' => Untouched({"error"})
  BY <1>0, Before
<1>2. proceeds' = [proceeds EXCEPT ![e.sell] = TRUE]
  BY DEF Booking
<1>3. /\ proceeds'[e.sell]
      /\ d.sell # e.sell => proceeds'[d.sell] = proceeds[d.sell]
  BY <1>0, <1>2 DEF ColumnTypes
<1>4. CASE q = r /\ d = e
  BY <1>3, <1>4 DEF Booking, SeenFresh
<1>5. CASE q = r /\ d # e
  BY <1>0, <1>5 DEF Moved, Elsewhere, Busy, OneAtATime, SeenFresh
<1>6. CASE q # r
  <2>1. run'[q][d] = run[q][d] /\ seen'[q] = seen[q]
    BY <1>0, <1>6 DEF Moved, Elsewhere
  <2>2. CASE d.sell # e.sell
    BY <1>0, <1>1, <1>3, <2>1, <2>2 DEF SeenFresh, Busy
  <2>3. CASE d.sell = e.sell
    <3>. SUFFICES ASSUME run[q][d] \notin {"idle", "committed"},
                         run[q][d] = "adding" => Untouched({"stall"})
                  PROVE  seen[q].proceeds
      BY <1>1, <1>3, <2>1, <2>3 DEF SeenFresh, Busy
    <3>1. e.type = "order" /\ quidax[e.sell][e.nr] = "filled"
      BY <1>0 DEF Booking, RunFollows
    <3>2. d.type = "order"
      <4>1. ASSUME d.type # "order" PROVE FALSE
        BY <1>0, EventParts, <4>1, <2>3 DEF RunFollows, Busy, NotYet, BookedExactly
      <4>. QED  BY <4>1
    <3>3. d = e
      BY <2>3, <3>1, <3>2, EventParts, <1>0 DEF Busy, Moved, RefHeld, Careful
    <3>4. ~Untouched({"stall"})
      BY <1>0, <1>6, <3>3 DEF JobHeld, Moved, Busy
    <3>5. Untouched({"error"})
      BY <3>4 DEF Careful
    <3>6. run[q][d] \in RunPc
      BY <1>0 DEF WorkTypes
    <3>. QED
      BY <1>0, <3>1, <3>2, <3>3, <3>4, <3>5, <3>6 DEF RunFollows, RunPc
  <2>. QED  BY <2>2, <2>3
<1>. QED  BY <1>4, <1>5, <1>6

LEMMA BookedExactlyNext ==
    ASSUME Sound, WorkTypes', Progress, BookedExactly, [Next]_vars
    PROVE  BookedExactly'
<1>. SUFFICES ASSUME Careful' PROVE BookedExactly'
  BY DEF BookedExactly
<1>. DEFINE P == {s \in Sells : proceeds[s]}
<1>0. /\ BudgetBounded /\ RunsFollow /\ ColumnTypes /\ ProviderTypes /\ Rows
  BY SoundParts DEF Progress
<1>1. /\ Careful
      /\ company.total = InitialCompany + Sum(Proceeds, P)
      /\ \A r \in Runs, e \in Events : SeenFresh(r, e)
      /\ \A s \in Sells, n \in Nrs : paystack[s][n] # "none" => proceeds[s]
  BY <1>0, CarefulBefore DEF BookedExactly
<1>2. ASSUME NEW r \in Runs, NEW e \in Events, HandlerStep(r, e), Wrote(r, e)
      PROVE  UNCHANGED proceeds
  <2>1. CASE run[r][e] \in {"failing", "paid", "unpaid", "settling", "reverting"}
    BY <1>1, <2>1, <1>0, EventParts, SoundParts, <1>2 DEF SeenFresh, Busy, WorkTypes, SeenRows,
      ColumnTypes, Wrote
  <2>. QED  BY <1>2, <2>1 DEF Wrote
<1>3. ASSUME NEW r \in Runs, NEW e \in Events, Booking(r, e), proceeds[e.sell]
      PROVE  UNCHANGED proceeds
  BY <1>0, <1>3 DEF Booking, ColumnTypes
<1>4. CASE ~\E r \in Runs, e \in Events :
              HandlerStep(r, e) /\ Booking(r, e) /\ ~proceeds[e.sell]
  <2>1. UNCHANGED proceeds
    <3>1. CASE Aside \/ Crash \/ \E e \in Events : Dropped(e)
      BY <3>1 DEF Aside, Crash, Dropped, books, rows
    <3>2. ASSUME NEW r \in Runs, NEW e \in Events, Started(r, e)
          PROVE  UNCHANGED proceeds
      BY <3>2 DEF Started, books, rows
    <3>. QED
      BY <1>2, <1>3, <1>4, <3>1, <3>2, AsideSteps, WriteSteps
  <2>2. company'.total = company.total
    BY <1>4, TotalSteps
  <2>3. \A r \in Runs, e \in Events : SeenFresh(r, e)'
    BY <1>1, <2>1, FreshKept
  <2>4. ASSUME NEW s \in Sells, NEW n \in Nrs, paystack'[s][n] # "none"
        PROVE  proceeds'[s]
    <3>1. CASE paystack[s][n] # "none"
      BY <1>1, <2>1, <3>1
    <3>2. ASSUME NEW r \in Runs, NEW e \in Events, HandlerStep(r, e),
                 Wrote(r, e), paystack[s][n] = "none"
          PROVE  proceeds'[s]
      BY <2>4, <3>2, <1>0, <1>1, <2>1 DEF Wrote, RunsFollow, RunFollows, SeenFresh, Busy
    <3>3. CASE \/ Aside \/ Crash
               \/ \E r \in Runs, e \in Events :
                    Started(r, e) \/ Dropped(e) \/ Booking(r, e)
      BY <2>4, <3>3, <3>1 DEF Aside, Crash, Started, Dropped, Booking, providers
    <3>. QED  BY <3>1, <3>2, <3>3, AsideSteps, WriteSteps
  <2>. QED  BY <1>1, <2>1, <2>2, <2>3, <2>4 DEF BookedExactly
<1>5. ASSUME NEW r \in Runs, NEW e \in Events, HandlerStep(r, e),
             Booking(r, e), ~proceeds[e.sell]
      PROVE  BookedExactly'
  <2>1. e.sell \in Sells
    BY EventParts
  <2>2. \A q \in Runs, d \in Events : SeenFresh(q, d)'
    BY <1>1, <1>5, FreshBooked
  <2>3. \A s \in Sells : proceeds'[s] = IF s = e.sell THEN TRUE ELSE proceeds[s]
    BY <1>0, <1>5 DEF Booking, ColumnTypes
  <2>4. \A s \in Sells, n \in Nrs : paystack'[s][n] # "none" => proceeds'[s]
    BY <1>1, <1>5, <2>3 DEF Booking
  <2>5. P' = P \cup {e.sell} /\ e.sell \in Sells \ P /\ P \in SUBSET Sells
    BY <1>5, <2>1, <2>3
  <2>6. company'.total = company.total + Proceeds[e.sell]
    BY <1>5 DEF Booking
  <2>7. company'.total = InitialCompany + Sum(Proceeds, P')
    <3>1. /\ SumFunctionOnSet(Proceeds, P \cup {e.sell})
               = Proceeds[e.sell] + SumFunctionOnSet(Proceeds, P)
          /\ SumFunctionOnSet(Proceeds, P) \in Nat
      <4>. HIDE DEF P
      <4>. QED  BY <2>5, ProceedsSums
    <3>2. Proceeds[e.sell] \in Nat /\ InitialCompany \in Nat
      BY <2>1, Amounts, SellAssumption
    <3>. HIDE DEF P
    <3>. QED  BY <1>1, <2>5, <2>6, <3>1, <3>2 DEF Sum
  <2>. QED  BY <2>2, <2>4, <2>7 DEF BookedExactly
<1>. QED  BY <1>4, <1>5

LEMMA BookedAlways == Spec => [](BookedOnce /\ BookedExactly)
<1>1. Sound /\ Sound' /\ Progress /\ BookedOnce /\ BookedExactly /\ [Next]_vars
        => BookedOnce' /\ BookedExactly'
  BY BookedOnceNext, BookedExactlyNext DEF Sound, TypeOK, WorkTypes, SeenRows, Progress
<1>. QED  BY <1>1, BookedInit, ProgressAlways, PTL DEF Spec

\* However often a filled order is handled, crashed, stalled and retried, the
\* proceeds stay on the books and are booked only for a filled order; and
\* exactly once, but for the metadata a second order or a second run loses.
THEOREM AlwaysProceedsOnce == Spec => []ProceedsOnce
<1>1. ASSUME Sound, BookedOnce, BookedExactly PROVE ProceedsOnce
  <2>. DEFINE P == {s \in Sells : proceeds[s]}
  <2>1. P \subseteq BookedSales /\ BookedSales \in SUBSET Sells
    BY DEF BookedSales, Booked
  <2>2. /\ SumFunctionOnSet(Proceeds, P) \in Nat
        /\ SumFunctionOnSet(Proceeds, BookedSales) \in Nat
        /\ SumFunctionOnSet(Proceeds, P) <= SumFunctionOnSet(Proceeds, BookedSales)
    <3>. HIDE DEF P
    <3>. QED  BY <2>1, ProceedsSums
  <2>3. company.total >= InitialCompany + Sum(Proceeds, P)
    <3>1. company.total \in Nat /\ InitialCompany \in Nat
      BY <1>1, SoundParts, SellAssumption DEF Rows, GoodCompany, CompanyAccounts
    <3>2. company.total >= InitialCompany + SumFunctionOnSet(Proceeds, BookedSales)
      BY <1>1 DEF BookedOnce, Sum
    <3>. HIDE DEF P
    <3>. QED  BY <2>2, <3>1, <3>2 DEF Sum
  <2>4. Careful => company.total = InitialCompany + Sum(Proceeds, P)
    BY <1>1 DEF BookedExactly
  <2>5. \A s \in Sells : proceeds[s] => \E n \in Nrs : quidax[s][n] = "filled"
    BY <1>1 DEF BookedOnce, BookedSales, Booked
  <2>. QED  BY <2>3, <2>4, <2>5 DEF ProceedsOnce, Careful
<1>. QED  BY <1>1, BookedAlways, ProgressAlways, PTL

---------------------------------------------------------------------------
(* The payouts: each is for a filled order, or for a fault that runs the    *)
(* order's job again.                                                      *)

\* The payouts of a sale, and the orders and runs that may make one.
LEMMA PayoutSets ==
    ASSUME NEW s \in Sells
    PROVE  /\ IsFiniteSet(PaidFor(s)) /\ IsFiniteSet(MayRun(s))
           /\ IsFiniteSet(MayPay(s)) /\ IsFiniteSet(Filled(s))
           /\ IsFiniteSet(PaidFor(s)') /\ IsFiniteSet(MayRun(s)')
           /\ IsFiniteSet(MayPay(s)') /\ IsFiniteSet(Filled(s)')
<1>1. IsFiniteSet(Nrs)
  BY SellAssumption, FS_Interval DEF Nrs
<1>2. /\ PaidFor(s) \in SUBSET Nrs /\ MayRun(s) \in SUBSET Nrs
      /\ Filled(s) \in SUBSET Nrs /\ MayPay(s) \in SUBSET Runs
      /\ PaidFor(s)' \in SUBSET Nrs /\ MayRun(s)' \in SUBSET Nrs
      /\ Filled(s)' \in SUBSET Nrs /\ MayPay(s)' \in SUBSET Runs
  BY DEF PaidFor, MayRun, Filled, MayPay
<1>3. \A T \in SUBSET Nrs : IsFiniteSet(T)
  BY <1>1, FS_Subset
<1>4. \A T \in SUBSET Runs : IsFiniteSet(T)
  BY FiniteAssumption, FS_Subset
<1>. HIDE DEF PaidFor, MayRun, Filled, MayPay
<1>. QED  BY <1>2, <1>3, <1>4

\* One more element at most, or one less.
LEMMA Counts ==
    ASSUME NEW S, IsFiniteSet(S), NEW T, IsFiniteSet(T)
    PROVE  /\ Cardinality(S) \in Nat /\ Cardinality(T) \in Nat
           /\ T \subseteq S => Cardinality(T) <= Cardinality(S)
           /\ \A x : T \subseteq S \cup {x} => Cardinality(T) <= Cardinality(S) + 1
           /\ \A x \in S : T \subseteq S \ {x} => Cardinality(T) <= Cardinality(S) - 1
           /\ \A x : x \notin S /\ T = S \cup {x} => Cardinality(T) = Cardinality(S) + 1
<1>1. Cardinality(S) \in Nat /\ Cardinality(T) \in Nat
  BY FS_CardinalityType
<1>2. T \subseteq S => Cardinality(T) <= Cardinality(S)
  BY FS_Subset
<1>3. ASSUME NEW x, T \subseteq S \cup {x}
      PROVE  Cardinality(T) <= Cardinality(S) + 1
  <2>1. IsFiniteSet(S \cup {x}) /\ Cardinality(S \cup {x}) <= Cardinality(S) + 1
    BY <1>1, FS_AddElement
  <2>2. Cardinality(T) <= Cardinality(S \cup {x}) /\ Cardinality(S \cup {x}) \in Nat
    BY <1>3, <2>1, FS_Subset, FS_CardinalityType
  <2>. QED  BY <1>1, <2>1, <2>2
<1>4. ASSUME NEW x \in S, T \subseteq S \ {x}
      PROVE  Cardinality(T) <= Cardinality(S) - 1
  BY FS_RemoveElement, <1>4, FS_Subset, <1>1
<1>5. ASSUME NEW x, x \notin S, T = S \cup {x}
      PROVE  Cardinality(T) = Cardinality(S) + 1
  BY <1>5, FS_AddElement
<1>. QED  BY <1>1, <1>2, <1>3, <1>4, <1>5

\* The faults that rerun a job, counted.
LEMMA RerunsFinite == IsFiniteSet(Reruns)
<1>1. IsFiniteSet({"crash"})
  BY FS_Singleton
<1>2. IsFiniteSet({"crash"} \cup {"stall"})
  BY <1>1, FS_AddElement
<1>3. IsFiniteSet(({"crash"} \cup {"stall"}) \cup {"lostAnswer"})
  BY <1>2, FS_AddElement
<1>4. IsFiniteSet((({"crash"} \cup {"stall"}) \cup {"lostAnswer"}) \cup {"error"})
  BY <1>3, FS_AddElement
<1>5. Reruns = (({"crash"} \cup {"stall"}) \cup {"lostAnswer"}) \cup {"error"}
  BY DEF Reruns
<1>. QED  BY <1>4, <1>5

LEMMA SpentType ==
    ASSUME Sound
    PROVE  Spent(Reruns) \in Int
<1>. DEFINE g == [f \in Reruns |-> Budget[f] - budget[f]]
<1>1. /\ Reruns \subseteq Faults /\ budget \in [Faults -> Nat]
      /\ Budget \in [Faults -> Nat]
  BY SoundParts, SellAssumption DEF Reruns, Faults, WorkTypes
<1>2. \A f \in Reruns : g[f] \in Int
  BY <1>1
<1>3. SumFunctionOnSet(g, Reruns) \in Int
  <2>. HIDE DEF g
  <2>. QED  BY <1>2, RerunsFinite, SumIsInt
<1>. QED  BY <1>3 DEF Spent

LEMMA SpentSteps ==
    ASSUME Sound, [Next]_vars
    PROVE  /\ Spent(Reruns) \in Int /\ Spent(Reruns)' \in Int
           /\ Spent(Reruns)' >= Spent(Reruns)
           /\ \A f \in Reruns : Spend(f) => Spent(Reruns)' = Spent(Reruns) + 1
<1>. DEFINE g == [f \in Reruns |-> Budget[f] - budget[f]]
            h == [f \in Reruns |-> Budget[f] - budget'[f]]
<1>1. /\ Reruns \subseteq Faults /\ budget \in [Faults -> Nat]
      /\ Budget \in [Faults -> Nat]
  BY SoundParts, SellAssumption DEF Reruns, Faults, WorkTypes
<1>2. budget' \in [Faults -> Nat]
  BY SoundNext DEF Sound, TypeOK
<1>3. IsFiniteSet(Reruns)
  BY RerunsFinite
<1>4. \A f \in Reruns : g[f] \in Int /\ h[f] \in Int
  BY <1>1, <1>2
<1>5. Spent(Reruns) = SumFunctionOnSet(g, Reruns)
      /\ Spent(Reruns)' = SumFunctionOnSet(h, Reruns)
  BY DEF Spent
<1>6. SumFunctionOnSet(g, Reruns) \in Int /\ SumFunctionOnSet(h, Reruns) \in Int
  <2>. HIDE DEF g, h
  <2>. QED  BY <1>3, <1>4, SumIsInt
<1>7. ASSUME NEW f \in Reruns, Spend(f)
      PROVE  SumFunctionOnSet(h, Reruns) = SumFunctionOnSet(g, Reruns) + 1
  <2>1. h[f] = g[f] + 1 /\ \A x \in Reruns \ {f} : h[x] = g[x]
    BY <1>1, <1>7 DEF Spend
  <2>2. SumFunctionOnSet(h, Reruns) = SumFunctionOnSet(g, Reruns) + h[f] - g[f]
    <3>1. \A x \in Reruns : g[x] \in Int /\ h[x] \in Int
      BY <1>4
    <3>2. f \in Reruns /\ \A x \in Reruns \ {f} : h[x] = g[x]
      BY <1>7, <2>1
    <3>. HIDE DEF g, h, Reruns
    <3>. QED  BY <1>3, <3>1, <3>2, SumChange
  <2>3. g[f] \in Int
    BY <1>4
  <2>. HIDE DEF g, h
  <2>. QED  BY <1>6, <2>1, <2>2, <2>3
<1>8. ASSUME \A x \in Reruns : h[x] = g[x]
      PROVE  SumFunctionOnSet(h, Reruns) = SumFunctionOnSet(g, Reruns)
  <2>. HIDE DEF g, h
  <2>. QED  BY <1>3, <1>4, <1>8, SumSame
<1>9. ASSUME NEW f \in Faults \ Reruns, Spend(f)
      PROVE  \A x \in Reruns : h[x] = g[x]
  BY <1>1, <1>9 DEF Spend
<1>10. ASSUME budget' = budget PROVE \A x \in Reruns : h[x] = g[x]
  BY <1>10
<1>11. (\E f \in Faults : Spend(f)) \/ budget' = budget
  BY BudgetSteps
<1>12. SumFunctionOnSet(h, Reruns) >= SumFunctionOnSet(g, Reruns)
  <2>. HIDE DEF g, h
  <2>. QED  BY <1>6, <1>7, <1>8, <1>9, <1>10, <1>11
<1>. HIDE DEF g, h
<1>. QED  BY <1>5, <1>6, <1>7, <1>12

\* What a step does to the three counts, at most, and what covers it.
LEMMA Covered ==
    ASSUME NEW a \in Nat, NEW b \in Nat, NEW c \in Nat, NEW d \in Nat, NEW f \in Int,
           NEW a1 \in Nat, NEW b1 \in Nat, NEW c1 \in Nat, NEW d1 \in Nat, NEW f1 \in Int,
           NEW i \in Int, NEW j \in Int, NEW k \in Int, NEW l \in Int, NEW m \in Int,
           a + b + c <= d + f, i + j + k <= l + m,
           a1 <= a + i, b1 <= b + j, c1 <= c + k, d1 >= d + l, f1 >= f + m
    PROVE  a1 + b1 + c1 <= d1 + f1
OBVIOUS

LEMMA WithinFrom ==
    ASSUME Sound, [Next]_vars, NEW s \in Sells, Within(s),
           NEW i \in Int, NEW j \in Int, NEW k \in Int, NEW l \in Int, NEW m \in Int,
           Cardinality(PaidFor(s)') <= Cardinality(PaidFor(s)) + i,
           Cardinality(MayRun(s)') <= Cardinality(MayRun(s)) + j,
           Cardinality(MayPay(s)') <= Cardinality(MayPay(s)) + k,
           Cardinality(Filled(s)') >= Cardinality(Filled(s)) + l,
           Spent(Reruns)' >= Spent(Reruns) + m,
           i + j + k <= l + m
    PROVE  Within(s)'
<1>1. /\ Cardinality(PaidFor(s)) \in Nat /\ Cardinality(PaidFor(s)') \in Nat
      /\ Cardinality(MayRun(s)) \in Nat /\ Cardinality(MayRun(s)') \in Nat
      /\ Cardinality(MayPay(s)) \in Nat /\ Cardinality(MayPay(s)') \in Nat
      /\ Cardinality(Filled(s)) \in Nat /\ Cardinality(Filled(s)') \in Nat
  BY PayoutSets, FS_CardinalityType
<1>2. Spent(Reruns) \in Int /\ Spent(Reruns)' \in Int
  BY SpentSteps
<1>3. Cardinality(PaidFor(s)) + Cardinality(MayRun(s)) + Cardinality(MayPay(s))
        <= Cardinality(Filled(s)) + Spent(Reruns)
  BY DEF Within
<1>4. Cardinality(PaidFor(s)') + Cardinality(MayRun(s)') + Cardinality(MayPay(s)')
        <= Cardinality(Filled(s)') + Spent(Reruns)'
  BY <1>1, <1>2, <1>3, Covered
<1>. QED  BY <1>4 DEF Within

\* Only Quidax fills an order.
LEMMA FilledBefore ==
    ASSUME Sound, [Next]_vars, NEW s \in Sells, NEW n \in Nrs,
           quidax'[s][n] = "filled", ~QuidaxFinish(s, n)
    PROVE  quidax[s][n] = "filled"
<1>0. ProviderTypes
  BY SoundParts
<1>1. ASSUME NEW t \in Sells, NEW m \in Nrs, Place(t, m)
      PROVE  quidax[s][n] = "filled"
  BY <1>0, <1>1 DEF Place, ProviderTypes
<1>2. ASSUME NEW t \in Sells, ConfirmStep(t) PROVE quidax[s][n] = "filled"
  BY <1>1, <1>2, Numbers DEF ConfirmStep, ConfirmReserve, ConfirmPaystack, ConfirmPost,
    ConfirmCompensate, ConfirmRecord, providers
<1>3. ASSUME NEW p \in Processors, NEW t \in Sells, RetryStep(p, t)
      PROVE  quidax[s][n] = "filled"
  <2>1. UNCHANGED quidax \/ \E m \in Nrs : Place(t, m)
    BY <1>3 DEF RetryStep, RetryCheck, RetryReserve, RetryPost, RetryRecord, RetryFinish, RetryUndo,
      RetryError, providers
  <2>. QED  BY <1>1, <2>1
<1>4. ASSUME NEW t \in Sells, NEW m \in Nrs, QuidaxFinish(t, m)
      PROVE  quidax[s][n] = "filled"
  <2>1. s # t \/ n # m
    BY <1>4
  <2>2. quidax'[s][n] = quidax[s][n]
    BY <1>4, <1>0, <2>1 DEF QuidaxFinish, ProviderTypes
  <2>. QED  BY <2>2
<1>5. ASSUME NEW t \in Sells, NEW m \in Nrs, PaystackFinish(t, m)
      PROVE  quidax[s][n] = "filled"
  BY <1>5 DEF PaystackFinish
<1>6. ASSUME NEW r \in Runs, NEW e \in Events, HandlerStep(r, e)
      PROVE  quidax[s][n] = "filled"
  BY <1>6, HandlerSteps DEF Moved
<1>7. ASSUME NEW r \in Runs, NEW e \in Events,
             OrderTake(r, e) \/ TransferTake(r, e)
      PROVE  quidax[s][n] = "filled"
  BY <1>7 DEF OrderTake, TransferTake, Take, providers
<1>8. ASSUME NEW t \in Sells, ExpireRead(t) \/ ExpireCommit(t)
      PROVE  quidax[s][n] = "filled"
  BY <1>8 DEF ExpireRead, ExpireCommit, providers
<1>9. CASE OthersReserve \/ Crash \/ (\E e \in Events : Stall(e)) \/ UNCHANGED vars
  BY <1>9 DEF OthersReserve, Crash, Stall, vars, providers
<1>. QED
  BY <1>2, <1>3, <1>4, <1>5, <1>6, <1>7, <1>8, <1>9 DEF Next

\* Beside the runs and crashes, only Quidax and a stall make an order's job wait.
LEMMA WaitingBefore ==
    ASSUME Sound, [Next]_vars, Aside, ~Crash, NEW s \in Sells, NEW n \in Nrs,
           job'[Event("order", s, n)] = "waiting",
           ~QuidaxFinish(s, n), ~Stall(Event("order", s, n))
    PROVE  job[Event("order", s, n)] = "waiting"
<1>. DEFINE E == Event("order", s, n)
<1>0. JobSound /\ WorkTypes /\ E \in Events
  BY SoundParts, EventsOf
<1>1. ASSUME UNCHANGED job PROVE job[E] = "waiting"
  BY <1>1
<1>2. ASSUME NEW t \in Sells, ConfirmStep(t) PROVE UNCHANGED job
  BY <1>2 DEF ConfirmStep, ConfirmReserve, ConfirmPaystack, ConfirmPost, ConfirmCompensate,
    ConfirmRecord, work
<1>3. ASSUME NEW p \in Processors, NEW t \in Sells, RetryStep(p, t)
      PROVE  UNCHANGED job
  BY <1>3 DEF RetryStep, RetryCheck, RetryReserve, RetryPost, RetryRecord, RetryFinish, RetryUndo,
    RetryError, work
<1>4. ASSUME NEW t \in Sells, NEW m \in Nrs, QuidaxFinish(t, m)
      PROVE  job[E] = "waiting"
  BY <1>0, <1>4 DEF QuidaxFinish, Deliver, Event, JobSound
<1>5. ASSUME NEW t \in Sells, NEW m \in Nrs, PaystackFinish(t, m)
      PROVE  job[E] = "waiting"
  BY <1>0, <1>5 DEF PaystackFinish, Deliver, Event, JobSound
<1>6. ASSUME NEW r \in Runs, NEW e \in Events, HandlerStep(r, e)
      PROVE  job[E] = "waiting"
  BY <1>6, HandlerSteps DEF Moved, Busy, Aside
<1>7. ASSUME NEW r \in Runs, NEW e \in Events,
             OrderTake(r, e) \/ TransferTake(r, e)
      PROVE  job[E] = "waiting"
  BY <1>7, TakeSteps, <1>0 DEF Started, Busy, Aside, Dropped
<1>8. ASSUME NEW t \in Sells, ExpireRead(t) \/ ExpireCommit(t)
      PROVE  UNCHANGED job
  BY <1>8 DEF ExpireRead, ExpireCommit, work
<1>9. ASSUME NEW e \in Events, Stall(e) PROVE job[E] = "waiting"
  BY <1>0, <1>9 DEF Stall, JobSound
<1>10. CASE OthersReserve \/ UNCHANGED vars
  BY <1>10 DEF OthersReserve, vars, work
<1>. QED
  BY <1>1, <1>2, <1>3, <1>4, <1>5, <1>6, <1>7, <1>8, <1>9, <1>10 DEF Next

\* A sale comes to refer to an order only when it is placed.
LEMMA NameableBefore ==
    ASSUME Sound, OneAtATime, [Next]_vars, NEW s \in Sells, NEW n \in Nrs,
           quidax'[s][n] = "filled", Nameable(s, n)'
    PROVE  Nameable(s, n)
<1>0. ColumnTypes /\ WorkTypes /\ ProviderTypes
  BY SoundParts
<1>1. CASE UNCHANGED Referring
  BY <1>1 DEF Referring, Nameable
<1>2. ASSUME NEW t \in Sells, ConfirmStep(t) PROVE Nameable(s, n)
  <2>1. UNCHANGED <<retry, posted>>
    BY <1>2 DEF ConfirmStep, ConfirmReserve, ConfirmPaystack, ConfirmPost, ConfirmCompensate,
      ConfirmRecord, retries
  <2>2. CASE ConfirmPost(t)
    <3>1. UNCHANGED ref
      BY <2>2 DEF ConfirmPost, books, rows
    <3>2. ASSUME n = 1, confirm'[s] = "accepted" PROVE confirm[s] = "accepted"
      BY <1>0, <2>2, <3>2, Numbers DEF ConfirmPost, SetConfirm, Place, WorkTypes, ProviderTypes
    <3>. QED  BY <2>1, <3>1, <3>2 DEF Nameable
  <2>3. CASE ConfirmRecord(t)
    BY <1>0, <2>3, <2>1 DEF ConfirmRecord, SetConfirm, WorkTypes, ColumnTypes, Nameable
  <2>4. CASE ~ConfirmPost(t) /\ ~ConfirmRecord(t)
    <3>1. UNCHANGED ref
      BY <1>2, <2>4 DEF ConfirmStep, ConfirmReserve, ConfirmPaystack, ConfirmCompensate
    <3>2. confirm'[s] = "accepted" => confirm[s] = "accepted"
      BY <1>0, <1>2, <2>4 DEF ConfirmStep, ConfirmReserve, ReservePayout, ConfirmPaystack,
        ConfirmCompensate, SetConfirm, WorkTypes
    <3>. QED  BY <2>1, <3>1, <3>2 DEF Nameable
  <2>. QED  BY <2>2, <2>3, <2>4
<1>3. ASSUME NEW t \in Sells, NEW p \in Processors, RetryStep(p, t)
      PROVE  Nameable(s, n)
  <2>1. UNCHANGED confirm
    BY <1>3 DEF RetryStep, RetryCheck, RetryReserve, RetryPost, RetryRecord, RetryFinish, RetryUndo,
      RetryError
  <2>2. CASE RetryPost(p, t)
    <3>1. UNCHANGED ref
      BY <2>2 DEF RetryPost, books, rows
    <3>2. ASSUME NEW q \in Processors, retry'[q][s] = "posted", posted'[q] = n
          PROVE  retry[q][s] = "posted" /\ posted[q] = n
      <4>1. CASE q = p
        <5>1. t = s
          BY <1>0, <2>2, <3>2, <4>1 DEF RetryPost, SetRetry, OneAtATime, WorkTypes
        <5>2. PICK m \in Nrs : Place(s, m) /\ posted' = [posted EXCEPT ![p] = m]
          BY <1>0, <2>2, <3>2, <4>1, <5>1 DEF RetryPost, SetRetry, WorkTypes
        <5>3. m = n
          BY <1>0, <3>2, <4>1, <5>2 DEF WorkTypes
        <5>. QED  BY <1>0, <5>2, <5>3 DEF Place, ProviderTypes
      <4>2. CASE q # p
        BY <1>0, <2>2, <3>2, <4>2 DEF RetryPost, SetRetry, WorkTypes
      <4>. QED  BY <4>1, <4>2
    <3>. QED  BY <2>1, <3>1, <3>2 DEF Nameable
  <2>3. CASE RetryRecord(p, t)
    <3>1. \/ ref'[s] = ref[s]
          \/ ref'[s] = posted[p] /\ retry[p][s] = "posted"
      BY <1>0, <2>3 DEF RetryRecord, ColumnTypes
    <3>2. ASSUME NEW q \in Processors, retry'[q][s] = "posted"
          PROVE  retry[q][s] = "posted" /\ posted'[q] = posted[q]
      BY <1>0, <2>3, <3>2 DEF RetryRecord, SetRetry, OneAtATime, WorkTypes
    <3>. QED  BY <2>1, <3>1, <3>2 DEF Nameable
  <2>4. CASE ~RetryPost(p, t) /\ ~RetryRecord(p, t)
    <3>1. UNCHANGED <<ref, posted>>
      BY <1>3, <2>4 DEF RetryStep, RetryCheck, RetryReserve, RetryFinish, RetryUndo, RetryError,
        books, rows
    <3>2. \A q \in Processors : retry'[q][s] = "posted" => retry[q][s] = "posted"
      BY <1>0, <1>3, <2>4 DEF RetryStep, RetryCheck, RetryReserve, RetryFinish, RetryUndo,
        RetryError, SetRetry, WorkTypes
    <3>. QED  BY <2>1, <3>1, <3>2 DEF Nameable
  <2>. QED  BY <2>2, <2>3, <2>4
<1>4. ASSUME NEW t \in Sells, ExpireRead(t) \/ ExpireCommit(t)
      PROVE  Nameable(s, n)
  BY <1>4, <1>0 DEF ExpireRead, ExpireCommit, books, rows, SetRetry, WorkTypes, Processors, Nameable
<1>5. CASE Crash
  BY <1>5 DEF Crash, Nameable, books, rows
<1>. QED  BY <1>1, <1>2, <1>3, <1>4, <1>5, ReferringSteps

\* Beside the runs: a new filled order may be paid for, and a stalled job may
\* run again.
LEMMA AsideWithin ==
    ASSUME Sound, OneAtATime, [Next]_vars, Aside, ~Crash, NEW s \in Sells, Within(s)
    PROVE  Within(s)'
<1>0. ProviderTypes /\ WorkTypes /\ JobSound
  BY SoundParts
<1>1. PaidFor(s)' = PaidFor(s) /\ MayPay(s)' = MayPay(s)
  BY DEF Aside, PaidFor, MayPay
<1>2. Filled(s) \subseteq Filled(s)'
  BY DEF Aside, Filled
<1>3. ASSUME NEW n \in MayRun(s)',
             ~QuidaxFinish(s, n), ~Stall(Event("order", s, n))
      PROVE  n \in MayRun(s)
  BY <1>3, FilledBefore, WaitingBefore, NameableBefore DEF MayRun, Filled
<1>4. /\ IsFiniteSet(MayRun(s)) /\ IsFiniteSet(MayRun(s)')
      /\ IsFiniteSet(Filled(s)) /\ IsFiniteSet(Filled(s)')
  BY PayoutSets
<1>5. /\ Cardinality(PaidFor(s)') <= Cardinality(PaidFor(s)) + 0
      /\ Cardinality(MayPay(s)') <= Cardinality(MayPay(s)) + 0
      /\ Cardinality(MayRun(s)) \in Nat /\ Cardinality(Filled(s)) \in Nat
      /\ Cardinality(Filled(s)') \in Nat
      /\ Spent(Reruns) \in Int /\ Spent(Reruns)' \in Int
      /\ Spent(Reruns)' >= Spent(Reruns) + 0
      /\ Cardinality(Filled(s)') >= Cardinality(Filled(s)) + 0
  <2>1. Cardinality(PaidFor(s)) \in Nat /\ Cardinality(MayPay(s)) \in Nat
        /\ Cardinality(MayRun(s)) \in Nat /\ Cardinality(Filled(s)) \in Nat
        /\ Cardinality(Filled(s)') \in Nat
    BY PayoutSets, FS_CardinalityType
  <2>2. Cardinality(Filled(s)) <= Cardinality(Filled(s)')
    BY <1>2, <1>4, FS_Subset
  <2>3. /\ Spent(Reruns) \in Int /\ Spent(Reruns)' \in Int
        /\ Spent(Reruns)' >= Spent(Reruns)
    BY SpentSteps
  <2>. HIDE DEF PaidFor, MayPay, MayRun, Filled, Spent, Reruns
  <2>. QED  BY <1>1, <2>1, <2>2, <2>3
<1>6. CASE \E n \in Nrs : QuidaxFinish(s, n)
  <2>1. PICK n \in Nrs : QuidaxFinish(s, n)
    BY <1>6
  <2>2. /\ quidax[s][n] = "open" /\ quidax'[s][n] \in {"filled", "cancelled"}
        /\ \A m \in Nrs \ {n} : quidax'[s][m] = quidax[s][m]
        /\ \A m \in Nrs \ {n} : /\ ~QuidaxFinish(s, m)
                                /\ ~Stall(Event("order", s, m))
    <3>1. quidax[s][n] = "open" /\ \E end \in {"filled", "cancelled"} :
             quidax' = [quidax EXCEPT ![s][n] = end]
      BY <2>1 DEF QuidaxFinish
    <3>2. quidax'[s][n] \in {"filled", "cancelled"}
          /\ \A m \in Nrs \ {n} : quidax'[s][m] = quidax[s][m]
      BY <1>0, <3>1 DEF ProviderTypes
    <3>3. ASSUME NEW m \in Nrs \ {n} PROVE ~QuidaxFinish(s, m)
      BY <1>0, <3>2 DEF QuidaxFinish, ProviderTypes
    <3>4. UNCHANGED providers => FALSE
      BY <3>1, <3>2 DEF providers
    <3>. QED  BY <3>1, <3>2, <3>3, <3>4 DEF Stall
  <2>3. MayRun(s)' \subseteq MayRun(s) \cup {n}
    <3>1. MayRun(s)' \subseteq Nrs
      BY DEF MayRun, Filled
    <3>2. \A m \in MayRun(s)' : m = n \/ m \in MayRun(s)
      BY <1>3, <2>2, <3>1
    <3>. HIDE DEF MayRun
    <3>. QED  BY <3>2
  <2>4. CASE quidax'[s][n] = "filled"
    <3>1. n \notin Filled(s) /\ Filled(s)' = Filled(s) \cup {n}
      BY <2>2, <2>4 DEF Filled
    <3>2. Cardinality(Filled(s)') = Cardinality(Filled(s)) + 1
      BY <1>4, <3>1, Counts
    <3>3. Cardinality(MayRun(s)') <= Cardinality(MayRun(s)) + 1
      BY <1>4, <2>3, Counts
    <3>4. Cardinality(Filled(s)') >= Cardinality(Filled(s)) + 1
      BY <1>5, <3>2
    <3>. QED  BY <1>5, <3>3, <3>4, WithinFrom
  <2>5. CASE quidax'[s][n] = "cancelled"
    <3>1. n \notin MayRun(s)'
      BY <2>5 DEF MayRun, Filled
    <3>2. MayRun(s)' \subseteq MayRun(s)
      BY <2>3, <3>1
    <3>3. Cardinality(MayRun(s)') <= Cardinality(MayRun(s)) + 0
      BY <1>4, <3>2, Counts, <1>5
    <3>. QED  BY <1>5, <3>3, WithinFrom
  <2>. QED  BY <2>2, <2>4, <2>5
<1>7. CASE \E n \in Nrs : Stall(Event("order", s, n))
  <2>1. PICK n \in Nrs : Stall(Event("order", s, n))
    BY <1>7
  <2>2. Spend("stall") /\ UNCHANGED quidax
    BY <2>1 DEF Stall, providers
  <2>3. \A m \in Nrs : ~QuidaxFinish(s, m)
    BY <1>0, <2>2 DEF QuidaxFinish, ProviderTypes
  <2>4. ASSUME NEW m \in Nrs \ {n} PROVE ~Stall(Event("order", s, m))
    BY <1>0, <2>1, EventsOf, RunNames DEF Event, Stall, JobSound
  <2>5. MayRun(s)' \subseteq MayRun(s) \cup {n}
    <3>1. MayRun(s)' \subseteq Nrs
      BY DEF MayRun, Filled
    <3>2. \A m \in MayRun(s)' : m = n \/ m \in MayRun(s)
      BY <1>3, <2>3, <2>4, <3>1
    <3>. HIDE DEF MayRun
    <3>. QED  BY <3>2
  <2>6. Cardinality(MayRun(s)') <= Cardinality(MayRun(s)) + 1
    BY <1>4, <2>5, Counts
  <2>7. Spent(Reruns)' >= Spent(Reruns) + 1
    BY <2>2, SpentSteps, <1>5 DEF Reruns
  <2>. QED  BY <1>5, <2>6, <2>7, WithinFrom
<1>8. CASE \A n \in Nrs : ~QuidaxFinish(s, n) /\ ~Stall(Event("order", s, n))
  <2>1. MayRun(s)' \subseteq MayRun(s)
    <3>1. MayRun(s)' \subseteq Nrs
      BY DEF MayRun, Filled
    <3>2. \A m \in MayRun(s)' : m \in MayRun(s)
      BY <1>3, <1>8, <3>1
    <3>. HIDE DEF MayRun
    <3>. QED  BY <3>2
  <2>2. Cardinality(MayRun(s)') <= Cardinality(MayRun(s)) + 0
    BY <1>4, <2>1, Counts, <1>5
  <2>. QED  BY <1>5, <2>2, WithinFrom
<1>. QED  BY <1>6, <1>7, <1>8

\* What a step that places, fills and records no order does to the orders whose
\* job may run.
LEMMA RunSets ==
    ASSUME NEW s \in Sells, UNCHANGED <<quidax, ref, confirm, retry, posted>>
    PROVE  /\ Filled(s)' = Filled(s)
           /\ (\A n \in Filled(s) :
                  job'[Event("order", s, n)] = "waiting" =>
                     job[Event("order", s, n)] = "waiting")
                => MayRun(s)' \subseteq MayRun(s)
           /\ \A m :
                (\A n \in Filled(s) \ {m} :
                   job'[Event("order", s, n)] = "waiting" =>
                      job[Event("order", s, n)] = "waiting")
                => MayRun(s)' \subseteq MayRun(s) \cup {m}
<1>1. \A n : Nameable(s, n)' <=> Nameable(s, n)
  BY DEF Nameable
<1>2. Filled(s)' = Filled(s)
  BY DEF Filled
<1>3. ASSUME NEW n \in MayRun(s)',
             job'[Event("order", s, n)] = "waiting" =>
                job[Event("order", s, n)] = "waiting"
      PROVE  n \in MayRun(s)
  BY <1>1, <1>2, <1>3 DEF MayRun
<1>4. \A n \in MayRun(s)' : n \in Filled(s)
  BY <1>2 DEF MayRun
<1>5. ASSUME \A n \in Filled(s) :
                job'[Event("order", s, n)] = "waiting" =>
                   job[Event("order", s, n)] = "waiting"
      PROVE  MayRun(s)' \subseteq MayRun(s)
  BY <1>3, <1>4, <1>5
<1>6. ASSUME NEW m,
             \A n \in Filled(s) \ {m} :
                job'[Event("order", s, n)] = "waiting" =>
                   job[Event("order", s, n)] = "waiting"
      PROVE  MayRun(s)' \subseteq MayRun(s) \cup {m}
  BY <1>3, <1>4, <1>6
<1>. QED  BY <1>2, <1>5, <1>6

PayPcs == {"adding", "paying", "unpaid"}

\* A step of a run leaves the other slots alone.
LEMMA PaySets ==
    ASSUME OneAtATime, NEW s \in Sells, NEW r \in Runs, NEW e \in Events,
           Elsewhere(r, e)
    PROVE  /\ MayPay(s)' \subseteq MayPay(s) \cup {r}
           /\ (\/ e.type # "order" \/ e.sell # s \/ run'[r][e] \notin PayPcs
               \/ run[r][e] \in PayPcs)
                => MayPay(s)' \subseteq MayPay(s)
           /\ (/\ e.type = "order" /\ e.sell = s
               /\ run[r][e] \in PayPcs /\ run'[r][e] \notin PayPcs)
                => r \in MayPay(s) /\ MayPay(s)' \subseteq MayPay(s) \ {r}
<1>1. \A q \in Runs, n \in Nrs :
         \/ run'[q][Event("order", s, n)] = run[q][Event("order", s, n)]
         \/ q = r /\ e = Event("order", s, n)
  BY EventsOf DEF Elsewhere
<1>2. \A n : e = Event("order", s, n) =>
                e.type = "order" /\ e.sell = s /\ e.nr = n
  BY DEF Event
<1>3. MayPay(s)' \subseteq MayPay(s) \cup {r}
  BY <1>1 DEF MayPay
<1>4. ASSUME \/ e.type # "order" \/ e.sell # s \/ run'[r][e] \notin PayPcs
             \/ run[r][e] \in PayPcs
      PROVE  MayPay(s)' \subseteq MayPay(s)
  BY <1>1, <1>2, <1>4 DEF MayPay, PayPcs
<1>5. ASSUME e.type = "order", e.sell = s,
             run[r][e] \in PayPcs, run'[r][e] \notin PayPcs
      PROVE  r \in MayPay(s) /\ MayPay(s)' \subseteq MayPay(s) \ {r}
  <2>1. e.nr \in Nrs /\ e = Event("order", s, e.nr)
    BY <1>5, EventParts
  <2>2. r \in MayPay(s)
    BY <1>5, <2>1 DEF MayPay, PayPcs
  <2>3. ASSUME NEW n \in Nrs, run'[r][Event("order", s, n)] \in PayPcs PROVE FALSE
    BY <1>5, <2>3, <1>1, EventsOf DEF OneAtATime, Busy, PayPcs
  <2>4. r \notin MayPay(s)'
    BY <2>3 DEF MayPay, PayPcs
  <2>5. MayPay(s)' \subseteq MayPay(s)
    BY <1>4, <1>5
  <2>. QED  BY <2>2, <2>4, <2>5
<1>. QED  BY <1>3, <1>4, <1>5

\* The changes of the sets, counted.
LEMMA StepCounts ==
    ASSUME Sound, [Next]_vars, NEW s \in Sells
    PROVE  /\ PaidFor(s)' = PaidFor(s)
                => Cardinality(PaidFor(s)') <= Cardinality(PaidFor(s)) + 0
           /\ \A x : PaidFor(s)' \subseteq PaidFor(s) \cup {x}
                => Cardinality(PaidFor(s)') <= Cardinality(PaidFor(s)) + 1
           /\ MayRun(s)' \subseteq MayRun(s)
                => Cardinality(MayRun(s)') <= Cardinality(MayRun(s)) + 0
           /\ \A x : MayRun(s)' \subseteq MayRun(s) \cup {x}
                => Cardinality(MayRun(s)') <= Cardinality(MayRun(s)) + 1
           /\ \A x \in MayRun(s) : MayRun(s)' \subseteq MayRun(s) \ {x}
                => Cardinality(MayRun(s)') <= Cardinality(MayRun(s)) + (-1)
           /\ MayPay(s)' \subseteq MayPay(s)
                => Cardinality(MayPay(s)') <= Cardinality(MayPay(s)) + 0
           /\ \A x : MayPay(s)' \subseteq MayPay(s) \cup {x}
                => Cardinality(MayPay(s)') <= Cardinality(MayPay(s)) + 1
           /\ \A x \in MayPay(s) : MayPay(s)' \subseteq MayPay(s) \ {x}
                => Cardinality(MayPay(s)') <= Cardinality(MayPay(s)) + (-1)
           /\ Filled(s)' = Filled(s)
                => Cardinality(Filled(s)') >= Cardinality(Filled(s)) + 0
           /\ Spent(Reruns)' >= Spent(Reruns) + 0
           /\ \A f \in Reruns : Spend(f) => Spent(Reruns)' >= Spent(Reruns) + 1
<1>1. /\ IsFiniteSet(PaidFor(s)) /\ IsFiniteSet(MayRun(s))
      /\ IsFiniteSet(MayPay(s)) /\ IsFiniteSet(Filled(s))
      /\ IsFiniteSet(PaidFor(s)') /\ IsFiniteSet(MayRun(s)')
      /\ IsFiniteSet(MayPay(s)') /\ IsFiniteSet(Filled(s)')
  BY PayoutSets
<1>2. ASSUME NEW S, IsFiniteSet(S), NEW T, IsFiniteSet(T)
      PROVE  /\ T = S => Cardinality(T) >= Cardinality(S) + 0
             /\ T \subseteq S => Cardinality(T) <= Cardinality(S) + 0
             /\ \A x : T \subseteq S \cup {x} => Cardinality(T) <= Cardinality(S) + 1
             /\ \A x \in S : T \subseteq S \ {x}
                                => Cardinality(T) <= Cardinality(S) + (-1)
  BY <1>2, Counts
<1>3. /\ Spent(Reruns)' >= Spent(Reruns) + 0
      /\ \A f \in Reruns : Spend(f) => Spent(Reruns)' >= Spent(Reruns) + 1
  <2>1. /\ Spent(Reruns) \in Int /\ Spent(Reruns)' \in Int
        /\ Spent(Reruns)' >= Spent(Reruns)
        /\ \A f \in Reruns : Spend(f) => Spent(Reruns)' = Spent(Reruns) + 1
    BY SpentSteps
  <2>. HIDE DEF Spent, Spend, Reruns
  <2>. QED  BY <2>1
<1>. HIDE DEF PaidFor, MayRun, MayPay, Filled, Spent, Spend, Reruns
<1>4. /\ PaidFor(s)' = PaidFor(s)
           => Cardinality(PaidFor(s)') <= Cardinality(PaidFor(s)) + 0
      /\ \A x : PaidFor(s)' \subseteq PaidFor(s) \cup {x}
           => Cardinality(PaidFor(s)') <= Cardinality(PaidFor(s)) + 1
  BY <1>1, <1>2
<1>5. /\ MayRun(s)' \subseteq MayRun(s)
           => Cardinality(MayRun(s)') <= Cardinality(MayRun(s)) + 0
      /\ \A x : MayRun(s)' \subseteq MayRun(s) \cup {x}
           => Cardinality(MayRun(s)') <= Cardinality(MayRun(s)) + 1
      /\ \A x \in MayRun(s) : MayRun(s)' \subseteq MayRun(s) \ {x}
           => Cardinality(MayRun(s)') <= Cardinality(MayRun(s)) + (-1)
  BY <1>1, <1>2
<1>6. /\ MayPay(s)' \subseteq MayPay(s)
           => Cardinality(MayPay(s)') <= Cardinality(MayPay(s)) + 0
      /\ \A x : MayPay(s)' \subseteq MayPay(s) \cup {x}
           => Cardinality(MayPay(s)') <= Cardinality(MayPay(s)) + 1
      /\ \A x \in MayPay(s) : MayPay(s)' \subseteq MayPay(s) \ {x}
           => Cardinality(MayPay(s)') <= Cardinality(MayPay(s)) + (-1)
  BY <1>1, <1>2
<1>7. Filled(s)' = Filled(s)
        => Cardinality(Filled(s)') >= Cardinality(Filled(s)) + 0
  BY <1>1, <1>2
<1>. QED  BY <1>3, <1>4, <1>5, <1>6, <1>7

\* A run that starts takes the place of its waiting job.
LEMMA StartedWithin ==
    ASSUME Sound, OneAtATime, [Next]_vars, NEW s \in Sells, Within(s),
           NEW r \in Runs, NEW e \in Events, Started(r, e)
    PROVE  Within(s)'
<1>0. /\ ProviderTypes /\ WorkTypes /\ JobSound
      /\ e.sell \in Sells /\ e.nr \in Nrs /\ e = Event(e.type, e.sell, e.nr)
  BY SoundParts, EventParts
<1>1. Elsewhere(r, e) /\ UNCHANGED <<quidax, paystack, ref, confirm, retry, posted>>
  BY DEF Started, books, rows, providers, retries
<1>2. PaidFor(s)' = PaidFor(s) /\ Filled(s)' = Filled(s)
  BY <1>1 DEF PaidFor, Filled
<1>3. \A n \in Filled(s) : job'[Event("order", s, n)] = "waiting" =>
                              job[Event("order", s, n)] = "waiting"
  BY <1>0, EventsOf DEF Started, Elsewhere, Filled
<1>4. MayRun(s)' \subseteq MayRun(s)
  BY <1>1, <1>3, RunSets
<1>5. CASE e.type = "order" /\ e.sell = s /\ run'[r][e] = "adding"
  <2>1. e.nr \in MayRun(s)
    BY <1>0, <1>5 DEF Started, MayRun, Filled, Nameable
  <2>2. e.nr \notin MayRun(s)'
    BY <1>0, <1>5, RunNames DEF Started, MayRun
  <2>3. MayRun(s)' \subseteq MayRun(s) \ {e.nr}
    BY <1>4, <2>2
  <2>4. MayPay(s)' \subseteq MayPay(s) \cup {r}
    BY <1>1, PaySets
  <2>5. /\ Cardinality(PaidFor(s)') <= Cardinality(PaidFor(s)) + 0
        /\ Cardinality(MayRun(s)') <= Cardinality(MayRun(s)) + (-1)
        /\ Cardinality(MayPay(s)') <= Cardinality(MayPay(s)) + 1
        /\ Cardinality(Filled(s)') >= Cardinality(Filled(s)) + 0
        /\ Spent(Reruns)' >= Spent(Reruns) + 0
    BY <1>2, <2>1, <2>3, <2>4, StepCounts
  <2>. QED  BY <2>5, WithinFrom
<1>6. CASE e.type # "order" \/ e.sell # s \/ run'[r][e] # "adding"
  BY <1>6, <1>1, PaySets, <1>2, <1>4, StepCounts, WithinFrom DEF Started, PayPcs
<1>. QED  BY <1>5, <1>6

\* A job that is dropped before its run starts makes no payout.
LEMMA DroppedWithin ==
    ASSUME Sound, [Next]_vars, NEW s \in Sells, Within(s),
           NEW e \in Events, Dropped(e)
    PROVE  Within(s)'
<1>1. UNCHANGED <<run, quidax, paystack, ref, confirm, retry, posted>>
  BY DEF Dropped, books, rows, providers, retries
<1>2. /\ PaidFor(s)' = PaidFor(s) /\ Filled(s)' = Filled(s)
      /\ MayPay(s)' = MayPay(s)
  BY <1>1 DEF PaidFor, Filled, MayPay
<1>3. \A n \in Filled(s) : job'[Event("order", s, n)] = "waiting" =>
                              job[Event("order", s, n)] = "waiting"
  BY EventsOf DEF Dropped, Filled
<1>4. MayRun(s)' \subseteq MayRun(s)
  BY <1>1, <1>3, RunSets
<1>5. /\ Cardinality(PaidFor(s)') <= Cardinality(PaidFor(s)) + 0
      /\ Cardinality(MayRun(s)') <= Cardinality(MayRun(s)) + 0
      /\ Cardinality(MayPay(s)') <= Cardinality(MayPay(s)) + 0
      /\ Cardinality(Filled(s)') >= Cardinality(Filled(s)) + 0
      /\ Spent(Reruns)' >= Spent(Reruns) + 0
  BY <1>2, <1>4, StepCounts
<1>. QED  BY <1>5, WithinFrom

\* After a crash the job of the order the sale refers to may run again.
LEMMA CrashWithin ==
    ASSUME Sound, OneAtATime, [Next]_vars, NEW s \in Sells, Within(s), Crash
    PROVE  Within(s)'
<1>0. WorkTypes /\ JobSound
  BY SoundParts
<1>1. UNCHANGED <<quidax, paystack, ref>> /\ Spend("crash")
  BY DEF Crash, books, rows, providers
<1>2. PaidFor(s)' = PaidFor(s) /\ Filled(s)' = Filled(s)
  BY <1>1 DEF PaidFor, Filled
<1>3. MayPay(s)' \subseteq MayPay(s)
  BY EventsOf DEF Crash, MayPay
<1>4. ASSUME NEW n \in MayRun(s)', n # ref[s] PROVE n \in MayRun(s)
  BY <1>2, <1>4, <1>1 DEF MayRun, Crash, Nameable
<1>5. MayRun(s)' \subseteq MayRun(s) \cup {ref[s]}
  BY <1>4
<1>6. /\ Cardinality(PaidFor(s)') <= Cardinality(PaidFor(s)) + 0
      /\ Cardinality(MayRun(s)') <= Cardinality(MayRun(s)) + 1
      /\ Cardinality(MayPay(s)') <= Cardinality(MayPay(s)) + 0
      /\ Cardinality(Filled(s)') >= Cardinality(Filled(s)) + 0
      /\ Spent(Reruns)' >= Spent(Reruns) + 1
  BY <1>1, <1>2, <1>3, <1>5, StepCounts DEF Reruns
<1>. QED  BY <1>6, WithinFrom

\* How a run of an order's job goes on: it pays, it gives up after a fault, or
\* its job waits for the next run.
LEMMA RunWithin ==
    ASSUME Sound, OneAtATime, RunsFollow, [Next]_vars, NEW s \in Sells, Within(s),
           NEW r \in Runs, NEW e \in Events, Moved(r, e), HandlerStep(r, e),
           e.type = "order", e.sell = s
    PROVE  Within(s)'
<1>0. /\ ColumnTypes /\ ProviderTypes /\ WorkTypes /\ JobSound /\ e.nr \in Nrs
      /\ e = Event("order", s, e.nr)
      /\ \A n \in Nrs : Event("order", s, n) = e => n = e.nr
  BY SoundParts, EventParts DEF Event
<1>1. Elsewhere(r, e) /\ UNCHANGED <<quidax, ref, confirm, retry, posted>>
  BY DEF Moved, retries
<1>2. Filled(s)' = Filled(s)
  BY <1>1, RunSets
<1>3. \A n \in Nrs \ {e.nr} : Event("order", s, n) \in Events \ {e}
  BY <1>0, EventsOf
<1>4. \A n \in Filled(s) \ {e.nr} :
         job'[Event("order", s, n)] = "waiting" =>
            job[Event("order", s, n)] = "waiting"
  BY <1>1, <1>3 DEF Elsewhere, Filled
<1>5. MayRun(s)' \subseteq MayRun(s) \cup {e.nr}
  BY <1>1, <1>4, RunSets
<1>6. ASSUME UNCHANGED job \/ job'[e] # "waiting" \/ e.nr \notin Filled(s)
      PROVE  MayRun(s)' \subseteq MayRun(s)
  BY <1>0, <1>4, <1>6, <1>1, RunSets
<1>7. ASSUME NEW pc \in RunPc, Go(r, e, pc)
      PROVE  run'[r][e] = pc /\ UNCHANGED job
  BY <1>0, <1>7 DEF Go, SetRun, WorkTypes
<1>8. ASSUME Return(r, e) \/ Throw(r, e)
      PROVE  run'[r][e] = "idle"
  BY <1>0, <1>8 DEF Return, Throw, SetRun, WorkTypes
<1>9. UNCHANGED paystack => PaidFor(s)' = PaidFor(s)
  BY DEF PaidFor
<1>. DEFINE Changes(i, j, k, m) ==
              /\ Cardinality(PaidFor(s)') <= Cardinality(PaidFor(s)) + i
              /\ Cardinality(MayRun(s)') <= Cardinality(MayRun(s)) + j
              /\ Cardinality(MayPay(s)') <= Cardinality(MayPay(s)) + k
              /\ Cardinality(Filled(s)') >= Cardinality(Filled(s)) + 0
              /\ Spent(Reruns)' >= Spent(Reruns) + m
<1>10. CASE OrderFail(r, e)
  <2>1. run[r][e] = "failing" /\ UNCHANGED paystack
    BY <1>10 DEF OrderFail, providers
  <2>2. e.nr \notin Filled(s)
    BY <2>1 DEF RunsFollow, RunFollows, Filled
  <2>3. run'[r][e] \notin PayPcs
    BY <1>8, <1>10 DEF OrderFail, PayPcs
  <2>4. MayRun(s)' \subseteq MayRun(s) /\ MayPay(s)' \subseteq MayPay(s)
    BY <1>1, <1>6, <2>2, <2>3, PaySets
  <2>5. Changes(0, 0, 0, 0)
    BY <1>2, <1>9, <2>1, <2>4, StepCounts
  <2>. QED  BY <2>5, WithinFrom
<1>11. CASE OrderAdd(r, e)
  <2>1. run[r][e] \in PayPcs /\ UNCHANGED <<paystack, job>>
    BY <1>7, <1>11 DEF OrderAdd, AddFailed, PayPcs, RunPc, providers
  <2>2. MayRun(s)' \subseteq MayRun(s) /\ MayPay(s)' \subseteq MayPay(s)
    BY <1>1, <1>6, <2>1, PaySets
  <2>3. Changes(0, 0, 0, 0)
    BY <1>2, <1>9, <2>1, <2>2, StepCounts
  <2>. QED  BY <2>3, WithinFrom
<1>12. CASE OrderPay(r, e)
  <2>1. run[r][e] \in PayPcs
    BY <1>12 DEF OrderPay, PayPcs
  <2>2. UNCHANGED job
    BY <1>7, <1>12 DEF OrderPay, RunPc
  <2>3. MayRun(s)' \subseteq MayRun(s) /\ MayPay(s)' \subseteq MayPay(s)
    BY <1>1, <1>6, <2>1, <2>2, PaySets
  <2>4. CASE UNCHANGED paystack
    BY <1>2, <1>9, <2>3, <2>4, StepCounts, WithinFrom
  <2>5. ASSUME NEW n \in Nrs, paystack' = [paystack EXCEPT ![s][n] = "pending"]
        PROVE  PaidFor(s)' \subseteq PaidFor(s) \cup {n}
    BY <1>0, <2>5 DEF PaidFor, ProviderTypes
  <2>6. CASE \E n \in Nrs : paystack' = [paystack EXCEPT ![s][n] = "pending"]
             /\ Go(r, e, "paid")
    <3>1. run'[r][e] \notin PayPcs
      BY <1>7, <2>6 DEF PayPcs, RunPc
    <3>2. r \in MayPay(s) /\ MayPay(s)' \subseteq MayPay(s) \ {r}
      BY <1>1, <2>1, <3>1, PaySets
    <3>3. \E n : PaidFor(s)' \subseteq PaidFor(s) \cup {n}
      BY <2>5, <2>6
    <3>4. Changes(1, 0, -1, 0)
      BY <1>2, <2>3, <3>2, <3>3, StepCounts
    <3>. QED  BY <3>4, WithinFrom
  <2>7. CASE (\E n \in Nrs : paystack' = [paystack EXCEPT ![s][n] = "pending"])
             /\ Spend("lostAnswer")
    <3>1. \E n : PaidFor(s)' \subseteq PaidFor(s) \cup {n}
      BY <2>5, <2>7
    <3>2. Changes(1, 0, 0, 1)
      BY <1>2, <2>3, <2>7, <3>1, StepCounts DEF Reruns
    <3>. QED  BY <3>2, WithinFrom
  <2>. QED  BY <1>12, <2>4, <2>6, <2>7 DEF OrderPay
<1>13. CASE OrderPaid(r, e)
  <2>1. UNCHANGED paystack
    BY <1>13 DEF OrderPaid, providers
  <2>2. UNCHANGED job
    BY <1>7, <1>13 DEF OrderPaid, RunPc
  <2>3. MayRun(s)' \subseteq MayRun(s)
    BY <1>6, <2>2
  <2>4. CASE Go(r, e, "committed")
    <3>1. run'[r][e] \notin PayPcs
      BY <1>7, <2>4 DEF PayPcs, RunPc
    <3>2. MayPay(s)' \subseteq MayPay(s)
      BY <1>1, <3>1, PaySets
    <3>3. Changes(0, 0, 0, 0)
      BY <1>2, <1>9, <2>1, <2>3, <3>2, StepCounts
    <3>. QED  BY <3>3, WithinFrom
  <2>5. CASE Spend("error")
    BY <1>1, PaySets, <1>2, <1>9, <2>1, <2>3, <2>5, StepCounts, WithinFrom DEF Reruns
  <2>. QED  BY <1>13, <2>4, <2>5 DEF OrderPaid
<1>14. CASE OrderUnpaid(r, e)
  BY <1>14, <1>8, <1>1, PaySets, <1>2, <1>5, <1>9, StepCounts, WithinFrom DEF OrderUnpaid, PayPcs,
    providers
<1>15. CASE Finish(r, e)
  <2>1. run'[r][e] \notin PayPcs /\ UNCHANGED paystack
    BY <1>8, <1>15 DEF Finish, PayPcs, providers
  <2>2. MayPay(s)' \subseteq MayPay(s)
    BY <1>1, <2>1, PaySets
  <2>3. CASE Return(r, e)
    <3>1. UNCHANGED job \/ job'[e] # "waiting"
      BY <1>0, <2>3 DEF Return, Used, JobSound
    <3>2. MayRun(s)' \subseteq MayRun(s)
      BY <1>6, <3>1
    <3>3. Changes(0, 0, 0, 0)
      BY <1>2, <1>9, <2>1, <2>2, <3>2, StepCounts
    <3>. QED  BY <3>3, WithinFrom
  <2>4. CASE Spend("error")
    BY <1>2, <1>5, <1>9, <2>1, <2>2, <2>4, StepCounts, WithinFrom DEF Reruns
  <2>. QED  BY <1>15, <2>3, <2>4 DEF Finish
<1>16. ~TransferSettle(r, e) /\ ~TransferRevert(r, e)
  BY DEF TransferSettle, TransferRevert, RunsFollow, RunFollows
<1>. QED
  BY <1>10, <1>11, <1>12, <1>13, <1>14, <1>15, <1>16 DEF HandlerStep, OrderStep

\* Runs of other events, and of other sales, make no payout of this one.
LEMMA OtherRunWithin ==
    ASSUME Sound, OneAtATime, RunsFollow, [Next]_vars, NEW s \in Sells, Within(s),
           NEW r \in Runs, NEW e \in Events, Moved(r, e), HandlerStep(r, e),
           e.type # "order" \/ e.sell # s
    PROVE  Within(s)'
<1>0. ProviderTypes /\ e.sell \in Sells
  BY SoundParts, EventParts
<1>1. Elsewhere(r, e) /\ UNCHANGED <<quidax, ref, confirm, retry, posted>>
  BY DEF Moved, retries
<1>2. Filled(s)' = Filled(s)
  BY <1>1, RunSets
<1>3. \A n \in Nrs : Event("order", s, n) \in Events \ {e}
  <2>1. \A n \in Nrs : Event("order", s, n).type = "order"
                         /\ Event("order", s, n).sell = s
    BY DEF Event
  <2>2. \A n \in Nrs : Event("order", s, n) # e
    BY <2>1
  <2>. QED  BY <2>2, EventsOf
<1>4. MayRun(s)' \subseteq MayRun(s)
  BY <1>1, <1>3, RunSets DEF Elsewhere, Filled
<1>5. MayPay(s)' \subseteq MayPay(s)
  BY <1>1, PaySets
<1>6. PaidFor(s)' = PaidFor(s)
  <2>1. CASE OrderPay(r, e)
    BY <2>1, <1>0 DEF OrderPay, RunsFollow, RunFollows, ProviderTypes, PaidFor
  <2>2. CASE ~OrderPay(r, e)
    <3>1. UNCHANGED paystack
      BY <2>2 DEF HandlerStep, OrderStep, OrderFail, OrderAdd, OrderPaid, OrderUnpaid,
        TransferSettle, TransferRevert, Finish, providers
    <3>. QED  BY <3>1 DEF PaidFor
  <2>. QED  BY <2>1, <2>2
<1>7. /\ Cardinality(PaidFor(s)') <= Cardinality(PaidFor(s)) + 0
      /\ Cardinality(MayRun(s)') <= Cardinality(MayRun(s)) + 0
      /\ Cardinality(MayPay(s)') <= Cardinality(MayPay(s)) + 0
      /\ Cardinality(Filled(s)') >= Cardinality(Filled(s)) + 0
      /\ Spent(Reruns)' >= Spent(Reruns) + 0
  BY <1>2, <1>4, <1>5, <1>6, StepCounts
<1>. QED  BY <1>7, WithinFrom

LEMMA PaidWithinNext ==
    ASSUME Sound, OneAtATime, RunsFollow, PaidWithin, [Next]_vars
    PROVE  PaidWithin'
<1>. SUFFICES ASSUME NEW s \in Sells PROVE Within(s)'
  BY DEF PaidWithin
<1>1. Within(s)
  BY DEF PaidWithin
<1>2. CASE Crash
  BY <1>1, <1>2, CrashWithin
<1>3. CASE Aside /\ ~Crash
  BY <1>1, <1>3, AsideWithin
<1>4. ASSUME NEW r \in Runs, NEW e \in Events, Started(r, e) PROVE Within(s)'
  BY <1>1, <1>4, StartedWithin
<1>5. ASSUME NEW e \in Events, Dropped(e) PROVE Within(s)'
  BY <1>1, <1>5, DroppedWithin
<1>6. ASSUME NEW r \in Runs, NEW e \in Events, HandlerStep(r, e) PROVE Within(s)'
  BY <1>1, <1>6, HandlerSteps, RunWithin, OtherRunWithin
<1>. QED  BY <1>2, <1>3, <1>4, <1>5, <1>6, AsideSteps

LEMMA PaidWithinInit == Init => PaidWithin
<1>. SUFFICES ASSUME Init, NEW s \in Sells PROVE Within(s)
  BY DEF PaidWithin
<1>1. /\ PaidFor(s) = {} /\ MayRun(s) = {} /\ MayPay(s) = {} /\ Filled(s) = {}
  BY EventsOf DEF Init, PaidFor, MayRun, MayPay, Filled
<1>2. Spent(Reruns) = 0
  <2>. DEFINE g == [f \in Reruns |-> Budget[f] - budget[f]]
  <2>1. IsFiniteSet(Reruns)
    BY RerunsFinite
  <2>2. \A f \in Reruns : g[f] = 0
    BY SellAssumption DEF Init, Reruns, Faults
  <2>3. SumFunctionOnSet(g, Reruns) = 0
    <3>. HIDE DEF g
    <3>. QED  BY <2>1, <2>2, SumZero
  <2>. QED  BY <2>3 DEF Spent
<1>3. Cardinality({}) = 0
  BY FS_EmptySet
<1>. QED  BY <1>1, <1>2, <1>3 DEF Within

LEMMA PaidWithinAlways == Spec => []PaidWithin
  BY PaidWithinNext, PaidWithinInit, ProgressAlways, PTL DEF Progress, Spec

\* Nobody is paid for crypto that was not sold nor, but for faults that rerun
\* the order's job, more often than an order of the sale was filled, however
\* many runs, retries and answers lost.
THEOREM AlwaysPayoutsEarned == Spec => []PayoutsEarned
<1>1. Sound /\ BookedOnce => PaidWasSold
  <2>. SUFFICES ASSUME Sound, BookedOnce PROVE PaidWasSold
    OBVIOUS
  <2>. DEFINE S == {s \in Sells : \E n \in Nrs : paystack[s][n] # "none"}
  <2>1. S \in SUBSET BookedSales /\ BookedSales \in SUBSET Sells
    BY DEF BookedSales, Booked
  <2>2. /\ SumFunctionOnSet(Proceeds, S) \in Nat
        /\ SumFunctionOnSet(Proceeds, BookedSales) \in Nat
        /\ SumFunctionOnSet(Proceeds, S) <= SumFunctionOnSet(Proceeds, BookedSales)
    <3>. HIDE DEF S
    <3>. QED  BY <2>1, ProceedsSums
  <2>3. company.total \in Nat /\ InitialCompany \in Nat
    BY SoundParts, SellAssumption DEF Rows, GoodCompany, CompanyAccounts
  <2>4. company.total >= InitialCompany + SumFunctionOnSet(Proceeds, BookedSales)
    BY DEF BookedOnce, Sum
  <2>5. company.total >= InitialCompany + SumFunctionOnSet(Proceeds, S)
    <3>. HIDE DEF S
    <3>. QED  BY <2>2, <2>3, <2>4
  <2>. QED  BY <2>5 DEF PaidWasSold, Sum
<1>2. Sound /\ PaidWithin => PaidOnce
  <2>. SUFFICES ASSUME Sound, PaidWithin, NEW s \in Sells
                PROVE  Cardinality(PaidFor(s))
                         <= Cardinality(Filled(s)) + Spent(Reruns)
    BY DEF PaidOnce, PaidFor, Filled, Reruns
  <2>1. /\ Cardinality(PaidFor(s)) \in Nat /\ Cardinality(MayRun(s)) \in Nat
        /\ Cardinality(MayPay(s)) \in Nat /\ Cardinality(Filled(s)) \in Nat
    BY PayoutSets, FS_CardinalityType
  <2>2. Spent(Reruns) \in Int
    BY SpentType
  <2>3. Cardinality(PaidFor(s)) + Cardinality(MayRun(s)) + Cardinality(MayPay(s))
          <= Cardinality(Filled(s)) + Spent(Reruns)
    BY DEF PaidWithin, Within
  <2>. QED  BY <2>1, <2>2, <2>3
<1>3. Spec => []BookedOnce
  BY BookedAlways
<1>. QED  BY <1>1, <1>2, <1>3, PaidWithinAlways, ProgressAlways, PTL DEF PayoutsEarned
============================================================================
