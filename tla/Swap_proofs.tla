---------------------------- MODULE Swap_proofs ----------------------------
(***************************************************************************)
(* Theorems about Swap, for every set of swaps, every amount, fee and      *)
(* price, any number of worker slots and processors, and every budget.     *)
(*                                                                         *)
(* Sound carries the types and the solvency of both rows. A job that is    *)
(* not dead has an attempt left, and a swap has no job before Quidax ended *)
(* it; without these, balances and attempts could go below zero.           *)
(*                                                                         *)
(* Progress relates the records of a swap to what Quidax did and to its    *)
(* runs: a run acts on what Quidax did for good, and unless a job stalls   *)
(* it is the only one. So every step places, exchanges or gives back one   *)
(* swap's holds (MoneySteps), which is all the sums and the refinement of  *)
(* HoldLedger need.                                                        *)
(***************************************************************************)
EXTENDS Swap, Ledger_proofs

AttemptsLeft == \A s \in Swaps : job[s] # "dead" => attempts[s] > 0

\* A swap Quidax has not ended has no job; one not sent is not at Quidax.
Unended ==
    \A s \in Swaps :
        /\ confirm[s] \in {"new", "reserved"} => quidax[s] = "none"
        /\ quidax[s] \in {"none", "submitted"} => job[s] = "none"

Sound == TypeOK /\ Solvent /\ AttemptsLeft /\ Unended

\* The types besides the two rows and the job.
RestType ==
    /\ target \in [base : Nat, internal : Nat]
    /\ txn \in [Swaps -> TxStates] /\ row \in [Swaps -> RowStates]
    /\ queued \in SUBSET Swaps
    /\ quidax \in [Swaps -> QuidaxStates]
    /\ confirm \in [Swaps -> ConfirmPc]
    /\ run \in [Runs -> [Swaps -> RunPc]]
    /\ retry \in [Processors -> [Swaps -> {"idle", "reserved"}]]
    /\ budget \in [Faults -> Nat]

JobStates == {"none", "waiting", "done", "dead"} \cup Runs

\* The job and its attempts.
JobSound ==
    /\ job \in [Swaps -> JobStates]
    /\ attempts \in [Swaps -> Nat]
    /\ AttemptsLeft

Rows == GoodWallet(wallet) /\ GoodCompany(company)

LEMMA SoundParts == Sound <=> Rows /\ RestType /\ JobSound /\ Unended
BY DEF Sound, TypeOK, Solvent, Rows, RestType, JobSound, JobStates, GoodWallet, GoodCompany

LEMMA SoundNextParts ==
    ASSUME Rows', RestType', JobSound', Unended' PROVE Sound'
BY DEF Sound, TypeOK, Solvent, Rows, RestType, JobSound, JobStates, GoodWallet, GoodCompany

LEMMA Amounts ==
    ASSUME NEW s \in Swaps
    PROVE Exact[s] \in Nat /\ Received[s] \in Nat /\ Held(s) \in Nat
BY SwapAssumption DEF Held

LEMMA SoundInit == Init => Sound
<1> SUFFICES ASSUME Init PROVE Sound
  OBVIOUS
<1>1. Rows
  BY SwapAssumption DEF Init, Rows, GoodWallet, GoodCompany, Wallets, CompanyAccounts,
    WalletSolvent, CompanySolvent
<1>2. RestType
  BY SwapAssumption DEF Init, RestType, TxStates, RowStates, QuidaxStates, ConfirmPc, RunPc
<1>3. JobSound
  BY SwapAssumption DEF Init, JobSound, JobStates, AttemptsLeft
<1>4. Unended
  BY DEF Init, Unended
<1>. QED  BY <1>1, <1>2, <1>3, <1>4, SoundParts

---------------------------------------------------------------------------
(* What the updates the actions share leave behind.                        *)

LEMMA SpendType ==
    ASSUME RestType, NEW f \in Faults, Spend(f)
    PROVE budget' \in [Faults -> Nat]
<1>1. budget[f] - 1 \in Nat
  BY DEF RestType, Spend
<1>. QED  BY <1>1 DEF RestType, Spend

LEMMA SetRunType ==
    ASSUME RestType, NEW r \in Runs, NEW s \in Swaps, NEW pc \in RunPc,
           SetRun(r, s, pc)
    PROVE run' \in [Runs -> [Swaps -> RunPc]]
BY DEF RestType, SetRun

\* Giving both holds back leaves both rows good.
LEMMA GiveBackGood ==
    ASSUME Rows, NEW s \in Swaps, CanGiveBack(s), GiveBack(s)
    PROVE Rows'
BY Amounts, ReleaseBalanceGood, ReleaseLiquidityGood DEF CanGiveBack, GiveBack, Rows

\* So does the exchange, and the target's books stay books.
LEMMA ExchangeGood ==
    ASSUME Rows, RestType, NEW s \in Swaps, CanExchange(s), Exchange(s)
    PROVE Rows' /\ target' \in [base : Nat, internal : Nat]
<1>1. GoodWallet(wallet')
  BY Amounts, FinalizeBalanceGood DEF CanExchange, Exchange, Rows
<1> DEFINE c == SubtractInternal(company, Exact[s])
<1>2. GoodCompany(c)
  BY Amounts, SubtractInternalGood DEF CanExchange, Rows
<1>3. c.reserved = company.reserved
  BY DEF Rows, GoodCompany, CompanyAccounts, SubtractInternal
<1>4. CanReleaseLiquidity(c, Exact[s])
  BY <1>3 DEF CanExchange, CanReleaseLiquidity
<1>5. GoodCompany(company')
  <2> HIDE DEF c
  <2>1. GoodCompany(ReleaseLiquidity(c, Exact[s]))
    BY <1>2, <1>4, Amounts, ReleaseLiquidityGood
  <2>. QED  BY <2>1 DEF Exchange, c
<1>6. target' \in [base : Nat, internal : Nat]
  BY Amounts DEF Exchange, RestType
<1>. QED  BY <1>1, <1>5, <1>6 DEF Rows

\* A job that is held, or waits, has an attempt to lose.
LEMMA RetriedSound ==
    ASSUME JobSound, NEW s \in Swaps, job[s] # "dead", Retried(s)
    PROVE JobSound'
<1>1. attempts[s] \in Nat /\ attempts[s] > 0
  BY DEF JobSound, AttemptsLeft
<1>2. attempts' \in [Swaps -> Nat]
  BY <1>1 DEF JobSound, Retried
<1>3. job' \in [Swaps -> JobStates]
  BY DEF JobSound, Retried, JobStates
<1>4. ASSUME NEW t \in Swaps, job'[t] # "dead" PROVE attempts'[t] > 0
  <2>1. CASE t = s
    <3>1. attempts[s] # 1
      BY <1>4, <2>1 DEF Retried, LastAttempt, JobSound
    <3>. QED  BY <1>1, <2>1, <3>1 DEF Retried, JobSound
  <2>2. CASE t # s
    BY <1>4, <2>2 DEF Retried, JobSound, AttemptsLeft
  <2>. QED  BY <2>1, <2>2
<1>. QED  BY <1>2, <1>3, <1>4 DEF JobSound, AttemptsLeft

LEMMA RunNotDead == \A r \in Runs : r # "dead"
BY SwapAssumption

LEMMA ThrowSound ==
    ASSUME JobSound, RestType, NEW r \in Runs, NEW s \in Swaps, Throw(r, s)
    PROVE JobSound' /\ run' \in [Runs -> [Swaps -> RunPc]]
<1>1. run' \in [Runs -> [Swaps -> RunPc]]
  BY SetRunType DEF Throw, RunPc
<1>2. CASE job[s] = r
  BY <1>1, <1>2, RunNotDead, RetriedSound DEF Throw
<1>3. CASE job[s] # r
  BY <1>1, <1>3 DEF Throw, JobSound, AttemptsLeft
<1>. QED  BY <1>2, <1>3

\* A job may be given any state but a new life.
LEMMA JobSetSound ==
    ASSUME JobSound, NEW s \in Swaps, NEW j \in JobStates, job[s] # "dead",
           job' = [job EXCEPT ![s] = j], UNCHANGED attempts
    PROVE JobSound'
BY DEF JobSound, AttemptsLeft

LEMMA ReturnSound ==
    ASSUME JobSound, RestType, NEW r \in Runs, NEW s \in Swaps, Return(r, s)
    PROVE JobSound' /\ run' \in [Runs -> [Swaps -> RunPc]]
<1>1. run' \in [Runs -> [Swaps -> RunPc]]
  BY SetRunType DEF Return, RunPc
<1>2. CASE job[s] = r
  BY <1>1, <1>2, RunNotDead, JobSetSound DEF Return, JobStates
<1>3. CASE job[s] # r
  BY <1>1, <1>3 DEF Return, JobSound, AttemptsLeft
<1>. QED  BY <1>2, <1>3

\* Steps that move neither a confirmation, Quidax nor a job from the start.
LEMMA UnendedKept ==
    ASSUME Unended, UNCHANGED quidax,
           \A s \in Swaps : confirm'[s] \in {"new", "reserved"}
                              => confirm[s] \in {"new", "reserved"},
           \A s \in Swaps : job[s] = "none" => job'[s] = "none"
    PROVE Unended'
BY DEF Unended

\* A held or waiting job is given any state.
LEMMA UnendedJob ==
    ASSUME Unended, RestType, NEW s \in Swaps, job[s] # "none",
           UNCHANGED <<quidax, confirm>>,
           \A t \in Swaps \ {s} : job'[t] = job[t]
    PROVE Unended'
BY DEF Unended

LEMMA RunNotNone == \A r \in Runs : r # "none" /\ r # "waiting"
BY SwapAssumption

---------------------------------------------------------------------------
(* Sound is inductive. Each lemma covers the actions of one handler.       *)

LEMMA SoundConfirm ==
    ASSUME Sound, NEW s \in Swaps, ConfirmStep(s)
    PROVE Sound'
<1>1. Rows /\ RestType /\ JobSound /\ Unended
  BY SoundParts
<1>2. CASE ConfirmReserve(s)
  <2>1. Rows'
    BY <1>1, <1>2, Amounts, ReserveBalanceGood, ReserveLiquidityGood DEF ConfirmReserve, Rows
  <2>2. RestType'
    BY <1>1, <1>2 DEF ConfirmReserve, RestType, SetTxn, SetConfirm, work, TxStates, ConfirmPc
  <2>3. JobSound'
    BY <1>1, <1>2 DEF ConfirmReserve, work, JobSound, AttemptsLeft
  <2>4. Unended'
    BY <1>1, <1>2 DEF ConfirmReserve, work, SetConfirm, RestType, Unended
  <2>. QED  BY <2>1, <2>2, <2>3, <2>4, SoundNextParts
<1>3. CASE ConfirmQuidax(s)
  <2>1. Rows' /\ JobSound'
    BY <1>1, <1>3 DEF ConfirmQuidax, books, work, Rows, JobSound, AttemptsLeft
  <2>2. budget' \in [Faults -> Nat]
    BY <1>1, <1>3, SpendType DEF ConfirmQuidax, Faults, RestType
  <2>3. RestType'
    BY <1>1, <1>3, <2>2 DEF ConfirmQuidax, RestType, SetConfirm, books, work, QuidaxStates,
      ConfirmPc
  <2>4. Unended'
    BY <1>1, <1>3 DEF ConfirmQuidax, work, SetConfirm, RestType, Unended
  <2>. QED  BY <2>1, <2>3, <2>4, SoundNextParts
<1>4. CASE ConfirmCompensate(s)
  <2>1. Rows'
    BY <1>1, <1>4, GiveBackGood DEF ConfirmCompensate, Rows
  <2>2. budget' \in [Faults -> Nat]
    BY <1>1, <1>4, SpendType DEF ConfirmCompensate, Faults, RestType
  <2>3. RestType'
    BY <1>1, <1>4, <2>2 DEF ConfirmCompensate, RestType, SetConfirm, SetTxn, work, TxStates,
      ConfirmPc
  <2>4. JobSound'
    BY <1>1, <1>4 DEF ConfirmCompensate, work, JobSound, AttemptsLeft
  <2>5. Unended'
    BY <1>1, <1>4, UnendedKept DEF ConfirmCompensate, work, SetConfirm, RestType
  <2>. QED  BY <2>1, <2>3, <2>4, <2>5, SoundNextParts
<1>5. CASE ConfirmRecord(s)
  <2>1. Rows' /\ JobSound'
    BY <1>1, <1>5 DEF ConfirmRecord, work, Rows, JobSound, AttemptsLeft
  <2>2. budget' \in [Faults -> Nat]
    BY <1>1, <1>5, SpendType DEF ConfirmRecord, Faults, RestType
  <2>3. RestType'
    BY <1>1, <1>5, <2>2 DEF ConfirmRecord, RestType, SetConfirm, SetRow, work, RowStates, ConfirmPc
  <2>4. Unended'
    BY <1>1, <1>5, UnendedKept DEF ConfirmRecord, work, SetConfirm, RestType
  <2>. QED  BY <2>1, <2>3, <2>4, SoundNextParts
<1>. QED  BY <1>2, <1>3, <1>4, <1>5 DEF ConfirmStep

LEMMA SoundHandler ==
    ASSUME Sound, NEW r \in Runs, NEW s \in Swaps, HandlerStep(r, s)
    PROVE Sound'
<1>1. Rows /\ RestType /\ JobSound /\ Unended
  BY SoundParts
<1>2. CASE HandlerTake(r, s)
  <2>1. Rows'
    BY <1>1, <1>2 DEF HandlerTake, books, Rows
  <2>2. run' \in [Runs -> [Swaps -> RunPc]]
    BY <1>1, <1>2, SetRunType DEF HandlerTake, RunPc, RestType
  <2>3. budget' \in [Faults -> Nat]
    BY <1>1, <1>2, SpendType DEF HandlerTake, Faults, RestType
  <2>4. RestType'
    BY <1>1, <1>2, <2>2, <2>3 DEF HandlerTake, books, RestType
  <2>5. JobSound'
    BY <1>1, <1>2, JobSetSound, RetriedSound DEF HandlerTake, JobStates
  <2>6. \A t \in Swaps \ {s} : job'[t] = job[t]
    BY <1>1, <1>2 DEF HandlerTake, Retried, JobSound
  <2>7. Unended'
    BY <1>1, <1>2, <2>6, UnendedJob DEF HandlerTake
  <2>. QED  BY <2>1, <2>4, <2>5, <2>7, SoundNextParts
<1>3. CASE HandlerFail(r, s)
  <2>1. Rows'
    BY <1>1, <1>3, GiveBackGood DEF HandlerFail, Rows
  <2>2. JobSound' /\ run' \in [Runs -> [Swaps -> RunPc]]
    <3>1. CASE Throw(r, s)
      BY <1>1, <3>1, ThrowSound
    <3>2. CASE SetRun(r, s, "committed") /\ UNCHANGED <<job, attempts>>
      BY <1>1, <3>2, SetRunType DEF RunPc, JobSound, AttemptsLeft
    <3>. QED  BY <1>3, <3>1, <3>2 DEF HandlerFail
  <2>3. budget' \in [Faults -> Nat]
    BY <1>1, <1>3, SpendType DEF HandlerFail, Faults, RestType
  <2>4. RestType'
    BY <1>1, <1>3, <2>2, <2>3 DEF HandlerFail, RestType, SetTxn, SetRow, TxStates, RowStates
  <2>5. \A t \in Swaps : job[t] = "none" => job'[t] = "none"
    BY <1>1, <1>3, RunNotNone DEF HandlerFail, Throw, Retried, JobSound
  <2>6. Unended'
    BY <1>1, <1>3, <2>5, UnendedKept DEF HandlerFail
  <2>. QED  BY <2>1, <2>2, <2>4, <2>6, SoundNextParts
<1>4. CASE HandlerSettle(r, s)
  <2>1. Rows' /\ target' \in [base : Nat, internal : Nat]
    <3>1. CASE CanExchange(s) /\ Exchange(s)
      BY <1>1, <3>1, ExchangeGood
    <3>2. CASE UNCHANGED books
      BY <1>1, <3>2 DEF books, Rows, RestType
    <3>. QED  BY <1>4, <3>1, <3>2 DEF HandlerSettle
  <2>2. JobSound' /\ run' \in [Runs -> [Swaps -> RunPc]]
    <3>1. CASE Throw(r, s) \/ Return(r, s)
      BY <1>1, <3>1, ThrowSound, ReturnSound
    <3>2. CASE SetRun(r, s, "committed") /\ UNCHANGED <<job, attempts>>
      BY <1>1, <3>2, SetRunType DEF RunPc, JobSound, AttemptsLeft
    <3>. QED  BY <1>4, <3>1, <3>2 DEF HandlerSettle
  <2>3. budget' \in [Faults -> Nat]
    BY <1>1, <1>4, SpendType DEF HandlerSettle, Faults, RestType
  <2>4. RestType'
    BY <1>1, <1>4, <2>1, <2>2, <2>3 DEF HandlerSettle, MarkSettled, RestType, SetTxn, SetRow, books,
      TxStates, RowStates
  <2>5. \A t \in Swaps : job[t] = "none" => job'[t] = "none"
    BY <1>1, <1>4, RunNotNone DEF HandlerSettle, Throw, Return, Retried, JobSound
  <2>6. Unended'
    BY <1>1, <1>4, <2>5, UnendedKept DEF HandlerSettle
  <2>. QED  BY <2>1, <2>2, <2>4, <2>6, SoundNextParts
<1>5. CASE HandlerFinish(r, s)
  <2>1. Rows'
    BY <1>1, <1>5 DEF HandlerFinish, books, Rows
  <2>2. JobSound' /\ run' \in [Runs -> [Swaps -> RunPc]]
    BY <1>1, <1>5, ThrowSound, ReturnSound DEF HandlerFinish
  <2>3. budget' \in [Faults -> Nat]
    BY <1>1, <1>5, SpendType DEF HandlerFinish, Faults, RestType
  <2>4. RestType'
    BY <1>1, <1>5, <2>2, <2>3 DEF HandlerFinish, books, RestType
  <2>5. \A t \in Swaps : job[t] = "none" => job'[t] = "none"
    BY <1>1, <1>5, RunNotNone DEF HandlerFinish, Throw, Return, Retried, JobSound
  <2>6. Unended'
    BY <1>1, <1>5, <2>5, UnendedKept DEF HandlerFinish
  <2>. QED  BY <2>1, <2>2, <2>4, <2>6, SoundNextParts
<1>. QED  BY <1>2, <1>3, <1>4, <1>5 DEF HandlerStep

\* A retry reserves and gives back; both updates are guarded.
LEMMA SoundRetry ==
    ASSUME Sound, NEW p \in Processors, NEW s \in Swaps, RetryStep(p, s)
    PROVE Sound'
<1>1. Rows /\ RestType /\ JobSound /\ Unended
  BY SoundParts
<1>2. Rows'
  <2>1. CASE RetryReserve(p, s)
    BY <1>1, <2>1, Amounts, ReserveLiquidityGood DEF RetryReserve, Rows
  <2>2. CASE RetryUndo(p, s)
    BY <1>1, <2>2, Amounts, ReleaseLiquidityGood DEF RetryUndo, GivenBack, Rows
  <2>. QED  BY <2>1, <2>2 DEF RetryStep
<1>3. RestType'
  <2>1. \E pc \in {"idle", "reserved"} :
          retry' = [retry EXCEPT ![p][s] = pc]
    BY DEF RetryStep, RetryReserve, RetryUndo
  <2>2. UNCHANGED <<target, txn, row, queued, quidax, confirm, run, budget>>
    BY DEF RetryStep, RetryReserve, RetryUndo, work
  <2>. QED  BY <1>1, <2>1, <2>2 DEF RestType
<1>4. JobSound'
  BY <1>1 DEF RetryStep, RetryReserve, RetryUndo, JobSound, AttemptsLeft, work
<1>5. Unended'
  BY <1>1, UnendedKept DEF RetryStep, RetryReserve, RetryUndo, work
<1>. QED  BY <1>2, <1>3, <1>4, <1>5, SoundNextParts

\* The other steps on one swap.
LEMMA SoundOther ==
    ASSUME Sound, NEW s \in Swaps, QuidaxFinish(s) \/ Stall(s) \/ Expire(s)
    PROVE Sound'
<1>1. Rows /\ RestType /\ JobSound /\ Unended
  BY SoundParts
<1>2. CASE QuidaxFinish(s)
  <2>1. job[s] = "none"
    BY <1>1, <1>2 DEF QuidaxFinish, Unended
  <2>2. JobSound'
    BY <1>1, <1>2, <2>1, JobSetSound DEF QuidaxFinish, JobStates
  <2>3. Rows' /\ RestType'
    BY <1>1, <1>2 DEF QuidaxFinish, books, Rows, RestType, QuidaxStates
  <2>4. Unended'
    BY <1>1, <1>2 DEF QuidaxFinish, Unended, RestType, JobSound
  <2>. QED  BY <2>2, <2>3, <2>4, SoundNextParts
<1>3. CASE Stall(s)
  <2>1. job[s] # "dead" /\ job[s] # "none"
    BY <1>3, RunNotDead, RunNotNone DEF Stall
  <2>2. JobSound'
    BY <1>1, <1>3, <2>1, JobSetSound DEF Stall, JobStates
  <2>3. Rows' /\ RestType'
    BY <1>1, <1>3, SpendType DEF Stall, Faults, books, Rows, RestType
  <2>4. Unended'
    BY <1>1, <1>3, <2>1, UnendedJob DEF Stall, JobSound
  <2>. QED  BY <2>2, <2>3, <2>4, SoundNextParts
<1>4. CASE Expire(s)
  <2>1. Rows'
    BY <1>1, <1>4, Amounts, ReleaseBalanceGood DEF Expire, ExpiryRelease, Rows
  <2>2. RestType'
    BY <1>1, <1>4, SpendType DEF Expire, Faults, work, RestType, SetTxn, TxStates
  <2>3. JobSound' /\ Unended'
    BY <1>1, <1>4, UnendedKept DEF Expire, work, JobSound, AttemptsLeft
  <2>. QED  BY <2>1, <2>2, <2>3, SoundNextParts
<1>. QED  BY <1>2, <1>3, <1>4

LEMMA SoundCrash ==
    ASSUME Sound, Crash
    PROVE Sound'
<1>1. Rows /\ RestType /\ JobSound /\ Unended
  BY SoundParts
<1>2. Rows' /\ RestType'
  BY <1>1, SpendType DEF Crash, Faults, books, Rows, RestType, ConfirmPc, RunPc
<1>3. JobSound'
  BY <1>1, RunNotDead DEF Crash, JobSound, JobStates, AttemptsLeft
<1>4. Unended'
  BY <1>1, RunNotNone, UnendedKept DEF Crash
<1>. QED  BY <1>2, <1>3, <1>4, SoundNextParts

LEMMA SoundNext == Sound /\ [Next]_vars => Sound'
<1> SUFFICES ASSUME Sound, [Next]_vars PROVE Sound'
  OBVIOUS
<1>1. CASE UNCHANGED vars
  BY <1>1 DEF vars, Sound, TypeOK, Solvent, AttemptsLeft, Unended
<1>. QED
  BY <1>1, SoundConfirm, SoundHandler, SoundRetry, SoundOther, SoundCrash DEF Next

---------------------------------------------------------------------------
\* The invariant the theorems follow from.
THEOREM SoundAlways == Spec => []Sound
BY SoundInit, SoundNext, PTL DEF Spec

\* Every column, status, counter and progress of the swap flow keeps its type;
\* no balance and no count of attempts goes below zero.
THEOREM TypeCorrect == Spec => []TypeOK
<1>1. Sound => TypeOK
  BY DEF Sound
<1>. QED  BY <1>1, SoundAlways, PTL

\* No sequence of confirmations, compensations, settlements, failures that run
\* twice, retries and expiries reserves more than a row holds.
THEOREM AlwaysSolvent == Spec => []Solvent
<1>1. Sound => Solvent
  BY DEF Sound
<1>. QED  BY <1>1, SoundAlways, PTL

\* Both together, for any amounts, runs, retries and faults.
THEOREM AlwaysSafe == Spec => []Safe
BY TypeCorrect, AlwaysSolvent, PTL DEF Safe

---------------------------------------------------------------------------
(* How far a swap is, across its records, Quidax and its runs.             *)

\* A confirmation in progress has placed its hold and is not queued; a row, and
\* so a run, is of a confirmed swap that was never queued. What a run is about
\* to do is what Quidax did with the swap, which does not change again.
Flow ==
    \A s \in Swaps :
        /\ confirm[s] = "new" => txn[s] = "none" /\ s \notin queued
        /\ confirm[s] \notin {"new", "done"}
             => txn[s] = "PENDING" /\ s \notin queued
        /\ confirm[s] # "done" => row[s] = "none"
        /\ row[s] # "none" => txn[s] # "none" /\ s \notin queued
        /\ row[s] = "PENDING" => txn[s] = "PENDING"
        /\ txn[s] = "COMPLETED" => quidax[s] = "completed" /\ row[s] # "none"

RunsFollow ==
    \A s \in Swaps, r \in Runs :
        /\ run[r][s] # "idle" => row[s] # "none"
        /\ run[r][s] = "fetched" => quidax[s] = "completed"
        /\ run[r][s] = "failing" => quidax[s] \in {"failed", "reversed"}

\* Unless a job stalls only the run that holds it goes on, and a failure it is
\* about to book has not been booked.
Alone ==
    Untouched({"stall"}) =>
        \A s \in Swaps, r \in Runs :
            /\ run[r][s] # "idle" => job[s] = r
            /\ run[r][s] = "failing" => row[s] = "PENDING"

BudgetBounded == \A f \in Faults : budget[f] <= Budget[f]

Progress == Flow /\ RunsFollow /\ BudgetBounded /\ Alone

LEMMA ProgressInit == Init => Progress
BY SwapAssumption DEF Init, Progress, Flow, RunsFollow, Alone, BudgetBounded

\* Faults are spent, never given back.
LEMMA BudgetFalls ==
    ASSUME RestType, [Next]_vars
    PROVE \A f \in Faults : budget'[f] <= budget[f]
<1>1. ASSUME NEW g \in Faults, Spend(g)
      PROVE \A f \in Faults : budget'[f] <= budget[f]
  BY <1>1 DEF Spend, RestType
<1>2. ASSUME budget' = budget
      PROVE \A f \in Faults : budget'[f] <= budget[f]
  BY <1>2 DEF RestType
<1>3. (\E g \in Faults : Spend(g)) \/ budget' = budget
  <2>1. ASSUME NEW s \in Swaps, ConfirmStep(s)
        PROVE (\E g \in Faults : Spend(g)) \/ budget' = budget
    BY <2>1 DEF ConfirmStep, ConfirmReserve, ConfirmQuidax, ConfirmCompensate, ConfirmRecord, Faults
  <2>2. ASSUME NEW s \in Swaps, NEW r \in Runs, HandlerStep(r, s)
        PROVE (\E g \in Faults : Spend(g)) \/ budget' = budget
    BY <2>2 DEF HandlerStep, HandlerTake, HandlerFail, HandlerSettle, HandlerFinish, Faults
  <2>3. ASSUME NEW s \in Swaps, NEW p \in Processors, RetryStep(p, s)
        PROVE budget' = budget
    BY <2>3 DEF RetryStep, RetryReserve, RetryUndo
  <2>4. ASSUME NEW s \in Swaps, QuidaxFinish(s) \/ Stall(s) \/ Expire(s)
        PROVE (\E g \in Faults : Spend(g)) \/ budget' = budget
    BY <2>4 DEF QuidaxFinish, Stall, Expire, Faults
  <2>5. CASE Crash
    BY <2>5 DEF Crash, Faults
  <2>6. CASE UNCHANGED vars
    BY <2>6 DEF vars
  <2>. QED  BY <2>1, <2>2, <2>3, <2>4, <2>5, <2>6 DEF Next
<1>. QED  BY <1>1, <1>2, <1>3

LEMMA BudgetBoundedNext ==
    RestType /\ RestType' /\ BudgetBounded /\ [Next]_vars => BudgetBounded'
<1>. SUFFICES ASSUME RestType, RestType', BudgetBounded, [Next]_vars
              PROVE BudgetBounded'
  OBVIOUS
<1>1. \A f \in Faults : /\ budget[f] <= Budget[f] /\ Budget[f] \in Nat
                        /\ budget[f] \in Nat /\ budget'[f] \in Nat
  BY SwapAssumption DEF BudgetBounded, RestType
<1>. QED  BY <1>1, BudgetFalls DEF BudgetBounded

\* What has not happened after a step had not happened before it, and is not
\* the step.
LEMMA UntouchedBefore ==
    ASSUME RestType, RestType', BudgetBounded, [Next]_vars,
           NEW F \in SUBSET Faults, Untouched(F)'
    PROVE  Untouched(F) /\ \A f \in F : ~Spend(f)
<1>1. \A f \in F : /\ budget[f] <= Budget[f] /\ budget'[f] = Budget[f]
                   /\ budget'[f] <= budget[f]
                   /\ budget[f] \in Nat /\ Budget[f] \in Nat
  BY SwapAssumption, BudgetFalls DEF BudgetBounded, RestType, Untouched
<1>2. \A f \in F : budget'[f] = budget[f] /\ budget[f] = Budget[f]
  BY <1>1
<1>3. \A f \in F : ~Spend(f)
  BY <1>1, <1>2 DEF Spend, RestType
<1>. QED  BY <1>2, <1>3 DEF Untouched

LEMMA FlowConfirm ==
    ASSUME RestType, Flow, RunsFollow, Unended, NEW s \in Swaps, ConfirmStep(s)
    PROVE  Flow' /\ RunsFollow'
<1>. USE DEF RestType, Flow, RunsFollow
<1>1. CASE ConfirmReserve(s)
  BY <1>1 DEF ConfirmReserve, SetTxn, SetConfirm, work
<1>2. CASE ConfirmQuidax(s)
  <2>1. row[s] = "none" /\ quidax[s] = "none"
    BY <1>2 DEF ConfirmQuidax, Unended
  <2>. QED  BY <1>2, <2>1 DEF ConfirmQuidax, SetConfirm, books, work
<1>3. CASE ConfirmCompensate(s)
  <2>1. row[s] = "none"
    BY <1>3 DEF ConfirmCompensate
  <2>. QED  BY <1>3, <2>1 DEF ConfirmCompensate, SetTxn, SetConfirm, work
<1>4. CASE ConfirmRecord(s)
  BY <1>4 DEF ConfirmRecord, SetRow, SetConfirm, work
<1>. QED  BY <1>1, <1>2, <1>3, <1>4 DEF ConfirmStep

\* A step of a run keeps to the swap's records, and leaves other runs alone.
LEMMA RunsStep ==
    ASSUME RestType, RunsFollow, Unended, NEW r \in Runs, NEW s \in Swaps,
           HandlerStep(r, s)
    PROVE  RunsFollow'
<1>1. UNCHANGED quidax /\ \A t \in Swaps : row[t] # "none" => row'[t] # "none"
  BY DEF HandlerStep, HandlerTake, HandlerFail, HandlerSettle, HandlerFinish, MarkSettled, SetRow,
    books, RestType
<1>2. \/ run' = run
      \/ \E pc \in {"idle", "committed"} :
           /\ run[r][s] # "idle"
           /\ SetRun(r, s, pc)
      \/ /\ row[s] # "none" /\ job[s] = "waiting"
         /\ SetRun(r, s, IF quidax[s] = "completed" THEN "fetched"
                         ELSE "failing")
  BY DEF HandlerStep, HandlerTake, HandlerFail, HandlerSettle, HandlerFinish, Throw, Return
<1>3. job[s] = "waiting" => quidax[s] \in {"completed", "failed", "reversed"}
  BY DEF Unended, RestType, QuidaxStates
<1>4. CASE run' = run
  BY <1>1, <1>4 DEF RunsFollow
<1>5. ASSUME NEW pc \in RunPc, SetRun(r, s, pc), row[s] # "none",
             pc = "fetched" => quidax[s] = "completed",
             pc = "failing" => quidax[s] \in {"failed", "reversed"}
      PROVE  RunsFollow'
  <2> SUFFICES ASSUME NEW t \in Swaps, NEW q \in Runs
               PROVE /\ run'[q][t] # "idle" => row'[t] # "none"
                     /\ run'[q][t] = "fetched" => quidax'[t] = "completed"
                     /\ run'[q][t] = "failing"
                          => quidax'[t] \in {"failed", "reversed"}
    BY DEF RunsFollow
  <2>1. run'[q][t] = IF q = r /\ t = s THEN pc ELSE run[q][t]
    BY <1>5 DEF SetRun, RestType
  <2>. QED  BY <1>1, <1>5, <2>1 DEF RunsFollow
<1>6. CASE \E pc \in {"idle", "committed"} :
             run[r][s] # "idle" /\ SetRun(r, s, pc)
  BY <1>5, <1>6 DEF RunsFollow, RunPc
<1>7. CASE /\ row[s] # "none" /\ job[s] = "waiting"
           /\ SetRun(r, s, IF quidax[s] = "completed" THEN "fetched"
                           ELSE "failing")
  BY <1>3, <1>5, <1>7 DEF RunPc
<1>. QED  BY <1>2, <1>4, <1>6, <1>7

LEMMA FlowHandler ==
    ASSUME RestType, Flow, RunsFollow, NEW r \in Runs, NEW s \in Swaps,
           HandlerStep(r, s)
    PROVE  Flow'
<1>. USE DEF RestType, Flow
<1>1. CASE UNCHANGED <<txn, row>>
  BY <1>1 DEF HandlerStep, HandlerTake, HandlerFail, HandlerSettle, HandlerFinish
<1>2. CASE /\ HandlerFail(r, s) /\ SetTxn(s, "FAILED")
           /\ \E status \in {"FAILED", "reversed"} : SetRow(s, status)
  <2>1. row[s] # "none"
    BY <1>2 DEF HandlerFail, RunsFollow
  <2>. QED  BY <1>2, <2>1 DEF HandlerFail, SetTxn, SetRow
<1>3. CASE HandlerSettle(r, s) /\ MarkSettled(s)
  <2>1. row[s] # "none" /\ quidax[s] = "completed"
    BY <1>3 DEF HandlerSettle, RunsFollow
  <2>. QED  BY <1>3, <2>1 DEF HandlerSettle, MarkSettled, SetTxn, SetRow
<1>. QED
  BY <1>1, <1>2, <1>3 DEF HandlerStep, HandlerTake, HandlerFail, HandlerSettle, HandlerFinish, books

LEMMA FlowNext ==
    ASSUME Sound, Flow, RunsFollow, [Next]_vars
    PROVE  Flow' /\ RunsFollow'
<1>0. RestType /\ Unended
  BY SoundParts
<1>. USE DEF RestType, Flow, RunsFollow
<1>1. ASSUME NEW s \in Swaps, QuidaxFinish(s) PROVE Flow' /\ RunsFollow'
  BY <1>0, <1>1 DEF QuidaxFinish, books
<1>2. ASSUME NEW s \in Swaps, Stall(s) PROVE Flow' /\ RunsFollow'
  BY <1>2 DEF Stall, books
<1>3. ASSUME NEW s \in Swaps, Expire(s) PROVE Flow' /\ RunsFollow'
  <2>1. row[s] = "none" /\ confirm[s] = "done"
    BY <1>0, <1>3 DEF Expire
  <2>. QED  BY <1>0, <1>3, <2>1 DEF Expire, SetTxn, work
<1>4. ASSUME NEW p \in Processors, NEW s \in Swaps, RetryStep(p, s)
      PROVE  Flow' /\ RunsFollow'
  BY <1>4 DEF RetryStep, RetryReserve, RetryUndo, work
<1>5. CASE Crash
  BY <1>0, <1>5 DEF Crash, books
<1>6. CASE UNCHANGED vars
  BY <1>6 DEF vars
<1>. QED
  BY <1>0, <1>1, <1>2, <1>3, <1>4, <1>5, <1>6, FlowConfirm, FlowHandler, RunsStep DEF Next

\* Without a stall, a run that is not idle is the only one of its swap.
LEMMA AloneKept ==
    ASSUME Alone, Untouched({"stall"})' => Untouched({"stall"}),
           \A s \in Swaps, r \in Runs : run[r][s] # "idle" /\ job[s] = r =>
               job'[s] = r,
           \A s \in Swaps, r \in Runs : run'[r][s] # "idle" => run[r][s] # "idle",
           \A s \in Swaps, r \in Runs :
               run'[r][s] = "failing" =>
                   run[r][s] = "failing" /\ row'[s] = row[s]
    PROVE  Alone'
BY DEF Alone

LEMMA AloneHandler ==
    ASSUME RestType, JobSound, RunsFollow, Alone, Untouched({"stall"}),
           NEW r \in Runs, NEW s \in Swaps, HandlerStep(r, s)
    PROVE  Alone'
<1>1. \A t \in Swaps, q \in Runs : /\ run[q][t] # "idle" => job[t] = q
                                   /\ run[q][t] = "failing" => row[t] = "PENDING"
  BY DEF Alone
<1>2. /\ \A t \in Swaps \ {s} : job'[t] = job[t] /\ row'[t] = row[t]
      /\ \A t \in Swaps \ {s}, q \in Runs : run'[q][t] = run[q][t]
  <2>1. \A t \in Swaps \ {s} : job'[t] = job[t]
    BY DEF HandlerStep, HandlerTake, HandlerFail, HandlerSettle, HandlerFinish, Throw, Return,
      Retried, JobSound
  <2>2. \A t \in Swaps \ {s} : row'[t] = row[t]
    BY DEF HandlerStep, HandlerTake, HandlerFail, HandlerSettle, HandlerFinish, MarkSettled, SetRow,
      books, RestType
  <2>3. run' = run \/ \E pc \in RunPc : SetRun(r, s, pc)
    BY DEF HandlerStep, HandlerTake, HandlerFail, HandlerSettle, HandlerFinish, Throw, Return, RunPc
  <2>. QED  BY <2>1, <2>2, <2>3 DEF SetRun, RestType
<1>3. ASSUME NEW q \in Runs
      PROVE  /\ run'[q][s] # "idle" => job'[s] = q
             /\ run'[q][s] = "failing" => row'[s] = "PENDING"
  <2>1. CASE HandlerTake(r, s)
    <3>1. \A p \in Runs : run[p][s] = "idle"
      BY <1>1, <2>1, RunNotNone DEF HandlerTake
    <3>2. CASE run' = run
      BY <3>1, <3>2
    <3>3. CASE /\ row[s] # "none" /\ ~Terminal(s)
               /\ job' = [job EXCEPT ![s] = r]
               /\ SetRun(r, s, IF quidax[s] = "completed" THEN "fetched"
                               ELSE "failing")
      <4>1. row[s] = "PENDING" /\ row' = row
        BY <2>1, <3>3 DEF HandlerTake, Terminal, RestType, RowStates, books
      <4>2. job'[s] = r
        BY <3>3 DEF JobSound
      <4>3. q # r => run'[q][s] = "idle"
        BY <3>1, <3>3 DEF SetRun, RestType
      <4>. QED  BY <4>1, <4>2, <4>3
    <3>. QED  BY <2>1, <3>2, <3>3 DEF HandlerTake
  <2>2. CASE ~HandlerTake(r, s)
    <3>1. run[r][s] # "idle"
      BY <2>2 DEF HandlerStep, HandlerFail, HandlerSettle, HandlerFinish
    <3>2. \A p \in Runs : p # r => run[p][s] = "idle"
      BY <1>1, <3>1
    <3>3. \/ SetRun(r, s, "idle")
          \/ SetRun(r, s, "committed") /\ job' = job
      BY <2>2 DEF HandlerStep, HandlerFail, HandlerSettle, HandlerFinish, Throw, Return
    <3>4. q # r => run'[q][s] = "idle"
      BY <3>2, <3>3 DEF SetRun, RestType
    <3>5. \/ run'[r][s] = "idle"
          \/ run'[r][s] = "committed" /\ job'[s] = job[s]
      BY <3>3 DEF SetRun, RestType
    <3>. QED  BY <1>1, <3>1, <3>4, <3>5
  <2>. QED  BY <2>1, <2>2
<1>. QED  BY <1>1, <1>2, <1>3 DEF Alone

LEMMA AloneNext ==
    ASSUME Sound, Flow, RunsFollow, Alone, [Next]_vars,
           Untouched({"stall"})' => Untouched({"stall"}) /\ ~Spend("stall")
    PROVE  Alone'
<1>. SUFFICES ASSUME Untouched({"stall"})' PROVE Alone'
  BY DEF Alone
<1>0. RestType /\ JobSound /\ Unended /\ Untouched({"stall"})
  BY SoundParts
<1>1. ASSUME NEW s \in Swaps, ConfirmStep(s) PROVE Alone'
  <2>1. UNCHANGED <<job, run>>
    BY <1>1 DEF ConfirmStep, ConfirmReserve, ConfirmQuidax, ConfirmCompensate, ConfirmRecord, work
  <2>2. \A t \in Swaps : row[t] # "none" => row'[t] = row[t]
    BY <1>0, <1>1 DEF ConfirmStep, ConfirmReserve, ConfirmQuidax, books, Flow, ConfirmCompensate,
      ConfirmRecord, SetRow, RestType
  <2>. QED  BY <1>0, <2>1, <2>2, AloneKept DEF RunsFollow
<1>2. ASSUME NEW s \in Swaps, QuidaxFinish(s) PROVE Alone'
  <2>1. job[s] = "none"
    BY <1>0, <1>2 DEF QuidaxFinish, Unended
  <2>2. \A t \in Swaps \ {s} : job'[t] = job[t]
    BY <1>0, <1>2 DEF QuidaxFinish, JobSound
  <2>. QED
    BY <1>0, <1>2, <2>1, <2>2, RunNotNone, AloneKept DEF QuidaxFinish, books
<1>3. ASSUME NEW s \in Swaps PROVE ~Stall(s)
  BY DEF Stall
<1>4. ASSUME NEW s \in Swaps, Expire(s) PROVE Alone'
  BY <1>0, <1>4, AloneKept DEF Expire, work
<1>5. ASSUME NEW p \in Processors, NEW s \in Swaps, RetryStep(p, s)
      PROVE  Alone'
  BY <1>0, <1>5, AloneKept DEF RetryStep, RetryReserve, RetryUndo, work
<1>6. CASE Crash
  BY <1>6 DEF Crash, Alone
<1>7. CASE UNCHANGED vars
  BY <1>0, <1>7, AloneKept DEF vars
<1>. QED
  BY <1>0, <1>1, <1>2, <1>3, <1>4, <1>5, <1>6, <1>7, AloneHandler DEF Next

LEMMA ProgressNext == Sound /\ Sound' /\ Progress /\ [Next]_vars => Progress'
<1>. SUFFICES ASSUME Sound, Sound', Progress, [Next]_vars PROVE Progress'
  OBVIOUS
<1>1. RestType /\ RestType' /\ {"stall"} \subseteq Faults
  BY DEF Sound, TypeOK, RestType, Faults
<1>2. Flow /\ RunsFollow /\ BudgetBounded /\ Alone
  BY DEF Progress
<1>3. Untouched({"stall"})' => Untouched({"stall"}) /\ ~Spend("stall")
  BY <1>1, <1>2, UntouchedBefore
<1>. QED
  BY <1>1, <1>2, <1>3, FlowNext, AloneNext, BudgetBoundedNext DEF Progress

\* How far each swap is, for every interleaving.
THEOREM ProgressAlways == Spec => [](Sound /\ Progress)
BY SoundAlways, ProgressInit, ProgressNext, PTL DEF Spec

---------------------------------------------------------------------------
(* What a step does to the money of one swap.                              *)

Placed(s) ==
    /\ txn[s] = "none" /\ s \notin queued
    /\ CanReserveBalance(wallet, Held(s))
    /\ wallet' = ReserveBalance(wallet, Held(s))
    /\ SetTxn(s, "PENDING")
    /\ \/ company' = ReserveLiquidity(company, Exact[s]) /\ queued' = queued
       \/ company' = company /\ queued' = queued \cup {s}
    /\ UNCHANGED <<target, retry>>

Exchanged(s) ==
    /\ txn[s] = "PENDING" /\ s \notin queued
    /\ CanExchange(s) /\ Exchange(s)
    /\ SetTxn(s, "COMPLETED")
    /\ UNCHANGED <<queued, retry>>

\* A failure is booked once unless a job stalled.
Returned(s) ==
    /\ txn[s] # "COMPLETED"
    /\ Untouched({"stall"}) => txn[s] = "PENDING" /\ s \notin queued
    /\ CanGiveBack(s) /\ GiveBack(s)
    /\ SetTxn(s, "FAILED")
    /\ UNCHANGED <<target, queued, retry>>

Kept ==
    /\ UNCHANGED <<wallet, company, target, txn, queued>>
    /\ retry' = retry \/ Crash

MoneyStep(s) == \/ Placed(s) \/ Exchanged(s) \/ Returned(s) \/ Expire(s)
                \/ \E p \in Processors : RetryStep(p, s)

LEMMA MoneySteps ==
    ASSUME RestType, Progress, [Next]_vars
    PROVE  Kept \/ \E s \in Swaps : MoneyStep(s)
<1>. USE DEF Kept, MoneyStep
<1>0. Flow /\ RunsFollow /\ Alone
  BY DEF Progress
<1>1. ASSUME NEW s \in Swaps, ConfirmStep(s) PROVE Kept \/ MoneyStep(s)
  <2>1. CASE ConfirmReserve(s)
    BY <1>0, <2>1 DEF ConfirmReserve, Flow, Placed
  <2>2. CASE ConfirmCompensate(s)
    BY <1>0, <2>2 DEF ConfirmCompensate, Flow, Returned
  <2>. QED
    BY <1>1, <2>1, <2>2 DEF ConfirmStep, ConfirmQuidax, ConfirmRecord, books
<1>2. ASSUME NEW s \in Swaps, NEW r \in Runs, HandlerStep(r, s)
      PROVE  Kept \/ MoneyStep(s)
  <2>1. CASE HandlerFail(r, s)
    <3>1. Untouched({"stall"}) => row[s] = "PENDING"
      BY <1>0, <2>1 DEF HandlerFail, Alone
    <3>2. quidax[s] \in {"failed", "reversed"}
      BY <1>0, <2>1 DEF HandlerFail, RunsFollow
    <3>. QED  BY <1>0, <2>1, <3>1, <3>2 DEF HandlerFail, Flow, Returned
  <2>2. CASE HandlerSettle(r, s)
    <3>1. row[s] # "none"
      BY <1>0, <2>2 DEF HandlerSettle, RunsFollow
    <3>2. Unsettled(s) => txn[s] = "PENDING"
      BY <1>0, <3>1 DEF Unsettled, Flow, RestType, TxStates
    <3>. QED
      BY <1>0, <2>2, <3>1, <3>2 DEF HandlerSettle, Flow, MarkSettled, Exchanged, books
  <2>. QED
    BY <1>2, <2>1, <2>2 DEF HandlerStep, HandlerTake, HandlerFinish, books
<1>3. ASSUME NEW s \in Swaps, QuidaxFinish(s) \/ Stall(s) PROVE Kept
  BY <1>3 DEF QuidaxFinish, Stall, books
<1>4. CASE Crash \/ UNCHANGED vars
  BY <1>4 DEF Crash, books, vars
<1>. QED  BY <1>1, <1>2, <1>3, <1>4 DEF Next

\* The updates of the two rows, column by column.
LEMMA RowUpdates ==
    ASSUME Rows, RestType, NEW s \in Swaps
    PROVE  /\ ReserveBalance(wallet, Held(s)).base = wallet.base
           /\ ReleaseBalance(wallet, Held(s)).base = wallet.base
           /\ ReleaseBalance(wallet, ExpiryRelease(s)).base = wallet.base
           /\ \A c \in CompanyAccounts :
                /\ ReserveLiquidity(c, Exact[s]).reserved = c.reserved + Exact[s]
                /\ ReserveLiquidity(c, Exact[s]).internal = c.internal
                /\ ReleaseLiquidity(c, Exact[s]).reserved = c.reserved - Exact[s]
                /\ ReleaseLiquidity(c, Exact[s]).internal = c.internal
BY DEF Rows, GoodWallet, Wallets, CompanyAccounts, ReserveBalance, ReleaseBalance, ReserveLiquidity,
  ReleaseLiquidity

LEMMA ExchangeUpdates ==
    ASSUME Rows, RestType, NEW s \in Swaps, CanExchange(s), Exchange(s)
    PROVE  /\ wallet'.base = wallet.base - Held(s)
           /\ company'.internal = company.internal - Exact[s]
           /\ company'.reserved = company.reserved - Exact[s]
           /\ target'.base = target.base + Received[s]
           /\ target'.internal = target.internal + Received[s]
<1>1. wallet'.base = wallet.base - Held(s)
  BY DEF Exchange, FinalizeBalance, Rows, GoodWallet, Wallets
<1>. DEFINE c == SubtractInternal(company, Exact[s])
<1>2. GoodCompany(c)
  BY Amounts, SubtractInternalGood DEF CanExchange, Rows
<1>3. c.reserved = company.reserved /\ c.internal = company.internal - Exact[s]
  BY DEF Rows, GoodCompany, CompanyAccounts, SubtractInternal
<1>4. company' = ReleaseLiquidity(c, Exact[s])
  BY DEF Exchange
<1>5. /\ company'.internal = c.internal
      /\ company'.reserved = c.reserved - Exact[s]
  <2>. HIDE DEF c
  <2>. QED  BY <1>2, <1>4, RowUpdates DEF GoodCompany
<1>6. /\ target'.base = target.base + Received[s]
      /\ target'.internal = target.internal + Received[s]
  BY DEF Exchange
<1>. QED  BY <1>1, <1>3, <1>5, <1>6

---------------------------------------------------------------------------
(* Exchanged together: sums over the completed swaps.                      *)

LEMMA ExchangedInit == Init => ExchangedTogether
<1>. SUFFICES ASSUME Init PROVE ExchangedTogether
  OBVIOUS
<1>1. In("COMPLETED") = {}
  BY DEF Init, In
<1>2. \A f : SumFunctionOnSet(f, In("COMPLETED")) = 0
  BY <1>1, SumEmpty
<1>. QED  BY <1>2, SwapAssumption DEF Init, ExchangedTogether

\* Steps that complete no swap and move none of the four balances.
LEMMA ExchangedKept ==
    ASSUME ExchangedTogether, In("COMPLETED")' = In("COMPLETED"),
           wallet'.base = wallet.base, company'.internal = company.internal,
           target' = target
    PROVE  ExchangedTogether'
BY DEF ExchangedTogether

LEMMA ExchangedNext ==
    Sound /\ Progress /\ ExchangedTogether /\ [Next]_vars => ExchangedTogether'
<1>. SUFFICES ASSUME Sound, Progress, ExchangedTogether, [Next]_vars
              PROVE  ExchangedTogether'
  OBVIOUS
<1>0. Rows /\ RestType
  BY SoundParts
<1>1. CASE Kept
  BY <1>1, ExchangedKept DEF Kept, In
<1>2. ASSUME NEW s \in Swaps, Exchanged(s) PROVE ExchangedTogether'
  <2>. DEFINE C == In("COMPLETED")
              Of(f) == SumFunctionOnSet(f, C)
  <2>1. s \notin C /\ C' = C \cup {s} /\ C \subseteq Swaps
    BY <1>0, <1>2 DEF Exchanged, SetTxn, In, RestType
  <2>2. IsFiniteSet(C)
    BY <2>1, FiniteAssumption, FS_Subset
  <2>3. ASSUME NEW f \in [Swaps -> Nat]
        PROVE  SumFunctionOnSet(f, C') = f[s] + Of(f) /\ Of(f) \in Nat
    <3>1. \A x \in C \cup {s} : f[x] \in Nat
      BY <2>1
    <3>. HIDE DEF C
    <3>2. SumFunctionOnSet(f, C \cup {s}) = f[s] + SumFunctionOnSet(f, C)
      BY <2>1, <2>2, <3>1, SumAdd
    <3>3. SumFunctionOnSet(f, C) \in Nat
      BY <2>2, <3>1, SumNatural
    <3>. QED  BY <2>1, <3>2, <3>3
  <2>4. /\ InitialBase - wallet.base = Of(Exact) + Of(Fee)
        /\ InitialBase - company.internal = Of(Exact)
        /\ target.base = Of(Received) /\ target.internal = Of(Received)
    BY DEF ExchangedTogether
  <2>5. /\ wallet'.base = wallet.base - (Exact[s] + Fee[s])
        /\ company'.internal = company.internal - Exact[s]
        /\ target'.base = target.base + Received[s]
        /\ target'.internal = target.internal + Received[s]
    BY <1>0, <1>2, ExchangeUpdates DEF Exchanged, Held
  <2>6. /\ wallet.base \in Nat /\ company.internal \in Nat /\ InitialBase \in Nat
        /\ Exact[s] \in Nat /\ Fee[s] \in Nat /\ Received[s] \in Nat
    BY <1>0, SwapAssumption DEF Rows, GoodWallet, GoodCompany, Wallets, CompanyAccounts
  <2>. HIDE DEF C
  <2>7. /\ SumFunctionOnSet(Exact, C') = Exact[s] + Of(Exact)
        /\ SumFunctionOnSet(Fee, C') = Fee[s] + Of(Fee)
        /\ SumFunctionOnSet(Received, C') = Received[s] + Of(Received)
        /\ Of(Exact) \in Nat /\ Of(Fee) \in Nat /\ Of(Received) \in Nat
    BY <2>3, SwapAssumption
  <2>. HIDE DEF Of
  <2>8. /\ InitialBase - wallet'.base
             = SumFunctionOnSet(Exact, C') + SumFunctionOnSet(Fee, C')
        /\ InitialBase - company'.internal = SumFunctionOnSet(Exact, C')
        /\ target'.base = SumFunctionOnSet(Received, C')
        /\ target'.internal = SumFunctionOnSet(Received, C')
    BY <2>4, <2>5, <2>6, <2>7
  <2>. QED  BY <2>8 DEF ExchangedTogether, C
<1>3. ASSUME NEW s \in Swaps, MoneyStep(s), ~Exchanged(s)
      PROVE  ExchangedTogether'
  <2>1. target' = target
    BY <1>3 DEF MoneyStep, Placed, Returned, Expire, RetryStep, RetryReserve, RetryUndo
  <2>2. wallet'.base = wallet.base
    BY <1>0, <1>3, RowUpdates DEF MoneyStep, Placed, Returned, GiveBack, Expire, RetryStep,
      RetryReserve, RetryUndo
  <2>3. company'.internal = company.internal
    BY <1>0, <1>3, RowUpdates DEF MoneyStep, Placed, Returned, GiveBack, Expire, RetryStep,
      RetryReserve, RetryUndo, GivenBack, Rows, GoodCompany
  <2>4. \/ txn' = txn
        \/ /\ txn[s] # "COMPLETED"
           /\ \E status \in {"PENDING", "FAILED"} : SetTxn(s, status)
    BY <1>3 DEF MoneyStep, Placed, Returned, Expire, RetryStep, RetryReserve, RetryUndo
  <2>5. In("COMPLETED")' = In("COMPLETED")
    BY <1>0, <2>4 DEF SetTxn, In, RestType
  <2>. QED  BY <2>1, <2>2, <2>3, <2>5, ExchangedKept
<1>. QED  BY <1>0, <1>1, <1>2, <1>3, MoneySteps DEF MoneyStep

\* Whichever of two runs settles a swap, and wherever the others stop, the four
\* balances in two currencies have moved by the completed swaps, each once.
THEOREM AlwaysExchangedTogether == Spec => []ExchangedTogether
BY ProgressAlways, ExchangedInit, ExchangedNext, PTL DEF Spec

---------------------------------------------------------------------------
(* The company's reservation: sums over the committed swaps and the retries. *)

Committed == In("PENDING") \ queued
Retrying(p) == {s \in Swaps : retry[p][s] = "reserved"}
OfRetry == [p \in Processors |-> SumFunctionOnSet(Exact, Retrying(p))]
OfCommitted == SumFunctionOnSet(Exact, Committed)
OfRetries == SumFunctionOnSet(OfRetry, Processors)

\* Without a stall what is reserved is what the swaps and the retries need,
\* and, after a crash, what the retries it ended had reserved.
Backed ==
    Untouched({"stall"}) =>
        /\ company.reserved >= OfCommitted + OfRetries
        /\ Untouched({"crash"}) => company.reserved = OfCommitted + OfRetries

LEMMA ExactSums ==
    ASSUME NEW S \in SUBSET Swaps
    PROVE  /\ IsFiniteSet(S)
           /\ SumFunctionOnSet(Exact, S) \in Nat
           /\ \A s \in Swaps \ S : SumFunctionOnSet(Exact, S \cup {s})
                                     = Exact[s] + SumFunctionOnSet(Exact, S)
           /\ \A s \in S : SumFunctionOnSet(Exact, S)
                             = Exact[s] + SumFunctionOnSet(Exact, S \ {s})
<1>1. IsFiniteSet(S)
  BY FiniteAssumption, FS_Subset
<1>2. \A s \in Swaps : Exact[s] \in Nat
  BY SwapAssumption
<1>3. SumFunctionOnSet(Exact, S) \in Nat
  BY <1>1, <1>2, SumNatural
<1>4. ASSUME NEW s \in Swaps \ S
      PROVE  SumFunctionOnSet(Exact, S \cup {s})
               = Exact[s] + SumFunctionOnSet(Exact, S)
  <2>1. \A y \in S \cup {s} : Exact[y] \in Int
    BY <1>2
  <2>. QED  BY <1>1, <2>1, SumAdd
<1>5. ASSUME NEW s \in S
      PROVE  SumFunctionOnSet(Exact, S)
               = Exact[s] + SumFunctionOnSet(Exact, S \ {s})
  <2>1. \A y \in S : Exact[y] \in Int
    BY <1>2
  <2>. QED  BY <1>1, <2>1, SumRemove
<1>. QED  BY <1>1, <1>3, <1>4, <1>5

LEMMA RetrySums ==
    /\ \A p \in Processors : OfRetry[p] \in Nat
    /\ OfRetries \in Nat
    /\ OfCommitted \in Nat
<1>1. \A p \in Processors : OfRetry[p] \in Nat
  BY ExactSums DEF OfRetry, Retrying
<1>2. OfRetries \in Nat
  BY <1>1, FiniteAssumption, SumNatural DEF OfRetries
<1>3. OfCommitted \in Nat
  <2>1. Committed \in SUBSET Swaps
    BY DEF Committed, In
  <2>. QED  BY <2>1, ExactSums DEF OfCommitted
<1>. QED  BY <1>1, <1>2, <1>3

\* One retry reserves for a swap or gives back.
LEMMA RetryReserves ==
    ASSUME RestType, NEW p \in Processors, NEW s \in Swaps
    PROVE  /\ RetryReserve(p, s) => OfRetries' = OfRetries + Exact[s]
           /\ RetryUndo(p, s) => /\ OfRetries' = OfRetries - Exact[s]
                                 /\ Exact[s] <= OfRetries
<1>1. ASSUME NEW h \in [Processors -> Nat], OfRetry' = h,
             \A q \in Processors \ {p} : h[q] = OfRetry[q]
      PROVE  OfRetries' = OfRetries + h[p] - OfRetry[p]
  <2>1. \A q \in Processors : OfRetry[q] \in Int /\ h[q] \in Int
    BY RetrySums
  <2>2. SumFunctionOnSet(h, Processors)
          = SumFunctionOnSet(OfRetry, Processors) + h[p] - OfRetry[p]
    <3>. HIDE DEF OfRetry
    <3>. QED  BY <1>1, <2>1, FiniteAssumption, SumChange
  <2>. QED  BY <1>1, <2>2 DEF OfRetries
<1>2. OfRetry' \in [Processors -> Nat]
  <2>1. \A q \in Processors : SumFunctionOnSet(Exact, Retrying(q)') \in Nat
    <3>1. \A q \in Processors : Retrying(q)' \in SUBSET Swaps
      BY DEF Retrying
    <3>. QED  BY <3>1, ExactSums
  <2>. QED  BY <2>1 DEF OfRetry
<1>3. OfRetries \in Nat /\ OfRetry[p] \in Nat /\ Exact[s] \in Nat
  BY RetrySums, SwapAssumption
<1>4. ASSUME \A q \in Processors \ {p} : Retrying(q)' = Retrying(q)
      PROVE  \A q \in Processors \ {p} : OfRetry'[q] = OfRetry[q]
  BY <1>4 DEF OfRetry
<1>5. OfRetry[p] = SumFunctionOnSet(Exact, Retrying(p))
      /\ OfRetry'[p] = SumFunctionOnSet(Exact, Retrying(p)')
  BY DEF OfRetry
<1>6. ASSUME RetryReserve(p, s) PROVE OfRetries' = OfRetries + Exact[s]
  <2>1. /\ Retrying(p) = {} /\ Retrying(p)' = {s}
        /\ \A q \in Processors \ {p} : Retrying(q)' = Retrying(q)
    BY <1>6 DEF RetryReserve, Retrying, RestType
  <2>2. SumFunctionOnSet(Exact, {} \cup {s}) = Exact[s] + 0
    BY ExactSums, SumEmpty
  <2>3. {} \cup {s} = {s}
    OBVIOUS
  <2>4. OfRetry[p] = 0 /\ OfRetry'[p] = Exact[s]
    BY <1>3, <1>5, <2>1, <2>2, <2>3, SumEmpty
  <2>. QED  BY <1>1, <1>2, <1>3, <1>4, <2>1, <2>4
<1>7. ASSUME RetryUndo(p, s)
      PROVE  OfRetries' = OfRetries - Exact[s] /\ Exact[s] <= OfRetries
  <2>1. /\ s \in Retrying(p) /\ Retrying(p)' = Retrying(p) \ {s}
        /\ \A q \in Processors \ {p} : Retrying(q)' = Retrying(q)
    BY <1>7 DEF RetryUndo, Retrying, RestType
  <2>2. OfRetry[p] = Exact[s] + OfRetry'[p]
    <3>1. Retrying(p) \in SUBSET Swaps
      BY DEF Retrying
    <3>. QED  BY <1>5, <2>1, <3>1, ExactSums
  <2>3. OfRetries' = OfRetries + OfRetry'[p] - OfRetry[p]
    BY <1>1, <1>2, <1>4, <2>1
  <2>4. OfRetries' \in Nat
    BY <1>2, FiniteAssumption, SumNatural DEF OfRetries
  <2>. QED  BY <1>2, <1>3, <2>2, <2>3, <2>4
<1>. QED  BY <1>6, <1>7

LEMMA BackedInit == Init => Backed
<1>. SUFFICES ASSUME Init PROVE Backed
  OBVIOUS
<1>1. OfCommitted = 0
  <2>1. Committed = {}
    BY DEF Init, Committed, In
  <2>. QED  BY <2>1, SumEmpty DEF OfCommitted
<1>2. OfRetries = 0
  <2>1. \A p \in Processors : Retrying(p) = {}
    BY DEF Init, Retrying
  <2>2. \A p \in Processors : OfRetry[p] = 0
    BY <2>1, SumEmpty DEF OfRetry
  <2>. QED  BY <2>2, FiniteAssumption, SumZero DEF OfRetries
<1>3. company.reserved = 0
  BY DEF Init
<1>. QED  BY <1>1, <1>2, <1>3 DEF Backed

\* A process that dies forgets what its retries had reserved.
LEMMA CrashForgets ==
    ASSUME Crash
    PROVE  OfRetries' = 0
<1>1. \A p \in Processors : Retrying(p)' = {}
  BY DEF Crash, Retrying
<1>2. \A p \in Processors : OfRetry'[p] = 0
  BY <1>1, SumEmpty DEF OfRetry
<1>. QED  BY <1>2, FiniteAssumption, SumZero DEF OfRetries

\* What a step adds to or takes from the swaps the company committed to.
LEMMA CommittedSums ==
    ASSUME RestType, NEW s \in Swaps
    PROVE  /\ Committed' = Committed => OfCommitted' = OfCommitted
           /\ s \notin Committed /\ Committed' = Committed \cup {s}
                => OfCommitted' = OfCommitted + Exact[s]
           /\ s \in Committed /\ Committed' = Committed \ {s}
                => /\ OfCommitted' = OfCommitted - Exact[s]
                   /\ Exact[s] <= OfCommitted
<1>1. Committed \in SUBSET Swaps /\ Exact[s] \in Nat
  BY SwapAssumption DEF Committed, In
<1>2. Committed \ {s} \in SUBSET Swaps
  BY <1>1
<1>3. SumFunctionOnSet(Exact, Committed \ {s}) \in Nat
  BY <1>2, ExactSums
<1>4. SumFunctionOnSet(Exact, Committed) \in Nat
  BY <1>1, ExactSums
<1>5. s \notin Committed => SumFunctionOnSet(Exact, Committed \cup {s})
                              = Exact[s] + SumFunctionOnSet(Exact, Committed)
  BY <1>1, ExactSums
<1>6. s \in Committed => SumFunctionOnSet(Exact, Committed)
                           = Exact[s] + SumFunctionOnSet(Exact, Committed \ {s})
  BY <1>1, ExactSums
<1>. HIDE DEF Committed
<1>7. ASSUME Committed' = Committed PROVE OfCommitted' = OfCommitted
  BY <1>7 DEF OfCommitted
<1>8. ASSUME s \notin Committed, Committed' = Committed \cup {s}
      PROVE  OfCommitted' = OfCommitted + Exact[s]
  BY <1>1, <1>4, <1>5, <1>8 DEF OfCommitted
<1>9. ASSUME s \in Committed, Committed' = Committed \ {s}
      PROVE  OfCommitted' = OfCommitted - Exact[s] /\ Exact[s] <= OfCommitted
  BY <1>1, <1>3, <1>6, <1>9 DEF OfCommitted
<1>. QED  BY <1>7, <1>8, <1>9

LEMMA BackedNext ==
    Sound /\ Sound' /\ Progress /\ Backed /\ [Next]_vars => Backed'
<1>. SUFFICES ASSUME Sound, Sound', Progress, Backed, [Next]_vars,
                     Untouched({"stall"})'
              PROVE  Backed'
  BY DEF Backed
<1>0. Rows /\ RestType /\ RestType' /\ BudgetBounded
  BY SoundParts DEF Progress, Sound, TypeOK, RestType
<1>1. Untouched({"stall"})
  BY <1>0, UntouchedBefore DEF Faults
<1>2. Untouched({"crash"})' => Untouched({"crash"}) /\ ~Crash
  BY <1>0, UntouchedBefore DEF Faults, Crash
<1>3. /\ company.reserved >= OfCommitted + OfRetries
      /\ Untouched({"crash"}) => company.reserved = OfCommitted + OfRetries
  BY <1>1 DEF Backed
<1>4. /\ company.reserved \in Nat /\ OfCommitted \in Nat /\ OfRetries \in Nat
      /\ \A s \in Swaps : Exact[s] \in Nat
      /\ company \in CompanyAccounts
  BY <1>0, RetrySums, SwapAssumption DEF Rows, GoodCompany, CompanyAccounts
<1>5. ASSUME NEW a \in Int, NEW b \in Int, OfCommitted' = OfCommitted + a,
             OfRetries' = OfRetries + b,
             company'.reserved = company.reserved + a + b
      PROVE  Backed'
  BY <1>2, <1>3, <1>4, <1>5 DEF Backed
<1>6. ASSUME retry' = retry PROVE OfRetries' = OfRetries
  BY <1>6 DEF OfRetries, OfRetry, Retrying
<1>7. CASE Kept
  <2>1. Committed' = Committed
    BY <1>7 DEF Kept, Committed, In
  <2>2. OfCommitted' = OfCommitted
    BY <2>1 DEF OfCommitted
  <2>3. company'.reserved = company.reserved
    BY <1>7 DEF Kept
  <2>4. CASE retry' = retry
    BY <1>4, <1>5, <1>6, <2>2, <2>3, <2>4
  <2>5. CASE Crash
    BY <1>2, <1>3, <1>4, <2>2, <2>3, <2>5, CrashForgets DEF Backed
  <2>. QED  BY <1>7, <2>4, <2>5 DEF Kept
<1>8. ASSUME NEW s \in Swaps, Placed(s) PROVE Backed'
  <2>1. s \notin Committed /\ retry' = retry
    BY <1>8 DEF Placed, Committed, In
  <2>2. CASE company' = ReserveLiquidity(company, Exact[s]) /\ queued' = queued
    <3>1. Committed' = Committed \cup {s}
      BY <1>0, <1>8, <2>2 DEF Placed, SetTxn, Committed, In, RestType
    <3>2. company'.reserved = company.reserved + Exact[s]
      BY <1>0, <1>4, <2>2, RowUpdates
    <3>. QED
      BY <1>0, <1>4, <1>5, <1>6, <2>1, <3>1, <3>2, CommittedSums
  <2>3. CASE company' = company /\ queued' = queued \cup {s}
    <3>1. Committed' = Committed
      BY <1>0, <1>8, <2>1, <2>3 DEF Placed, SetTxn, Committed, In, RestType
    <3>. QED  BY <1>0, <1>4, <1>5, <1>6, <2>1, <2>3, <3>1, CommittedSums
  <2>. QED  BY <1>8, <2>2, <2>3 DEF Placed
<1>9. ASSUME NEW s \in Swaps, Exchanged(s) \/ Returned(s) PROVE Backed'
  <2>1. s \in Committed /\ retry' = retry
    BY <1>1, <1>9 DEF Exchanged, Returned, Committed, In
  <2>2. Committed' = Committed \ {s}
    BY <1>0, <1>9 DEF Exchanged, Returned, SetTxn, Committed, In, RestType
  <2>3. company'.reserved = company.reserved - Exact[s]
    BY <1>0, <1>4, <1>9, RowUpdates, ExchangeUpdates DEF Exchanged, Returned, GiveBack
  <2>4. OfCommitted' = OfCommitted - Exact[s] /\ OfRetries' = OfRetries
    BY <1>0, <1>6, <2>1, <2>2, CommittedSums
  <2>5. /\ OfCommitted' = OfCommitted + (0 - Exact[s])
        /\ OfRetries' = OfRetries + 0
        /\ company'.reserved = company.reserved + (0 - Exact[s]) + 0
    BY <1>4, <2>3, <2>4
  <2>. QED  BY <1>4, <1>5, <2>5
<1>10. ASSUME NEW s \in Swaps, Expire(s) PROVE Backed'
  <2>1. Committed' = Committed
    BY <1>0, <1>10 DEF Expire, SetTxn, Committed, In, RestType
  <2>. QED
    BY <1>0, <1>4, <1>5, <1>6, <1>10, <2>1, CommittedSums DEF Expire
<1>11. ASSUME NEW s \in Swaps, NEW p \in Processors, RetryStep(p, s)
       PROVE  Backed'
  <2>1. Committed' = Committed
    BY <1>11 DEF RetryStep, RetryReserve, RetryUndo, Committed, In
  <2>2. OfCommitted' = OfCommitted
    BY <2>1 DEF OfCommitted
  <2>3. CASE RetryReserve(p, s)
    <3>1. company'.reserved = company.reserved + Exact[s]
      BY <1>0, <1>4, <2>3, RowUpdates DEF RetryReserve
    <3>. QED  BY <1>0, <1>4, <1>5, <2>2, <2>3, <3>1, RetryReserves
  <2>4. CASE RetryUndo(p, s)
    <3>1. /\ OfRetries' = OfRetries - Exact[s] /\ Exact[s] <= OfRetries
      BY <1>0, <2>4, RetryReserves
    <3>2. CanReleaseLiquidity(company, Exact[s])
      BY <1>3, <1>4, <3>1 DEF CanReleaseLiquidity
    <3>3. company'.reserved = company.reserved - Exact[s]
      BY <1>0, <1>4, <2>4, <3>2, RowUpdates DEF RetryUndo, GivenBack
    <3>4. /\ OfCommitted' = OfCommitted + 0
          /\ OfRetries' = OfRetries + (0 - Exact[s])
          /\ company'.reserved = company.reserved + 0 + (0 - Exact[s])
      BY <1>4, <2>2, <3>1, <3>3
    <3>. QED  BY <1>4, <1>5, <3>4
  <2>. QED  BY <1>11, <2>3, <2>4 DEF RetryStep
<1>. QED
  BY <1>0, <1>7, <1>8, <1>9, <1>10, <1>11, MoneySteps DEF MoneyStep

\* What the company has reserved is at least what the swaps it committed to
\* and the running retries need, and without a crash no more: however
\* confirmations, settlements, failures and retries of all swaps interleave.
THEOREM AlwaysBacked == Spec => []CompanyBacked
<1>1. Sound /\ Backed => CompanyBacked
  <2>. SUFFICES ASSUME Sound, Backed, Untouched({"stall"})
                PROVE  CompanyBacked
    BY DEF CompanyBacked
  <2>1. /\ company.reserved \in Nat /\ OfCommitted \in Nat /\ OfRetries \in Nat
    BY RetrySums DEF Sound, TypeOK, CompanyAccounts
  <2>2. /\ company.reserved >= OfCommitted
        /\ Untouched({"crash"}) => company.reserved <= OfCommitted + OfRetries
    BY <2>1 DEF Backed
  <2>3. SumFunction(OfRetry) = OfRetries
    BY DEF SumFunction, OfRetries, OfRetry
  <2>. QED
    BY <2>2, <2>3 DEF CompanyBacked, OfCommitted, Committed, OfRetry, Retrying
<1>2. Spec => []Backed
  BY ProgressAlways, BackedInit, BackedNext, PTL DEF Spec
<1>. QED  BY <1>1, <1>2, SoundAlways, PTL

---------------------------------------------------------------------------
(* The hold ledger is implemented.                                         *)

\* The holds as ImplementsHolds maps them.
HoldOf(status) == CASE status = "none" -> "none"
                    [] status = "PENDING" -> "held"
                    [] status = "COMPLETED" -> "settled"
                    [] status = "FAILED" -> "released"
Hold == [s \in Swaps |-> HoldOf(txn[s])]

LEMMA HoldsInit == Init => Holds!HInit
BY DEF Init, Holds!HInit

\* A transaction's status is written and the hold moves with it.
LEMMA HoldMoves ==
    ASSUME RestType, NEW s \in Swaps
    PROVE  /\ SetTxn(s, "PENDING") => Hold' = [Hold EXCEPT ![s] = "held"]
           /\ SetTxn(s, "COMPLETED") => Hold' = [Hold EXCEPT ![s] = "settled"]
           /\ SetTxn(s, "FAILED") => Hold' = [Hold EXCEPT ![s] = "released"]
<1>1. ASSUME NEW status, SetTxn(s, status)
      PROVE  Hold' = [Hold EXCEPT ![s] = HoldOf(status)]
  BY <1>1 DEF SetTxn, Hold, RestType
<1>2. /\ HoldOf("PENDING") = "held" /\ HoldOf("COMPLETED") = "settled"
      /\ HoldOf("FAILED") = "released"
  BY DEF HoldOf
<1>. QED  BY <1>1, <1>2

LEMMA HoldsNext ==
    ASSUME Sound, Sound', Progress, [Next]_vars,
           Untouched({"stall", "expiry"})'
    PROVE  Holds!HNext \/ UNCHANGED Holds!hvars
<1>0. RestType /\ RestType' /\ BudgetBounded
  BY DEF Progress, Sound, TypeOK, RestType
<1>1. Untouched({"stall", "expiry"}) /\ ~Spend("expiry")
  BY <1>0, UntouchedBefore DEF Faults
<1>2. Untouched({"stall"})
  BY <1>1 DEF Untouched
<1>3. ASSUME NEW s \in Swaps, Placed(s) PROVE Holds!Place(s)
  BY <1>0, <1>3, HoldMoves DEF Placed, Hold, HoldOf, Holds!Place, CanReserveBalance, ReserveBalance,
    Holds!CanReserveBalance, Holds!ReserveBalance
<1>4. ASSUME NEW s \in Swaps, Exchanged(s) PROVE Holds!Settle(s)
  BY <1>0, <1>4, HoldMoves DEF Exchanged, CanExchange, Exchange, Hold, HoldOf, Holds!Settle,
    CanFinalizeBalance, FinalizeBalance, Holds!CanFinalizeBalance, Holds!FinalizeBalance
<1>5. ASSUME NEW s \in Swaps, Returned(s) PROVE Holds!Release(s)
  BY <1>0, <1>2, <1>5, HoldMoves DEF Returned, CanGiveBack, GiveBack, Hold, HoldOf, Holds!Release,
    CanReleaseBalance, ReleaseBalance, Holds!CanReleaseBalance, Holds!ReleaseBalance
<1>6. ASSUME NEW s \in Swaps PROVE ~Expire(s)
  BY <1>1 DEF Expire
<1>7. ASSUME UNCHANGED <<wallet, txn>> PROVE UNCHANGED Holds!hvars
  BY <1>7 DEF Holds!hvars
<1>8. ASSUME NEW p \in Processors, NEW s \in Swaps, RetryStep(p, s)
      PROVE  UNCHANGED Holds!hvars
  BY <1>7, <1>8 DEF RetryStep, RetryReserve, RetryUndo
<1>. QED
  BY <1>0, <1>3, <1>4, <1>5, <1>6, <1>7, <1>8, MoneySteps DEF MoneyStep, Kept, Holds!HNext

\* Swaps keep the reserve, settle and release protocol on the source wallet,
\* one hold each, settled or released once: through crashes, lost answers and
\* errors at every point, until a job stalls or a queued swap expires.
THEOREM HoldsImplemented == Spec => ImplementsHolds
<1>1. Sound /\ Sound' /\ Progress /\ [Next]_vars
        => [Untouched({"stall", "expiry"})' => Holds!HNext]_(Holds!hvars)
  BY HoldsNext
<1>. QED  BY <1>1, ProgressAlways, HoldsInit, PTL DEF Spec, ImplementsHolds
===========================================================================
