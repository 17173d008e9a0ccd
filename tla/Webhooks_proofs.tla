-------------------------- MODULE Webhooks_proofs --------------------------
(***************************************************************************)
(* Theorems about what comes in by webhook: about WebhookPipeline, for     *)
(* every set of events and requests, every number of attempts and every    *)
(* fault budget; and about Deposit, for every set of deposits, every       *)
(* amount, any number of worker slots and every fault budget.              *)
(*                                                                         *)
(* The pipeline. The counter of attempts stays a natural number because a  *)
(* job that is not dead has one left. One request at most enqueues an      *)
(* event because only a request that inserted the event's row goes on to   *)
(* the queue, and the row is never removed. A row is marked processed by a *)
(* job that has been handled or by the reconciliation, which looks at old  *)
(* rows of sweeps and of events without a reference only. As long as no    *)
(* process died and neither the insert nor the queue failed, a recorded    *)
(* event has a job or a request on its way to the queue, and an answered   *)
(* event is recorded.                                                      *)
(*                                                                         *)
(* Deposits. Counted carries the types and the attempts of both jobs.      *)
(* CreditFirst follows a credit into the run that made it, and from there  *)
(* to Quidax. DoneFirst follows Quidax's Done into the handler that looked *)
(* it up, and from there to the sweep's row. CreditInv has both totals as  *)
(* sums over the credited deposits. RowOnce and Quiet are what the         *)
(* refinement of CreditLedger needs: a sweep counted stays counted, and    *)
(* what only a fault or the scheduler leads to is not reached without.     *)
(***************************************************************************)
EXTENDS WebhookPipeline, Deposit, Ledger_proofs

---------------------------------------------------------------------------
(* The pipeline: types                                                     *)

\* A job that is not dead has an attempt left.
TriesLeft == \A e \in Events : task[e] # "dead" => triesLeft[e] > 0

\* A request that got past the insert, and has not failed.
Inserted(d, e) == request[d][e] \in {"stored", "queued"}

\* An event's row exists once some request inserted it, and one did.
OneInserter ==
    \A e \in Events :
        /\ row[e] = "none" => \A d \in Deliveries : ~Inserted(d, e)
        /\ \A d1, d2 \in Deliveries :
             Inserted(d1, e) /\ Inserted(d2, e) => d1 = d2

\* Some row has been an hour old.
HourSpent == faults["hour"] < FaultBudget["hour"]

\* Who may mark a row processed.
MarkersHandled ==
    \A e \in Events :
        /\ task[e] = "handled" => e \in handled
        /\ pass[e] # "idle" => e \in Sweeps \cup Bare /\ HourSpent

Sound == PipelineTypeOK /\ TriesLeft

---------------------------------------------------------------------------
LEMMA BefallsType ==
    ASSUME PipelineTypeOK, NEW f \in PipelineFaults, Befalls(f)
    PROVE faults' \in [PipelineFaults -> Nat]
BY DEF PipelineTypeOK, Befalls

LEMMA SoundInit == PipelineInit => Sound
BY PipelineAssumption DEF PipelineInit, Sound, PipelineTypeOK, TriesLeft, HookStates, RequestPc,
  JobPc, SweepPc

\* The steps of a request keep Sound: a job it adds was never dead.
LEMMA SoundRequest ==
    ASSUME Sound, NEW d \in Deliveries, NEW e \in Events, RequestStep(d, e)
    PROVE Sound'
<1>. USE DEF Sound, PipelineTypeOK, TriesLeft, HookStates, RequestPc, JobPc, SweepPc,
             SetRequest, SetHook, Dismiss
<1>1. CASE Receive(d, e)
  BY <1>1 DEF Receive
<1>2. CASE Store(d, e)
  <2>1. faults' \in [PipelineFaults -> Nat]
    BY <1>2, BefallsType DEF Store, PipelineFaults
  <2>. QED  BY <1>2, <2>1 DEF Store
<1>3. CASE Enqueue(d, e)
  <2>1. faults' \in [PipelineFaults -> Nat]
    BY <1>3, BefallsType DEF Enqueue, PipelineFaults
  <2>2. request' \in [Deliveries -> [Events -> RequestPc]]
    BY <1>3 DEF Enqueue
  <2>3. /\ task' \in [Events -> JobPc]
        /\ \A f \in Events : task'[f] # "dead" => task[f] # "dead"
    BY <1>3 DEF Enqueue
  <2>4. TriesLeft'
    <3>1. triesLeft' = triesLeft
      BY <1>3 DEF Enqueue
    <3>. QED  BY <2>3, <3>1
  <2>. QED  BY <1>3, <2>1, <2>2, <2>3, <2>4 DEF Enqueue
<1>. QED  BY <1>1, <1>2, <1>3 DEF RequestStep

\* The steps of a job keep Sound: the last attempt that fails leaves it dead.
LEMMA SoundJob ==
    ASSUME Sound, NEW e \in Events, JobStep(e)
    PROVE Sound'
<1>. USE DEF Sound, PipelineTypeOK, TriesLeft, HookStates, RequestPc, JobPc, SweepPc,
             SetHook, SetJob
<1>1. CASE JobStart(e)
  BY <1>1 DEF JobStart
<1>2. CASE JobInvalid(e)
  <2>1. faults' \in [PipelineFaults -> Nat]
    BY <1>2, BefallsType DEF JobInvalid, PipelineFaults
  <2>. QED  BY <1>2, <2>1 DEF JobInvalid
<1>3. CASE JobHandle(e)
  BY <1>3 DEF JobHandle
<1>4. CASE JobThrow(e)
  <2>1. faults' \in [PipelineFaults -> Nat]
    BY <1>4, BefallsType DEF JobThrow, PipelineFaults
  <2>2. triesLeft[e] \in Nat \ {0}
    BY <1>4 DEF JobThrow
  <2>3. triesLeft' \in [Events -> Nat]
    BY <1>4, <2>2 DEF JobThrow
  <2>4. task' = [task EXCEPT ![e] = IF triesLeft[e] = 1 THEN "dead"
                                    ELSE "waiting"]
    BY <1>4 DEF JobThrow, LastTry
  <2>5. task' \in [Events -> JobPc]
    BY <2>4
  <2>6. TriesLeft'
    <3> SUFFICES ASSUME NEW f \in Events, task'[f] # "dead"
                 PROVE triesLeft'[f] > 0
      OBVIOUS
    <3>1. triesLeft' = [triesLeft EXCEPT ![e] = @ - 1]
      BY <1>4 DEF JobThrow
    <3>2. CASE f = e
      BY <2>2, <2>4, <3>1, <3>2
    <3>3. CASE f # e
      BY <2>4, <3>1, <3>3
    <3>. QED  BY <3>2, <3>3
  <2>. QED  BY <1>4, <2>1, <2>3, <2>5, <2>6 DEF JobThrow
<1>5. CASE JobMark(e)
  <2>1. faults' \in [PipelineFaults -> Nat]
    BY <1>5, BefallsType DEF JobMark, PipelineFaults
  <2>. QED  BY <1>5, <2>1 DEF JobMark
<1>. QED  BY <1>1, <1>2, <1>3, <1>4, <1>5 DEF JobStep

LEMMA SoundReconcile ==
    ASSUME Sound, NEW e \in Events, Reconcile(e)
    PROVE Sound'
<1>. USE DEF Sound, PipelineTypeOK, TriesLeft, HookStates, RequestPc, JobPc, SweepPc,
             SetHook
<1>1. CASE ReconcileRead(e)
  <2>1. faults' \in [PipelineFaults -> Nat]
    BY <1>1, BefallsType DEF ReconcileRead, PipelineFaults
  <2>. QED  BY <1>1, <2>1 DEF ReconcileRead
<1>2. CASE ReconcileHandle(e)
  BY <1>2 DEF ReconcileHandle
<1>3. CASE ReconcileMark(e)
  BY <1>3 DEF ReconcileMark
<1>. QED  BY <1>1, <1>2, <1>3 DEF Reconcile

LEMMA SoundCrash ==
    ASSUME Sound, PipelineCrash
    PROVE Sound'
<1>1. faults' \in [PipelineFaults -> Nat]
  BY BefallsType DEF PipelineCrash, PipelineFaults, Sound
<1>. QED  BY <1>1 DEF PipelineCrash, Sound, PipelineTypeOK, TriesLeft, HookStates, RequestPc, JobPc,
  SweepPc

LEMMA SoundNext == Sound /\ [PipelineNext]_pipelineVars => Sound'
<1> SUFFICES ASSUME Sound, [PipelineNext]_pipelineVars PROVE Sound'
  OBVIOUS
<1>1. CASE PipelineNext
  BY <1>1, SoundRequest, SoundJob, SoundReconcile, SoundCrash DEF PipelineNext
<1>2. CASE UNCHANGED pipelineVars
  BY <1>2 DEF pipelineVars, Sound, PipelineTypeOK, TriesLeft
<1>. QED  BY <1>1, <1>2

\* Rows, requests, jobs and counters keep their types: no order of deliveries,
\* retries, reconciliations and crashes takes the attempts of a job below zero.
THEOREM PipelineTyped == PipelineSpec => []PipelineTypeOK
<1>1. PipelineSpec => []Sound
  BY SoundInit, SoundNext, PTL DEF PipelineSpec
<1>2. Sound => PipelineTypeOK
  BY DEF Sound
<1>. QED  BY <1>1, <1>2, PTL

---------------------------------------------------------------------------
(* One job per event                                                       *)

LEMMA OneInserterInit == PipelineInit => OneInserter
BY DEF PipelineInit, OneInserter, Inserted

\* Steps other than an insert leave a row that exists, and who inserted it.
LEMMA OneInserterKept ==
    ASSUME OneInserter,
           \A e \in Events : row[e] # "none" => row'[e] # "none",
           \A d \in Deliveries, e \in Events : Inserted(d, e)' => Inserted(d, e)
    PROVE OneInserter'
BY DEF OneInserter

LEMMA OneInserterRequest ==
    ASSUME PipelineTypeOK, OneInserter, NEW d \in Deliveries, NEW e \in Events,
           RequestStep(d, e)
    PROVE OneInserter'
<1>1. CASE Receive(d, e)
  BY <1>1, OneInserterKept DEF Receive, Dismiss, SetRequest, Inserted, PipelineTypeOK
<1>2. CASE Store(d, e)
  <2>1. CASE KeyFree(e) /\ request' = [request EXCEPT ![d][e] = "stored"]
             /\ row' = [row EXCEPT ![e] = "pending"]
    BY <2>1 DEF KeyFree, OneInserter, Inserted, PipelineTypeOK
  <2>2. CASE request' = [request EXCEPT ![d][e] = "answered"] /\ row' = row
    BY <2>2, OneInserterKept DEF Inserted, PipelineTypeOK
  <2>. QED  BY <1>2, <2>1, <2>2 DEF Store, SetHook, SetRequest, Dismiss
<1>3. CASE Enqueue(d, e)
  BY <1>3, OneInserterKept DEF Enqueue, SetRequest, Inserted, PipelineTypeOK
<1>. QED  BY <1>1, <1>2, <1>3 DEF RequestStep

LEMMA OneInserterNext ==
    PipelineTypeOK /\ OneInserter /\ [PipelineNext]_pipelineVars => OneInserter'
<1> SUFFICES ASSUME PipelineTypeOK, OneInserter, [PipelineNext]_pipelineVars
             PROVE  OneInserter'
  OBVIOUS
<1>1. ASSUME NEW e \in Events, JobStep(e) PROVE OneInserter'
  BY <1>1, OneInserterKept DEF JobStep, JobStart, JobInvalid, JobHandle, JobThrow, JobMark, SetHook,
    Inserted, PipelineTypeOK
<1>2. ASSUME NEW e \in Events, Reconcile(e) PROVE OneInserter'
  BY <1>2, OneInserterKept DEF Reconcile, ReconcileRead, ReconcileHandle, ReconcileMark, SetHook,
    Inserted, PipelineTypeOK
<1>3. CASE PipelineCrash
  BY <1>3, OneInserterKept DEF PipelineCrash, Inserted, PipelineTypeOK
<1>4. CASE UNCHANGED pipelineVars
  BY <1>4, OneInserterKept DEF pipelineVars, Inserted
<1>. QED  BY <1>1, <1>2, <1>3, <1>4, OneInserterRequest DEF PipelineNext

\* However many requests carry an event, at most one puts it on a queue, from
\* the unique key of the webhook table alone: no lock, no queue option.
THEOREM OneJobPerEvent == PipelineSpec => []SingleJob
<1>1. PipelineSpec => []OneInserter
  BY PipelineTyped, OneInserterInit, OneInserterNext, PTL DEF PipelineSpec
<1>2. OneInserter => SingleJob
  BY DEF OneInserter, SingleJob, Inserted
<1>. QED  BY <1>1, <1>2, PTL

---------------------------------------------------------------------------
(* Faults                                                                  *)

FaultsBounded == \A f \in PipelineFaults : faults[f] <= FaultBudget[f]

\* Faults are spent, never given back.
LEMMA FaultsFall ==
    ASSUME PipelineTypeOK, [PipelineNext]_pipelineVars
    PROVE \A f \in PipelineFaults : faults'[f] <= faults[f]
<1>1. ASSUME NEW g \in PipelineFaults, Befalls(g)
      PROVE \A f \in PipelineFaults : faults'[f] <= faults[f]
  BY <1>1 DEF Befalls, PipelineTypeOK
<1>2. ASSUME faults' = faults
      PROVE \A f \in PipelineFaults : faults'[f] <= faults[f]
  BY <1>2 DEF PipelineTypeOK
<1>3. \/ \E g \in PipelineFaults : Befalls(g)
      \/ faults' = faults
  BY DEF PipelineNext, JobStep, JobStart, JobInvalid, JobHandle, JobThrow, JobMark, Reconcile,
    ReconcileRead, ReconcileHandle, ReconcileMark, RequestStep, Receive, Store, Enqueue,
    PipelineCrash, pipelineVars, PipelineFaults
<1>. QED  BY <1>1, <1>2, <1>3

LEMMA FaultsBoundedInit == PipelineInit => FaultsBounded
BY PipelineAssumption DEF PipelineInit, FaultsBounded

LEMMA FaultsBoundedNext ==
    PipelineTypeOK /\ PipelineTypeOK' /\ FaultsBounded /\ [PipelineNext]_pipelineVars
        => FaultsBounded'
BY FaultsFall, PipelineAssumption DEF FaultsBounded, PipelineTypeOK

---------------------------------------------------------------------------
(* Processed means handled                                                 *)

Marked == MarkersHandled /\ ProcessedWasHandled

LEMMA MarkedInit == PipelineInit => Marked
BY DEF PipelineInit, Marked, MarkersHandled, ProcessedWasHandled

\* Once a row was an hour old, one has been.
LEMMA HourStays ==
    ASSUME PipelineTypeOK, PipelineTypeOK', FaultsBounded,
           [PipelineNext]_pipelineVars, HourSpent \/ Befalls("hour")
    PROVE  HourSpent'
<1>1. "hour" \in PipelineFaults
  BY DEF PipelineFaults
<1>2. /\ faults'["hour"] <= faults["hour"] /\ faults["hour"] <= FaultBudget["hour"]
      /\ faults["hour"] \in Nat /\ faults'["hour"] \in Nat
      /\ FaultBudget["hour"] \in Nat
  BY <1>1, FaultsFall, PipelineAssumption DEF FaultsBounded, PipelineTypeOK
<1>3. Befalls("hour") => faults'["hour"] = faults["hour"] - 1
  BY <1>1 DEF Befalls, PipelineTypeOK
<1>. QED  BY <1>2, <1>3 DEF HourSpent

LEMMA MarkedNext ==
    PipelineTypeOK /\ PipelineTypeOK' /\ FaultsBounded /\ Marked
        /\ [PipelineNext]_pipelineVars => Marked'
<1> SUFFICES ASSUME PipelineTypeOK, PipelineTypeOK', FaultsBounded, Marked,
                    [PipelineNext]_pipelineVars
             PROVE  Marked'
  OBVIOUS
<1>0. HourSpent \/ Befalls("hour") => HourSpent'
  BY HourStays
<1>. USE <1>0 DEF PipelineTypeOK, Marked, MarkersHandled, ProcessedWasHandled, HourSpent
<1>1. ASSUME NEW d \in Deliveries, NEW e \in Events, RequestStep(d, e)
      PROVE Marked'
  BY <1>1 DEF RequestStep, Receive, Store, Enqueue, Dismiss, SetHook
<1>2. ASSUME NEW e \in Events, JobStep(e) PROVE Marked'
  BY <1>2 DEF JobStep, JobStart, JobInvalid, JobHandle, JobThrow, JobMark, SetHook, SetJob
<1>3. ASSUME NEW e \in Events, Reconcile(e) PROVE Marked'
  BY <1>3 DEF Reconcile, ReconcileRead, ReconcileHandle, ReconcileMark, Reconcilable, SetHook
<1>4. CASE PipelineCrash
  BY <1>4 DEF PipelineCrash
<1>5. CASE UNCHANGED pipelineVars
  BY <1>5 DEF pipelineVars
<1>. QED  BY <1>1, <1>2, <1>3, <1>4, <1>5 DEF PipelineNext

\* But for sweeps and events without a reference, and for rows older than an
\* hour, a row says processed only after a normal return of the event's handler,
\* whatever crashed or was retried before.
THEOREM ProcessedMeansHandled == PipelineSpec => []ProcessedWasHandled
<1>1. PipelineSpec => [](PipelineTypeOK /\ FaultsBounded)
  BY PipelineTyped, FaultsBoundedInit, FaultsBoundedNext, PTL DEF PipelineSpec
<1>3. PipelineSpec => []Marked
  BY <1>1, MarkedInit, MarkedNext, PTL DEF PipelineSpec
<1>2. Marked => ProcessedWasHandled
  BY DEF Marked
<1>. QED  BY <1>2, <1>3, PTL

\* Both together, for any number of events and deliveries.
THEOREM PipelineAlwaysSafe == PipelineSpec => []PipelineSafe
BY PipelineTyped, OneJobPerEvent, PTL DEF PipelineSafe

---------------------------------------------------------------------------
(* Answered means queued                                                   *)

\* The failures after which an answered event may have no job.
Losses == {"crash", "storeError", "queueError"}

Unharmed == \A f \in Losses : faults[f] = FaultBudget[f]

\* A recorded event has a job or a request about to add one; the provider is
\* only told that an event was received when it is recorded, and the
\* reconciliation looks at recorded events.
Pursued ==
    Unharmed =>
        /\ \A e \in Events : row[e] # "none" =>
             task[e] # "none" \/ \E d \in Deliveries : request[d][e] = "stored"
        /\ \A e \in acked : row[e] # "none"
        /\ \A e \in Events : pass[e] # "idle" => row[e] # "none"

\* A state in which no such failure has happened comes after another.
LEMMA UnharmedBefore ==
    ASSUME PipelineTypeOK, PipelineTypeOK', FaultsBounded,
           [PipelineNext]_pipelineVars, Unharmed'
    PROVE Unharmed /\ \A f \in Losses : faults'[f] = faults[f]
<1>1. Losses \subseteq PipelineFaults
  BY DEF Losses, PipelineFaults
<1>2. \A f \in Losses : /\ faults'[f] <= faults[f] /\ faults[f] <= FaultBudget[f]
                        /\ faults'[f] = FaultBudget[f]
                        /\ faults[f] \in Nat /\ FaultBudget[f] \in Nat
  BY <1>1, FaultsFall, PipelineAssumption DEF FaultsBounded, Unharmed, PipelineTypeOK
<1>. QED  BY <1>2 DEF Unharmed

\* So the step was none of those failures.
LEMMA NotLost ==
    ASSUME PipelineTypeOK, NEW f \in Losses, faults'[f] = faults[f]
    PROVE ~Befalls(f)
BY DEF PipelineTypeOK, Befalls, Losses, PipelineFaults

LEMMA PursuedInit == PipelineInit => Pursued
BY DEF PipelineInit, Pursued

\* Steps that take no request from "stored" and no job away, and answer no
\* request: a row is new only where there is a job.
LEMMA PursuedKept ==
    ASSUME Pursued, Unharmed' => Unharmed, acked' = acked,
           acked \subseteq Events,
           \A e \in Events : row[e] # "none" => row'[e] # "none",
           \A e \in Events :
               row'[e] # "none" => row[e] # "none" \/ task'[e] # "none",
           \A e \in Events : task[e] # "none" => task'[e] # "none",
           \A e \in Events : \A d \in Deliveries :
               request[d][e] = "stored" => request'[d][e] = "stored",
           \A e \in Events :
               pass'[e] # "idle" => pass[e] # "idle" \/ row[e] # "none"
    PROVE Pursued'
BY DEF Pursued

LEMMA PursuedRequest ==
    ASSUME PipelineTypeOK, OneInserter, Pursued, Unharmed, Unharmed',
           \A f \in Losses : ~Befalls(f),
           NEW d \in Deliveries, NEW e \in Events, RequestStep(d, e)
    PROVE Pursued'
<1>0. pass' = pass
  BY DEF RequestStep, Receive, Store, Enqueue
<1>1. ASSUME Dismiss(d, e), row[e] # "none", row' = row, task' = task,
             request[d][e] # "stored"
      PROVE Pursued'
  <2>1. \A f \in Events : \A c \in Deliveries :
          request[c][f] = "stored" => request'[c][f] = "stored"
    BY <1>1 DEF Dismiss, SetRequest, PipelineTypeOK
  <2>. QED  BY <1>0, <1>1, <2>1 DEF Dismiss, Pursued
<1>2. CASE Receive(d, e)
  <2>1. CASE row[e] = "none"
    <3>1. \A f \in Events : \A c \in Deliveries :
            request[c][f] = "stored" => request'[c][f] = "stored"
      BY <1>2, <2>1 DEF Receive, SetRequest, PipelineTypeOK
    <3>. QED  BY <1>0, <1>2, <2>1, <3>1, PursuedKept DEF Receive, PipelineTypeOK
  <2>2. CASE row[e] # "none"
    BY <1>1, <1>2, <2>2 DEF Receive
  <2>. QED  BY <2>1, <2>2
<1>3. CASE Store(d, e)
  <2>1. CASE KeyFree(e)
    <3>1. /\ row' = [row EXCEPT ![e] = "pending"]
          /\ request' = [request EXCEPT ![d][e] = "stored"]
          /\ acked' = acked /\ task' = task
      BY <1>3, <2>1 DEF Store, SetHook, SetRequest, Losses
    <3>2. request'[d][e] = "stored"
      BY <3>1 DEF PipelineTypeOK
    <3>3. \A f \in Events : \A c \in Deliveries :
            request[c][f] = "stored" => request'[c][f] = "stored"
      BY <3>1 DEF PipelineTypeOK
    <3>. QED  BY <1>0, <3>1, <3>2, <3>3 DEF Pursued, PipelineTypeOK
  <2>2. CASE ~KeyFree(e)
    BY <1>1, <1>3, <2>2 DEF Store, KeyFree, Losses
  <2>. QED  BY <2>1, <2>2
<1>4. CASE Enqueue(d, e)
  <2>1. /\ acked' = acked \cup {e} /\ row' = row
        /\ task' = [task EXCEPT ![e] = IF @ \in {"none", "done"}
                                       THEN "waiting" ELSE @]
        /\ request' = [request EXCEPT ![d][e] = "queued"]
        /\ request[d][e] = "stored"
    BY <1>4 DEF Enqueue, SetRequest, Losses
  <2>2. row[e] # "none"
    BY <2>1 DEF OneInserter, Inserted
  <2>3. /\ task'[e] # "none"
        /\ \A f \in Events : task[f] # "none" => task'[f] # "none"
    BY <2>1 DEF PipelineTypeOK
  <2>4. \A f \in Events \ {e} : \A c \in Deliveries :
          request[c][f] = "stored" => request'[c][f] = "stored"
    BY <2>1 DEF PipelineTypeOK
  <2>. QED  BY <1>0, <2>1, <2>2, <2>3, <2>4 DEF Pursued
<1>. QED  BY <1>2, <1>3, <1>4 DEF RequestStep

LEMMA PursuedNext ==
    PipelineTypeOK /\ PipelineTypeOK' /\ OneInserter /\ FaultsBounded /\ Pursued
        /\ [PipelineNext]_pipelineVars
        => Pursued'
<1> SUFFICES ASSUME PipelineTypeOK, PipelineTypeOK', OneInserter, FaultsBounded, Pursued,
                    [PipelineNext]_pipelineVars, Unharmed'
             PROVE Pursued'
  BY DEF Pursued
<1>1. Unharmed /\ \A f \in Losses : ~Befalls(f)
  BY UnharmedBefore, NotLost
<1>2. ASSUME NEW d \in Deliveries, NEW e \in Events, RequestStep(d, e)
      PROVE Pursued'
  BY <1>1, <1>2, PursuedRequest
<1>3. ASSUME NEW e \in Events, JobStep(e) PROVE Pursued'
  <2>1. UNCHANGED <<acked, request, pass>> /\ task[e] # "none"
    BY <1>3 DEF JobStep, JobStart, JobInvalid, JobHandle, JobThrow, JobMark
  <2>2. \/ row' = row
        \/ \E status \in {"processed", "failed"} : SetHook(e, status)
    BY <1>3 DEF JobStep, JobStart, JobInvalid, JobHandle, JobThrow, JobMark
  <2>3. \A f \in Events : /\ row[f] # "none" => row'[f] # "none"
                          /\ row'[f] # "none" => row[f] # "none" \/ f = e
    BY <2>2 DEF SetHook, PipelineTypeOK
  <2>4. \E pc \in JobPc \ {"none"} : SetJob(e, pc)
    BY <1>3 DEF JobStep, JobStart, JobInvalid, JobHandle, JobThrow, JobMark, JobPc
  <2>5. /\ \A f \in Events : task[f] # "none" => task'[f] # "none"
        /\ task'[e] # "none"
    BY <2>4 DEF SetJob, PipelineTypeOK
  <2>. QED  BY <1>1, <2>1, <2>3, <2>5, PursuedKept DEF PipelineTypeOK
<1>4. ASSUME NEW e \in Events, Reconcile(e) PROVE Pursued'
  <2>1. UNCHANGED <<acked, request, task>>
    BY <1>4 DEF Reconcile, ReconcileRead, ReconcileHandle, ReconcileMark
  <2>2. \E pc \in SweepPc : pass' = [pass EXCEPT ![e] = pc]
    BY <1>4 DEF Reconcile, ReconcileRead, ReconcileHandle, ReconcileMark, SweepPc
  <2>3. row[e] # "none"
    BY <1>1, <1>4 DEF Reconcile, ReconcileRead, ReconcileHandle, ReconcileMark, Pursued
  <2>4. row' = row \/ SetHook(e, "processed")
    BY <1>4 DEF Reconcile, ReconcileRead, ReconcileHandle, ReconcileMark
  <2>5. \A f \in Events : row'[f] # "none" <=> row[f] # "none"
    BY <2>3, <2>4 DEF SetHook, PipelineTypeOK
  <2>6. \A f \in Events :
            pass'[f] # "idle" => pass[f] # "idle" \/ row[f] # "none"
    BY <2>2, <2>3 DEF PipelineTypeOK
  <2>. QED  BY <1>1, <2>1, <2>5, <2>6, PursuedKept DEF PipelineTypeOK
<1>5. ~PipelineCrash
  BY <1>1 DEF PipelineCrash, Losses
<1>6. CASE UNCHANGED pipelineVars
  BY <1>1, <1>6, PursuedKept DEF pipelineVars, PipelineTypeOK
<1>. QED  BY <1>2, <1>3, <1>4, <1>5, <1>6 DEF PipelineNext

\* No order of requests, retries and reconciliations alone loses an event the
\* provider was told was received: for that a process dies between the insert
\* and the queue, or one of the two fails.
THEOREM AnsweredIsQueued == PipelineSpec => []AckedIsQueued
<1>1. PipelineSpec => [](PipelineTypeOK /\ OneInserter)
  BY PipelineTyped, OneInserterInit, OneInserterNext, PTL DEF PipelineSpec
<1>2. PipelineSpec => [](PipelineTypeOK /\ FaultsBounded)
  BY PipelineTyped, FaultsBoundedInit, FaultsBoundedNext, PTL DEF PipelineSpec
<1>3. PipelineSpec => [](PipelineTypeOK /\ Pursued)
  BY <1>1, <1>2, PursuedInit, PursuedNext, PTL DEF PipelineSpec
<1>4. PipelineTypeOK /\ Pursued => AckedIsQueued
  BY DEF Pursued, Unharmed, Losses, AckedIsQueued, PipelineTypeOK
<1>. QED  BY <1>3, <1>4, PTL

---------------------------------------------------------------------------
(* Credit before sweep                                                     *)

\* A run that is past the credit, and Quidax with the sweep, know of a deposit
\* that is credited.
CreditFirst ==
    \A d \in Deposits :
        /\ quidax[d] # "none" => d \in credited
        /\ \A r \in Runs : run[r][d] \in {"credited", "posted", "refused"}
                             => d \in credited

\* The types these arguments need, which every step keeps.
ProgressType ==
    /\ credited \in SUBSET Deposits
    /\ quidax \in [Deposits -> QuidaxStates]
    /\ run \in [Runs -> [Deposits -> RunPc]]
    /\ sweepRow \in [Deposits -> [status : RowStates, found : BOOLEAN]]
    /\ handler \in [Handlers -> [Deposits -> HandlerPc]]

LEMMA ProgressInit == Init => ProgressType /\ CreditFirst
BY DEF Init, ProgressType, CreditFirst, QuidaxStates, RunPc, RowStates, HandlerPc

LEMMA WorkerIsHandler == Worker \in Handlers /\ Scheduler \in Handlers
BY DEF Handlers

LEMMA SetRunType ==
    ASSUME ProgressType, NEW r \in Runs, NEW d \in Deposits, NEW pc \in RunPc,
           SetRun(r, d, pc)
    PROVE run' \in [Runs -> [Deposits -> RunPc]]
BY DEF ProgressType, SetRun

LEMMA SetRowType ==
    ASSUME ProgressType, NEW d \in Deposits, NEW s \in RowStates,
           NEW b \in BOOLEAN, SetRow(d, s, b)
    PROVE sweepRow' \in [Deposits -> [status : RowStates, found : BOOLEAN]]
BY DEF ProgressType, SetRow

LEMMA SetHandlerType ==
    ASSUME ProgressType, NEW h \in Handlers, NEW d \in Deposits,
           NEW pc \in HandlerPc, SetHandler(h, d, pc)
    PROVE handler' \in [Handlers -> [Deposits -> HandlerPc]]
BY DEF ProgressType, SetHandler

\* A step of the deposit's run.
LEMMA ProgressRun ==
    ASSUME ProgressType, NEW r \in Runs, NEW d \in Deposits, RunStep(r, d)
    PROVE ProgressType'
<1>1. CASE DepositCheck(r, d)
  <2>1. run' \in [Runs -> [Deposits -> RunPc]]
    BY <1>1, SetRunType DEF DepositCheck, RunPc, ProgressType
  <2>. QED  BY <1>1, <2>1 DEF DepositCheck, sweep, ProgressType
<1>2. CASE DepositCredit(r, d)
  <2>1. run' \in [Runs -> [Deposits -> RunPc]]
    BY <1>2, SetRunType DEF DepositCredit, CreditError, Throw, Return, RunPc
  <2>2. credited' \in SUBSET Deposits
    BY <1>2 DEF DepositCredit, ProgressType
  <2>. QED  BY <1>2, <2>1, <2>2 DEF DepositCredit, sweep, ProgressType
<1>3. CASE DepositPost(r, d)
  <2>1. run' \in [Runs -> [Deposits -> RunPc]]
    BY <1>3, SetRunType DEF DepositPost, Throw, RunPc
  <2>2. quidax' \in [Deposits -> QuidaxStates]
    BY <1>3 DEF DepositPost, ProgressType, QuidaxStates
  <2>. QED  BY <1>3, <2>1, <2>2 DEF DepositPost, sweep, ProgressType
<1>4. CASE DepositRecord(r, d)
  <2>1. run' \in [Runs -> [Deposits -> RunPc]]
    BY <1>4, SetRunType DEF DepositRecord, Throw, Return, RunPc
  <2>2. sweepRow' \in [Deposits -> [status : RowStates, found : BOOLEAN]]
    BY <1>4, SetRowType DEF DepositRecord, WriteRow, RowStates, ProgressType
  <2>. QED  BY <1>4, <2>1, <2>2 DEF DepositRecord, sweep, ProgressType
<1>. QED  BY <1>1, <1>2, <1>3, <1>4 DEF RunStep

\* A step of the sweep's handler.
LEMMA ProgressHandler ==
    ASSUME ProgressType, NEW h \in Handlers, NEW d \in Deposits,
           HandlerStep(h, d)
    PROVE ProgressType'
<1>1. handler' \in [Handlers -> [Deposits -> HandlerPc]]
  BY SetHandlerType DEF HandlerStep, SweepCommit, SweepRefresh, SweepError, SweepMarkFailed,
    SweepTransient, SweepDone, HandlerPc
<1>2. sweepRow' \in [Deposits -> [status : RowStates, found : BOOLEAN]]
  BY SetRowType DEF HandlerStep, SweepCommit, SweepRefresh, SweepError, SweepMarkFailed,
    SweepTransient, SweepDone, RowStates, ProgressType
<1>3. UNCHANGED <<credited, quidax, run>>
  BY DEF HandlerStep, SweepCommit, SweepRefresh, SweepError, SweepMarkFailed, SweepTransient,
    SweepDone, deposit
<1>. QED  BY <1>1, <1>2, <1>3 DEF ProgressType

\* The other steps on one deposit.
LEMMA ProgressOther ==
    ASSUME ProgressType, NEW d \in Deposits,
           \/ Arrive(d) \/ Stall(d) \/ QuidaxFinish(d)
           \/ SweepTake(d) \/ SweepRetake(d)
    PROVE ProgressType'
<1>1. CASE Arrive(d) \/ Stall(d)
  BY <1>1 DEF Arrive, Stall, sweep, ProgressType
<1>2. CASE QuidaxFinish(d)
  BY <1>2 DEF QuidaxFinish, deposit, ProgressType, QuidaxStates
<1>3. CASE SweepTake(d) \/ SweepRetake(d)
  <2>1. handler' \in [Handlers -> [Deposits -> HandlerPc]]
    BY <1>3, WorkerIsHandler, SetHandlerType DEF SweepTake, SweepRetake, Load, HandlerPc
  <2>. QED  BY <1>3, <2>1 DEF SweepTake, SweepRetake, deposit, ProgressType
<1>. QED  BY <1>1, <1>2, <1>3

LEMMA ProgressNext == ProgressType /\ [Next]_vars => ProgressType'
<1> SUFFICES ASSUME ProgressType, [Next]_vars PROVE ProgressType'
  OBVIOUS
<1>1. CASE Crash
  BY <1>1 DEF Crash, ProgressType, RunPc, HandlerPc
<1>2. CASE UNCHANGED vars
  BY <1>2 DEF vars, ProgressType
<1>. QED  BY <1>1, <1>2, ProgressRun, ProgressHandler, ProgressOther DEF Next

\* A step that leaves Quidax and the runs of a deposit alone, or ends its runs.
LEMMA CreditFirstKept ==
    ASSUME CreditFirst, credited \subseteq credited',
           \A d \in Deposits : quidax'[d] # "none" => quidax[d] # "none",
           \A r \in Runs, d \in Deposits :
               run'[r][d] \in {"credited", "posted", "refused"}
                 => run[r][d] \in {"credited", "posted", "refused"}
    PROVE CreditFirst'
BY DEF CreditFirst

LEMMA CreditFirstRun ==
    ASSUME ProgressType, CreditFirst, NEW r \in Runs, NEW d \in Deposits,
           RunStep(r, d)
    PROVE CreditFirst'
<1>1. CASE DepositCheck(r, d)
  BY <1>1, CreditFirstKept DEF DepositCheck, SetRun, ProgressType
<1>2. CASE DepositCredit(r, d)
  <2>1. CASE credited' = credited \cup {d}
             /\ run' = [run EXCEPT ![r][d] = "credited"]
    BY <1>2, <2>1 DEF DepositCredit, CreditFirst, ProgressType
  <2>2. CASE credited' = credited /\ run' = [run EXCEPT ![r][d] = "idle"]
    BY <1>2, <2>2, CreditFirstKept DEF DepositCredit, ProgressType
  <2>. QED
    BY <1>2, <2>1, <2>2 DEF DepositCredit, CreditError, Throw, Return, SetRun
<1>3. CASE DepositPost(r, d)
  <2>1. d \in credited
    BY <1>3 DEF DepositPost, CreditFirst
  <2>2. \E pc \in RunPc : run' = [run EXCEPT ![r][d] = pc]
    BY <1>3 DEF DepositPost, Throw, SetRun, RunPc
  <2>3. \A e \in Deposits \ {d} : quidax'[e] = quidax[e]
    BY <1>3 DEF DepositPost, ProgressType
  <2>. QED
    BY <1>3, <2>1, <2>2, <2>3 DEF DepositPost, CreditFirst, ProgressType
<1>4. CASE DepositRecord(r, d)
  <2>1. run' = [run EXCEPT ![r][d] = "idle"]
    BY <1>4 DEF DepositRecord, Throw, Return, SetRun
  <2>. QED
    BY <1>4, <2>1, CreditFirstKept DEF DepositRecord, ProgressType
<1>. QED  BY <1>1, <1>2, <1>3, <1>4 DEF RunStep

LEMMA CreditFirstNext ==
    ProgressType /\ CreditFirst /\ [Next]_vars => CreditFirst'
<1> SUFFICES ASSUME ProgressType, CreditFirst, [Next]_vars PROVE CreditFirst'
  OBVIOUS
<1>1. ASSUME NEW d \in Deposits,
             \/ Arrive(d) \/ Stall(d) \/ SweepTake(d) \/ SweepRetake(d)
      PROVE CreditFirst'
  BY <1>1, CreditFirstKept DEF Arrive, Stall, SweepTake, SweepRetake, deposit
<1>2. ASSUME NEW d \in Deposits, QuidaxFinish(d) PROVE CreditFirst'
  BY <1>2, CreditFirstKept DEF QuidaxFinish, deposit, ProgressType
<1>3. ASSUME NEW d \in Deposits, NEW h \in Handlers, HandlerStep(h, d)
      PROVE CreditFirst'
  BY <1>3, CreditFirstKept DEF HandlerStep, SweepCommit, SweepRefresh, SweepError, SweepMarkFailed,
    SweepTransient, SweepDone, deposit
<1>4. CASE Crash
  BY <1>4, CreditFirstKept DEF Crash
<1>5. CASE UNCHANGED vars
  BY <1>5, CreditFirstKept DEF vars
<1>. QED  BY <1>1, <1>2, <1>3, <1>4, <1>5, CreditFirstRun DEF Next

\* A deposit is posted to the company's account only after the transaction
\* that credited its user, whichever run of the job posts it and whatever
\* stalled, crashed or threw before.
THEOREM SweptOnlyIfCredited == Spec => []SweptWasCredited
<1>1. Spec => [](ProgressType /\ CreditFirst)
  <2>1. ProgressType /\ CreditFirst /\ [Next]_vars
          => (ProgressType /\ CreditFirst)'
    BY ProgressNext, CreditFirstNext
  <2>. QED  BY ProgressInit, <2>1, PTL DEF Spec
<1>2. ProgressType /\ CreditFirst => SweptWasCredited
  BY DEF CreditFirst, SweptWasCredited
<1>. QED  BY <1>1, <1>2, PTL

---------------------------------------------------------------------------
(* Paid before booked                                                      *)

\* A handler that was told Done, and a row that says SUCCESS, know of a sweep
\* Quidax carried out.
DoneFirst ==
    \A d \in Deposits :
        /\ sweepRow[d].status = "SUCCESS" => quidax[d] = "Done"
        /\ \A h \in Handlers : handler[h][d] = "confirmed"
                                 => quidax[d] = "Done"

\* The deposit's run writes its own sweep's row only, and not SUCCESS.
LEMMA RunsCountNone ==
    ASSUME ProgressType, NEW r \in Runs, NEW d \in Deposits, RunStep(r, d)
    PROVE  /\ \A e \in Deposits : sweepRow'[e].status = "SUCCESS"
                                   => sweepRow[e].status = "SUCCESS"
           /\ \A e \in Deposits \ {d} : sweepRow'[e] = sweepRow[e]
<1>1. \/ sweepRow' = sweepRow
      \/ \E s \in {"PENDING", "FAILED"}, b \in BOOLEAN :
            sweepRow' = [sweepRow EXCEPT ![d] = [status |-> s, found |-> b]]
  BY DEF RunStep, DepositCheck, DepositCredit, DepositPost, DepositRecord, WriteRow, SetRow, sweep
<1>. QED  BY <1>1 DEF ProgressType

LEMMA DoneFirstInit == Init => DoneFirst
BY DEF Init, DoneFirst

LEMMA DoneFirstKept ==
    ASSUME DoneFirst,
           \A d \in Deposits : quidax[d] = "Done" => quidax'[d] = "Done",
           \A d \in Deposits : sweepRow'[d].status = "SUCCESS"
                                 => sweepRow[d].status = "SUCCESS",
           \A h \in Handlers, d \in Deposits :
               handler'[h][d] = "confirmed" => handler[h][d] = "confirmed"
    PROVE DoneFirst'
BY DEF DoneFirst

LEMMA DoneFirstHandler ==
    ASSUME ProgressType, DoneFirst, NEW h \in Handlers, NEW d \in Deposits,
           HandlerStep(h, d)
    PROVE DoneFirst'
<1>1. CASE SweepCommit(h, d)
  BY <1>1 DEF SweepCommit, DoneFirst, SetRow, SetHandler, ProgressType
<1>2. CASE SweepMarkFailed(h, d)
  BY <1>2, DoneFirstKept DEF SweepMarkFailed, SetRow, SetHandler, ProgressType
<1>3. CASE \/ SweepRefresh(h, d) \/ SweepError(h, d) \/ SweepTransient(h, d)
           \/ SweepDone(h, d)
  BY <1>3, DoneFirstKept DEF SweepRefresh, SweepError, SweepTransient, SweepDone, SetHandler,
    ProgressType
<1>. QED  BY <1>1, <1>2, <1>3 DEF HandlerStep

LEMMA DoneFirstNext ==
    ProgressType /\ DoneFirst /\ [Next]_vars => DoneFirst'
<1> SUFFICES ASSUME ProgressType, DoneFirst, [Next]_vars PROVE DoneFirst'
  OBVIOUS
<1>1. ASSUME NEW d \in Deposits, Arrive(d) \/ Stall(d) PROVE DoneFirst'
  BY <1>1, DoneFirstKept DEF Arrive, Stall, sweep
<1>2. ASSUME NEW d \in Deposits, QuidaxFinish(d) PROVE DoneFirst'
  BY <1>2, DoneFirstKept DEF QuidaxFinish, ProgressType
<1>3. ASSUME NEW d \in Deposits, SweepTake(d) \/ SweepRetake(d)
      PROVE DoneFirst'
  BY <1>3, WorkerIsHandler DEF SweepTake, SweepRetake, Load, Confirmed, SetHandler, DoneFirst,
    ProgressType
<1>4. ASSUME NEW d \in Deposits, NEW r \in Runs, RunStep(r, d)
      PROVE DoneFirst'
  <2>1. CASE DepositCheck(r, d) \/ DepositCredit(r, d)
    BY <2>1, DoneFirstKept DEF DepositCheck, DepositCredit, sweep
  <2>2. CASE DepositPost(r, d)
    BY <2>2, DoneFirstKept DEF DepositPost, sweep, ProgressType
  <2>3. CASE DepositRecord(r, d)
    <3>1. \A e \in Deposits : sweepRow'[e].status = "SUCCESS"
                                => sweepRow[e].status = "SUCCESS"
      BY <1>4, RunsCountNone
    <3>. QED  BY <2>3, <3>1, DoneFirstKept DEF DepositRecord, sweep
  <2>. QED  BY <1>4, <2>1, <2>2, <2>3 DEF RunStep
<1>5. CASE Crash
  BY <1>5, DoneFirstKept DEF Crash
<1>6. CASE UNCHANGED vars
  BY <1>6, DoneFirstKept DEF vars
<1>. QED
  BY <1>1, <1>2, <1>3, <1>4, <1>5, <1>6, DoneFirstHandler DEF Next

\* The company books a sweep as SUCCESS only if Quidax carried it out and its
\* user was credited, although neither handler reads the row again after the
\* lookup, and both may run at once.
THEOREM BookedOnlyIfPaid == Spec => []SweepWasPaid
<1>1. Spec => [](ProgressType /\ DoneFirst)
  <2>1. Init => ProgressType /\ DoneFirst
    BY ProgressInit, DoneFirstInit
  <2>2. ProgressType /\ DoneFirst /\ [Next]_vars => (ProgressType /\ DoneFirst)'
    BY ProgressNext, DoneFirstNext
  <2>. QED  BY <2>1, <2>2, PTL DEF Spec
<1>2. DoneFirst /\ SweptWasCredited => SweepWasPaid
  BY DEF DoneFirst, SweptWasCredited, SweepWasPaid
<1>. QED  BY <1>1, <1>2, SweptOnlyIfCredited, PTL

---------------------------------------------------------------------------
(* Types and attempts                                                      *)

\* A job that is not dead has an attempt left. The worker is busy with the
\* sweep's handler only while it holds the job, which Quidax's end created.
AttemptsLeft ==
    \A d \in Deposits :
        /\ job[d] # "dead" => attempts[d] > 0
        /\ sweepJob[d] # "dead" => sweepAttempts[d] > 0
        /\ handler[Worker][d] # "idle" => sweepJob[d] = "active"
        /\ sweepJob[d] # "none" => quidax[d] \in {"Done", "Rejected"}

Counted == TypeOK /\ AttemptsLeft

\* The types that are not in ProgressType.
RestType ==
    /\ wallet \in Wallets /\ company \in CompanyAccounts
    /\ hook \in [Deposits -> {"none", "pending", "processed"}]
    /\ job \in [Deposits -> JobStates \cup Runs]
    /\ attempts \in [Deposits -> Nat]
    /\ sweepJob \in [Deposits -> {"none", "waiting", "active", "done", "dead"}]
    /\ sweepAttempts \in [Deposits -> Nat]
    /\ budget \in [Faults -> Nat]

LEMMA TypeParts == TypeOK <=> ProgressType /\ RestType
BY DEF TypeOK, ProgressType, RestType

LEMMA SpendType ==
    ASSUME TypeOK, NEW f \in Faults, Spend(f)
    PROVE budget' \in [Faults -> Nat]
BY DEF TypeOK, Spend

\* Crediting, sweeping and the internal balance only add.
LEMMA RowsGrow ==
    ASSUME NEW w \in Wallets, NEW c \in CompanyAccounts, NEW a \in Nat
    PROVE /\ CreditBalance(w, a) \in Wallets
          /\ AddLiquidity(c, a) \in CompanyAccounts
          /\ AddInternal(c, a) \in CompanyAccounts
BY DEF Wallets, CompanyAccounts, CreditBalance, AddLiquidity, AddInternal

LEMMA AmountType ==
    ASSUME NEW d \in Deposits
    PROVE Amount[d] \in Nat
BY DepositAssumption

LEMMA CountedInit == Init => Counted
BY DepositAssumption, WorkerIsHandler DEF Init, Counted, TypeOK, AttemptsLeft, Wallets,
  CompanyAccounts, RowStates, QuidaxStates, JobStates, RunPc, HandlerPc, Handlers

\* A job that is taken back, completed or retried by a run of the handler.
LEMMA JobKept ==
    ASSUME Counted, NEW d \in Deposits, NEW r \in Runs,
           \/ UNCHANGED <<job, attempts>>
           \/ Retried(d) /\ job[d] # "dead"
           \/ Throw(r, d)
           \/ Return(r, d)
           \/ job[d] # "dead" /\ UNCHANGED attempts
              /\ \E j \in {"waiting", "done", r} : job' = [job EXCEPT ![d] = j]
    PROVE /\ job' \in [Deposits -> JobStates \cup Runs]
          /\ attempts' \in [Deposits -> Nat]
          /\ \A e \in Deposits : job'[e] # "dead" => attempts'[e] > 0
<1>1. job[d] # "dead" => attempts[d] \in Nat \ {0}
  BY DEF Counted, TypeOK, AttemptsLeft
<1>2. r # "dead"
  BY DepositAssumption
<1>3. ASSUME Retried(d), job[d] # "dead"
      PROVE /\ job' \in [Deposits -> JobStates \cup Runs]
            /\ attempts' \in [Deposits -> Nat]
            /\ \A e \in Deposits : job'[e] # "dead" => attempts'[e] > 0
  <2>1. attempts' = [attempts EXCEPT ![d] = @ - 1]
    BY <1>3 DEF Retried
  <2>2. job' = [job EXCEPT ![d] = IF attempts[d] = 1 THEN "dead"
                                  ELSE "waiting"]
    BY <1>3 DEF Retried, LastAttempt
  <2>. QED
    BY <1>1, <1>3, <2>1, <2>2 DEF Counted, TypeOK, AttemptsLeft, JobStates
<1>4. CASE UNCHANGED <<job, attempts>>
  BY <1>4 DEF Counted, TypeOK, AttemptsLeft
<1>5. CASE Throw(r, d)
  BY <1>2, <1>3, <1>4, <1>5 DEF Throw
<1>6. CASE Return(r, d)
  BY <1>2, <1>6 DEF Return, Counted, TypeOK, AttemptsLeft, JobStates
<1>7. CASE job[d] # "dead" /\ UNCHANGED attempts
           /\ \E j \in {"waiting", "done", r} : job' = [job EXCEPT ![d] = j]
  BY <1>7 DEF Counted, TypeOK, AttemptsLeft, JobStates
<1>. QED  BY <1>3, <1>4, <1>5, <1>6, <1>7

\* A step of the deposit's run leaves the sweep's job alone.
LEMMA CountedRun ==
    ASSUME Counted, NEW r \in Runs, NEW d \in Deposits, RunStep(r, d)
    PROVE Counted'
<1>1. ProgressType'
  BY ProgressRun, TypeParts DEF Counted
<1>2. budget' \in [Faults -> Nat]
  BY SpendType DEF RunStep, DepositCheck, DepositCredit, DepositPost, DepositRecord, Faults,
    Counted, TypeOK
<1>3. wallet' \in Wallets /\ company' \in CompanyAccounts
  <2>1. \/ UNCHANGED <<wallet, company>>
        \/ /\ wallet' = CreditBalance(wallet, Amount[d])
           /\ company' = AddInternal(company, Amount[d])
    BY DEF RunStep, DepositCheck, DepositCredit, DepositPost, DepositRecord
  <2>. QED  BY <2>1, RowsGrow, AmountType DEF Counted, TypeOK
<1>4. /\ job' \in [Deposits -> JobStates \cup Runs]
      /\ attempts' \in [Deposits -> Nat]
      /\ \A e \in Deposits : job'[e] # "dead" => attempts'[e] > 0
  <2>1. CASE DepositCheck(r, d)
    BY <2>1, JobKept DEF DepositCheck
  <2>2. CASE DepositCredit(r, d)
    BY <2>2, JobKept DEF DepositCredit, CreditError
  <2>3. CASE DepositPost(r, d)
    BY <2>3, JobKept DEF DepositPost
  <2>4. CASE DepositRecord(r, d)
    BY <2>4, JobKept DEF DepositRecord
  <2>. QED  BY <2>1, <2>2, <2>3, <2>4 DEF RunStep
<1>5. UNCHANGED <<hook, sweepJob, sweepAttempts, handler>>
  BY DEF RunStep, DepositCheck, DepositCredit, DepositPost, DepositRecord, sweep
<1>6. \A e \in Deposits : quidax'[e] \in {"Done", "Rejected"}
                            \/ quidax[e] \notin {"Done", "Rejected"}
  BY DEF RunStep, DepositCheck, DepositCredit, DepositPost, DepositRecord, Counted, TypeOK
<1>7. RestType'
  BY <1>2, <1>3, <1>4, <1>5 DEF RestType, Counted, TypeOK
<1>8. AttemptsLeft'
  BY <1>4, <1>5, <1>6 DEF AttemptsLeft, Counted
<1>. QED
  BY <1>1, <1>7, <1>8 DEF Counted, TypeOK, ProgressType, RestType

\* A step of the sweep's handler leaves the deposit's job alone. Only the
\* worker gives an attempt of the sweep's job back, and it holds the job.
LEMMA CountedHandler ==
    ASSUME Counted, NEW h \in Handlers, NEW d \in Deposits, HandlerStep(h, d)
    PROVE Counted'
<1>. USE DEF HandlerStep, SweepCommit, SweepRefresh, SweepError,
             SweepMarkFailed, SweepTransient, SweepDone
<1>1. ProgressType'
  BY ProgressHandler, TypeParts DEF Counted
<1>2. budget' \in [Faults -> Nat]
  BY SpendType DEF Faults, Counted, TypeOK
<1>3. wallet' \in Wallets /\ company' \in CompanyAccounts
  <2>1. \/ UNCHANGED <<wallet, company>>
        \/ wallet' = wallet /\ company' = AddLiquidity(company, Amount[d])
    OBVIOUS
  <2>. QED  BY <2>1, RowsGrow, AmountType DEF Counted, TypeOK
<1>4. UNCHANGED <<job, attempts, quidax>>
  BY DEF deposit
<1>5. hook' \in [Deposits -> {"none", "pending", "processed"}]
  BY DEF Counted, TypeOK
<1>6. handler[h][d] # "idle"
  OBVIOUS
<1>7. h = Worker => sweepJob[d] = "active" /\ sweepAttempts[d] \in Nat \ {0}
  BY <1>6 DEF Counted, TypeOK, AttemptsLeft
<1>8. \/ /\ UNCHANGED <<sweepJob, sweepAttempts>>
         /\ h = Worker => handler'[Worker][d] = "idle"
                            \/ sweepJob[d] = "active"
         /\ \E pc \in HandlerPc : handler' = [handler EXCEPT ![h][d] = pc]
      \/ /\ h = Worker /\ handler' = [handler EXCEPT ![h][d] = "idle"]
         /\ sweepAttempts' = sweepAttempts
         /\ sweepJob' = [sweepJob EXCEPT ![d] = "done"]
      \/ /\ h = Worker /\ handler' = [handler EXCEPT ![h][d] = "idle"]
         /\ sweepAttempts' = [sweepAttempts EXCEPT ![d] = @ - 1]
         /\ sweepJob' = [sweepJob EXCEPT ![d] =
                           IF sweepAttempts[d] = 1 THEN "dead" ELSE "waiting"]
  <2>1. CASE SweepDone(h, d)
    <3>1. CASE h = Worker
      BY <2>1, <3>1 DEF SetHandler
    <3>2. CASE h # Worker
      <4>1. sweepJob' = sweepJob
        BY <2>1, <3>2 DEF Counted, TypeOK
      <4>. QED  BY <2>1, <3>2, <4>1 DEF SetHandler, HandlerPc
    <3>. QED  BY <3>1, <3>2
  <2>2. CASE SweepTransient(h, d)
    BY <1>7, <2>2, DepositAssumption DEF SetHandler, HandlerPc, LastAttempt
  <2>3. CASE \/ SweepCommit(h, d) \/ SweepRefresh(h, d) \/ SweepError(h, d)
             \/ SweepMarkFailed(h, d)
    BY <1>7, <2>3 DEF SetHandler, HandlerPc
  <2>. QED  BY <2>1, <2>2, <2>3
<1>9. /\ sweepJob' \in [Deposits -> {"none", "waiting", "active", "done", "dead"}]
      /\ sweepAttempts' \in [Deposits -> Nat]
  <2>. HIDE DEF HandlerStep
  <2>1. CASE UNCHANGED <<sweepJob, sweepAttempts>>
    BY <2>1 DEF Counted, TypeOK
  <2>2. CASE /\ sweepAttempts' = sweepAttempts
             /\ sweepJob' = [sweepJob EXCEPT ![d] = "done"]
    BY <2>2 DEF Counted, TypeOK
  <2>3. CASE /\ h = Worker
             /\ sweepAttempts' = [sweepAttempts EXCEPT ![d] = @ - 1]
             /\ sweepJob' = [sweepJob EXCEPT ![d] =
                     IF sweepAttempts[d] = 1 THEN "dead" ELSE "waiting"]
    <3>1. sweepAttempts[d] - 1 \in Nat
      BY <1>7, <2>3
    <3>. QED  BY <2>3, <3>1 DEF Counted, TypeOK
  <2>. QED  BY <1>8, <2>1, <2>2, <2>3
<1>10. AttemptsLeft'
  <2> SUFFICES ASSUME NEW e \in Deposits
               PROVE /\ sweepJob'[e] # "dead" => sweepAttempts'[e] > 0
                     /\ handler'[Worker][e] # "idle" => sweepJob'[e] = "active"
                     /\ sweepJob'[e] # "none"
                          => quidax[e] \in {"Done", "Rejected"}
    BY <1>4 DEF AttemptsLeft, Counted
  <2>. HIDE DEF HandlerStep
  <2>1. CASE e # d
    BY <1>8, <2>1, WorkerIsHandler DEF Counted, TypeOK, AttemptsLeft
  <2>2. CASE e = d
    <3>. /\ handler \in [Handlers -> [Deposits -> HandlerPc]]
         /\ sweepJob \in [Deposits -> {"none", "waiting", "active", "done",
                                        "dead"}]
         /\ sweepAttempts \in [Deposits -> Nat]
      BY DEF Counted, TypeOK
    <3>. /\ sweepJob[d] # "dead" => sweepAttempts[d] > 0
         /\ handler[Worker][d] # "idle" => sweepJob[d] = "active"
         /\ sweepJob[d] # "none" => quidax[d] \in {"Done", "Rejected"}
      BY DEF Counted, AttemptsLeft
    <3>1. CASE UNCHANGED <<sweepJob, sweepAttempts>>
      BY <1>8, <2>2, <3>1, WorkerIsHandler
    <3>2. CASE /\ h = Worker /\ handler' = [handler EXCEPT ![h][d] = "idle"]
               /\ sweepAttempts' = sweepAttempts
               /\ sweepJob' = [sweepJob EXCEPT ![d] = "done"]
      BY <1>7, <2>2, <3>2, WorkerIsHandler
    <3>3. CASE /\ h = Worker /\ handler' = [handler EXCEPT ![h][d] = "idle"]
               /\ sweepAttempts' = [sweepAttempts EXCEPT ![d] = @ - 1]
               /\ sweepJob' = [sweepJob EXCEPT ![d] =
                     IF sweepAttempts[d] = 1 THEN "dead" ELSE "waiting"]
      BY <1>7, <2>2, <3>3, WorkerIsHandler
    <3>. QED  BY <1>8, <3>1, <3>2, <3>3
  <2>. QED  BY <2>1, <2>2
<1>. QED
  BY <1>1, <1>2, <1>3, <1>4, <1>5, <1>9, <1>10 DEF Counted, TypeOK, ProgressType

LEMMA CountedDeposit ==
    ASSUME Counted, NEW d \in Deposits, Arrive(d) \/ Stall(d)
    PROVE Counted'
<1>1. ProgressType'
  BY ProgressOther, TypeParts DEF Counted
<1>2. budget' \in [Faults -> Nat]
  BY SpendType DEF Arrive, Stall, Faults, Counted, TypeOK
<1>3. job' = [job EXCEPT ![d] = "waiting"] /\ job[d] # "dead"
  BY DepositAssumption DEF Arrive, Stall
<1>4. UNCHANGED <<wallet, company, hook, attempts, sweepJob, sweepAttempts,
                  handler, quidax>>
  BY DEF Arrive, Stall, sweep
<1>5. RestType'
  BY <1>2, <1>3, <1>4 DEF Counted, TypeOK, RestType, JobStates
<1>6. AttemptsLeft'
  BY <1>3, <1>4 DEF Counted, TypeOK, AttemptsLeft
<1>. QED
  BY <1>1, <1>5, <1>6 DEF Counted, TypeOK, ProgressType, RestType

\* Quidax ends a sweep once, so the job of its webhook is created once.
LEMMA CountedSweep ==
    ASSUME Counted, NEW d \in Deposits,
           QuidaxFinish(d) \/ SweepTake(d) \/ SweepRetake(d)
    PROVE Counted'
<1>1. ProgressType'
  BY ProgressOther, TypeParts DEF Counted
<1>2. budget' \in [Faults -> Nat]
  BY SpendType DEF QuidaxFinish, SweepTake, SweepRetake, Load, Faults, Counted, TypeOK
<1>3. UNCHANGED <<wallet, company, job, attempts, sweepAttempts>>
  BY DEF QuidaxFinish, SweepTake, SweepRetake, deposit
<1>4. hook' \in [Deposits -> {"none", "pending", "processed"}]
  BY DEF QuidaxFinish, SweepTake, SweepRetake, Counted, TypeOK
<1>5. sweepJob' \in [Deposits -> {"none", "waiting", "active", "done", "dead"}]
  BY DEF QuidaxFinish, SweepTake, SweepRetake, Counted, TypeOK
<1>6. AttemptsLeft'
  <2>1. CASE QuidaxFinish(d)
    <3>1. sweepJob[d] = "none" /\ handler[Worker][d] = "idle"
      BY <2>1 DEF QuidaxFinish, Counted, AttemptsLeft
    <3>. QED  BY <2>1, <3>1 DEF QuidaxFinish, deposit, Counted, TypeOK, AttemptsLeft
  <2>2. CASE SweepTake(d)
    <3>1. \E pc \in HandlerPc : handler' = [handler EXCEPT ![Worker][d] = pc]
      BY <2>2 DEF SweepTake, Load, SetHandler, HandlerPc
    <3>. QED
      BY <2>2, <3>1, WorkerIsHandler DEF SweepTake, deposit, Counted, TypeOK, AttemptsLeft
  <2>3. CASE SweepRetake(d)
    <3>1. handler'[Worker] = handler[Worker]
      BY <2>3, DepositAssumption, WorkerIsHandler DEF SweepRetake, Load, SetHandler, Counted, TypeOK
    <3>. QED  BY <2>3, <3>1 DEF SweepRetake, deposit, Counted, AttemptsLeft
  <2>. QED  BY <2>1, <2>2, <2>3
<1>. QED
  BY <1>1, <1>2, <1>3, <1>4, <1>5, <1>6 DEF Counted, TypeOK, ProgressType

LEMMA CountedCrash ==
    ASSUME Counted, Crash
    PROVE Counted'
<1>1. ProgressType'
  BY TypeParts DEF Crash, ProgressType, RunPc, HandlerPc, Counted
<1>2. budget' \in [Faults -> Nat]
  BY SpendType DEF Crash, Faults, Counted
<1>3. /\ job' \in [Deposits -> JobStates \cup Runs]
      /\ \A d \in Deposits : job'[d] # "dead" => job[d] # "dead"
  BY DepositAssumption DEF Crash, Counted, TypeOK, JobStates
<1>4. /\ sweepJob' \in [Deposits -> {"none", "waiting", "active", "done", "dead"}]
      /\ \A d \in Deposits : /\ sweepJob'[d] # "dead" => sweepJob[d] # "dead"
                             /\ sweepJob'[d] # "none" => sweepJob[d] # "none"
                             /\ handler'[Worker][d] = "idle"
  BY WorkerIsHandler DEF Crash, Counted, TypeOK
<1>5. UNCHANGED <<wallet, company, hook, attempts, sweepAttempts, quidax>>
  BY DEF Crash
<1>6. AttemptsLeft'
  <2> SUFFICES ASSUME NEW d \in Deposits
               PROVE /\ job'[d] # "dead" => attempts'[d] > 0
                     /\ sweepJob'[d] # "dead" => sweepAttempts'[d] > 0
                     /\ handler'[Worker][d] # "idle" => sweepJob'[d] = "active"
                     /\ sweepJob'[d] # "none"
                          => quidax'[d] \in {"Done", "Rejected"}
    BY DEF AttemptsLeft
  <2>1. /\ job[d] # "dead" => attempts[d] > 0
        /\ sweepJob[d] # "dead" => sweepAttempts[d] > 0
        /\ sweepJob[d] # "none" => quidax[d] \in {"Done", "Rejected"}
    BY DEF Counted, AttemptsLeft
  <2>2. job'[d] # "dead" => attempts'[d] > 0
    BY <1>3, <1>5, <2>1
  <2>3. sweepJob'[d] # "dead" => sweepAttempts'[d] > 0
    BY <1>4, <1>5, <2>1
  <2>. QED  BY <1>4, <1>5, <2>1, <2>2, <2>3
<1>. QED
  BY <1>1, <1>2, <1>3, <1>4, <1>5, <1>6 DEF Counted, TypeOK, ProgressType

LEMMA CountedNext == Counted /\ [Next]_vars => Counted'
<1> SUFFICES ASSUME Counted, [Next]_vars PROVE Counted'
  OBVIOUS
<1>1. CASE Next
  BY <1>1, CountedRun, CountedHandler, CountedDeposit, CountedSweep, CountedCrash DEF Next
<1>2. CASE UNCHANGED vars
  BY <1>2 DEF vars, Counted, TypeOK, AttemptsLeft
<1>. QED  BY <1>1, <1>2

\* Every column, status and counter keeps its type: in particular neither job
\* is tried more often than it has attempts, although a stalled job has two
\* runs and a sweep two handlers.
THEOREM TypeCorrect == Spec => []TypeOK
<1>1. Spec => []Counted
  BY CountedInit, CountedNext, PTL DEF Spec
<1>2. Counted => TypeOK
  BY DEF Counted
<1>. QED  BY <1>1, <1>2, PTL

\* A sweep follows the credit and is booked only after Quidax carried it out,
\* for any number of deposits and runs of their jobs.
THEOREM SweepsAlwaysInOrder == Spec => []SweepsInOrder
BY SweptOnlyIfCredited, BookedOnlyIfPaid, PTL DEF SweepsInOrder

---------------------------------------------------------------------------
(* Each deposit once: sums over the credited deposits.                     *)

\* One deposit is credited, with its amount on the wallet and on the internal
\* balance, or none is and both stay.
CreditsOne(d) ==
    /\ d \in Deposits \ credited /\ credited' = credited \cup {d}
    /\ wallet' = CreditBalance(wallet, Amount[d])
    /\ company' = AddInternal(company, Amount[d])
CreditsNone ==
    /\ credited' = credited /\ wallet' = wallet
    /\ company'.internal = company.internal

LEMMA CreditSteps ==
    ASSUME TypeOK, [Next]_vars
    PROVE  CreditsNone \/ \E d \in Deposits : CreditsOne(d)
<1>. USE DEF CreditsNone
<1>1. ASSUME NEW r \in Runs, NEW d \in Deposits, RunStep(r, d)
      PROVE  CreditsNone \/ CreditsOne(d)
  <2>1. CASE DepositCredit(r, d)
    BY <2>1 DEF DepositCredit, Uncredited, CreditsOne
  <2>. QED
    BY <1>1, <2>1 DEF RunStep, DepositCheck, DepositPost, DepositRecord
<1>2. ASSUME NEW h \in Handlers, NEW d \in Deposits, HandlerStep(h, d)
      PROVE  CreditsNone
  <2>1. CASE SweepCommit(h, d)
    BY <2>1 DEF SweepCommit, AddLiquidity, TypeOK, CompanyAccounts
  <2>. QED
    BY <1>2, <2>1 DEF HandlerStep, SweepRefresh, SweepError, SweepMarkFailed, SweepTransient,
      SweepDone
<1>3. ASSUME NEW d \in Deposits,
             \/ Arrive(d) \/ Stall(d) \/ QuidaxFinish(d)
             \/ SweepTake(d) \/ SweepRetake(d)
      PROVE  CreditsNone
  BY <1>3 DEF Arrive, Stall, QuidaxFinish, SweepTake, SweepRetake
<1>4. CASE Crash \/ UNCHANGED vars
  BY <1>4 DEF Crash, vars
<1>. QED  BY <1>1, <1>2, <1>3, <1>4 DEF Next

\* Only finitely many deposits have been credited, and what each of them added
\* is in both balances.
CreditInv == IsFiniteSet(credited) /\ CreditedExactly

LEMMA CreditInvInit == Init => CreditInv
<1>. SUFFICES ASSUME Init PROVE CreditInv
  OBVIOUS
<1>1. IsFiniteSet({}) /\ SumFunctionOnSet(Amount, {}) = 0
  BY FS_EmptySet, SumEmpty
<1>2. InitialBase \in Nat /\ InitialInternal \in Nat
  BY DepositAssumption
<1>. QED  BY <1>1, <1>2 DEF Init, CreditInv, CreditedExactly, AmountOf

LEMMA CreditInvNext == TypeOK /\ CreditInv /\ [Next]_vars => CreditInv'
<1>. SUFFICES ASSUME TypeOK, CreditInv, [Next]_vars PROVE CreditInv'
  OBVIOUS
<1>1. CASE CreditsNone
  BY <1>1 DEF CreditsNone, CreditInv, CreditedExactly, AmountOf
<1>2. ASSUME NEW d \in Deposits, CreditsOne(d) PROVE CreditInv'
  <2>1. IsFiniteSet(credited) /\ credited \in SUBSET Deposits
    BY DEF CreditInv, TypeOK
  <2>2. \A e \in credited \cup {d} : Amount[e] \in Int
    BY <2>1, DepositAssumption
  <2>3. AmountOf(credited \cup {d}) = Amount[d] + AmountOf(credited)
    BY <1>2, <2>1, <2>2, SumAdd DEF CreditsOne, AmountOf
  <2>4. IsFiniteSet(credited \cup {d})
    BY <2>1, FS_AddElement
  <2>5. /\ wallet'.base = wallet.base + Amount[d]
        /\ company'.internal = company.internal + Amount[d]
    BY <1>2 DEF CreditsOne, CreditBalance, AddInternal, TypeOK, Wallets, CompanyAccounts
  <2>6. /\ wallet.base \in Nat /\ company.internal \in Nat /\ Amount[d] \in Nat
        /\ InitialBase \in Nat /\ InitialInternal \in Nat
    BY DepositAssumption DEF TypeOK, Wallets, CompanyAccounts
  <2>7. /\ wallet.base - InitialBase = AmountOf(credited)
        /\ company.internal - InitialInternal = wallet.base - InitialBase
    BY DEF CreditInv, CreditedExactly
  <2>8. /\ wallet'.base - InitialBase = AmountOf(credited \cup {d})
        /\ company'.internal - InitialInternal = wallet'.base - InitialBase
    BY <2>3, <2>5, <2>6, <2>7
  <2>9. credited' = credited \cup {d}
    BY <1>2 DEF CreditsOne
  <2>. QED  BY <2>4, <2>8, <2>9 DEF CreditInv, CreditedExactly, AmountOf
<1>. QED  BY <1>1, <1>2, CreditSteps

\* However many deposits arrive and however often their jobs are run, the
\* wallet and what the company owes its users have grown by the sum of the
\* credited deposits: each once, and none in part.
THEOREM AlwaysCreditedExactly == Spec => []CreditedExactly
<1>1. CreditInv => CreditedExactly
  BY DEF CreditInv
<1>. QED  BY <1>1, CreditInvInit, CreditInvNext, TypeCorrect, PTL DEF Spec


---------------------------------------------------------------------------
(* The credit ledger is implemented.                                       *)

Past == {"credited", "posted", "refused"}
Busy == {"confirmed", "committed", "failing"}

\* One run at most gets past the credit of a deposit, and while it is on its
\* way the sweep has no row. A row, and a handler that loaded one, are of a
\* deposit that was credited.
RowOnce ==
    \A d \in Deposits :
        /\ \A r \in Runs : run[r][d] \in Past => sweepRow[d].status = "none"
        /\ \A r \in Runs, s \in Runs :
              run[r][d] \in Past /\ run[s][d] \in Past => r = s
        /\ sweepRow[d].found => sweepRow[d].status # "none"
        /\ sweepRow[d].status # "none" => d \in credited
        /\ \A h \in Handlers : handler[h][d] \in Busy => sweepRow[d].found

LEMMA RowOnceInit == Init => RowOnce
BY DEF Init, RowOnce, Past, Busy

\* A step that leaves the rows alone, lets no run past the credit and no
\* handler start.
LEMMA RowOnceKept ==
    ASSUME RowOnce, sweepRow' = sweepRow, credited \subseteq credited',
           \A r \in Runs, d \in Deposits :
               run'[r][d] \in Past => run[r][d] \in Past,
           \A h \in Handlers, d \in Deposits :
               handler'[h][d] \in Busy => handler[h][d] \in Busy
    PROVE  RowOnce'
BY DEF RowOnce

LEMMA RowOnceRun ==
    ASSUME ProgressType, CreditFirst, RowOnce, NEW r \in Runs,
           NEW d \in Deposits, RunStep(r, d)
    PROVE  RowOnce'
<1>1. CASE DepositCheck(r, d)
  BY <1>1, RowOnceKept DEF DepositCheck, SetRun, ProgressType, sweep, Past
<1>2. CASE DepositCredit(r, d)
  <2>1. UNCHANGED <<sweepRow, handler>>
    BY <1>2 DEF DepositCredit, sweep
  <2>2. CASE /\ d \notin credited /\ credited' = credited \cup {d}
             /\ run' = [run EXCEPT ![r][d] = "credited"]
    <3>1. \A s \in Runs : run[s][d] \notin Past
      BY <2>2 DEF CreditFirst, Past
    <3>2. sweepRow[d].status = "none"
      BY <2>2 DEF RowOnce
    <3>3. \A s \in Runs : run'[s][d] \in Past => s = r
      BY <2>2, <3>1 DEF ProgressType
    <3>4. \A s \in Runs, e \in Deposits \ {d} : run'[s][e] = run[s][e]
      BY <2>2 DEF ProgressType
    <3>. QED  BY <2>1, <2>2, <3>2, <3>3, <3>4 DEF RowOnce
  <2>3. CASE credited' = credited /\ run' = [run EXCEPT ![r][d] = "idle"]
    BY <2>1, <2>3, RowOnceKept DEF ProgressType, Past
  <2>. QED
    BY <1>2, <2>2, <2>3 DEF DepositCredit, Uncredited, CreditError, Throw, Return, SetRun
<1>3. CASE DepositPost(r, d)
  <2>1. \E pc \in RunPc : run' = [run EXCEPT ![r][d] = pc]
    BY <1>3 DEF DepositPost, Throw, SetRun, RunPc
  <2>2. \A s \in Runs, e \in Deposits : run'[s][e] \in Past => run[s][e] \in Past
    BY <1>3, <2>1 DEF DepositPost, ProgressType, Past
  <2>. QED
    BY <1>3, <2>2, RowOnceKept DEF DepositPost, sweep
<1>4. CASE DepositRecord(r, d)
  <2>1. run' = [run EXCEPT ![r][d] = "idle"] /\ run[r][d] \in Past
    BY <1>4 DEF DepositRecord, Throw, Return, SetRun, Past
  <2>2. \A s \in Runs, e \in Deposits :
           run'[s][e] \in Past => run[s][e] \in Past /\ e # d
    BY <2>1 DEF ProgressType, RowOnce, Past
  <2>3. UNCHANGED <<credited, handler>>
    BY <1>4 DEF DepositRecord, sweep
  <2>4. CASE sweepRow' = sweepRow
    BY <2>2, <2>3, <2>4, RowOnceKept
  <2>5. CASE \E s \in {"PENDING", "FAILED"}, b \in BOOLEAN :
                sweepRow' = [sweepRow EXCEPT ![d] = [status |-> s, found |-> b]]
    <3>1. sweepRow[d].status = "none" /\ d \in credited
      BY <2>1 DEF RowOnce, CreditFirst, Past
    <3>2. \A h \in Handlers : handler[h][d] \notin Busy
      BY <3>1 DEF RowOnce
    <3>3. \A e \in Deposits \ {d} : sweepRow'[e] = sweepRow[e]
      BY <2>5 DEF ProgressType
    <3>4. sweepRow'[d].status # "none"
      BY <2>5 DEF ProgressType
    <3>. QED  BY <2>2, <2>3, <3>1, <3>2, <3>3, <3>4 DEF RowOnce
  <2>. QED  BY <1>4, <2>4, <2>5 DEF DepositRecord, WriteRow, SetRow
<1>. QED  BY <1>1, <1>2, <1>3, <1>4 DEF RunStep

\* A handler writes the row it has loaded.
LEMMA RowOnceHandler ==
    ASSUME ProgressType, RowOnce, NEW h \in Handlers, NEW d \in Deposits,
           HandlerStep(h, d)
    PROVE  RowOnce'
<1>1. UNCHANGED <<run, credited>>
  BY DEF HandlerStep, SweepCommit, SweepRefresh, SweepError, SweepMarkFailed, SweepTransient,
    SweepDone, deposit
<1>2. CASE SweepCommit(h, d) \/ SweepMarkFailed(h, d)
  <2>1. PICK s \in {"SUCCESS", "FAILED"} : SetRow(d, s, TRUE)
    BY <1>2 DEF SweepCommit, SweepMarkFailed
  <2>2. sweepRow[d].found /\ handler[h][d] \in Busy
    BY <1>2 DEF SweepCommit, SweepMarkFailed, RowOnce, Busy
  <2>3. \A g \in Handlers, e \in Deposits :
           e # d => handler'[g][e] = handler[g][e]
    <3>1. \E pc \in HandlerPc : handler' = [handler EXCEPT ![h][d] = pc]
      BY <1>2 DEF SweepCommit, SweepMarkFailed, SetHandler, HandlerPc
    <3>. QED  BY <3>1 DEF ProgressType
  <2>4. /\ sweepRow'[d].status = s /\ sweepRow'[d].found
        /\ \A e \in Deposits \ {d} : sweepRow'[e] = sweepRow[e]
    BY <2>1 DEF SetRow, ProgressType
  <2>. QED  BY <1>1, <2>2, <2>3, <2>4 DEF RowOnce
<1>3. CASE \/ SweepRefresh(h, d) \/ SweepError(h, d) \/ SweepTransient(h, d)
           \/ SweepDone(h, d)
  <2>1. \A g \in Handlers, e \in Deposits :
           handler'[g][e] \in Busy => handler[g][e] \in Busy
    <3>1. \E pc \in HandlerPc :
             /\ handler' = [handler EXCEPT ![h][d] = pc]
             /\ pc \in Busy => handler[h][d] \in Busy
      BY <1>3 DEF SweepRefresh, SweepError, SweepTransient, SweepDone, SetHandler, HandlerPc, Busy
    <3>. QED  BY <3>1 DEF ProgressType
  <2>. QED
    BY <1>1, <1>3, <2>1, RowOnceKept DEF SweepRefresh, SweepError, SweepTransient, SweepDone
<1>. QED  BY <1>2, <1>3 DEF HandlerStep

LEMMA RowOnceNext ==
    ProgressType /\ CreditFirst /\ RowOnce /\ [Next]_vars => RowOnce'
<1> SUFFICES ASSUME ProgressType, CreditFirst, RowOnce, [Next]_vars
             PROVE  RowOnce'
  OBVIOUS
<1>1. ASSUME NEW d \in Deposits, Arrive(d) \/ Stall(d) \/ QuidaxFinish(d)
      PROVE  RowOnce'
  BY <1>1, RowOnceKept DEF Arrive, Stall, QuidaxFinish, sweep, deposit
<1>2. ASSUME NEW d \in Deposits, NEW h \in Handlers, NEW pc \in HandlerPc,
             handler' = [handler EXCEPT ![h][d] = pc],
             pc \in Busy => sweepRow[d].found,
             UNCHANGED <<run, credited, sweepRow>>
      PROVE  RowOnce'
  BY <1>2 DEF RowOnce, ProgressType
<1>3. ASSUME NEW d \in Deposits, SweepTake(d) \/ SweepRetake(d)
      PROVE  RowOnce'
  <2>1. UNCHANGED <<run, credited, sweepRow>>
    BY <1>3 DEF SweepTake, SweepRetake, deposit
  <2>2. PICK h \in Handlers, pc \in HandlerPc :
           /\ handler' = [handler EXCEPT ![h][d] = pc]
           /\ pc \in Busy => sweepRow[d].found
    BY <1>3, WorkerIsHandler DEF SweepTake, SweepRetake, Load, SweepOpen, SetHandler, HandlerPc,
      Busy
  <2>. QED  BY <1>2, <2>1, <2>2
<1>4. CASE Crash
  <2>1. \A r \in Runs, d \in Deposits : run'[r][d] \notin Past
    BY <1>4 DEF Crash, Past
  <2>2. \A h \in Handlers, d \in Deposits : handler'[h][d] \notin Busy
    BY <1>4 DEF Crash, Busy
  <2>. QED  BY <1>4, <2>1, <2>2, RowOnceKept DEF Crash
<1>5. CASE UNCHANGED vars
  BY <1>5, RowOnceKept DEF vars
<1>. QED
  BY <1>1, <1>3, <1>4, <1>5, RowOnceRun, RowOnceHandler DEF Next


\* A fault that happened is not given back.
LEMMA BudgetFalls ==
    ASSUME TypeOK, [Next]_vars
    PROVE  \A f \in Faults : budget'[f] <= budget[f]
<1>1. ASSUME budget' = budget \/ \E f \in Faults : Spend(f)
      PROVE  \A f \in Faults : budget'[f] <= budget[f]
  BY <1>1 DEF Spend, TypeOK
<1>2. ASSUME NEW r \in Runs, NEW d \in Deposits, RunStep(r, d)
      PROVE  budget' = budget \/ \E f \in Faults : Spend(f)
  BY <1>2 DEF RunStep, DepositCheck, DepositCredit, DepositPost, DepositRecord, Faults
<1>3. ASSUME NEW h \in Handlers, NEW d \in Deposits, HandlerStep(h, d)
      PROVE  budget' = budget \/ \E f \in Faults : Spend(f)
  BY <1>3 DEF HandlerStep, SweepCommit, SweepRefresh, SweepError, SweepMarkFailed, SweepTransient,
    SweepDone, Faults
<1>4. ASSUME NEW d \in Deposits,
             \/ Arrive(d) \/ Stall(d) \/ QuidaxFinish(d)
             \/ SweepTake(d) \/ SweepRetake(d)
      PROVE  budget' = budget \/ \E f \in Faults : Spend(f)
  BY <1>4 DEF Arrive, Stall, QuidaxFinish, SweepTake, SweepRetake, Faults
<1>5. CASE Crash \/ UNCHANGED vars
  BY <1>1, <1>5 DEF Crash, vars, Faults
<1>. QED  BY <1>1, <1>2, <1>3, <1>4, <1>5 DEF Next

\* Until the scheduler or a database error interferes, the worker is the only
\* one to settle sweeps, and one it is settling has not been counted.
Quiet ==
    /\ \A f \in Faults : budget[f] <= Budget[f]
    /\ Undisturbed =>
         \A d \in Deposits :
            /\ handler[Scheduler][d] = "idle"
            /\ handler[Worker][d] # "failing"
            /\ handler[Worker][d] = "confirmed"
                 => sweepRow[d].status # "SUCCESS"

LEMMA QuietInit == Init => Quiet
BY DepositAssumption, WorkerIsHandler DEF Init, Quiet

\* What has not interfered after a step had not interfered before it.
LEMMA UndisturbedBefore ==
    ASSUME TypeOK, Quiet, [Next]_vars, Undisturbed'
    PROVE  Undisturbed
<1>1. \A f \in Faults : budget'[f] <= budget[f]
  BY BudgetFalls
<1>2. \A f \in Faults : budget[f] \in Nat /\ Budget[f] \in Nat
                        /\ budget[f] <= Budget[f]
  BY DepositAssumption DEF TypeOK, Quiet
<1>3. \A f \in {"hour", "dbError"} : f \in Faults /\ budget'[f] = Budget[f]
  BY DEF Undisturbed, Faults
<1>. QED  BY <1>1, <1>2, <1>3 DEF Undisturbed

\* The scheduler has not run in such a step, nor has a database error struck.
LEMMA QuietSteps ==
    ASSUME TypeOK, Quiet, [Next]_vars, Undisturbed', NEW d \in Deposits
    PROVE  ~SweepRetake(d) /\ \A h \in Handlers : ~SweepError(h, d)
<1>1. Undisturbed
  BY UndisturbedBefore
<1>2. \A f \in {"hour", "dbError"} : budget'[f] = budget[f]
  BY <1>1 DEF Undisturbed
<1>3. \A f \in {"hour", "dbError"} : f \in Faults /\ ~Spend(f)
  BY <1>2 DEF Spend, TypeOK, Faults
<1>. QED  BY <1>3 DEF SweepRetake, SweepError

LEMMA QuietNext == TypeOK /\ TypeOK' /\ Quiet /\ [Next]_vars => Quiet'
<1>. SUFFICES ASSUME TypeOK, TypeOK', Quiet, [Next]_vars PROVE Quiet'
  OBVIOUS
<1>1. \A f \in Faults : budget'[f] <= Budget[f]
  <2>1. \A f \in Faults : /\ budget[f] <= Budget[f] /\ Budget[f] \in Nat
                          /\ budget[f] \in Nat /\ budget'[f] \in Nat
    BY DepositAssumption DEF Quiet, TypeOK
  <2>. QED  BY <2>1, BudgetFalls
<1>. DEFINE Alone(d) == /\ handler[Scheduler][d] = "idle"
                        /\ handler[Worker][d] # "failing"
                        /\ handler[Worker][d] = "confirmed"
                             => sweepRow[d].status # "SUCCESS"
<1>2. ASSUME Undisturbed' PROVE \A d \in Deposits : Alone(d)'
  <2>1. \A d \in Deposits : Alone(d)
    BY <1>2, UndisturbedBefore DEF Quiet
  <2>2. ASSUME NEW d \in Deposits, NEW e \in Deposits,
               \/ Arrive(e) \/ Stall(e) \/ QuidaxFinish(e)
        PROVE  Alone(d)'
    BY <2>1, <2>2 DEF Arrive, Stall, QuidaxFinish, sweep
  <2>3. ASSUME NEW d \in Deposits, NEW e \in Deposits, SweepTake(e)
        PROVE  Alone(d)'
    BY <2>1, <2>3, DepositAssumption, WorkerIsHandler DEF SweepTake, Load, SweepOpen, SetHandler,
      TypeOK
  <2>4. ASSUME NEW d \in Deposits, NEW e \in Deposits, NEW r \in Runs,
               RunStep(r, e)
        PROVE  Alone(d)'
    <3>1. handler' = handler
      BY <2>4 DEF RunStep, DepositCheck, DepositCredit, DepositPost, DepositRecord, sweep
    <3>2. sweepRow'[d].status = "SUCCESS" => sweepRow[d].status = "SUCCESS"
      BY <2>4, TypeParts, RunsCountNone
    <3>. QED  BY <2>1, <3>1, <3>2
  <2>5. ASSUME NEW d \in Deposits, NEW e \in Deposits, NEW h \in Handlers,
               HandlerStep(h, e)
        PROVE  Alone(d)'
    <3>1. h = Worker /\ ~SweepError(h, e)
      <4>1. handler[h][e] # "idle"
        BY <2>5 DEF HandlerStep, SweepCommit, SweepRefresh, SweepError, SweepMarkFailed,
          SweepTransient, SweepDone
      <4>2. ~SweepError(h, e)
        BY <1>2, QuietSteps
      <4>. QED  BY <2>1, <4>1, <4>2 DEF Handlers
    <3>2. ~SweepMarkFailed(h, e)
      BY <2>1, <3>1 DEF SweepMarkFailed
    <3>3. PICK pc \in {"idle", "marking", "committed"} :
             handler' = [handler EXCEPT ![h][e] = pc]
      BY <2>5, <3>1, <3>2 DEF HandlerStep, SweepCommit, SweepRefresh, SweepTransient, SweepDone,
        SetHandler
    <3>4. /\ handler'[Scheduler][d] = handler[Scheduler][d]
          /\ d # e => handler'[Worker][d] = handler[Worker][d]
          /\ d = e => handler'[Worker][d] = pc
      BY <3>1, <3>3, WorkerIsHandler, DepositAssumption DEF TypeOK
    <3>5. d # e => sweepRow'[d] = sweepRow[d]
      BY <2>5 DEF HandlerStep, SweepCommit, SweepRefresh, SweepError, SweepMarkFailed,
        SweepTransient, SweepDone, SetRow, TypeOK
    <3>. QED  BY <2>1, <3>4, <3>5
  <2>6. ASSUME NEW d \in Deposits, Crash PROVE Alone(d)'
    BY <2>6, WorkerIsHandler DEF Crash
  <2>7. ASSUME NEW d \in Deposits, UNCHANGED vars PROVE Alone(d)'
    BY <2>1, <2>7 DEF vars
  <2>. QED
    BY <1>2, <2>2, <2>3, <2>4, <2>5, <2>6, <2>7, QuietSteps DEF Next
<1>. QED  BY <1>1, <1>2 DEF Quiet

---------------------------------------------------------------------------
\* The stage of a deposit in the credit ledger, as ImplementsCredits maps it.
Stage == [d \in Deposits |->
            IF sweepRow[d].status = "SUCCESS" THEN "swept"
            ELSE IF d \in credited THEN "credited" ELSE "seen"]

\* A step that writes neither row and moves no deposit on is a stutter.
LEMMA StageKept ==
    ASSUME TypeOK, TypeOK', credited' = credited, UNCHANGED <<wallet, company>>,
           \A d \in Deposits : sweepRow'[d].status = "SUCCESS"
                                 <=> sweepRow[d].status = "SUCCESS"
    PROVE  UNCHANGED Credits!cvars
BY DEF Credits!cvars

LEMMA RefineRun ==
    ASSUME TypeOK, TypeOK', CreditFirst, RowOnce, NEW r \in Runs,
           NEW d \in Deposits, RunStep(r, d)
    PROVE  Credits!CNext \/ UNCHANGED Credits!cvars
<1>1. CASE DepositCheck(r, d) \/ DepositPost(r, d)
  BY <1>1, StageKept DEF DepositCheck, DepositPost
<1>2. CASE DepositCredit(r, d)
  <2>1. CASE d \notin credited /\ credited' = credited \cup {d}
    <3>1. /\ wallet' = CreditBalance(wallet, Amount[d])
          /\ company' = AddInternal(company, Amount[d])
          /\ sweepRow' = sweepRow
      BY <1>2, <2>1 DEF DepositCredit
    <3>2. sweepRow[d].status # "SUCCESS"
      BY <2>1 DEF RowOnce
    <3>3. Stage[d] = "seen" /\ Stage' = [Stage EXCEPT ![d] = "credited"]
      BY <2>1, <3>1, <3>2 DEF Stage
    <3>4. Credits!Credit(d)
      BY <3>1, <3>3 DEF Credits!Credit, Credits!CreditBalance, Credits!AddInternal, CreditBalance,
        AddInternal, Stage
    <3>. QED  BY <3>4 DEF Credits!CNext
  <2>2. CASE UNCHANGED <<credited, wallet, company, sweepRow>>
    BY <2>2, StageKept
  <2>. QED  BY <1>2, <2>1, <2>2 DEF DepositCredit, Uncredited
<1>3. CASE DepositRecord(r, d)
  <2>1. sweepRow[d].status = "none"
    BY <1>3 DEF DepositRecord, RowOnce, Past
  <2>2. /\ \A e \in Deposits : sweepRow'[e].status = "SUCCESS"
                                 => sweepRow[e].status = "SUCCESS"
        /\ \A e \in Deposits \ {d} : sweepRow'[e] = sweepRow[e]
    BY TypeParts, RunsCountNone
  <2>3. \A e \in Deposits : sweepRow'[e].status = "SUCCESS"
                              <=> sweepRow[e].status = "SUCCESS"
    BY <2>1, <2>2
  <2>. QED  BY <1>3, <2>3, StageKept DEF DepositRecord
<1>. QED  BY <1>1, <1>2, <1>3 DEF RunStep

LEMMA RefineHandler ==
    ASSUME TypeOK, TypeOK', RowOnce, Quiet, [Next]_vars, Undisturbed',
           NEW h \in Handlers, NEW d \in Deposits, HandlerStep(h, d)
    PROVE  Credits!CNext \/ UNCHANGED Credits!cvars
<1>1. Undisturbed /\ ~SweepError(h, d)
  BY UndisturbedBefore, QuietSteps
<1>2. handler[h][d] # "failing"
  BY <1>1 DEF Quiet, Handlers
<1>3. CASE SweepCommit(h, d)
  <2>1. sweepRow[d].status # "SUCCESS"
    BY <1>1, <1>3 DEF SweepCommit, Quiet, Handlers
  <2>2. d \in credited
    BY <1>3 DEF SweepCommit, RowOnce, Busy
  <2>3. /\ company' = AddLiquidity(company, Amount[d])
        /\ sweepRow' = [sweepRow EXCEPT ![d] = [status |-> "SUCCESS",
                                                found |-> TRUE]]
        /\ UNCHANGED <<wallet, credited>>
    BY <1>3 DEF SweepCommit, SetRow
  <2>4. Stage[d] = "credited" /\ Stage' = [Stage EXCEPT ![d] = "swept"]
    BY <2>1, <2>2, <2>3 DEF Stage, TypeOK
  <2>5. Credits!Sweep(d)
    BY <2>3, <2>4 DEF Credits!Sweep, Credits!AddLiquidity, AddLiquidity, Stage
  <2>. QED  BY <2>5 DEF Credits!CNext
<1>4. CASE ~SweepCommit(h, d)
  BY <1>1, <1>2, <1>4, StageKept DEF HandlerStep, SweepRefresh, SweepMarkFailed, SweepTransient,
    SweepDone
<1>. QED  BY <1>3, <1>4

LEMMA RefineStep ==
    TypeOK /\ TypeOK' /\ CreditFirst /\ RowOnce /\ Quiet /\ [Next]_vars
      => (Undisturbed' => Credits!CNext) \/ UNCHANGED Credits!cvars
<1>. SUFFICES ASSUME TypeOK, TypeOK', CreditFirst, RowOnce, Quiet, [Next]_vars,
                     Undisturbed'
              PROVE  Credits!CNext \/ UNCHANGED Credits!cvars
  OBVIOUS
<1>1. ASSUME NEW d \in Deposits,
             \/ Arrive(d) \/ Stall(d) \/ QuidaxFinish(d)
             \/ SweepTake(d) \/ SweepRetake(d)
      PROVE  UNCHANGED Credits!cvars
  BY <1>1, StageKept DEF Arrive, Stall, QuidaxFinish, SweepTake, SweepRetake, sweep
<1>2. CASE Crash \/ UNCHANGED vars
  BY <1>2, StageKept DEF Crash, vars
<1>. QED  BY <1>1, <1>2, RefineRun, RefineHandler DEF Next

LEMMA RefineInit == Init => Credits!CInit
BY DEF Init, Credits!CInit

\* The deposit flow implements the credit ledger: whatever runs twice, stalls,
\* crashes or loses an answer, every step credits one deposit, adds one sweep
\* that follows its credit, or changes no balance; until the scheduler or a
\* database error interferes, which may count a sweep twice.
THEOREM CreditsImplemented == Spec => ImplementsCredits
<1>. DEFINE Inv == TypeOK /\ ProgressType /\ CreditFirst /\ RowOnce /\ Quiet
<1>1. Init => Inv
  BY CountedInit, ProgressInit, RowOnceInit, QuietInit DEF Counted
<1>2. TypeOK /\ TypeOK' /\ Inv /\ [Next]_vars => Inv'
  BY ProgressNext, CreditFirstNext, RowOnceNext, QuietNext
<1>3. TypeOK /\ TypeOK' /\ Inv /\ [Next]_vars
        => [Undisturbed' => Credits!CNext]_(Credits!cvars)
  BY RefineStep
<1>. QED
  BY <1>1, <1>2, <1>3, RefineInit, TypeCorrect, PTL DEF Spec, ImplementsCredits

=============================================================================
