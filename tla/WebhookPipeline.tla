-------------------------- MODULE WebhookPipeline --------------------------
(***************************************************************************)
(* From a provider's webhook request to the end of its job: the endpoint   *)
(* (webhook.controller.ts), the idempotency record (webhook-idempotency.   *)
(* service.ts), the BullMQ job (bullmq.service.ts, quidax-trades.worker.ts *)
(* and quidax-webhook-event.service.ts) and the reconciliation of old      *)
(* unprocessed rows (company-withdrawal-retry.scheduler.ts).               *)
(*                                                                         *)
(* A provider may send an event as often as it likes, concurrently. What   *)
(* the handler does with an event is abstract here: it returns or throws.  *)
(***************************************************************************)
EXTENDS Integers, FiniteSets

CONSTANTS Events,      \* eventIds: event name and provider id
          Deliveries,  \* webhook requests
          Invalid,     \* events whose payload fails DTO validation
          Sweeps,      \* withdraw events that name a companyWithdrawal
          Bare,        \* withdraw events that name no reference at all
          MaxTries,    \* backoff_retries
          FaultBudget  \* how often each fault may happen

PipelineFaults == {"crash", "storeError", "queueError", "handlerError", "markError",
                   "hour"}

ASSUME PipelineAssumption ==
    /\ Invalid \subseteq Events /\ Sweeps \subseteq Events /\ Bare \subseteq Events
    /\ MaxTries \in Nat \ {0}
    /\ FaultBudget \in [PipelineFaults -> Nat]

VARIABLES
    row,      \* the event's row of "Webhook" and its status
    request,  \* progress of each request, for the event it carries
    acked,    \* events some request was answered 200 for
    task,     \* the event's BullMQ job
    triesLeft, \* attempts the job has left
    handled,  \* events whose handler has returned normally
    pass,     \* the reconciliation's progress on the event
    faults    \* faults that may still happen

pipelineVars == <<row, request, acked, task, triesLeft, handled, pass, faults>>

HookStates == {"none", "pending", "processed", "failed"}
RequestPc == {"idle", "new", "stored", "queued", "answered", "failed"}
JobPc == {"none", "waiting", "active", "handled", "done", "dead"}
SweepPc == {"idle", "checking", "marking"}

PipelineTypeOK == /\ row \in [Events -> HookStates]
                  /\ request \in [Deliveries -> [Events -> RequestPc]]
                  /\ acked \in SUBSET Events
                  /\ task \in [Events -> JobPc]
                  /\ triesLeft \in [Events -> Nat]
                  /\ handled \in SUBSET Events
                  /\ pass \in [Events -> SweepPc]
                  /\ faults \in [PipelineFaults -> Nat]

PipelineInit == /\ row = [e \in Events |-> "none"]
                /\ request = [d \in Deliveries |-> [e \in Events |-> "idle"]]
                /\ acked = {} /\ handled = {}
                /\ task = [e \in Events |-> "none"]
                /\ triesLeft = [e \in Events |-> MaxTries]
                /\ pass = [e \in Events |-> "idle"]
                /\ faults = FaultBudget

Befalls(f) == /\ faults[f] > 0
              /\ faults' = [faults EXCEPT ![f] = @ - 1]
SetRequest(d, e, pc) == request' = [request EXCEPT ![d][e] = pc]
SetHook(e, status) == row' = [row EXCEPT ![e] = status]
SetJob(e, pc) == task' = [task EXCEPT ![e] = pc]

---------------------------------------------------------------------------
(* The endpoint                                                            *)

\* Answered 200 without queueing: for a duplicate, or for any other error of
\* the insert, which ensureUnique also reports as not new.
Dismiss(d, e) == /\ SetRequest(d, e, "answered")
                 /\ acked' = acked \cup {e}

\* The pre-check of ensureUnique. A delivery carries one event.
Receive(d, e) ==
    /\ \A f \in Events : request[d][f] = "idle"
    /\ \/ /\ row[e] = "none"
          /\ SetRequest(d, e, "new")
          /\ UNCHANGED acked
       \/ row[e] # "none" /\ Dismiss(d, e)
    /\ UNCHANGED <<row, task, triesLeft, handled, pass, faults>>

\* Mutations of KeyFree: idempotencyKey has no unique constraint, or the insert's
\* outcome is read the wrong way round.
AnyKey(e) == TRUE
KeyTaken(e) == row[e] # "none"

\* The unique constraint on idempotencyKey.
KeyFree(e) == row[e] = "none"

Store(d, e) ==
    /\ request[d][e] = "new"
    /\ \/ /\ KeyFree(e)
          /\ SetHook(e, "pending")
          /\ SetRequest(d, e, "stored")
          /\ UNCHANGED <<acked, faults>>
       \/ /\ ~KeyFree(e)
          /\ Dismiss(d, e)
          /\ UNCHANGED <<row, faults>>
       \/ /\ Befalls("storeError")
          /\ Dismiss(d, e)
          /\ UNCHANGED row
    /\ UNCHANGED <<task, triesLeft, handled, pass>>

\* queueService.add; when it throws the provider gets a 500. A job that is
\* still known under its jobId is not added again.
Enqueue(d, e) ==
    /\ request[d][e] = "stored"
    /\ \/ /\ SetRequest(d, e, "queued")
          /\ acked' = acked \cup {e}
          /\ task' = [task EXCEPT ![e] = IF @ \in {"none", "done"}
                                         THEN "waiting" ELSE @]
          /\ UNCHANGED faults
       \/ /\ SetRequest(d, e, "failed")
          /\ Befalls("queueError")
          /\ UNCHANGED <<acked, task>>
    /\ UNCHANGED <<row, triesLeft, handled, pass>>

---------------------------------------------------------------------------
(* The worker                                                              *)

JobStart(e) ==
    /\ task[e] = "waiting"
    /\ SetJob(e, "active")
    /\ UNCHANGED <<row, request, acked, triesLeft, handled, pass, faults>>

\* Validation fails: the row is marked failed and the job returns normally.
\* An error of that update is swallowed.
JobInvalid(e) ==
    /\ task[e] = "active" /\ e \in Invalid
    /\ SetJob(e, "done")
    /\ \/ SetHook(e, "failed") /\ UNCHANGED faults
       \/ Befalls("markError") /\ UNCHANGED row
    /\ UNCHANGED <<request, acked, triesLeft, handled, pass>>

JobHandle(e) ==
    /\ task[e] = "active" /\ e \notin Invalid
    /\ SetJob(e, "handled")
    /\ handled' = handled \cup {e}
    /\ UNCHANGED <<row, request, acked, triesLeft, pass, faults>>

\* Mutations of LastTry: the job is added without the attempts option, or
\* is retried without end.
OnlyTry(e) == TRUE
NeverLastTry(e) == FALSE

LastTry(e) == triesLeft[e] = 1

\* The handler throws and BullMQ retries while attempts are left. The
\* 'failed' listener that would mark the row is registered on the Queue,
\* which emits no such event: a job that dies leaves its row as it is.
JobThrow(e) ==
    /\ task[e] = "active" /\ e \notin Invalid
    /\ Befalls("handlerError")
    /\ triesLeft' = [triesLeft EXCEPT ![e] = @ - 1]
    /\ SetJob(e, IF LastTry(e) THEN "dead" ELSE "waiting")
    /\ UNCHANGED <<row, request, acked, handled, pass>>

\* markProcessed; its error is swallowed and the job completes all the same.
JobMark(e) ==
    /\ task[e] = "handled"
    /\ SetJob(e, "done")
    /\ \/ SetHook(e, "processed") /\ UNCHANGED faults
       \/ Befalls("markError") /\ UNCHANGED row
    /\ UNCHANGED <<request, acked, triesLeft, handled, pass>>

---------------------------------------------------------------------------
(* Reconciliation                                                          *)

\* Mutation of Reconcilable: the lookup of the companyWithdrawal is dropped.
AnyEvent(e) == TRUE

Reconcilable(e) == e \in Sweeps \cup Bare

\* Rows older than an hour and not processed, whatever their job is doing. One
\* without a reference is marked without a look at Quidax or at the handler.
ReconcileRead(e) ==
    /\ pass[e] = "idle"
    /\ row[e] \in {"pending", "failed"} /\ Reconcilable(e)
    /\ Befalls("hour")
    /\ pass' = [pass EXCEPT ![e] = IF e \in Bare THEN "marking" ELSE "checking"]
    /\ UNCHANGED <<row, request, acked, task, triesLeft, handled>>

\* The handler is called when Quidax says Done; an error is only logged.
ReconcileHandle(e) ==
    /\ pass[e] = "checking"
    /\ pass' = [pass EXCEPT ![e] = "marking"]
    /\ handled' \in {handled, handled \cup {e}}
    /\ UNCHANGED <<row, request, acked, task, triesLeft, faults>>

\* Processed regardless of the outcome.
ReconcileMark(e) ==
    /\ pass[e] = "marking"
    /\ pass' = [pass EXCEPT ![e] = "idle"]
    /\ SetHook(e, "processed")
    /\ UNCHANGED <<request, acked, task, triesLeft, handled, faults>>

---------------------------------------------------------------------------
\* The process dies: requests in progress get no answer, active jobs are
\* stalled and handed out again, the scheduler's run is lost.
PipelineCrash ==
    /\ Befalls("crash")
    /\ request' = [d \in Deliveries |-> [e \in Events |->
                     IF request[d][e] \in {"new", "stored"}
                     THEN "failed" ELSE request[d][e]]]
    /\ task' = [e \in Events |-> IF task[e] \in {"active", "handled"}
                                 THEN "waiting" ELSE task[e]]
    /\ pass' = [e \in Events |-> "idle"]
    /\ UNCHANGED <<row, acked, triesLeft, handled>>

RequestStep(d, e) == Receive(d, e) \/ Store(d, e) \/ Enqueue(d, e)
JobStep(e) == \/ JobStart(e) \/ JobInvalid(e) \/ JobHandle(e)
              \/ JobThrow(e) \/ JobMark(e)
Reconcile(e) == ReconcileRead(e) \/ ReconcileHandle(e) \/ ReconcileMark(e)

PipelineNext == \/ \E e \in Events : \/ JobStep(e) \/ Reconcile(e)
                                     \/ \E d \in Deliveries : RequestStep(d, e)
                \/ PipelineCrash

PipelineSpec == PipelineInit /\ [][PipelineNext]_pipelineVars

\* Workers take jobs and the daily reconciliation runs; no provider is
\* obliged to deliver.
PipelineFairSpec == /\ PipelineSpec
                    /\ \A e \in Events :
                         /\ WF_pipelineVars(JobStart(e) \/ JobInvalid(e) \/ JobHandle(e)
                                      \/ JobMark(e))
                         /\ WF_pipelineVars(Reconcile(e))
---------------------------------------------------------------------------
(***************************************************************************)
(* Properties                                                              *)
(***************************************************************************)
\* However many requests carry an event, and wherever they or the process
\* die, at most one of them puts it on a queue.
SingleJob ==
    \A e \in Events : \A d1, d2 \in Deliveries :
        request[d1][e] = "queued" /\ request[d2][e] = "queued" => d1 = d2

\* One job at most, and no job tried more often than it has attempts, nor any
\* other state out of its type.
PipelineSafe == PipelineTypeOK /\ SingleJob

\* A row says processed only if the event's handler has returned normally. Only
\* the reconciliation marks rows regardless of the outcome: those of sweeps and
\* those without a reference, and none that is younger than an hour.
ProcessedWasHandled ==
    \A e \in Events :
        row[e] = "processed" =>
            \/ e \in handled
            \/ e \in Sweeps \cup Bare /\ faults["hour"] < FaultBudget["hour"]

\* An event that reached the queue ends up processed or failed in the table, as
\* long as the handlers error fewer times than a job has attempts and the row
\* can be written.
QueuedIsSettled ==
    \A e \in Events :
        task[e] # "none" ~>
             \/ row[e] \in {"processed", "failed"}
             \/ FaultBudget["handlerError"] - faults["handlerError"] >= MaxTries
             \/ faults["markError"] < FaultBudget["markError"]

\* The report (section 16) has a job queued for every event recorded: once no
\* request for an event is in progress, an event the provider was told was
\* received, and will not send again, has its job. Any failure between the insert
\* and the queue, and any error of the insert, loses the event.
AckedIsQueued ==
    (\A f \in {"crash", "storeError", "queueError"} : faults[f] = FaultBudget[f]) =>
        \A e \in acked :
            (\A d \in Deliveries : request[d][e] \notin {"new", "stored"})
                => task[e] # "none"
===========================================================================
