------------------------------ MODULE Schedule ------------------------------
(***************************************************************************)
(* How a periodic job comes to run.  In every process with schedulers the  *)
(* clock adds a job to the queue, under an id that names the slot, or runs *)
(* it itself when the queue cannot be reached.  A run asks the record of   *)
(* the job whether it is due, and says at its end when it is due again: a  *)
(* whole period after it STARTED.  Two jobs take a lock in Redis that ends *)
(* by itself.  Time is in units; a run takes none unless it stalls.        *)
(***************************************************************************)
EXTENDS Mishaps, FiniteSets

CONSTANTS Processes, \* with schedulers
          RunSlots,  \* runs at once
          Period,    \* of the job
          LockTtl,   \* of its lock
          MaxDelay,  \* how long a job waits for a worker
          Pages,     \* of work in a run, at most
          Horizon    \* end of the time looked at

ASSUME ScheduleAssumption ==
    /\ Period \in Nat \ {0} /\ LockTtl \in Nat \ {0} /\ Pages \in Nat \ {0}
    /\ MaxDelay \in Nat /\ MaxDelay < Period /\ Horizon \in Nat
    \* Of the 12 or 24 hours of a slot, a lock takes 20 minutes or 10.
    /\ LockTtl + MaxDelay <= Period
    /\ Processes # {}
    /\ {"error", "refusal", "crash", "stall"} \subseteq Kinds

VARIABLES style,   \* which of the jobs
          now,
          unserved, \* processes whose clock has not been served in this slot
          queued,  \* the slot's job in BullMQ
          dueAt,   \* SchedulerJobState.nextExecutionAt
          lock,    \* when the lock in Redis ends
          runs,    \* runs of the job
          last,    \* when it was last done
          done     \* how often it was done in this slot

scheduleVars == <<style, now, unserved, queued, dueAt, lock, runs, last, done>>

\* "shards": vault-interest, whose lock is left to end by itself; "sweeps":
\* company-withdrawal-retry, which deletes it; "plain": those without a lock.
Styles == {"shards", "sweeps", "plain"}
NeverRun == -1
Unlocked == -1
NoRun == [at |-> "none", job |-> FALSE, from |-> 0, left |-> 0, slow |-> FALSE]

ScheduleTypeOK ==
    /\ style \in Styles /\ now \in 0..Horizon /\ unserved \subseteq Processes
    /\ queued \in {"none", "waiting", "taken"}
    /\ dueAt \in Int /\ lock \in Int
    /\ runs \in [RunSlots -> [at : {"none", "again", "asked", "inside"}, job : BOOLEAN,
                             from : Nat, left : 0..Pages, slow : BOOLEAN]]
    /\ last \in Int /\ done \in Nat

ScheduleInit ==
    /\ style \in Styles
    /\ now = 0 /\ unserved = Processes /\ queued = "none"
    /\ dueAt = NeverRun /\ lock = Unlocked
    /\ runs = [r \in RunSlots |-> NoRun]
    /\ last = 0 /\ done = 0

-----------------------------------------------------------------------------
IsDue(t) == dueAt = NeverRun \/ dueAt <= t
LockLive == lock > now
Began(job) == [NoRun EXCEPT !.at = "asked", !.job = job, !.from = now]
Idlest(r) == runs[r] = NoRun /\ \A s \in RunSlots : runs[s] = NoRun => r <= s
Over(r) == runs' = [runs EXCEPT ![r] = NoRun]
\* BullMQ has another attempt for a job, a process has none.
Failed(r) == runs' = [runs EXCEPT ![r] = IF runs[r].job
                                          THEN [NoRun EXCEPT !.at = "again", !.job = TRUE]
                                          ELSE NoRun]

\* @Cron: queue.add ignores an id it has seen.
NewId == "waiting"
Deduplicated == IF queued = "none" THEN "waiting" ELSE queued
Enqueue(p) ==
    /\ p \in unserved /\ unserved' = unserved \ {p}
    /\ queued' = Deduplicated
    /\ UNCHANGED <<style, now, dueAt, lock, runs, last, done, budget>>

\* Redis is not there: the process runs the job itself.
RunHere(p) ==
    /\ p \in unserved /\ unserved' = unserved \ {p} /\ Spend("error")
    /\ \E r \in RunSlots : /\ Idlest(r)
                           /\ runs' = IF IsDue(now) THEN [runs EXCEPT ![r] = Began(FALSE)]
                                     ELSE runs
    /\ UNCHANGED <<style, now, queued, dueAt, lock, last, done>>

\* A worker takes the job, and asks the record first.
BeginRun(r) ==
    /\ \/ queued = "waiting" /\ Idlest(r) /\ queued' = "taken"
       \/ runs[r].at = "again" /\ UNCHANGED queued
    /\ runs' = [runs EXCEPT ![r] = IF IsDue(now) THEN Began(TRUE) ELSE NoRun]
    /\ UNCHANGED <<style, now, unserved, dueAt, lock, last, done, budget>>

\* setNx with a time to live, which also says no when Redis fails; and what
\* there is to do.
LockSkipped == FALSE
LockTaken == LockLive
Claim(r) ==
    /\ style # "plain" /\ runs[r].at = "asked"
    /\ \/ LockTaken /\ Over(r) /\ UNCHANGED <<lock, budget>>
       \/ Spend("error") /\ Over(r) /\ UNCHANGED lock
       \/ /\ ~ LockTaken /\ lock' = now + LockTtl
          /\ \E n \in 0..Pages :
                 runs' = [runs EXCEPT ![r].at = "inside", ![r].left = n]
          /\ UNCHANGED budget
    /\ UNCHANGED <<style, now, unserved, queued, dueAt, last, done>>

OpenPlain(r) ==
    /\ style = "plain" /\ runs[r].at = "asked"
    /\ \E n \in 0..Pages : runs' = [runs EXCEPT ![r].at = "inside", ![r].left = n]
    /\ UNCHANGED <<style, now, unserved, queued, dueAt, lock, last, done, budget>>

NextExecution(r) == runs[r].from + Period

MarkExecuted(r) == /\ dueAt' = NextExecution(r)
                   /\ last' = now /\ done' = done + 1

\* The shards of matured vaults, each a job of its own; the lock stays.
DispatchShards(r) ==
    /\ style = "shards" /\ runs[r].at = "inside"
    /\ \/ /\ runs[r].left > 0 /\ runs' = [runs EXCEPT ![r].left = @ - 1]
          /\ UNCHANGED <<dueAt, last, done>>
       \/ /\ runs[r].left = 0 /\ MarkExecuted(r) /\ Over(r)
    /\ UNCHANGED <<style, now, unserved, queued, lock, budget>>

\* Unprocessed webhooks of sweeps.  Without any the job returns before it has
\* marked itself; whatever happens, it deletes the lock, its own or not.
RetrySweeps(r) ==
    /\ style = "sweeps" /\ runs[r].at = "inside"
    /\ \/ /\ runs[r].left > 1 /\ runs' = [runs EXCEPT ![r].left = @ - 1]
          /\ UNCHANGED <<dueAt, lock, last, done>>
       \/ /\ runs[r].left = 1 /\ MarkExecuted(r) /\ Over(r) /\ lock' = Unlocked
       \/ /\ runs[r].left = 0 /\ Over(r) /\ lock' = Unlocked
          /\ last' = now /\ UNCHANGED <<dueAt, done>>
    /\ UNCHANGED <<style, now, unserved, queued, budget>>

\* failed-company-liquidity, daily-percentage, daily-limit-reset, bills.
RunPlain(r) ==
    /\ style = "plain" /\ runs[r].at = "inside"
    /\ \/ /\ runs[r].left > 0 /\ runs' = [runs EXCEPT ![r].left = @ - 1]
          /\ UNCHANGED <<dueAt, last, done>>
       \/ /\ runs[r].left = 0 /\ MarkExecuted(r) /\ Over(r)
    /\ UNCHANGED <<style, now, unserved, queued, lock, budget>>

\* The queue or the database fails in between: the job is tried again.
Fails(r) ==
    /\ runs[r].at = "inside" /\ Spend("refusal")
    /\ Failed(r)
    /\ lock' = IF style = "sweeps" THEN Unlocked ELSE lock
    /\ UNCHANGED <<style, now, unserved, queued, dueAt, last, done>>

\* The process dies, and with it nothing but the run; BullMQ finds its job
\* stalled and gives it to another worker.
Dies(r) ==
    /\ runs[r].at \in {"asked", "inside"} /\ Spend("crash")
    /\ Failed(r)
    /\ UNCHANGED <<style, now, unserved, queued, dueAt, lock, last, done>>

Stalls(r) ==
    /\ runs[r].at = "inside" /\ ~ runs[r].slow /\ Spend("stall")
    /\ runs' = [runs EXCEPT ![r].slow = TRUE]
    /\ UNCHANGED <<style, now, unserved, queued, dueAt, lock, last, done>>

SlotOf(t) == t - (t % Period)
ClockTick ==
    /\ now < Horizon /\ unserved = {}
    /\ \A r \in RunSlots : runs[r] = NoRun \/ runs[r].slow
    /\ queued = "waiting" => now < SlotOf(now) + MaxDelay
    /\ now' = now + 1
    /\ IF now' % Period = 0
       THEN unserved' = Processes /\ done' = 0 /\ queued' = "none"
       ELSE UNCHANGED <<unserved, queued, done>>
    /\ UNCHANGED <<style, dueAt, lock, runs, last, budget>>

ScheduleNext ==
    \/ \E p \in Processes : Enqueue(p) \/ RunHere(p)
    \/ \E r \in RunSlots : \/ BeginRun(r) \/ Claim(r) \/ OpenPlain(r)
                           \/ DispatchShards(r) \/ RetrySweeps(r) \/ RunPlain(r)
                           \/ Fails(r) \/ Dies(r) \/ Stalls(r)
    \/ ClockTick

-----------------------------------------------------------------------------
Inside == {r \in RunSlots : runs[r].at = "inside"}

\* Only a run that outlasts its lock is ever joined by another one.
OneInside ==
    (style # "plain" /\ Untouched({"stall"})) => Cardinality(Inside) <= 1

\* However many processes, a job is done once in a slot, unless one of them
\* could not reach the queue or a run outlasted its lock.
OncePerSlot == Untouched({"error", "stall"}) => done <= 1

\* Counting the period from the start of a run makes a later one come too
\* early, and skip its slot; but never two in a row, and one more for each
\* run that fails, dies or stalls, or does not reach Redis.
GapBounded ==
    now - last <= (2 + Spent({"refusal", "crash", "stall", "error"})) * Period + MaxDelay
=============================================================================
