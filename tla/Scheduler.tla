----------------------------- MODULE Scheduler -----------------------------
(***************************************************************************)
(* The work scheduler of the agent (apps/agent/src/scheduler.ts) as        *)
(* apps/agent/src/main.ts drives it: an interval offers a job and pumps,   *)
(* jobs run, time out, are retried and report, and a signal shuts the      *)
(* process down.                                                           *)
(*                                                                         *)
(* JavaScript runs one callback at a time.  An action is what happens      *)
(* between two awaits, except that the loop of pump is one action per      *)
(* iteration: while "pumping" nothing else runs.                           *)
(*                                                                         *)
(* Abstractions: the key of a job is the job; a timer may fire at any      *)
(* moment while it is armed; the counters that feed the metrics and the    *)
(* wording of an outcome are left out.                                     *)
(***************************************************************************)
EXTENDS Integers, Sequences, FiniteSets

CONSTANTS
  Deployment, Kind,   \* what a job is made of
  Job,                \* the jobs that are ever submitted
  MaxConcurrency, QueueLimit, MaxAttempts,
  Stubborn            \* jobs whose runner ignores the abort signal it is given

ASSUME SchedulerAssumption ==
  /\ Job \subseteq [deploymentId : Deployment, kind : Kind]
  /\ MaxConcurrency \in Nat \ {0} /\ QueueLimit \in Nat /\ MaxAttempts \in Nat \ {0}
  /\ Stubborn \subseteq Job

VARIABLES
  queue,       \* #queue
  queuedKeys,  \* #queuedKeys
  lanes,       \* #lanes: the deployments with a job in flight
  execution,   \* the #execute of each job: its stage, its attempt, its timer
  pumping,     \* inside the loop of pump
  draining,    \* #draining
  aborted,     \* #shutdown.signal.aborted
  awaited,     \* the jobs in flight when shutdown was called
  closed       \* shutdown has returned

vars == <<queue, queuedKeys, lanes, execution, pumping, draining, aborted, awaited, closed>>
stopping == <<draining, aborted, awaited, closed>>

----------------------------------------------------------------------------
Idle == [stage |-> "idle", attempt |-> 0, timedOut |-> FALSE]
Attempt(n) == [stage |-> "running", attempt |-> n, timedOut |-> FALSE]

InFlight == { j \in Job : execution[j].stage # "idle" }
Running(j) == execution[j].stage = "running"

Init ==
  /\ queue = <<>> /\ queuedKeys = {} /\ lanes = {}
  /\ execution = [j \in Job |-> Idle]
  /\ pumping = FALSE /\ draining = FALSE /\ aborted = FALSE
  /\ awaited = {} /\ closed = FALSE

----------------------------------------------------------------------------
(* submit and pump *)

\* A slip: work is taken while draining.
acceptsWhileDraining(job) ==
  /\ job \notin queuedKeys /\ job.deploymentId \notin lanes
  /\ Len(queue) < QueueLimit

\* Not draining, not a duplicate of pending or running work, and room in the queue.
accepts(job) ==
  /\ ~ draining
  /\ job \notin queuedKeys /\ job.deploymentId \notin lanes
  /\ Len(queue) < QueueLimit

\* main.ts offers the job at every tick and pumps whatever the answer was.
Submit(job) ==
  /\ ~ pumping
  /\ queue' = IF accepts(job) THEN Append(queue, job) ELSE queue
  /\ queuedKeys' = IF accepts(job) THEN queuedKeys \cup {job} ELSE queuedKeys
  /\ pumping' = TRUE
  /\ UNCHANGED <<lanes, execution, stopping>>

Runnable(i) == i \in 1..Len(queue) /\ queue[i].deploymentId \notin lanes

SlotFree == Cardinality(lanes) < MaxConcurrency

\* splice(i, 1)
Without(s, i) == SubSeq(s, 1, i - 1) \o SubSeq(s, i + 1, Len(s))

\* The oldest job whose deployment has no job in flight starts its first attempt.
Start ==
  \E i \in 1..Len(queue) :
    /\ Runnable(i) /\ \A k \in 1..(i - 1) : ~ Runnable(k)
    /\ queue' = Without(queue, i)
    /\ queuedKeys' = queuedKeys \ {queue[i]}
    /\ lanes' = lanes \cup {queue[i].deploymentId}
    /\ execution' = [execution EXCEPT ![queue[i]] = Attempt(1)]

PumpStart ==
  /\ pumping /\ SlotFree
  /\ Start
  /\ UNCHANGED <<pumping, stopping>>

PumpReturn ==
  /\ pumping
  /\ ~ SlotFree \/ \A i \in 1..Len(queue) : ~ Runnable(i)
  /\ pumping' = FALSE
  /\ UNCHANGED <<queue, queuedKeys, lanes, execution, stopping>>

----------------------------------------------------------------------------
(* #execute *)

\* A slip: only the first attempt has a deadline.
TimeoutMissing(j) ==
  /\ ~ pumping /\ Running(j)
  /\ ~ execution[j].timedOut /\ ~ aborted /\ execution[j].attempt = 1
  /\ execution' = [execution EXCEPT ![j].timedOut = TRUE]
  /\ UNCHANGED <<queue, queuedKeys, lanes, pumping, stopping>>

\* The deadline of an attempt; the abort of the shutdown clears it.
Timeout(j) ==
  /\ ~ pumping /\ Running(j)
  /\ ~ execution[j].timedOut /\ ~ aborted
  /\ execution' = [execution EXCEPT ![j].timedOut = TRUE]
  /\ UNCHANGED <<queue, queuedKeys, lanes, pumping, stopping>>

\* Slips: the lane outlives its job; the freed slot is not offered to the queue.
EndKeepsLane(j) ==
  /\ execution' = [execution EXCEPT ![j] = Idle]
  /\ pumping' = ~ draining
  /\ UNCHANGED <<queue, queuedKeys, lanes, stopping>>
EndWithoutPump(j) ==
  /\ execution' = [execution EXCEPT ![j] = Idle]
  /\ lanes' = lanes \ {j.deploymentId}
  /\ UNCHANGED <<queue, queuedKeys, pumping, stopping>>

\* The outcome is reported and the finally of pump frees the lane and pumps.
End(j) ==
  /\ execution' = [execution EXCEPT ![j] = Idle]
  /\ lanes' = lanes \ {j.deploymentId}
  /\ pumping' = ~ draining
  /\ UNCHANGED <<queue, queuedKeys, stopping>>

\* "succeeded", even past the deadline
Resolve(j) == ~ pumping /\ Running(j) /\ End(j)

\* "cancelled" by the shutdown, "timed-out" or "abandoned" after the last attempt
GiveUp(j) ==
  /\ ~ pumping /\ Running(j)
  /\ \/ aborted /\ ~ execution[j].timedOut
     \/ execution[j].attempt = MaxAttempts
  /\ End(j)

\* The attempt failed or timed out and the budget allows another.
Backoff(j) ==
  /\ ~ pumping /\ Running(j)
  /\ execution[j].timedOut \/ ~ aborted
  /\ execution[j].attempt < MaxAttempts
  /\ execution' = [execution EXCEPT ![j].stage = "sleeping"]
  /\ UNCHANGED <<queue, queuedKeys, lanes, pumping, stopping>>

NextAttempt(j) ==
  /\ execution' = [execution EXCEPT ![j] = Attempt(execution[j].attempt + 1)]
  /\ UNCHANGED <<queue, queuedKeys, lanes, pumping, stopping>>

\* The backoff is over, or the shutdown cut it short: "cancelled".
Wake(j) ==
  /\ ~ pumping /\ execution[j].stage = "sleeping"
  /\ IF aborted THEN End(j) ELSE NextAttempt(j)

----------------------------------------------------------------------------
(* shutdown *)

\* Stop accepting and forget what is queued.
Shutdown ==
  /\ ~ pumping /\ ~ draining
  /\ draining' = TRUE
  /\ queue' = <<>> /\ queuedKeys' = {}
  /\ awaited' = InFlight
  /\ UNCHANGED <<lanes, execution, pumping, aborted, closed>>

\* Everything that was in flight has settled within the grace period.
Settled ==
  /\ ~ pumping /\ draining /\ ~ closed
  /\ awaited \cap InFlight = {}
  /\ closed' = TRUE
  /\ UNCHANGED <<queue, queuedKeys, lanes, execution, pumping, draining, aborted, awaited>>

\* A slip: the deadline aborts what is running and waits for it all the same.
GraceElapsesAndWaits ==
  /\ ~ pumping /\ draining /\ ~ closed /\ ~ aborted
  /\ aborted' = TRUE
  /\ UNCHANGED <<queue, queuedKeys, lanes, execution, pumping, draining, awaited, closed>>

\* The grace period is over: what is running is aborted and no longer waited for.
GraceElapses ==
  /\ ~ pumping /\ draining /\ ~ closed
  /\ aborted' = TRUE /\ closed' = TRUE
  /\ UNCHANGED <<queue, queuedKeys, lanes, execution, pumping, draining, awaited>>

----------------------------------------------------------------------------
Next ==
  \/ \E j \in Job : \/ Submit(j) \/ Timeout(j) \/ Resolve(j) \/ GiveUp(j)
                    \/ Backoff(j) \/ Wake(j)
  \/ PumpStart \/ PumpReturn
  \/ Shutdown \/ Settled \/ GraceElapses

Spec == Init /\ [][Next]_vars

\* A runner that honours its signal settles once the signal is aborted.
Honours(j) ==
  /\ execution[j].timedOut \/ aborted
  /\ Resolve(j) \/ GiveUp(j) \/ Backoff(j)

\* The callback a job is waiting for: one timer or one promise at a time.
Callback(j) == Timeout(j) \/ Wake(j) \/ (j \notin Stubborn /\ Honours(j))

\* A loop that has begun goes on, and a callback that is ready (a timer that fired, a
\* promise that settled) is in a queue of the event loop: it runs however often the
\* other callbacks do, which is strong fairness.
FairSpec ==
  /\ Spec
  /\ WF_vars(PumpStart \/ PumpReturn)
  /\ SF_vars(Settled \/ GraceElapses)
  /\ \A j \in Job : SF_vars(Callback(j))

----------------------------------------------------------------------------
(* Properties *)

TypeOK ==
  /\ queue \in Seq(Job) /\ Len(queue) <= QueueLimit
  /\ queuedKeys \subseteq Job /\ lanes \subseteq Deployment
  /\ execution \in [Job -> [stage : {"idle", "running", "sleeping"},
                            attempt : 0..MaxAttempts, timedOut : BOOLEAN]]
  /\ pumping \in BOOLEAN /\ draining \in BOOLEAN /\ aborted \in BOOLEAN
  /\ awaited \subseteq Job /\ closed \in BOOLEAN

\* One in-flight job per deployment: "This IS the single-writer guarantee"
\* (scheduler.ts:69), through timeouts, retries and shutdown.
SingleWriter ==
  \A j, k \in InFlight : j.deploymentId = k.deploymentId => j = k

\* A lane is taken exactly while a job of its deployment is in flight: none is leaked
\* by a path out of #execute, none is freed under a running job (scheduler.ts:131-135).
LanesExact == lanes = { j.deploymentId : j \in InFlight }

\* "an agent watching thirty deployments must not open thirty concurrent RPC fan-outs"
\* (scheduler.ts:11-12).
ConcurrencyBounded == Cardinality(InFlight) <= MaxConcurrency

\* A shutdown that returns before its deadline leaves nothing running (scheduler.ts:211-214).
CleanClose == (closed /\ ~ aborted) => InFlight = {}

\* Nothing starts once the agent drains, and no attempt once it has aborted
\* (scheduler.ts:100, 134, 145, 180-188).
NothingStartsDraining ==
  [][draining => InFlight' \subseteq InFlight]_vars

\* "a broken dependency must not make shutdown itself unbounded" (scheduler.ts:234-236).
ShutdownReturns == draining ~> closed

\* "one hung endpoint cannot occupy a slot forever" (scheduler.ts:17-19): every job whose
\* runner honours its signal leaves its lane.
SlotsReleased == \A j \in Job \ Stubborn : (j \in InFlight) ~> (j \notin InFlight)

\* A queued job is started, or forgotten by a shutdown: no deployment starves another,
\* not even one that occupies its own lane for ever, while it leaves a slot.
QueuedStarts ==
  \A j \in Job : (\A s \in Stubborn : s.deploymentId # j.deploymentId) =>
    ((j \in queuedKeys) ~> (j \in InFlight \/ draining))
=============================================================================
