-------------------------- MODULE SchedulerProofs --------------------------
(***************************************************************************)
(* One job in flight per deployment, the concurrency limit and what a      *)
(* shutdown stops, for every set of deployments and every limit.           *)
(***************************************************************************)
EXTENDS Scheduler, TLAPS, FiniteSetTheorems

Execution == [stage : {"idle", "running", "sleeping"},
              attempt : 0..MaxAttempts, timedOut : BOOLEAN]

\* The type invariant, and that a job that sleeps has an attempt left.
TypeInv ==
  /\ TypeOK
  /\ \A j \in Job : execution[j].stage = "sleeping" => execution[j].attempt < MaxAttempts

\* The lanes are those of the jobs in flight, one each, and within the limit.
LaneInv ==
  /\ LanesExact /\ SingleWriter
  /\ IsFiniteSet(lanes) /\ Cardinality(lanes) <= MaxConcurrency

\* What a shutdown leaves behind: no queue, and nothing in flight that it did not see.
StopInv ==
  /\ draining => queue = <<>> /\ InFlight \subseteq awaited
  /\ aborted \/ closed => draining
  /\ (closed /\ ~ aborted) => InFlight = {}

IndInv == TypeInv /\ LaneInv /\ StopInv

----------------------------------------------------------------------------
(* What a step does to the jobs in flight *)

Starts(j) ==
  /\ j.deploymentId \notin lanes /\ Cardinality(lanes) < MaxConcurrency
  /\ queue # <<>>
  /\ InFlight' = InFlight \cup {j}
  /\ lanes' = lanes \cup {j.deploymentId}
  /\ j \notin InFlight => execution'[j].attempt = 1
  /\ UNCHANGED stopping

Ends(j) ==
  /\ j \in InFlight
  /\ InFlight' = InFlight \ {j}
  /\ lanes' = lanes \ {j.deploymentId}
  /\ \A k \in Job \ {j} : execution'[k] = execution[k]
  /\ UNCHANGED stopping

\* Nobody starts and nobody ends.
Stays == InFlight' = InFlight /\ lanes' = lanes

\* No job is a queue within the limit.
LEMMA EmptyQueue == <<>> \in Seq(Job) /\ Len(<<>>) <= QueueLimit
<1>1. <<>> \in Seq(Job)
  OBVIOUS
<1>2. Len(<<>>) = 0
  OBVIOUS
<1> QED BY <1>1, <1>2, SchedulerAssumption

\* The entry at a position of the queue is a job, and cutting it out leaves jobs.
LEMMA QueueEntry ==
  ASSUME NEW q \in Seq(Job), NEW i \in 1..Len(q)
  PROVE  q[i] \in Job /\ Without(q, i) \in Seq(Job) /\ Len(Without(q, i)) = Len(q) - 1
<1> DEFINE front == SubSeq(q, 1, i - 1)
           back == SubSeq(q, i + 1, Len(q))
<1>1. q[i] \in Job /\ Without(q, i) = front \o back
  BY DEF Without
<1>2. front \in Seq(Job) /\ Len(front) = i - 1
  OBVIOUS
<1>3. back \in Seq(Job) /\ Len(back) = Len(q) - i
  OBVIOUS
<1> HIDE DEF front, back
<1>4. front \o back \in Seq(Job) /\ Len(front \o back) = (i - 1) + (Len(q) - i)
  <2>1. \A s, u \in Seq(Job) : s \o u \in Seq(Job) /\ Len(s \o u) = Len(s) + Len(u)
    OBVIOUS
  <2> QED BY <1>2, <1>3, <2>1, Zenon
<1> QED BY <1>1, <1>4

\* A job that starts joins the jobs in flight.
LEMMA StartStep ==
  ASSUME TypeInv, PumpStart
  PROVE  TypeInv' /\ \E j \in Job : Starts(j)
<1> USE SchedulerAssumption
<1>1. PICK i \in 1..Len(queue) :
        /\ Runnable(i)
        /\ queue' = Without(queue, i)
        /\ queuedKeys' = queuedKeys \ {queue[i]}
        /\ lanes' = lanes \cup {queue[i].deploymentId}
        /\ execution' = [execution EXCEPT ![queue[i]] = Attempt(1)]
  BY DEF PumpStart, Start
<1>2. queue[i] \in Job /\ queue' \in Seq(Job) /\ Len(queue') <= QueueLimit
  BY <1>1, QueueEntry DEF TypeInv, TypeOK
<1>3. queue[i].deploymentId \in Deployment
  BY <1>2
<1>4. Attempt(1) \in Execution /\ Attempt(1).stage = "running" /\ Attempt(1).attempt = 1
  BY DEF Attempt, Execution
<1>5. execution \in [Job -> Execution]
  BY DEF TypeInv, TypeOK, Execution
<1>6. execution' \in [Job -> Execution]
  BY <1>1, <1>2, <1>4, <1>5
<1>7. \A k \in Job : execution'[k] = IF k = queue[i] THEN Attempt(1) ELSE execution[k]
  BY <1>1, <1>5
<1>8. InFlight' = InFlight \cup {queue[i]}
  BY <1>2, <1>4, <1>7 DEF InFlight
<1>9. TypeInv'
  <2>1. TypeOK'
    BY <1>1, <1>2, <1>3, <1>6 DEF TypeInv, TypeOK, PumpStart, stopping, Execution
  <2>2. \A j \in Job : execution'[j].stage = "sleeping" => execution'[j].attempt < MaxAttempts
    BY <1>4, <1>7 DEF TypeInv
  <2> QED BY <2>1, <2>2 DEF TypeInv
<1>10. Starts(queue[i])
  <2>1. queue[i].deploymentId \notin lanes /\ Cardinality(lanes) < MaxConcurrency
    BY <1>1 DEF Runnable, PumpStart, SlotFree
  <2>2. queue # <<>>
    BY <1>1
  <2>3. execution'[queue[i]].attempt = 1
    BY <1>2, <1>4, <1>7
  <2> QED BY <1>1, <1>8, <2>1, <2>2, <2>3 DEF Starts, PumpStart
<1> QED BY <1>2, <1>9, <1>10

\* A job that ends leaves the jobs in flight.
LEMMA EndStep ==
  ASSUME TypeInv, NEW j \in Job, j \in InFlight, End(j)
  PROVE  TypeInv' /\ Ends(j)
<1> USE SchedulerAssumption
<1>1. execution \in [Job -> Execution]
  BY DEF TypeInv, TypeOK, Execution
<1>2. Idle \in Execution /\ Idle.stage = "idle"
  BY DEF Idle, Execution
<1>3. execution' \in [Job -> Execution]
  BY <1>1, <1>2 DEF End
<1>4. \A k \in Job : execution'[k] = IF k = j THEN Idle ELSE execution[k]
  BY <1>1 DEF End
<1>5. InFlight' = InFlight \ {j}
  BY <1>2, <1>4 DEF InFlight
<1>6. TypeInv'
  <2>1. TypeOK'
    BY <1>3 DEF TypeInv, TypeOK, End, stopping, Execution
  <2>2. \A k \in Job : execution'[k].stage = "sleeping" => execution'[k].attempt < MaxAttempts
    BY <1>2, <1>4 DEF TypeInv
  <2> QED BY <2>1, <2>2 DEF TypeInv
<1> QED BY <1>4, <1>5, <1>6 DEF Ends, End

\* A timeout, a backoff or a next attempt keeps the job in flight.
LEMMA ProgressStep ==
  ASSUME TypeInv, NEW j \in Job, Timeout(j) \/ Backoff(j) \/ (Wake(j) /\ ~ aborted)
  PROVE  TypeInv' /\ Stays /\ (aborted => execution'[j].attempt = execution[j].attempt)
                  /\ \A k \in Job \ {j} : execution'[k] = execution[k]
<1> USE SchedulerAssumption
<1>1. execution \in [Job -> Execution]
  BY DEF TypeInv, TypeOK, Execution
<1>2. \E e \in Execution :
        /\ execution' = [execution EXCEPT ![j] = e]
        /\ e.stage # "idle"
        /\ e.stage = "sleeping" => e.attempt < MaxAttempts
        /\ aborted => e.attempt = execution[j].attempt
  <2>1. CASE Timeout(j)
    <3> DEFINE e == [execution[j] EXCEPT !.timedOut = TRUE]
    <3>1. e \in Execution /\ e.stage = "running" /\ e.attempt = execution[j].attempt
      BY <1>1, <2>1 DEF Timeout, Running, Execution
    <3>2. execution' = [execution EXCEPT ![j] = e]
      BY <1>1, <2>1 DEF Timeout
    <3> QED BY <3>1, <3>2
  <2>2. CASE Backoff(j)
    <3> DEFINE e == [execution[j] EXCEPT !.stage = "sleeping"]
    <3>1. e \in Execution /\ e.stage = "sleeping" /\ e.attempt = execution[j].attempt
      BY <1>1 DEF Execution
    <3>2. execution' = [execution EXCEPT ![j] = e] /\ execution[j].attempt < MaxAttempts
      BY <1>1, <2>2 DEF Backoff
    <3> QED BY <3>1, <3>2
  <2>3. CASE Wake(j) /\ ~ aborted
    <3> DEFINE e == Attempt(execution[j].attempt + 1)
    <3>1. execution[j].attempt \in 0..MaxAttempts /\ execution[j].attempt < MaxAttempts
      BY <1>1, <2>3 DEF TypeInv, Wake, Execution
    <3>2. e \in Execution /\ e.stage = "running"
      BY <3>1 DEF Attempt, Execution
    <3>3. execution' = [execution EXCEPT ![j] = e]
      BY <2>3 DEF Wake, NextAttempt
    <3> QED BY <2>3, <3>2, <3>3
  <2> QED BY <2>1, <2>2, <2>3
<1>3. PICK e \in Execution :
        /\ execution' = [execution EXCEPT ![j] = e]
        /\ e.stage # "idle"
        /\ e.stage = "sleeping" => e.attempt < MaxAttempts
        /\ aborted => e.attempt = execution[j].attempt
  BY <1>2
<1>4. execution' \in [Job -> Execution]
  BY <1>1, <1>3
<1>5. \A k \in Job : execution'[k] = IF k = j THEN e ELSE execution[k]
  BY <1>1, <1>3
<1>6. execution[j].stage # "idle"
  BY DEF Timeout, Backoff, Wake, Running
<1>7. InFlight' = InFlight
  BY <1>3, <1>5, <1>6 DEF InFlight
<1>8. UNCHANGED <<queue, queuedKeys, lanes, pumping, stopping>>
  BY DEF Timeout, Backoff, Wake, NextAttempt
<1>9. TypeInv'
  <2>1. TypeOK'
    BY <1>4, <1>8 DEF TypeInv, TypeOK, stopping, Execution
  <2>2. \A k \in Job : execution'[k].stage = "sleeping" => execution'[k].attempt < MaxAttempts
    BY <1>3, <1>5 DEF TypeInv
  <2> QED BY <2>1, <2>2 DEF TypeInv
<1> QED BY <1>3, <1>5, <1>7, <1>8, <1>9 DEF Stays

\* Every step starts one job, ends one, or leaves the jobs in flight and the lanes alone;
\* and it takes the shutdown forward or leaves it alone.
LEMMA StepCases ==
  ASSUME IndInv, [Next]_vars
  PROVE  /\ TypeInv'
         /\ \/ (\E j \in Job : Starts(j) \/ Ends(j))
            \/ Stays
         /\ \/ UNCHANGED stopping /\ (draining => queue' = queue)
            \/ Shutdown \/ Settled \/ GraceElapses
<1> USE SchedulerAssumption DEF IndInv
<1>1. ASSUME NEW j \in Job, Submit(j)
      PROVE  TypeInv' /\ Stays /\ UNCHANGED stopping /\ (draining => queue' = queue)
  <2>1. queue' \in Seq(Job) /\ Len(queue') <= QueueLimit /\ queuedKeys' \subseteq Job
    BY <1>1 DEF Submit, accepts, TypeInv, TypeOK
  <2>2. UNCHANGED <<lanes, execution, stopping>> /\ pumping' \in BOOLEAN
    BY <1>1 DEF Submit
  <2>3. draining => queue' = queue
    BY <1>1 DEF Submit, accepts
  <2> QED BY <2>1, <2>2, <2>3 DEF TypeInv, TypeOK, stopping, Stays, InFlight
<1>2. ASSUME NEW j \in Job, Timeout(j) \/ Backoff(j) \/ (Wake(j) /\ ~ aborted)
      PROVE  TypeInv' /\ Stays /\ UNCHANGED stopping /\ queue' = queue
  <2>1. UNCHANGED stopping /\ queue' = queue
    BY <1>2 DEF Timeout, Backoff, Wake, NextAttempt
  <2> QED BY <1>2, <2>1, ProgressStep
<1>3. ASSUME NEW j \in Job, Resolve(j) \/ GiveUp(j) \/ (Wake(j) /\ aborted)
      PROVE  TypeInv' /\ Ends(j) /\ UNCHANGED stopping /\ queue' = queue
  <2>1. j \in InFlight
    BY <1>3 DEF Resolve, GiveUp, Wake, Running, InFlight
  <2>2. End(j)
    BY <1>3 DEF Resolve, GiveUp, Wake
  <2>3. UNCHANGED stopping /\ queue' = queue
    BY <2>2 DEF End
  <2> QED BY <2>1, <2>2, <2>3, EndStep
<1>4. ASSUME PumpStart
      PROVE  /\ TypeInv' /\ \E j \in Job : Starts(j)
             /\ UNCHANGED stopping /\ ~ draining
  <2>1. TypeInv' /\ \E j \in Job : Starts(j)
    BY <1>4, StartStep
  <2>2. UNCHANGED stopping /\ queue # <<>>
    BY <2>1 DEF Starts
  <2> QED BY <2>1, <2>2 DEF StopInv
<1>5. ASSUME PumpReturn \/ UNCHANGED vars
      PROVE  TypeInv' /\ Stays /\ UNCHANGED stopping /\ queue' = queue
  <2>1. UNCHANGED <<queue, queuedKeys, lanes, execution, stopping>> /\ pumping' \in BOOLEAN
    BY <1>5 DEF PumpReturn, vars, stopping, TypeInv, TypeOK
  <2> QED BY <2>1 DEF TypeInv, TypeOK, stopping, Stays, InFlight
<1>6. ASSUME Shutdown \/ Settled \/ GraceElapses
      PROVE  TypeInv' /\ Stays
  <2>1. UNCHANGED <<lanes, execution, pumping>>
    BY <1>6 DEF Shutdown, Settled, GraceElapses
  <2>2. InFlight \subseteq Job
    BY DEF InFlight
  <2>3. (queue' = <<>> /\ queuedKeys' = {}) \/ UNCHANGED <<queue, queuedKeys>>
    BY <1>6 DEF Shutdown, Settled, GraceElapses
  <2>4. awaited' = InFlight \/ UNCHANGED awaited
    BY <1>6 DEF Shutdown, Settled, GraceElapses
  <2>5. /\ draining' = TRUE \/ UNCHANGED draining
        /\ aborted' = TRUE \/ UNCHANGED aborted
        /\ closed' = TRUE \/ UNCHANGED closed
    BY <1>6 DEF Shutdown, Settled, GraceElapses
  <2>6. /\ queue' \in Seq(Job) /\ Len(queue') <= QueueLimit
        /\ queuedKeys' \subseteq Job /\ awaited' \subseteq Job
    <3>2. queue \in Seq(Job) /\ Len(queue) <= QueueLimit
          /\ queuedKeys \subseteq Job /\ awaited \subseteq Job
      BY DEF TypeInv, TypeOK
    <3>3. CASE queue' = <<>> /\ queuedKeys' = {}
      BY <2>2, <2>4, <3>2, <3>3, EmptyQueue
    <3>4. CASE UNCHANGED <<queue, queuedKeys>>
      BY <2>2, <2>4, <3>2, <3>4
    <3> QED BY <2>3, <3>3, <3>4
  <2>7. draining' \in BOOLEAN /\ aborted' \in BOOLEAN /\ closed' \in BOOLEAN
    BY <2>5 DEF TypeInv, TypeOK
  <2> QED BY <2>1, <2>6, <2>7 DEF TypeInv, TypeOK, Stays, InFlight
<1> QED BY <1>1, <1>2, <1>3, <1>4, <1>5, <1>6 DEF Next

\* The lanes stay exact, one job each, and within the limit.
LEMMA LaneStep ==
  ASSUME LaneInv, (\E j \in Job : Starts(j) \/ Ends(j)) \/ Stays
  PROVE  LaneInv'
<1> USE SchedulerAssumption DEF LaneInv
<1>1. ASSUME NEW j \in Job, Starts(j)
      PROVE  LaneInv'
  <2>1. LanesExact'
    BY <1>1 DEF Starts, LanesExact
  <2>2. \A k \in InFlight : k.deploymentId # j.deploymentId
    BY <1>1 DEF Starts, LanesExact
  <2>3. SingleWriter'
    BY <1>1, <2>2 DEF Starts, SingleWriter
  <2>4. IsFiniteSet(lanes') /\ Cardinality(lanes') = Cardinality(lanes) + 1
    BY <1>1, FS_AddElement DEF Starts
  <2>5. Cardinality(lanes') <= MaxConcurrency
    BY <1>1, <2>4, FS_CardinalityType DEF Starts
  <2> QED BY <2>1, <2>3, <2>4, <2>5
<1>2. ASSUME NEW j \in Job, Ends(j)
      PROVE  LaneInv'
  <2>1. LanesExact'
    BY <1>2 DEF Ends, LanesExact, SingleWriter
  <2>2. SingleWriter'
    BY <1>2 DEF Ends, SingleWriter
  <2>3. IsFiniteSet(lanes') /\ Cardinality(lanes') <= Cardinality(lanes)
    <3>1. lanes' \in SUBSET lanes
      BY <1>2 DEF Ends
    <3> QED BY <3>1, FS_Subset
  <2>4. Cardinality(lanes') <= MaxConcurrency
    BY <2>3, FS_CardinalityType
  <2> QED BY <2>1, <2>2, <2>3, <2>4
<1>3. ASSUME Stays
      PROVE  LaneInv'
  BY <1>3 DEF Stays, LanesExact, SingleWriter
<1> QED BY <1>1, <1>2, <1>3

\* Nothing that the shutdown did not see comes into flight after it.
LEMMA StopStep ==
  ASSUME IndInv, [Next]_vars
  PROVE  StopInv'
<1> USE DEF IndInv
<1>1. \/ (\E j \in Job : Starts(j) \/ Ends(j))
      \/ Stays
  BY StepCases
<1>2. draining => InFlight' \subseteq InFlight
  BY <1>1 DEF StopInv, Starts, Ends, Stays
<1>3. CASE UNCHANGED stopping /\ (draining => queue' = queue)
  BY <1>2, <1>3 DEF StopInv, stopping
<1>4. CASE Shutdown
  <2>1. InFlight' = InFlight
    BY <1>4 DEF Shutdown, InFlight
  <2> QED BY <1>4, <2>1 DEF Shutdown, StopInv
<1>5. CASE Settled
  <2>1. InFlight' = InFlight /\ InFlight = {}
    BY <1>5 DEF Settled, InFlight, StopInv
  <2> QED BY <1>5, <2>1 DEF Settled, StopInv
<1>6. CASE GraceElapses
  <2>1. InFlight' = InFlight
    BY <1>6 DEF GraceElapses, InFlight
  <2> QED BY <1>6, <2>1 DEF GraceElapses, StopInv
<1> QED BY <1>3, <1>4, <1>5, <1>6, StepCases

\* Everything the properties rest on holds at first and is kept by every step.
THEOREM Inductive == Spec => []IndInv
<1>1. Init => IndInv
  <2> SUFFICES ASSUME Init PROVE IndInv
    OBVIOUS
  <2>1. InFlight = {} /\ lanes = {} /\ queue = <<>>
    BY DEF Init, InFlight, Idle
  <2>2. TypeInv
    <3>1. Idle \in [stage : {"idle", "running", "sleeping"},
                    attempt : 0..MaxAttempts, timedOut : BOOLEAN]
      BY SchedulerAssumption DEF Idle
    <3>2. execution \in [Job -> [stage : {"idle", "running", "sleeping"},
                                 attempt : 0..MaxAttempts, timedOut : BOOLEAN]]
      BY <3>1 DEF Init
    <3>3. \A j \in Job : execution[j].stage = "idle"
      BY DEF Init, Idle
    <3>4. queue \in Seq(Job) /\ Len(queue) <= QueueLimit
      BY EmptyQueue DEF Init
    <3>5. TypeOK
      BY <3>2, <3>4 DEF Init, TypeOK
    <3> QED BY <3>3, <3>5 DEF TypeInv
  <2>3. LaneInv
    BY <2>1, SchedulerAssumption, FS_EmptySet DEF LaneInv, LanesExact, SingleWriter
  <2>4. StopInv
    BY <2>1 DEF Init, StopInv
  <2> QED BY <2>2, <2>3, <2>4 DEF IndInv
<1>2. IndInv /\ [Next]_vars => IndInv'
  BY StepCases, LaneStep, StopStep DEF IndInv
<1> QED BY <1>1, <1>2, PTL DEF Spec

----------------------------------------------------------------------------
(* The theorems *)

\* Every variable keeps its type: no execution runs past its attempt budget.
THEOREM TypeCorrect == Spec => []TypeOK
<1>1. IndInv => TypeOK
  BY DEF IndInv, TypeInv
<1> QED BY <1>1, Inductive, PTL

\* One job in flight per deployment, whatever times out, retries or shuts down.
THEOREM SingleWriterHolds == Spec => []SingleWriter
<1>1. IndInv => SingleWriter
  BY DEF IndInv, LaneInv
<1> QED BY <1>1, Inductive, PTL

\* Every lane taken is the lane of a job in flight.
THEOREM LanesExactHolds == Spec => []LanesExact
<1>1. IndInv => LanesExact
  BY DEF IndInv, LaneInv
<1> QED BY <1>1, Inductive, PTL

\* At most MaxConcurrency jobs are in flight: each has a lane of its own.
THEOREM ConcurrencyHolds == Spec => []ConcurrencyBounded
<1>1. IndInv => ConcurrencyBounded
  <2> SUFFICES ASSUME IndInv PROVE ConcurrencyBounded
    OBVIOUS
  <2> DEFINE laneOf == [j \in InFlight |-> j.deploymentId]
  <2>1. laneOf \in Injection(InFlight, lanes)
    BY DEF IndInv, LaneInv, LanesExact, SingleWriter, Injection, IsInjective
  <2>2. IsFiniteSet(InFlight) /\ Cardinality(InFlight) <= Cardinality(lanes)
    BY <2>1, FS_Injection DEF IndInv, LaneInv
  <2> QED BY <2>2, FS_CardinalityType, SchedulerAssumption
          DEF IndInv, LaneInv, ConcurrencyBounded
<1> QED BY <1>1, Inductive, PTL

\* A shutdown that returns within its grace period leaves nothing in flight.
THEOREM CleanCloseHolds == Spec => []CleanClose
<1>1. IndInv => CleanClose
  BY DEF IndInv, StopInv, CleanClose
<1> QED BY <1>1, Inductive, PTL

\* Nothing starts once the agent drains.
THEOREM NothingStarts == Spec => NothingStartsDraining
<1>1. IndInv /\ [Next]_vars => [draining => InFlight' \subseteq InFlight]_vars
  <2> SUFFICES ASSUME IndInv, [Next]_vars, draining
               PROVE  InFlight' \subseteq InFlight
    OBVIOUS
  <2> QED BY StepCases DEF IndInv, StopInv, Starts, Ends, Stays
<1> QED BY <1>1, Inductive, PTL DEF Spec, NothingStartsDraining
=============================================================================
