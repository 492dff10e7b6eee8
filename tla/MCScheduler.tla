---------------------------- MODULE MCScheduler ----------------------------
\* A few jobs for Scheduler.
EXTENDS Scheduler

CONSTANTS d1, d2, d3, evaluate, hint

On(d, k) == [deploymentId |-> d, kind |-> k]

\* One job of the deployment that hangs, and two jobs behind each of the other lanes.
Jobs == {On(d1, evaluate)} \cup { On(d, k) : d \in {d2, d3}, k \in Kind }

\* The dependency of one deployment hangs whatever it is told.
Hung == {On(d1, evaluate)}
=============================================================================
