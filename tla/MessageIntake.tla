--------------------------- MODULE MessageIntake ---------------------------
(***************************************************************************)
(* The message state machine and the transition store on the same facts:   *)
(* a connection that reads a transaction folds it into its messages and    *)
(* writes its rows, as tests/integration/state-machine/transitions.test.ts *)
(* drives the two packages.  Connections work concurrently, repeat what    *)
(* was read before and are lost at any moment.                             *)
(***************************************************************************)
EXTENDS TransitionStore, MessageLifecycle

vars == <<logs, table, call, agg, folded>>

\* A row of the integration test: withEffect marks the executions and nothing else.
toRow(i) ==
  [message |-> i.message, kind |-> i.kind, log |-> i.fact,
   credits |-> i.kind \in DestinationEffects]

rowsOf(t) == [k \in DOMAIN t.inputs |-> toRow(t.inputs[k])]

Init == StoreInit /\ LifecycleInit

\* A transaction that the state machine refuses is not written.
Submit(w, t) == Fold(t) /\ Begin(w, rowsOf(t))

Next ==
  \/ \E w \in Writer, t \in Transaction : Submit(w, t)
  \/ \E w \in Writer : StoreStep(w) /\ UNCHANGED lifecycleVars
  \/ \E l \in Log : Ingest(l) /\ UNCHANGED lifecycleVars

\* PostgreSQL wakes who waits for a transaction that ended, and breaks deadlocks.
Fairness ==
  /\ \A w \in Writer : SF_vars(Statement(w) /\ UNCHANGED lifecycleVars)
  /\ WF_vars(\E w \in Writer : DeadlockVictim(w) /\ UNCHANGED lifecycleVars)

Spec == Init /\ [][Next]_vars
FairSpec == Spec /\ Fairness

----------------------------------------------------------------------------
(* Properties *)

\* Type invariant.
TypeOK ==
  /\ StoreTypeOK
  /\ \A m \in Message : agg[m] \subseteq UNION { InputsOf(t) : t \in Transaction }
=============================================================================
