-------------------------- MODULE TransitionStore --------------------------
(***************************************************************************)
(* Concurrent calls of writeTransitionBatch                                *)
(* (packages/storage-postgres/src/transition-store.ts) on the table of     *)
(* migrations 0001 and 0005.  A call is a PostgreSQL transaction at READ   *)
(* COMMITTED that inserts its rows one statement at a time: an action is   *)
(* one statement, and transactions interleave between statements.          *)
(*                                                                         *)
(* Of PostgreSQL (external) the model keeps what the code relies on: a     *)
(* statement that meets a conflicting row of an open transaction waits for *)
(* its end; ON CONFLICT DO NOTHING looks at the identity of the row before *)
(* the other index is touched; an error rolls the whole transaction back;  *)
(* a cycle of waiting transactions is broken by failing one of them.       *)
(*                                                                         *)
(* Abstractions: transition_id is a digest of the identity, so the two     *)
(* unique keys are one; the log of a row is its foreign key to chain_logs; *)
(* columns no constraint looks at are left out; a call that was answered   *)
(* with the number of rows and one that failed are the same afterwards.    *)
(***************************************************************************)
EXTENDS Naturals, Sequences

CONSTANTS
  Writer,               \* the connections
  Route, Kind, Log,     \* what a row is made of
  Batch,                \* the arguments of writeTransitionBatch
  Known                 \* the logs in chain_logs at the start

Row == [message : Route, kind : Kind, log : Log, credits : BOOLEAN]

ASSUME StoreAssumption ==
  /\ Batch \subseteq Seq(Row) \ {<<>>}   \* an empty batch returns before a transaction
  /\ Known \subseteq Log

VARIABLES
  logs,    \* chain_logs
  table,   \* message_transitions, as committed
  call     \* the call of each connection, or the batch of its that was refused last

storeVars == <<logs, table, call>>

Ledger == INSTANCE TransitionLedger

SameIdentity(r, s) == Ledger!SameIdentity(r, s)
SameCredit(r, s) == Ledger!SameCredit(r, s)

\* Two rows that cannot both be inserted.
Clash(r, s) == SameIdentity(r, s) \/ SameCredit(r, s)

----------------------------------------------------------------------------
NoCall == [open |-> FALSE, batch |-> <<>>, next |-> 1, mine |-> {}]

Call(b) == [open |-> TRUE, batch |-> b, next |-> 1, mine |-> {}]

\* The call that was answered with DuplicateEconomicEffectError.
Refused(b) == [open |-> FALSE, batch |-> b, next |-> 1, mine |-> {}]

StoreInit == logs = Known /\ table = {} /\ call = [w \in Writer |-> NoCall]

AtRow(w) == call[w].open /\ call[w].next <= Len(call[w].batch)
Current(w) == call[w].batch[call[w].next]

\* What the transaction of w reads: committed rows and its own.
Visible(w) == table \cup call[w].mine

\* A slip: the unique index is asked about committed rows only.
HoldersUnseen(w) == {}

\* The open transactions that hold a row the current one conflicts with.
Holders(w) ==
  { v \in Writer \ {w} : \E r \in call[v].mine : Clash(r, Current(w)) }

Present(w) == \E r \in Visible(w) : SameIdentity(r, Current(w))
Credited(w) == \E r \in Visible(w) : SameCredit(r, Current(w))

Waits(w) == AtRow(w) /\ ~ Present(w) /\ Holders(w) # {}
Decides(w) == AtRow(w) /\ ~ Present(w) /\ Holders(w) = {}

\* Every writer of S waits for another of S, and w is one of them.
Deadlocked(w) ==
  \E S \in SUBSET Writer : w \in S /\ \A v \in S : Waits(v) /\ Holders(v) \cap S # {}

\* The call c past its row, holding these rows in addition.
Advanced(c, rows) ==
  [open |-> TRUE, batch |-> c.batch, next |-> c.next + 1, mine |-> c.mine \cup rows]

----------------------------------------------------------------------------
\* chain_logs grows while transitions are written (LaneLedger).
Ingest(l) ==
  /\ l \notin logs
  /\ logs' = logs \cup {l}
  /\ UNCHANGED <<table, call>>

Begin(w, b) ==
  /\ ~ call[w].open
  /\ call' = [call EXCEPT ![w] = Call(b)]
  /\ UNCHANGED <<logs, table>>

\* The call of w is over.
End(w) == call' = [call EXCEPT ![w] = NoCall]

Insert(w) ==
  /\ Decides(w) /\ ~ Credited(w) /\ Current(w).log \in logs
  /\ call' = [call EXCEPT ![w] = Advanced(@, {Current(w)})]
  /\ UNCHANGED <<logs, table>>

\* on conflict do nothing
DoNothing(w) ==
  /\ AtRow(w) /\ Present(w)
  /\ call' = [call EXCEPT ![w] = Advanced(@, {})]
  /\ UNCHANGED <<logs, table>>

\* A slip: the rows inserted before the refused one stay.
RefuseCreditKeepsRows(w) ==
  /\ Decides(w) /\ Credited(w)
  /\ table' = table \cup call[w].mine
  /\ call' = [call EXCEPT ![w] = Refused(@.batch)]
  /\ UNCHANGED logs

\* A second credit of a message: DuplicateEconomicEffectError.
RefuseCredit(w) ==
  /\ Decides(w) /\ Credited(w)
  /\ call' = [call EXCEPT ![w] = Refused(@.batch)]
  /\ UNCHANGED <<logs, table>>

\* The foreign key of a log that was not ingested.
RefuseLog(w) ==
  /\ Decides(w) /\ ~ Credited(w) /\ Current(w).log \notin logs
  /\ End(w)
  /\ UNCHANGED <<logs, table>>

\* All rows are in.  Whether the caller hears of it makes no difference to what may follow.
Commit(w) ==
  /\ call[w].open /\ ~ AtRow(w)
  /\ table' = table \cup call[w].mine
  /\ End(w)
  /\ UNCHANGED logs

\* The connection or the process is lost.
Lose(w) ==
  /\ call[w].open
  /\ End(w)
  /\ UNCHANGED <<logs, table>>

DeadlockVictim(w) ==
  /\ Deadlocked(w)
  /\ End(w)
  /\ UNCHANGED <<logs, table>>

----------------------------------------------------------------------------
Statement(w) == Insert(w) \/ DoNothing(w) \/ RefuseCredit(w) \/ RefuseLog(w) \/ Commit(w)

StoreStep(w) == Statement(w) \/ Lose(w) \/ DeadlockVictim(w)

StoreNext ==
  \/ \E l \in Log : Ingest(l)
  \/ \E w \in Writer : StoreStep(w) \/ \E b \in Batch : Begin(w, b)

StoreSpec == StoreInit /\ [][StoreNext]_storeVars

----------------------------------------------------------------------------
(* Properties *)

\* Type invariant: a connection without a transaction holds no row.
StoreTypeOK ==
  /\ logs \subseteq Log /\ table \subseteq Row
  /\ call \in [Writer -> [open : BOOLEAN, batch : Batch \cup {<<>>},
                          next : Nat \ {0}, mine : SUBSET Row]]
  /\ \A w \in Writer :
       /\ call[w].next <= Len(call[w].batch) + 1
       /\ call[w].mine \subseteq Ledger!RowsIn(call[w].batch)
       /\ ~ call[w].open => call[w].mine = {} /\ call[w].next = 1

\* However the calls interleave, retry and fail, a message is credited at most once
\* (message_transitions_one_economic_effect, countEconomicEffects "must never exceed one").
OneEffect == Ledger!CreditedOnce(table)

\* The table only changes by whole batches that keep both indexes: writeTransitionBatch
\* commits all of its rows or none, whoever else writes and whatever is lost.
StoreRefined == Ledger!LedgerSpec

\* DuplicateEconomicEffectError says that the message it names is already credited, or
\* would be credited twice by the batch itself.  It names the message of the first row.
RefusalNamesCredited ==
  \A w \in Writer :
    ~ call[w].open /\ call[w].batch # <<>> =>
      \E r, s \in table \cup Ledger!RowsIn(call[w].batch) :
        r # s /\ SameCredit(r, s) /\ r.message = call[w].batch[1].message
=============================================================================
