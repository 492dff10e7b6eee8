-------------------------- MODULE TransitionLedger --------------------------
(***************************************************************************)
(* What the table of message transitions promises, without connections,    *)
(* locks or failures: the rows of a transaction are stored together or not *)
(* at all, a row that is already there is not stored again, and a message  *)
(* is credited at most once.                                               *)
(*                                                                         *)
(* This is the comment of writeTransitionBatch in                          *)
(* packages/storage-postgres/src/transition-store.ts ("All of them commit  *)
(* or none do") and the two unique indexes of migration 0005.              *)
(***************************************************************************)
CONSTANT Batch   \* the sequences of rows that are written together

VARIABLE table

\* message_transitions_identity_uq
SameIdentity(r, s) == r.message = s.message /\ r.kind = s.kind /\ r.log = s.log

\* message_transitions_one_economic_effect
SameCredit(r, s) == r.credits /\ s.credits /\ r.message = s.message

Distinct(rows) == \A r, s \in rows : SameIdentity(r, s) => r = s
CreditedOnce(rows) == \A r, s \in rows : SameCredit(r, s) => r = s

RowsIn(b) == { b[i] : i \in DOMAIN b }

LedgerInit == table = {}

Write(b) ==
  /\ table \subseteq table' /\ table' \subseteq table \cup RowsIn(b)
  /\ \A r \in RowsIn(b) : \E s \in table' : SameIdentity(r, s)
  /\ Distinct(table') /\ CreditedOnce(table')

LedgerNext == \E b \in Batch : Write(b)

LedgerSpec == LedgerInit /\ [][LedgerNext]_table
=============================================================================
