----------------------------- MODULE LaneLedger -----------------------------
(***************************************************************************)
(* What a lane promises to its readers, without workers, retries or        *)
(* tables: a ledger that only grows, in which a range becomes history in   *)
(* one atomic step that also moves the checkpoint, and only on the word of *)
(* enough independent provider groups.                                     *)
(*                                                                         *)
(* This is the rule of the header of packages/replay/src/engine.ts ("facts *)
(* and their checkpoint move together, or not at all") and of ingestBatch  *)
(* in packages/storage-postgres/src/ledger.ts.                             *)
(***************************************************************************)
EXTENDS Integers

CONSTANTS
  Quorum,   \* the sets of provider groups whose word is enough
  None      \* no checkpoint yet

VARIABLES blocks, checkpoint, said, ingested

ledgerVars == <<blocks, checkpoint, said, ingested>>

VouchedFor(b) == \E Q \in Quorum : \A g \in Q : <<g, b.number, b.hash>> \in said

LedgerInit == blocks = {} /\ checkpoint = None /\ said = {} /\ ingested = {}

\* Provider groups speak.  What they said is not history yet.
Attest ==
  /\ said \subseteq said'
  /\ UNCHANGED <<blocks, checkpoint, ingested>>

\* A range r becomes history with the blocks of its batch.
Commit(r, batch) ==
  /\ \A b \in batch : VouchedFor(b)
  /\ \A b \in batch, c \in blocks \cup batch : b.number = c.number => b.hash = c.hash
  /\ \A b \in batch : r.fromBlock <= b.number /\ b.number <= r.toBlock
  /\ \E b \in batch : b.number = r.fromBlock
  /\ blocks' = blocks \cup batch
  /\ \E last \in batch :
       /\ last.number = r.toBlock
       /\ \/ checkpoint = None /\ checkpoint' = last
          \/ checkpoint # None /\ checkpoint.number < last.number /\ checkpoint' = last
          \/ checkpoint # None /\ checkpoint.number >= last.number /\ checkpoint' = checkpoint
  /\ ingested' = ingested \cup {r}
  /\ UNCHANGED said

\* Only the blocks the step adds or re-states can be the batch of the range.
LedgerNext ==
  \/ Attest
  \/ \E r \in ingested' : \E batch \in SUBSET blocks' : Commit(r, batch)

LedgerSpec == LedgerInit /\ [][LedgerNext]_ledgerVars
=============================================================================
