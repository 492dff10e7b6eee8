---------------------------- MODULE AtomicWrite ----------------------------
(***************************************************************************)
(* The evidence directory (apps/cli/src/atomic-write.ts): a file is written *)
(* to a temporary name, synced, renamed over its target, and the directory  *)
(* is synced.  The writer may be killed between any two of these, a call    *)
(* may fail, and the machine may lose power, which keeps what was synced    *)
(* and any of the directory entries that were not.                         *)
(*                                                                         *)
(* A file is [content, whole, synced]; a file that was not synced may be   *)
(* left with part of its bytes by a loss of power.                         *)
(***************************************************************************)
EXTENDS Integers, Sequences, FiniteSets, SequencesExt

CONSTANTS None, FileNames

VARIABLES
  entries,   \* [name -> file or None]: the directory as processes see it
  durable,   \* the directory as the disk has it
  temp       \* the writer's own temporary file, or None

dirVars == <<entries, durable, temp>>

Created == [content |-> None, whole |-> FALSE, synced |-> FALSE]

\* What a reader finds under a name parses only when it is there with all its bytes.
Parses(name) == entries[name] # None /\ entries[name].whole

DirInit ==
  /\ entries = [n \in FileNames |-> None] /\ durable = entries /\ temp = None

\* Exclusive create under a name nobody else has.
openTemp ==
  /\ temp = None /\ temp' = Created
  /\ UNCHANGED <<entries, durable>>

\* A slip: the bytes are left to the page cache.
writeOnly(contents) ==
  /\ temp = Created /\ temp' = [content |-> contents, whole |-> TRUE, synced |-> FALSE]
  /\ UNCHANGED <<entries, durable>>

\* Every byte, then fsync.
writeAndSync(contents) ==
  /\ temp = Created /\ temp' = [content |-> contents, whole |-> TRUE, synced |-> TRUE]
  /\ UNCHANGED <<entries, durable>>

renameOver(name) ==
  /\ temp \notin {None, Created}
  /\ entries' = [entries EXCEPT ![name] = temp] /\ temp' = None
  /\ UNCHANGED durable

syncDirectory == durable' = entries /\ UNCHANGED <<entries, temp>>

\* The finally clause: a temporary file this process created and did not rename.
unlinkOwned == temp' = None /\ UNCHANGED <<entries, durable>>

\* Any of the renames that were not synced may have reached the disk.
losePower ==
  \E landed \in SUBSET {n \in FileNames : entries[n] # durable[n]} :
    /\ entries' = [n \in FileNames |->
         IF n \notin landed THEN durable[n]
         ELSE [entries[n] EXCEPT !.whole = @ /\ entries[n].synced, !.synced = TRUE]]
    /\ durable' = entries' /\ temp' = None
=============================================================================
