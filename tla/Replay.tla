------------------------------- MODULE Replay -------------------------------
(***************************************************************************)
(* Replay of one lane, one (deployment, chain) pair: runReplay of          *)
(* packages/replay/src/engine.ts, called by runDeploymentTick of           *)
(* apps/agent/src/runtime.ts, over the tables of                           *)
(* packages/storage-postgres.                                              *)
(*                                                                         *)
(* Several workers replay the same lane.  One agent process runs a lane's  *)
(* passes one after the other, but nothing stops two processes: the code   *)
(* expects "a stale worker's write" and answers it with a monotone         *)
(* checkpoint and an advisory lock around the ingest transaction.  Every   *)
(* await on the database is a step of its own; a SQL statement or          *)
(* transaction is atomic; a crash or an exception loses the local state of *)
(* a pass and nothing else.  A local that is dead is reset.                *)
(*                                                                         *)
(* Abstractions: the accepted content of a range is the hashes of the      *)
(* blocks a provider returns for it (both ends, and the heights that carry *)
(* a log); logs are content of their block.  The blocks a lane stores are  *)
(* those of its own chain.  Row identities (sha256 of the row's key) are   *)
(* the keys themselves.                                                    *)
(***************************************************************************)
EXTENDS ReplayRanges

CONSTANTS
  Worker,           \* passes that may run at the same time
  Group,            \* independent provider groups of the lane
  Hash,             \* block hashes a provider may answer
  StartBlock,       \* the manifest's start block
  MaxHead,          \* bound: the highest accepted head a pass may see
  LogHeights,       \* heights whose block carries a log
  Width,            \* maxRangeBlocks
  RetryBudget,      \* retryBudget
  Required,         \* requiredIndependentGroups
  ArchiveGroups,    \* groups answering through an archive endpoint
  ArchiveDeclared,  \* archiveFallbackDeclared
  FetchFailures,    \* the reasons a single group's answer may be refused for
  HintHeights,      \* heights the webhook may suggest, one dedup key each
  MaxHints,         \* maxHintsConsidered, also the limit of readPendingHints
  FreshnessTtl,     \* freshnessTtlMs
  MaxClock,         \* bound: the clock stops there
  MaxCrashes        \* bound: how many passes die or throw

ASSUME ReplayAssumption ==
  /\ Group # {} /\ IsFiniteSet(Group)
  /\ Hash # {}
  /\ StartBlock \in Nat /\ MaxHead \in Nat
  /\ MaxClock \in Nat /\ MaxCrashes \in Nat
  /\ LogHeights \subseteq Nat
  /\ Width \in Nat \ {0}
  /\ RetryBudget \in Nat /\ Required \in Nat /\ FreshnessTtl \in Nat /\ MaxHints \in Nat
  /\ ArchiveGroups \subseteq Group /\ ArchiveDeclared \in BOOLEAN
  /\ FetchFailures \subseteq Reasons
  /\ HintHeights \subseteq Nat

VARIABLES
  (* tables *)
  blocks,        \* chain_blocks (accepted): a set of [number, hash]
  checkpoint,    \* replay_checkpoints: None or [number, hash]
  ranges,        \* replay_ranges: a set of [range, status], one per range
  completeness,  \* projection_replay_completeness: None or the row
  incidents,     \* data_quality_incidents: a set of [range, reason]
  integrity,     \* integrity_incidents: a set of [number, expected, observed]
  hints,         \* webhook_hints: height -> "absent", "pending", "consumed"
  clock,         \* the wall clock
  crashes,       \* passes lost so far
  (* the local state of every pass *)
  pc, head, todo, cur, attempts, obs, why, reasons, lastSuccessAt, now, taken, result,
  (* history, read by properties only *)
  said,          \* <<group, number, hash>>: who vouched for a block of an agreed range
  ingested       \* the ranges whose ingest transaction committed

tables == <<blocks, checkpoint, ranges, completeness, incidents, integrity, hints>>
locals == <<pc, head, todo, cur, attempts, obs, why, reasons, lastSuccessAt, now, taken, result>>
history == <<said, ingested>>
vars == <<tables, clock, crashes, locals, history>>

----------------------------------------------------------------------------
(* State *)

Block == [number : Nat, hash : Hash]

\* replay_ranges_bounds_ck
Bounded == { r \in BlockRange : r.fromBlock <= r.toBlock }
Work == [range : BlockRange, tier : {0, 1}]

Times == Nat \cup {None}
Awaits == {"idle", "plan", "prior", "loop", "collect", "blocked", "mark", "ingest",
           "conflict", "complete", "upsert", "consume"}
RangeStatus == {"complete", "divergent", "blocked"}
Statuses == {"divergent", "blocked", "gap", "pending", "stale", "complete"}
Row == [status : Statuses, verdict : {"OK", "UNKNOWN"}, windowTo : Nat,
        lastSuccessAt : Times, evaluatedAt : Nat]

ASSUME NoneAssumption == None \notin Block \cup Row \cup Hash \cup Reasons

NoRange == [fromBlock |-> 0, toBlock |-> 0]
NoWork == [range |-> NoRange, tier |-> 1]

\* The heights a provider returns a block for: both ends and every log's block.
Reported(r) == {r.fromBlock, r.toBlock} \cup { h \in LogHeights : In(h, r) }

Committed == { x.range : x \in { y \in ranges : y.status = "complete" } }

Init ==
  /\ blocks = {} /\ checkpoint = None /\ ranges = {} /\ completeness = None
  /\ incidents = {} /\ integrity = {}
  /\ hints = [h \in HintHeights |-> "absent"]
  /\ clock = 0 /\ crashes = 0
  /\ pc = [w \in Worker |-> "idle"]
  /\ head = [w \in Worker |-> 0]
  /\ todo = [w \in Worker |-> {}]
  /\ cur = [w \in Worker |-> NoWork]
  /\ attempts = [w \in Worker |-> 0]
  /\ obs = [w \in Worker |-> {}]
  /\ why = [w \in Worker |-> None]
  /\ reasons = [w \in Worker |-> {}]
  /\ lastSuccessAt = [w \in Worker |-> None]
  /\ now = [w \in Worker |-> 0]
  /\ taken = [w \in Worker |-> {}]
  /\ result = [w \in Worker |-> None]
  /\ said = {} /\ ingested = {}

----------------------------------------------------------------------------
(* The environment: the webhook and the clock *)

\* enqueueHint: "on conflict (dedup_key) do nothing", so a key is queued once.
EnqueueHint(h) ==
  /\ hints[h] = "absent"
  /\ hints' = [hints EXCEPT ![h] = "pending"]
  /\ UNCHANGED <<blocks, checkpoint, ranges, completeness, incidents, integrity,
                 clock, crashes, locals, history>>

Tick ==
  /\ clock < MaxClock
  /\ clock' = clock + 1
  /\ UNCHANGED <<tables, crashes, locals, history>>

----------------------------------------------------------------------------
(* The start of a pass *)

\* A tick reads its clock once, then at most MaxHints pending hints.
ReadHints(w) ==
  /\ pc[w] = "idle"
  /\ now' = [now EXCEPT ![w] = clock]
  /\ \E t \in SUBSET { h \in HintHeights : hints[h] = "pending" } :
       /\ \/ t = { h \in HintHeights : hints[h] = "pending" } /\ Cardinality(t) <= MaxHints
          \/ Cardinality(t) = MaxHints
       /\ taken' = [taken EXCEPT ![w] = t]
  /\ pc' = [pc EXCEPT ![w] = "plan"]
  /\ UNCHANGED <<tables, clock, crashes, head, todo, cur, attempts, obs, why, reasons,
                 lastSuccessAt, result, history>>

\* A slip: the resume starts one block too far past the checkpoint.
resumeFromTwoPast ==
  IF checkpoint = None THEN StartBlock ELSE checkpoint.number + 2

\* One block past the last committed checkpoint, or the manifest start.
resumeFrom ==
  IF checkpoint = None THEN StartBlock
  ELSE IF checkpoint.number + 1 > StartBlock THEN checkpoint.number + 1 ELSE StartBlock

\* The agreed head is whatever the slowest provider says now: it may go back.
Plan(w) ==
  /\ pc[w] = "plan"
  /\ \E h \in 0..MaxHead :
       /\ head' = [head EXCEPT ![w] = h]
       /\ todo' = [todo EXCEPT ![w] = prioritise(planRanges(resumeFrom, h, Width), taken[w])]
  /\ pc' = [pc EXCEPT ![w] = "prior"]
  /\ UNCHANGED <<tables, clock, crashes, cur, attempts, obs, why, reasons, lastSuccessAt,
                 now, taken, result, history>>

\* readCompleteness: freshness survives a restart.
ReadPrior(w) ==
  /\ pc[w] = "prior"
  /\ lastSuccessAt' = [lastSuccessAt EXCEPT ![w] =
       IF completeness = None THEN None ELSE completeness.lastSuccessAt]
  /\ pc' = [pc EXCEPT ![w] = "loop"]
  /\ UNCHANGED <<tables, clock, crashes, head, todo, cur, attempts, obs, why, reasons,
                 now, taken, result, history>>

----------------------------------------------------------------------------
(* collectRange *)

Shift(w) ==
  /\ pc[w] = "loop"
  /\ \E a \in Firsts(todo[w]) :
       /\ cur' = [cur EXCEPT ![w] = a]
       /\ todo' = [todo EXCEPT ![w] = @ \ {a}]
  /\ attempts' = [attempts EXCEPT ![w] = 0]
  /\ pc' = [pc EXCEPT ![w] = "collect"]
  /\ UNCHANGED <<tables, clock, crashes, head, obs, why, reasons, lastSuccessAt,
                 now, taken, result, history>>

\* The end of an iteration: its constants go out of scope.
EndIteration(w) ==
  /\ cur' = [cur EXCEPT ![w] = NoWork]
  /\ attempts' = [attempts EXCEPT ![w] = 0]
  /\ obs' = [obs EXCEPT ![w] = {}]
  /\ why' = [why EXCEPT ![w] = None]
  /\ pc' = [pc EXCEPT ![w] = "loop"]

\* A failed attempt retries, puts the two halves back, or gives the range up.
Fail(w, reason) ==
  LET step == nextStep(cur[w].range, attempts[w], RetryBudget, reason) IN
  \/ /\ step.kind = "retry"
     /\ attempts' = [attempts EXCEPT ![w] = step.attempts]
     /\ UNCHANGED <<pc, todo, cur, obs, why, reasons>>
  \/ /\ step.kind = "split"
     /\ todo' = [todo EXCEPT ![w] = @ \cup
                   { [range |-> r, tier |-> cur[w].tier] : r \in step.ranges }]
     /\ EndIteration(w)
     /\ UNCHANGED reasons
  \/ /\ step.kind = "give-up"
     /\ why' = [why EXCEPT ![w] = step.reason]
     /\ reasons' = [reasons EXCEPT ![w] = @ \cup {step.reason}]
     /\ pc' = [pc EXCEPT ![w] = "blocked"]
     /\ attempts' = [attempts EXCEPT ![w] = 0]
     /\ UNCHANGED <<todo, cur, obs>>

\* One group's fetch fails or its answer is refused by classifyObservation.
FetchFails(w) ==
  /\ pc[w] = "collect"
  /\ \E f \in FetchFailures : Fail(w, f)
  /\ UNCHANGED <<tables, clock, crashes, head, lastSuccessAt, now, taken, result, history>>

\* Every group answered: the range is agreed on, or the disagreement is a failure.
GroupsAnswer(w) ==
  /\ pc[w] = "collect"
  /\ \E answers \in [Group -> [Reported(cur[w].range) -> Hash]] :
       LET agreement == agree(answers, ArchiveGroups, ArchiveDeclared, Required) IN
       /\ \/ /\ agreement.kind = "agreed"
             /\ said' = said \cup { <<g, n, answers[g][n]>> :
                                      g \in Group, n \in Reported(cur[w].range) }
             /\ \E g \in Group :
                  obs' = [obs EXCEPT ![w] = { [number |-> n, hash |-> answers[g][n]] :
                                               n \in Reported(cur[w].range) }]
             /\ pc' = [pc EXCEPT ![w] = "ingest"]
             /\ attempts' = [attempts EXCEPT ![w] = 0]
             /\ UNCHANGED <<todo, cur, why, reasons>>
          \/ /\ agreement.kind = "blocked"
             /\ Fail(w, agreement.reason)
             /\ UNCHANGED said
  /\ UNCHANGED <<tables, clock, crashes, head, lastSuccessAt, now, taken, result, ingested>>

----------------------------------------------------------------------------
(* A range that cannot be trusted *)

RecordIncident(w) ==
  /\ pc[w] = "blocked"
  /\ incidents' = incidents \cup {[range |-> cur[w].range, reason |-> why[w]]}
  /\ pc' = [pc EXCEPT ![w] = "mark"]
  /\ UNCHANGED <<blocks, checkpoint, ranges, completeness, integrity, hints, clock, crashes,
                 head, todo, cur, attempts, obs, why, reasons, lastSuccessAt,
                 now, taken, result, history>>

\* upsertRangeStatus: the row of this very range takes the new status.
upsertRangeStatus(r, status) ==
  ranges' = { x \in ranges : x.range # r } \cup {[range |-> r, status |-> status]}

\* A slip: no break, the pass goes on with the ranges above the failed one.
MarkBlockedContinues(w) ==
  /\ pc[w] = "mark"
  /\ upsertRangeStatus(cur[w].range,
       IF why[w] = "PROVIDER_DIVERGENCE" THEN "divergent" ELSE "blocked")
  /\ EndIteration(w)
  /\ UNCHANGED <<blocks, checkpoint, completeness, incidents, integrity, hints, clock, crashes,
                 head, todo, reasons, lastSuccessAt, now, taken, result, history>>

\* The break: the remaining ranges are abandoned for this pass.
MarkBlocked(w) ==
  /\ pc[w] = "mark"
  /\ upsertRangeStatus(cur[w].range,
       IF why[w] = "PROVIDER_DIVERGENCE" THEN "divergent" ELSE "blocked")
  /\ todo' = [todo EXCEPT ![w] = {}]
  /\ EndIteration(w)
  /\ UNCHANGED <<blocks, checkpoint, completeness, incidents, integrity, hints, clock, crashes,
                 head, reasons, lastSuccessAt, now, taken, result, history>>

----------------------------------------------------------------------------
(* An agreed range *)

\* A slip: the batch is compared with the checkpoint's block only.
ConflictingAtCheckpoint(batch) ==
  checkpoint # None /\ \E b \in batch : b.number = checkpoint.number /\ b # checkpoint

\* chain_blocks_one_accepted_per_height would be violated.
Conflicting(batch) == \E b \in batch, c \in blocks : b.number = c.number /\ b.hash # c.hash

\* "where replay_checkpoints.last_block_number < excluded.last_block_number"
advance(old, new) ==
  IF old = None THEN new ELSE IF old.number < new.number THEN new ELSE old

\* ingestBatch commits: the facts and the checkpoint in one transaction.
IngestCommit(w) ==
  /\ pc[w] = "ingest"
  /\ ~ Conflicting(obs[w])
  /\ blocks' = blocks \cup obs[w]
  /\ \E b \in obs[w] : /\ b.number = cur[w].range.toBlock
                       /\ checkpoint' = advance(checkpoint, b)
  /\ ingested' = ingested \cup {cur[w].range}
  /\ obs' = [obs EXCEPT ![w] = {}]
  /\ pc' = [pc EXCEPT ![w] = "complete"]
  /\ UNCHANGED <<ranges, completeness, incidents, integrity, hints, clock, crashes,
                 head, todo, cur, attempts, why, reasons, lastSuccessAt,
                 now, taken, result, said>>

\* ingestBatch rolls the whole batch back, then reads and files: two awaits.
RollBack(w) ==
  /\ pc[w] = "ingest"
  /\ Conflicting(obs[w])
  /\ pc' = [pc EXCEPT ![w] = "conflict"]
  /\ UNCHANGED <<ranges, completeness, incidents, integrity, hints, clock, crashes, head, todo,
                 cur, attempts, obs, why, reasons, lastSuccessAt, now, taken, result, history>>

\* A slip: the blocks inserted before the conflict are kept.
IngestConflictKeepsPrefix(w) ==
  /\ RollBack(w)
  /\ blocks' = blocks \cup { b \in obs[w] : \A c \in blocks : b.number # c.number }
  /\ UNCHANGED checkpoint

IngestConflict(w) == RollBack(w) /\ UNCHANGED <<blocks, checkpoint>>

\* What the handler files: the FIRST block of the batch and the hash stored at its
\* height, whichever block it was that conflicted.
FileIncident(batch, first) ==
  \E b \in batch :
    /\ b.number = first
    /\ integrity' = integrity \cup
         { [number |-> b.number, observed |-> b.hash, expected |-> x] :
             x \in IF \E c \in blocks : c.number = b.number
                   THEN { c.hash : c \in { d \in blocks : d.number = b.number } }
                   ELSE {None} }

\* A slip: the error is swallowed and the range goes on to be marked.
RecordIntegrityIncidentMarks(w) ==
  /\ pc[w] = "conflict"
  /\ FileIncident(obs[w], cur[w].range.fromBlock)
  /\ obs' = [obs EXCEPT ![w] = {}]
  /\ pc' = [pc EXCEPT ![w] = "complete"]
  /\ UNCHANGED <<blocks, checkpoint, ranges, completeness, incidents, hints, clock, crashes,
                 head, todo, cur, attempts, why, reasons, lastSuccessAt,
                 now, taken, result, history>>

\* recordIntegrityIncident, then AcceptedHashConflictError: the pass stops with
\* PROVIDER_DIVERGENCE and marks no range.
RecordIntegrityIncident(w) ==
  /\ pc[w] = "conflict"
  /\ FileIncident(obs[w], cur[w].range.fromBlock)
  /\ reasons' = [reasons EXCEPT ![w] = @ \cup {"PROVIDER_DIVERGENCE"}]
  /\ todo' = [todo EXCEPT ![w] = {}]
  /\ EndIteration(w)
  /\ UNCHANGED <<blocks, checkpoint, ranges, completeness, incidents, hints, clock, crashes,
                 head, lastSuccessAt, now, taken, result, history>>

MarkComplete(w) ==
  /\ pc[w] = "complete"
  /\ upsertRangeStatus(cur[w].range, "complete")
  /\ lastSuccessAt' = [lastSuccessAt EXCEPT ![w] = now[w]]
  /\ EndIteration(w)
  /\ UNCHANGED <<blocks, checkpoint, completeness, incidents, integrity, hints, clock, crashes,
                 head, todo, reasons, now, taken, result, history>>

----------------------------------------------------------------------------
(* The end of a pass *)

\* The loop is over: readCommittedRanges, then assessCompleteness.
Assess(w) ==
  /\ pc[w] = "loop"
  /\ todo[w] = {}
  /\ LET window == [fromBlock |-> StartBlock, toBlock |-> head[w]]
         status == assessStatus(window, Committed, lastSuccessAt[w], FreshnessTtl,
                                reasons[w], now[w])
     IN  result' = [result EXCEPT ![w] =
           [status |-> status, verdict |-> verdictOf(status), windowTo |-> head[w],
            lastSuccessAt |-> lastSuccessAt[w], evaluatedAt |-> now[w]]]
  /\ head' = [head EXCEPT ![w] = 0]
  /\ reasons' = [reasons EXCEPT ![w] = {}]
  /\ lastSuccessAt' = [lastSuccessAt EXCEPT ![w] = None]
  /\ now' = [now EXCEPT ![w] = 0]
  /\ pc' = [pc EXCEPT ![w] = "upsert"]
  /\ UNCHANGED <<tables, clock, crashes, todo, cur, attempts, obs, why, taken, history>>

\* upsertCompleteness: the last writer wins.
UpsertCompleteness(w) ==
  /\ pc[w] = "upsert"
  /\ completeness' = result[w]
  /\ result' = [result EXCEPT ![w] = None]
  /\ pc' = [pc EXCEPT ![w] = "consume"]
  /\ UNCHANGED <<blocks, checkpoint, ranges, incidents, integrity, hints, clock, crashes,
                 head, todo, cur, attempts, obs, why, reasons, lastSuccessAt,
                 now, taken, history>>

\* Everything a pass holds is on its stack: returning or dying forgets it.
Forget(w) ==
  /\ pc' = [pc EXCEPT ![w] = "idle"]
  /\ head' = [head EXCEPT ![w] = 0]
  /\ todo' = [todo EXCEPT ![w] = {}]
  /\ cur' = [cur EXCEPT ![w] = NoWork]
  /\ attempts' = [attempts EXCEPT ![w] = 0]
  /\ obs' = [obs EXCEPT ![w] = {}]
  /\ why' = [why EXCEPT ![w] = None]
  /\ reasons' = [reasons EXCEPT ![w] = {}]
  /\ lastSuccessAt' = [lastSuccessAt EXCEPT ![w] = None]
  /\ now' = [now EXCEPT ![w] = 0]
  /\ taken' = [taken EXCEPT ![w] = {}]
  /\ result' = [result EXCEPT ![w] = None]

\* markHintsConsumed, whatever the outcome of the pass.
ConsumeHints(w) ==
  /\ pc[w] = "consume"
  /\ hints' = [h \in HintHeights |-> IF h \in taken[w] THEN "consumed" ELSE hints[h]]
  /\ Forget(w)
  /\ UNCHANGED <<blocks, checkpoint, ranges, completeness, incidents, integrity,
                 clock, crashes, history>>

\* The process dies, or an await throws and the tick unwinds.
Crash(w) ==
  /\ crashes < MaxCrashes
  /\ pc[w] # "idle"
  /\ crashes' = crashes + 1
  /\ Forget(w)
  /\ UNCHANGED <<tables, clock, history>>

----------------------------------------------------------------------------
\* One await of a running pass.
Step(w) ==
  \/ Plan(w) \/ ReadPrior(w) \/ Shift(w)
  \/ FetchFails(w) \/ GroupsAnswer(w)
  \/ RecordIncident(w) \/ MarkBlocked(w)
  \/ IngestCommit(w) \/ IngestConflict(w) \/ RecordIntegrityIncident(w) \/ MarkComplete(w)
  \/ Assess(w) \/ UpsertCompleteness(w) \/ ConsumeHints(w)

Next ==
  \/ \E w \in Worker : ReadHints(w) \/ Step(w) \/ Crash(w)
  \/ \E h \in HintHeights : EnqueueHint(h)
  \/ Tick

Spec == Init /\ [][Next]_vars

\* A pass that has started is a promise chain of the event loop: its next await
\* settles (transport timeouts bound every read).  Nothing obliges a tick to be
\* started, a hint to arrive, or a crash to happen.
FairSpec == Spec /\ \A w \in Worker : WF_vars(Step(w))

\* The daemon keeps submitting the deployment, so a pass is always started again;
\* the slowest provider is seen at MaxHead again and again; and providers answer
\* alike again and again whenever they are asked again and again.
LiveSpec ==
  /\ FairSpec
  /\ \A w \in Worker :
       /\ WF_vars(ReadHints(w))
       /\ SF_vars(Plan(w) /\ head'[w] = MaxHead)
       /\ SF_vars(GroupsAnswer(w) /\ pc'[w] = "ingest")

----------------------------------------------------------------------------
(* Properties *)

\* Every table row and every local is of its declared type, and every range the
\* engine plans, splits, stores or marks satisfies replay_ranges_bounds_ck.
TypeOK ==
  /\ blocks \subseteq Block
  /\ checkpoint \in Block \cup {None}
  /\ \A x \in ranges : x.range \in Bounded /\ x.status \in RangeStatus
  /\ completeness \in Row \cup {None}
  /\ \A i \in incidents : i.range \in Bounded /\ i.reason \in Reasons
  /\ \A i \in integrity : i.number \in Nat /\ i.observed \in Hash
                            /\ i.expected \in Hash \cup {None}
  /\ hints \in [HintHeights -> {"absent", "pending", "consumed"}]
  /\ clock \in 0..MaxClock /\ crashes \in 0..MaxCrashes
  /\ pc \in [Worker -> Awaits]
  /\ head \in [Worker -> Nat]
  /\ todo \in [Worker -> SUBSET Work] /\ cur \in [Worker -> Work]
  /\ \A w \in Worker : \A a \in todo[w] \cup {cur[w]} : a.range \in Bounded
  /\ attempts \in [Worker -> Nat]
  /\ obs \in [Worker -> SUBSET Block]
  /\ why \in [Worker -> Reasons \cup {None}]
  /\ \A w \in Worker : pc[w] \in {"blocked", "mark"} => why[w] # None
  /\ reasons \in [Worker -> SUBSET Reasons]
  /\ lastSuccessAt \in [Worker -> Times]
  /\ now \in [Worker -> Nat]
  /\ taken \in [Worker -> SUBSET HintHeights]
  /\ result \in [Worker -> Row \cup {None}]
  /\ \A w \in Worker : pc[w] = "upsert" => result[w] # None
  /\ \A r \in ingested : r \in Bounded

Covered(h) == \E r \in ingested : In(h, r)

\* At most one accepted hash per height is ever stored, whichever workers race and
\* whatever the providers answer at different times (ledger.ts, migration 0001).
OneAcceptedPerHeight ==
  \A b, c \in blocks : b.number = c.number => b.hash = c.hash

\* The checkpoint is a stored block and the last block of an ingested range: no
\* crash, conflict or stale worker leaves a checkpoint without its facts
\* ("facts and their checkpoint move together, or not at all", engine.ts).
CheckpointBacked ==
  checkpoint # None =>
    /\ checkpoint \in blocks
    /\ \E r \in ingested : r.toBlock = checkpoint.number

\* Every stored block was returned, hash for hash, by the required number of
\* distinct provider groups (agree, agreement.ts).
QuorumBacked ==
  \A b \in blocks :
    Cardinality({ g \in Group : <<g, b.number, b.hash>> \in said }) >= Required

\* A range listed as complete really was ingested, and its two ends are stored:
\* marking and ingesting are two statements with other workers in between.
CompleteIsIngested ==
  \A r \in Committed :
    /\ r \in ingested
    /\ \E b \in blocks : b.number = r.fromBlock
    /\ \E b \in blocks : b.number = r.toBlock

\* A green row is never a lie: when the completeness row says OK, every height from
\* the manifest's start to the head it was judged against lies in an ingested
\* range, and the last success is within the freshness TTL (completeness.ts).
OKSound ==
  (completeness # None /\ completeness.verdict = "OK") =>
    /\ \A h \in StartBlock..completeness.windowTo : Covered(h)
    /\ completeness.lastSuccessAt # None
    /\ completeness.evaluatedAt - completeness.lastSuccessAt <= FreshnessTtl

\* The checkpoint has skipped nothing: "committing later heights would leave this
\* one as a hole that the checkpoint has already skipped past" (engine.ts:239-241).
\* It holds while no hint has reordered a queue.
NoHole ==
  checkpoint # None => \A h \in StartBlock..checkpoint.number : Covered(h)

Unhinted == \A h \in HintHeights : hints[h] = "absent"

NoHoleUnhinted == Unhinted => NoHole

\* The checkpoint never moves back and never changes hash in place, not even when a
\* stale worker commits an older range after a newer one (ledger.ts:231-246).
CheckpointMonotone ==
  [][ checkpoint # None => /\ checkpoint' # None
                           /\ checkpoint'.number >= checkpoint.number
                           /\ checkpoint'.number = checkpoint.number
                                => checkpoint' = checkpoint ]_vars

\* Stored evidence is never removed or overwritten, and neither is an incident:
\* a conflict is "not repaired, not rolled back" (engine.ts:270, ledger.ts:210-218).
LedgerAppendOnly ==
  [][ blocks \subseteq blocks' /\ integrity \subseteq integrity'
      /\ incidents \subseteq incidents' ]_vars

\* A pass always ends: retries and splits are bounded, "no retry forever" (plan.ts).
PassEnds == \A w \in Worker : pc[w] # "idle" ~> pc[w] = "idle"

\* With healthy providers the lane catches up and stays green ("the next run
\* replays the same range rather than skipping it", engine.ts:30).
CatchesUp == <>[](completeness # None /\ completeness.verdict = "OK")

\* Every step of every worker is one atomic step of the abstract ledger, or none.
Ledger == INSTANCE LaneLedger WITH Quorum <- { Q \in SUBSET Group : Cardinality(Q) >= Required }
LedgerRefined == Ledger!LedgerSpec
=============================================================================
