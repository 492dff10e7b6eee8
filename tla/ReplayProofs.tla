------------------------------ MODULE ReplayProofs ------------------------------
(***************************************************************************)
(* Types, the ledger and the refinement of a lane, for every set of        *)
(* workers, groups and hashes, any number of crashes and any head: what is *)
(* stored was vouched for by a quorum, one hash per height, the checkpoint *)
(* with its facts; and Replay implements LaneLedger.  Then coverage of the *)
(* chain by what a lane ingested, for every window, width and retry        *)
(* budget: a green row has no hole behind it; and, as long as no hint      *)
(* reorders a queue, the checkpoint skips nothing, with any interleaving,  *)
(* any crash and any run of provider failures.  Last the range arithmetic, *)
(* for chains of any height: the sweep of the code, loop by loop, finds    *)
(* exactly the heights that are missing.                                   *)
(***************************************************************************)
EXTENDS Replay, MCReplayRanges, FiniteSetTheorems, SequenceTheorems, NaturalsInduction, WellFoundedInduction, TLAPS

\* A stored range is non-empty and its bounds are naturals (replay_ranges_bounds_ck).
LEMMA BoundedFields ==
  ASSUME NEW r \in Bounded
  PROVE  r.fromBlock \in Nat /\ r.toBlock \in Nat /\ r.fromBlock <= r.toBlock
BY DEF Bounded, BlockRange

\* planRanges returns non-empty chunks only.
LEMMA PlanBounded ==
  ASSUME NEW start \in Nat, NEW h \in Nat, NEW width \in Nat \ {0}
  PROVE  \A r \in planRanges(start, h, width) : r \in Bounded /\ start <= r.fromBlock /\ r.toBlock <= h
<1>1. SUFFICES ASSUME NEW k \in 0..(h - start), start + k * width <= h,
                      NEW r, r = [fromBlock |-> start + k * width,
                                  toBlock   |-> IF start + k * width + width - 1 > h
                                                THEN h ELSE start + k * width + width - 1]
               PROVE  r \in Bounded /\ start <= r.fromBlock /\ r.toBlock <= h
  BY DEF planRanges
<1>2. k * width \in Nat
  BY <1>1
<1>3. start + k * width \in Nat /\ start + k * width + width - 1 \in Nat
  BY <1>2
<1> QED BY <1>1, <1>2, <1>3 DEF Bounded, BlockRange

\* Both halves of a split in closed form: non-empty, adjacent, within the parent.
LEMMA SplitHalves ==
  ASSUME NEW r \in Bounded, splitRange(r) # {}
  PROVE  \E m \in Nat :
           /\ r.fromBlock <= m /\ m < r.toBlock
           /\ splitRange(r) = { [fromBlock |-> r.fromBlock, toBlock |-> m],
                                [fromBlock |-> m + 1, toBlock |-> r.toBlock] }
<1> DEFINE span == r.toBlock - r.fromBlock + 1
           half == span \div 2
           m == r.fromBlock + half - 1
<1>1. r.fromBlock \in Nat /\ r.toBlock \in Nat /\ r.fromBlock <= r.toBlock
  BY DEF Bounded, BlockRange
<1>2. span > 1
  BY <1>1 DEF splitRange, spanOf
<1>3. half \in Nat /\ half >= 1 /\ half < span
  BY <1>1, <1>2
<1>4. m \in Nat /\ r.fromBlock <= m /\ m < r.toBlock /\ m + 1 = r.fromBlock + half
  BY <1>1, <1>3
<1>5. splitRange(r) = { [fromBlock |-> r.fromBlock, toBlock |-> r.fromBlock + half - 1],
                        [fromBlock |-> r.fromBlock + half, toBlock |-> r.toBlock] }
  BY <1>2 DEF splitRange, spanOf
<1> QED BY <1>4, <1>5

\* splitRange returns non-empty halves only.
LEMMA SplitBounded ==
  ASSUME NEW r \in Bounded
  PROVE  \A x \in splitRange(r) : x \in Bounded /\ r.fromBlock <= x.fromBlock /\ x.toBlock <= r.toBlock
<1>1. CASE splitRange(r) = {}
  BY <1>1
<1>2. CASE splitRange(r) # {}
  <2>1. PICK m \in Nat : /\ r.fromBlock <= m /\ m < r.toBlock
                         /\ splitRange(r) = { [fromBlock |-> r.fromBlock, toBlock |-> m],
                                [fromBlock |-> m + 1, toBlock |-> r.toBlock] }
    BY <1>2, SplitHalves
  <2> QED BY <2>1 DEF Bounded, BlockRange
<1> QED BY <1>1, <1>2

\* splitRange loses no height and adds none.
LEMMA SplitCovers ==
  ASSUME NEW r \in Bounded, splitRange(r) # {}, NEW h \in Nat, In(h, r)
  PROVE  \E x \in splitRange(r) : In(h, x)
<1>1. PICK m \in Nat : /\ r.fromBlock <= m /\ m < r.toBlock
                       /\ splitRange(r) = { [fromBlock |-> r.fromBlock, toBlock |-> m],
                                [fromBlock |-> m + 1, toBlock |-> r.toBlock] }
  BY SplitHalves
<1>2. h <= m \/ h >= m + 1
  OBVIOUS
<1> QED BY <1>1, <1>2 DEF In, Bounded, BlockRange

\* nextStep answers with a retry, a split into non-empty halves, or a known reason.
LEMMA NextStepKinds ==
  ASSUME NEW r \in Bounded, NEW n \in Nat, NEW reason \in Reasons,
         NEW step, step = nextStep(r, n, RetryBudget, reason)
  PROVE  /\ step.kind = "retry" => step.attempts \in Nat
         /\ step.kind = "split" => step.ranges = splitRange(r) /\ step.ranges # {}
         /\ step.kind = "give-up" => step.reason \in Reasons
BY DEF nextStep, Reasons, Structural, Retryable

\* What a failed attempt may do to the locals of its own pass.
LEMMA FailType ==
  ASSUME TypeOK, NEW w \in Worker, NEW f \in Reasons, Fail(w, f)
  PROVE  /\ pc' \in [Worker -> Awaits]
         /\ todo' \in [Worker -> SUBSET Work] /\ cur' \in [Worker -> Work]
         /\ \A v \in Worker : \A x \in todo'[v] \cup {cur'[v]} : x.range \in Bounded
         /\ attempts' \in [Worker -> Nat]
         /\ obs' \in [Worker -> SUBSET Block]
         /\ why' \in [Worker -> Reasons \cup {None}]
         /\ reasons' \in [Worker -> SUBSET Reasons]
         /\ \A v \in Worker : pc'[v] \in {"blocked", "mark"} => why'[v] # None
<1> DEFINE step == nextStep(cur[w].range, attempts[w], RetryBudget, f)
<1>1. cur[w] \in Work /\ cur[w].range \in Bounded /\ attempts[w] \in Nat
  BY DEF TypeOK
<1>2. /\ step.kind = "retry" => step.attempts \in Nat
      /\ step.kind = "split" => step.ranges = splitRange(cur[w].range) /\ step.ranges # {}
      /\ step.kind = "give-up" => step.reason \in Reasons
  BY <1>1, NextStepKinds
<1>3. CASE /\ step.kind = "retry"
           /\ attempts' = [attempts EXCEPT ![w] = step.attempts]
           /\ UNCHANGED <<pc, todo, cur, obs, why, reasons>>
  BY <1>2, <1>3 DEF TypeOK
<1>4. CASE /\ step.kind = "split"
           /\ todo' = [todo EXCEPT ![w] = @ \cup
                   { [range |-> r, tier |-> cur[w].tier] : r \in step.ranges }]
           /\ EndIteration(w)
           /\ UNCHANGED reasons
  <2>1. \A r \in step.ranges : r \in Bounded
    BY <1>1, <1>2, <1>4, SplitBounded
  <2>2. todo' \in [Worker -> SUBSET Work] /\ \A v \in Worker : \A x \in todo'[v] : x.range \in Bounded
    BY <1>1, <1>4, <2>1 DEF TypeOK, Work, Bounded
  <2>3. cur' \in [Worker -> Work] /\ \A v \in Worker : cur'[v].range \in Bounded
    BY <1>4 DEF TypeOK, EndIteration, NoWork, NoRange, Work, Bounded, BlockRange
  <2> QED BY <1>4, <2>2, <2>3 DEF TypeOK, EndIteration, Awaits
<1>5. CASE /\ step.kind = "give-up"
           /\ why' = [why EXCEPT ![w] = step.reason]
           /\ reasons' = [reasons EXCEPT ![w] = @ \cup {step.reason}]
           /\ pc' = [pc EXCEPT ![w] = "blocked"]
           /\ attempts' = [attempts EXCEPT ![w] = 0]
           /\ UNCHANGED <<todo, cur, obs>>
  BY <1>2, <1>5, NoneAssumption DEF TypeOK, Awaits
<1> QED BY <1>3, <1>4, <1>5 DEF Fail

\* agree blocks with a reason of the catalogue only.
LEMMA AgreeReason ==
  ASSUME NEW answers, agree(answers, ArchiveGroups, ArchiveDeclared, Required).kind = "blocked"
  PROVE  agree(answers, ArchiveGroups, ArchiveDeclared, Required).reason \in Reasons
BY DEF agree, Reasons, Structural

\* Returning and dying leave well-typed locals behind.
LEMMA ForgetType ==
  ASSUME TypeOK, NEW w \in Worker, Forget(w)
  PROVE  /\ pc' \in [Worker -> Awaits]
         /\ head' \in [Worker -> Nat]
         /\ todo' \in [Worker -> SUBSET Work] /\ cur' \in [Worker -> Work]
         /\ \A v \in Worker : \A x \in todo'[v] \cup {cur'[v]} : x.range \in Bounded
         /\ attempts' \in [Worker -> Nat]
         /\ obs' \in [Worker -> SUBSET Block]
         /\ why' \in [Worker -> Reasons \cup {None}]
         /\ \A v \in Worker : pc'[v] \in {"blocked", "mark"} => why'[v] # None
         /\ reasons' \in [Worker -> SUBSET Reasons]
         /\ lastSuccessAt' \in [Worker -> Times]
         /\ now' \in [Worker -> Nat]
         /\ taken' \in [Worker -> SUBSET HintHeights]
         /\ result' \in [Worker -> Row \cup {None}]
         /\ \A v \in Worker : pc'[v] = "upsert" => result'[v] # None
BY DEF Forget, TypeOK, Awaits, NoWork, NoRange, Work, Bounded, BlockRange, Times

\* The empty tables and idle passes are well typed.
LEMMA InitType == Init => TypeOK
BY ReplayAssumption, NoneAssumption
   DEF Init, TypeOK, Awaits, NoWork, NoRange, Work, Bounded, BlockRange, Times

\* Every step of every pass, of the webhook and of the clock keeps the types.
LEMMA NextType == TypeOK /\ [Next]_vars => TypeOK'
<1> SUFFICES ASSUME TypeOK, [Next]_vars PROVE TypeOK'
  OBVIOUS
<1> USE ReplayAssumption, NoneAssumption
<1>1. ASSUME NEW h \in HintHeights, EnqueueHint(h) PROVE TypeOK'
  BY <1>1 DEF EnqueueHint, TypeOK, locals, history
<1>2. CASE Tick
  BY <1>2 DEF Tick, TypeOK, tables, locals, history
<1>3. ASSUME NEW w \in Worker, ReadHints(w) PROVE TypeOK'
  <2>1. PICK t \in SUBSET HintHeights : taken' = [taken EXCEPT ![w] = t]
    BY <1>3 DEF ReadHints
  <2>2. /\ now' = [now EXCEPT ![w] = clock]
        /\ pc' = [pc EXCEPT ![w] = "plan"]
        /\ UNCHANGED <<tables, clock, crashes, head, todo, cur, attempts, obs, why, reasons,
                       lastSuccessAt, result, history>>
    BY <1>3 DEF ReadHints
  <2> QED BY <2>1, <2>2 DEF TypeOK, tables, history, Awaits
<1>4. ASSUME NEW w \in Worker, Plan(w) PROVE TypeOK'
  <2>1. resumeFrom \in Nat
    BY DEF TypeOK, resumeFrom, Block
  <2>2. PICK h \in 0..MaxHead :
          /\ head' = [head EXCEPT ![w] = h]
          /\ todo' = [todo EXCEPT ![w] = prioritise(planRanges(resumeFrom, h, Width), taken[w])]
    BY <1>4 DEF Plan
  <2>3. \A r \in planRanges(resumeFrom, h, Width) : r \in Bounded
    BY <2>1, PlanBounded
  <2>4. \A x \in prioritise(planRanges(resumeFrom, h, Width), taken[w]) :
          x \in Work /\ x.range \in Bounded
    BY <2>3 DEF prioritise, tier, Work, Bounded
  <2> QED BY <1>4, <2>2, <2>4 DEF Plan, TypeOK, tables, history, Awaits
<1>5. ASSUME NEW w \in Worker, ReadPrior(w) PROVE TypeOK'
  BY <1>5 DEF ReadPrior, TypeOK, tables, history, Awaits, Row, Times
<1>6. ASSUME NEW w \in Worker, Shift(w) PROVE TypeOK'
  BY <1>6 DEF Shift, TypeOK, tables, history, Awaits, Firsts
<1>7. ASSUME NEW w \in Worker, FetchFails(w) PROVE TypeOK'
  <2>1. PICK f \in Reasons : Fail(w, f)
    BY <1>7 DEF FetchFails
  <2>2. UNCHANGED <<tables, clock, crashes, head, lastSuccessAt, now, taken, result, history>>
    BY <1>7 DEF FetchFails
  <2>3. \A v \in Worker : pc'[v] = "upsert" => pc[v] = "upsert"
    BY <1>7, <2>1 DEF FetchFails, Fail, EndIteration, TypeOK
  <2> HIDE DEF Fail
  <2>4. /\ pc' \in [Worker -> Awaits]
        /\ todo' \in [Worker -> SUBSET Work] /\ cur' \in [Worker -> Work]
         /\ \A v \in Worker : \A x \in todo'[v] \cup {cur'[v]} : x.range \in Bounded
        /\ attempts' \in [Worker -> Nat]
        /\ obs' \in [Worker -> SUBSET Block]
        /\ why' \in [Worker -> Reasons \cup {None}]
        /\ reasons' \in [Worker -> SUBSET Reasons]
        /\ \A v \in Worker : pc'[v] \in {"blocked", "mark"} => why'[v] # None
    BY <2>1, FailType
  <2> QED BY <2>2, <2>3, <2>4 DEF TypeOK, tables, history
<1>8. ASSUME NEW w \in Worker, GroupsAnswer(w) PROVE TypeOK'
  <2>1. PICK answers \in [Group -> [Reported(cur[w].range) -> Hash]] :
          \/ /\ \E g \in Group :
                  obs' = [obs EXCEPT ![w] = { [number |-> n, hash |-> answers[g][n]] :
                                               n \in Reported(cur[w].range) }]
             /\ pc' = [pc EXCEPT ![w] = "ingest"]
             /\ attempts' = [attempts EXCEPT ![w] = 0]
             /\ UNCHANGED <<todo, cur, why, reasons>>
          \/ LET agreement == agree(answers, ArchiveGroups, ArchiveDeclared, Required) IN
             /\ agreement.kind = "blocked" 
             /\ Fail(w, agreement.reason)
    BY <1>8 DEF GroupsAnswer
  <2>2. UNCHANGED <<tables, clock, crashes, head, lastSuccessAt, now, taken, result, ingested>>
    BY <1>8 DEF GroupsAnswer
  <2>3. CASE /\ \E g \in Group :
                  obs' = [obs EXCEPT ![w] = { [number |-> n, hash |-> answers[g][n]] :
                                               n \in Reported(cur[w].range) }]
             /\ pc' = [pc EXCEPT ![w] = "ingest"]
             /\ attempts' = [attempts EXCEPT ![w] = 0]
             /\ UNCHANGED <<todo, cur, why, reasons>>
    <3>1. Reported(cur[w].range) \subseteq Nat
      BY BoundedFields, ZenonT(30) DEF TypeOK, Reported
    <3>2. PICK g \in Group :
                  obs' = [obs EXCEPT ![w] = { [number |-> n, hash |-> answers[g][n]] :
                                               n \in Reported(cur[w].range) }]
      BY <2>3
    <3>3. obs' \in [Worker -> SUBSET Block]
      BY <3>1, <3>2 DEF TypeOK, Block
    <3> QED BY <2>2, <2>3, <3>3 DEF TypeOK, tables, Awaits
  <2>4. CASE LET agreement == agree(answers, ArchiveGroups, ArchiveDeclared, Required) IN
             /\ agreement.kind = "blocked" 
             /\ Fail(w, agreement.reason)
    <3>1. PICK f \in Reasons : Fail(w, f)
      BY <2>4, AgreeReason
    <3>2. \A v \in Worker : pc'[v] = "upsert" => pc[v] = "upsert"
      BY <1>8, <3>1 DEF GroupsAnswer, Fail, EndIteration, TypeOK
    <3>3. /\ pc' \in [Worker -> Awaits]
          /\ todo' \in [Worker -> SUBSET Work] /\ cur' \in [Worker -> Work]
          /\ \A v \in Worker : \A x \in todo'[v] \cup {cur'[v]} : x.range \in Bounded
          /\ attempts' \in [Worker -> Nat]
          /\ obs' \in [Worker -> SUBSET Block]
          /\ why' \in [Worker -> Reasons \cup {None}]
          /\ reasons' \in [Worker -> SUBSET Reasons]
          /\ \A v \in Worker : pc'[v] \in {"blocked", "mark"} => why'[v] # None
      BY <3>1, FailType
    <3> QED BY <2>2, <3>2, <3>3 DEF TypeOK, tables
  <2> QED BY <2>1, <2>3, <2>4
<1>9. ASSUME NEW w \in Worker, RecordIncident(w) PROVE TypeOK'
  BY <1>9 DEF RecordIncident, TypeOK, history, Awaits
<1>10. ASSUME NEW w \in Worker, MarkBlocked(w) PROVE TypeOK'
  BY <1>10 DEF MarkBlocked, EndIteration, upsertRangeStatus, TypeOK, history, Awaits, RangeStatus,
             NoWork, NoRange, Work, Bounded, BlockRange
<1>11. ASSUME NEW w \in Worker, IngestCommit(w) PROVE TypeOK'
  BY <1>11 DEF IngestCommit, advance, TypeOK, Awaits
<1>12. ASSUME NEW w \in Worker, IngestConflict(w) PROVE TypeOK'
  BY <1>12 DEF IngestConflict, RollBack, TypeOK, history, Awaits
<1>19. ASSUME NEW w \in Worker, RecordIntegrityIncident(w) PROVE TypeOK'
  BY <1>19 DEF RecordIntegrityIncident, FileIncident, EndIteration, TypeOK, history, Awaits, Block,
             Reasons, Structural, NoWork, NoRange, Work, Bounded, BlockRange
<1>13. ASSUME NEW w \in Worker, MarkComplete(w) PROVE TypeOK'
  BY <1>13 DEF MarkComplete, EndIteration, upsertRangeStatus, TypeOK, history, Awaits, RangeStatus,
             NoWork, NoRange, Work, Bounded, BlockRange, Times
<1>14. ASSUME NEW w \in Worker, Assess(w) PROVE TypeOK'
  BY <1>14 DEF Assess, assessStatus, verdictOf, Row, Statuses, Times, TypeOK, tables, history, Awaits
<1>15. ASSUME NEW w \in Worker, UpsertCompleteness(w) PROVE TypeOK'
  BY <1>15 DEF UpsertCompleteness, TypeOK, history, Awaits
<1>16. ASSUME NEW w \in Worker, ConsumeHints(w) PROVE TypeOK'
  BY <1>16, ForgetType DEF ConsumeHints, TypeOK, history
<1>17. ASSUME NEW w \in Worker, Crash(w) PROVE TypeOK'
  BY <1>17, ForgetType DEF Crash, TypeOK, tables, history
<1>18. CASE UNCHANGED vars
  BY <1>18 DEF vars, tables, locals, history, TypeOK
<1> QED
  BY <1>1, <1>2, <1>3, <1>4, <1>5, <1>6, <1>7, <1>8, <1>9, <1>10, <1>11, <1>12, <1>13,
     <1>14, <1>15, <1>16, <1>17, <1>18, <1>19 DEF Next, Step

\* Tables and locals keep their types in every reachable state: in particular runReplay
\* plans, splits, stores and marks non-empty ranges only, and upserts a result it has.
THEOREM TypeCorrect == Spec => []TypeOK
<1>1. Init => TypeOK
  BY InitType
<1>2. TypeOK /\ [Next]_vars => TypeOK'
  BY NextType
<1> QED BY <1>1, <1>2, PTL DEF Spec

---------------------------------------------------------------------------
(* The ledger *)

Vouched(b) == Cardinality({ g \in Group : <<g, b.number, b.hash>> \in said }) >= Required

\* What a pass holds between an agreed answer and the ingest transaction.
BatchOK(w) ==
  /\ \A b \in obs[w] : In(b.number, cur[w].range)
  /\ \A b \in obs[w] : Vouched(b)
  /\ \A b, c \in obs[w] : b.number = c.number => b.hash = c.hash
  /\ \E b \in obs[w] : b.number = cur[w].range.fromBlock
  /\ \E b \in obs[w] : b.number = cur[w].range.toBlock

\* An ingested range has both its ends in the ledger.
EndsStored ==
  \A r \in ingested : /\ \E b \in blocks : b.number = r.fromBlock
                      /\ \E b \in blocks : b.number = r.toBlock

LedgerInv ==
  /\ OneAcceptedPerHeight
  /\ QuorumBacked
  /\ CheckpointBacked
  /\ EndsStored
  /\ Committed \subseteq ingested
  /\ \A w \in Worker : pc[w] = "ingest" => BatchOK(w)
  /\ \A w \in Worker : pc[w] = "complete" => cur[w].range \in ingested

\* An empty ledger and idle passes satisfy the strengthening.
LEMMA LedgerInvInit == Init => LedgerInv
BY DEF Init, LedgerInv, OneAcceptedPerHeight, QuorumBacked, CheckpointBacked, EndsStored, Committed

\* More testimony never un-vouches a block.
LEMMA VouchedMonotone ==
  ASSUME NEW b, said \subseteq said', Vouched(b)
  PROVE  Cardinality({ g \in Group : <<g, b.number, b.hash>> \in said' }) >= Required
<1> DEFINE before == { g \in Group : <<g, b.number, b.hash>> \in said }
           after == { g \in Group : <<g, b.number, b.hash>> \in said' }
<1>1. IsFiniteSet(after) /\ before \subseteq after
  BY FS_Subset, ReplayAssumption
<1>2. Cardinality(before) <= Cardinality(after) /\ IsFiniteSet(before)
  BY <1>1, FS_Subset
<1>3. Cardinality(before) \in Nat /\ Cardinality(after) \in Nat /\ Required \in Nat
  BY <1>1, <1>2, FS_CardinalityType, ReplayAssumption
<1>4. Cardinality(before) >= Required
  BY DEF Vouched
<1> QED BY <1>2, <1>3, <1>4

\* An agreed answer is the same content from every group, and enough groups.
LEMMA AgreeSound ==
  ASSUME NEW answers, DOMAIN answers = Group,
         agree(answers, ArchiveGroups, ArchiveDeclared, Required).kind = "agreed"
  PROVE  /\ \A g, h \in Group : answers[g] = answers[h]
         /\ Cardinality(Group) >= Required
<1>1. ~ (Cardinality(Group) < Required) /\ \A g, h \in Group : answers[g] = answers[h]
  BY DEF agree
<1>2. Cardinality(Group) \in Nat /\ Required \in Nat
  BY FS_CardinalityType, ReplayAssumption
<1> QED BY <1>1, <1>2

\* Steps that leave the ledger alone and take no pass into an ingest.
LEMMA LedgerQuiet ==
  ASSUME LedgerInv, UNCHANGED <<blocks, checkpoint, said, ingested>>,
         \A x \in ranges' : x \in ranges \/ x.status # "complete",
         \A v \in Worker : pc'[v] \in {"ingest", "complete"} =>
           pc'[v] = pc[v] /\ obs'[v] = obs[v] /\ cur'[v] = cur[v]
  PROVE  LedgerInv'
<1>1. OneAcceptedPerHeight' /\ QuorumBacked' /\ CheckpointBacked' /\ EndsStored'
  BY DEF LedgerInv, OneAcceptedPerHeight, QuorumBacked, CheckpointBacked, EndsStored
<1>2. Committed' \subseteq Committed
  BY DEF Committed
<1>3. Committed' \subseteq ingested'
  BY <1>2 DEF LedgerInv
<1>4. ASSUME NEW w \in Worker, pc'[w] = "ingest" PROVE BatchOK(w)'
  <2>1. BatchOK(w) /\ obs'[w] = obs[w] /\ cur'[w] = cur[w] /\ said' = said
    BY <1>4 DEF LedgerInv
  <2> QED BY <2>1 DEF BatchOK, Vouched, In
<1>5. \A w \in Worker : pc'[w] = "complete" => cur'[w].range \in ingested'
  BY DEF LedgerInv
<1> QED BY <1>1, <1>3, <1>4, <1>5 DEF LedgerInv

\* A failed attempt takes no pass into an ingest.
LEMMA FailQuiet ==
  ASSUME TypeOK, NEW w \in Worker, NEW f \in Reasons, Fail(w, f)
  PROVE  \A v \in Worker : pc'[v] \in {"ingest", "complete"} =>
           pc'[v] = pc[v] /\ obs'[v] = obs[v] /\ cur'[v] = cur[v]
BY DEF TypeOK, Fail, EndIteration, Awaits

\* collectRange hands runReplay only a batch that a quorum vouches for, block by block.
LEMMA GroupsAnswerLedger ==
  ASSUME TypeOK, LedgerInv, NEW w \in Worker, GroupsAnswer(w)
  PROVE  LedgerInv'
<1> DEFINE R == Reported(cur[w].range)
<1>1. UNCHANGED <<blocks, checkpoint, ranges, ingested>>
  BY DEF GroupsAnswer, tables
<1>2. PICK answers \in [Group -> [R -> Hash]] :
        \/ /\ agree(answers, ArchiveGroups, ArchiveDeclared, Required).kind = "agreed"
           /\ said' = said \cup { <<g, n, answers[g][n]>> : g \in Group, n \in R }
           /\ \E g \in Group :
                obs' = [obs EXCEPT ![w] = { [number |-> n, hash |-> answers[g][n]] : n \in R }]
           /\ pc' = [pc EXCEPT ![w] = "ingest"]
           /\ UNCHANGED <<todo, cur, why, reasons>>
        \/ /\ agree(answers, ArchiveGroups, ArchiveDeclared, Required).kind = "blocked"
           /\ Fail(w, agree(answers, ArchiveGroups, ArchiveDeclared, Required).reason)
           /\ UNCHANGED said
  BY DEF GroupsAnswer
<1>3. CASE /\ agree(answers, ArchiveGroups, ArchiveDeclared, Required).kind = "blocked"
           /\ Fail(w, agree(answers, ArchiveGroups, ArchiveDeclared, Required).reason)
           /\ UNCHANGED said
  <2>1. PICK f \in Reasons : Fail(w, f)
    BY <1>3, AgreeReason
  <2>2. \A v \in Worker : pc'[v] \in {"ingest", "complete"} =>
           pc'[v] = pc[v] /\ obs'[v] = obs[v] /\ cur'[v] = cur[v]
    BY <2>1, FailQuiet
  <2> QED BY <1>1, <1>3, <2>2, LedgerQuiet
<1>4. CASE /\ agree(answers, ArchiveGroups, ArchiveDeclared, Required).kind = "agreed"
           /\ said' = said \cup { <<g, n, answers[g][n]>> : g \in Group, n \in R }
           /\ \E g \in Group :
                obs' = [obs EXCEPT ![w] = { [number |-> n, hash |-> answers[g][n]] : n \in R }]
           /\ pc' = [pc EXCEPT ![w] = "ingest"]
           /\ UNCHANGED <<todo, cur, why, reasons>>
  <2>1. said \subseteq said'
    BY <1>4
  <2>2. PICK first \in Group :
          obs' = [obs EXCEPT ![w] = { [number |-> n, hash |-> answers[first][n]] : n \in R }]
    BY <1>4
  <2>3. (\A g, h \in Group : answers[g] = answers[h]) /\ Cardinality(Group) >= Required
    BY <1>4, AgreeSound
  <2>4. obs'[w] = { [number |-> n, hash |-> answers[first][n]] : n \in R }
    BY <2>2 DEF TypeOK
  <2>5. ASSUME NEW b \in obs'[w] PROVE Vouched(b)'
    <3>1. PICK n \in R : b = [number |-> n, hash |-> answers[first][n]]
      BY <2>4
    <3>2. \A g \in Group : <<g, b.number, b.hash>> \in said'
      BY <1>4, <2>3, <3>1
    <3>3. { g \in Group : <<g, b.number, b.hash>> \in said' } = Group
      BY <3>2
    <3> QED BY <2>3, <3>3 DEF Vouched
  <2>6. cur' = cur
    BY <1>4
  <2>7. BatchOK(w)'
    <3>1. cur[w].range.fromBlock \in R /\ cur[w].range.toBlock \in R
      BY DEF Reported
    <3>2. /\ \A b, c \in obs'[w] : b.number = c.number => b.hash = c.hash
          /\ \A b \in obs'[w] : In(b.number, cur[w].range)'
      <4>1. \A n \in R : In(n, cur[w].range)
        <5>1. cur[w].range \in Bounded
          BY DEF TypeOK
        <5> QED BY <5>1, BoundedFields DEF Reported, In
      <4> QED BY <2>4, <2>6, <4>1 DEF In
    <3>3. /\ \E b \in obs'[w] : b.number = cur'[w].range.fromBlock
          /\ \E b \in obs'[w] : b.number = cur'[w].range.toBlock
      <4>1. \A n \in R : \E b \in obs'[w] : b.number = n
        <5>1. TAKE n \in R
        <5>2. [number |-> n, hash |-> answers[first][n]] \in obs'[w]
          BY <2>4
        <5> QED BY <5>2
      <4> QED BY <4>1, <2>6, <3>1
    <3> QED BY <2>5, <3>2, <3>3 DEF BatchOK
  <2>8. ASSUME NEW v \in Worker, v # w, pc'[v] = "ingest" PROVE BatchOK(v)'
    <3>1. BatchOK(v) /\ obs'[v] = obs[v] /\ cur'[v] = cur[v]
      BY <1>4, <2>2, <2>8 DEF LedgerInv, TypeOK
    <3>2. \A b \in obs'[v] : Vouched(b)'
      BY <2>1, <3>1, VouchedMonotone DEF BatchOK, Vouched
    <3>3. /\ \A b \in obs'[v] : In(b.number, cur[v].range)'
          /\ \A b, c \in obs'[v] : b.number = c.number => b.hash = c.hash
          /\ \E b \in obs'[v] : b.number = cur'[v].range.fromBlock
          /\ \E b \in obs'[v] : b.number = cur'[v].range.toBlock
      BY <3>1 DEF BatchOK, In
    <3> QED BY <3>2, <3>3 DEF BatchOK
  <2>9. QuorumBacked'
    BY <1>1, <2>1, VouchedMonotone DEF LedgerInv, QuorumBacked, Vouched
  <2>10. OneAcceptedPerHeight' /\ CheckpointBacked' /\ EndsStored' /\ Committed' \subseteq ingested'
    BY <1>1 DEF LedgerInv, OneAcceptedPerHeight, CheckpointBacked, EndsStored, Committed
  <2>11. \A v \in Worker : pc'[v] = "complete" => cur'[v].range \in ingested'
    BY <1>1, <1>4 DEF LedgerInv, TypeOK
  <2> QED BY <2>7, <2>8, <2>9, <2>10, <2>11 DEF LedgerInv
<1> QED BY <1>2, <1>3, <1>4

\* The ingest transaction turns that batch into history and keeps every part.
LEMMA IngestCommitLedger ==
  ASSUME TypeOK, LedgerInv, NEW w \in Worker, IngestCommit(w)
  PROVE  LedgerInv'
<1>1. /\ pc[w] = "ingest" /\ ~ Conflicting(obs[w])
      /\ blocks' = blocks \cup obs[w]
      /\ ingested' = ingested \cup {cur[w].range}
      /\ obs' = [obs EXCEPT ![w] = {}]
      /\ pc' = [pc EXCEPT ![w] = "complete"]
      /\ cur' = cur /\ said' = said /\ ranges' = ranges
  BY DEF IngestCommit
<1>2. PICK last \in obs[w] : /\ last.number = cur[w].range.toBlock
                            /\ checkpoint' = advance(checkpoint, last)
  BY DEF IngestCommit
<1>3. BatchOK(w)
  BY <1>1 DEF LedgerInv
<1>4. OneAcceptedPerHeight'
  BY <1>1, <1>3 DEF LedgerInv, OneAcceptedPerHeight, BatchOK, Conflicting
<1>5. QuorumBacked'
  BY <1>1, <1>3 DEF LedgerInv, QuorumBacked, BatchOK, Vouched
<1>6. CheckpointBacked'
  BY <1>1, <1>2 DEF LedgerInv, CheckpointBacked, advance
<1>7. EndsStored'
  BY <1>1, <1>3 DEF LedgerInv, EndsStored, BatchOK
<1>8. Committed' \subseteq ingested'
  BY <1>1 DEF LedgerInv, Committed
<1>9. ASSUME NEW v \in Worker, pc'[v] = "ingest" PROVE BatchOK(v)'
  <2>1. v # w /\ pc[v] = "ingest" /\ obs'[v] = obs[v]
    BY <1>1, <1>9 DEF TypeOK
  <2> QED BY <1>1, <2>1 DEF LedgerInv, BatchOK, Vouched, In
<1>10. \A v \in Worker : pc'[v] = "complete" => cur'[v].range \in ingested'
  BY <1>1 DEF LedgerInv, TypeOK
<1> QED BY <1>4, <1>5, <1>6, <1>7, <1>8, <1>9, <1>10 DEF LedgerInv

\* upsertRangeStatus 'complete' lists a range its own pass has just ingested.
LEMMA MarkCompleteLedger ==
  ASSUME TypeOK, LedgerInv, NEW w \in Worker, MarkComplete(w)
  PROVE  LedgerInv'
<1>1. /\ pc[w] = "complete"
      /\ ranges' = { x \in ranges : x.range # cur[w].range }
                     \cup {[range |-> cur[w].range, status |-> "complete"]}
      /\ UNCHANGED <<blocks, checkpoint, said, ingested>>
      /\ \A v \in Worker : pc'[v] \in {"ingest", "complete"} =>
           pc'[v] = pc[v] /\ obs'[v] = obs[v] /\ cur'[v] = cur[v]
  BY DEF MarkComplete, EndIteration, upsertRangeStatus, TypeOK, history
<1>2. Committed' \subseteq Committed \cup {cur[w].range}
  BY <1>1 DEF Committed
<1>3. Committed' \subseteq ingested'
  BY <1>1, <1>2 DEF LedgerInv
<1>4. OneAcceptedPerHeight' /\ QuorumBacked' /\ CheckpointBacked' /\ EndsStored'
  BY <1>1 DEF LedgerInv, OneAcceptedPerHeight, QuorumBacked, CheckpointBacked, EndsStored
<1>5. \A v \in Worker : pc'[v] = "ingest" => BatchOK(v)'
  BY <1>1 DEF LedgerInv, BatchOK, Vouched, In
<1>6. \A v \in Worker : pc'[v] = "complete" => cur'[v].range \in ingested'
  BY <1>1 DEF LedgerInv
<1> QED BY <1>3, <1>4, <1>5, <1>6 DEF LedgerInv

\* Every step of every pass, of the webhook and of the clock keeps the strengthening.
LEMMA LedgerInvNext == TypeOK /\ LedgerInv /\ [Next]_vars => LedgerInv'
<1> SUFFICES ASSUME TypeOK, LedgerInv, [Next]_vars PROVE LedgerInv'
  OBVIOUS
<1> DEFINE Quiet == /\ UNCHANGED <<blocks, checkpoint, said, ingested>>
                    /\ \A x \in ranges' : x \in ranges \/ x.status # "complete"
                    /\ \A v \in Worker : pc'[v] \in {"ingest", "complete"} =>
                         pc'[v] = pc[v] /\ obs'[v] = obs[v] /\ cur'[v] = cur[v]
<1>1. Quiet => LedgerInv'
  BY LedgerQuiet
<1>2. ASSUME NEW h \in HintHeights, EnqueueHint(h) PROVE Quiet
  BY <1>2 DEF EnqueueHint, locals, history
<1>3. CASE Tick
  BY <1>1, <1>3 DEF Tick, tables, locals, history
<1>4. ASSUME NEW w \in Worker, ReadHints(w) PROVE Quiet
  BY <1>4 DEF ReadHints, tables, history, TypeOK
<1>5. ASSUME NEW w \in Worker, Plan(w) PROVE Quiet
  BY <1>5 DEF Plan, tables, history, TypeOK
<1>6. ASSUME NEW w \in Worker, ReadPrior(w) PROVE Quiet
  BY <1>6 DEF ReadPrior, tables, history, TypeOK
<1>7. ASSUME NEW w \in Worker, Shift(w) PROVE Quiet
  BY <1>7 DEF Shift, tables, history, TypeOK
<1>8. ASSUME NEW w \in Worker, FetchFails(w) PROVE Quiet
  <2>1. PICK f \in Reasons : Fail(w, f)
    BY <1>8, ReplayAssumption DEF FetchFails
  <2>2. UNCHANGED <<blocks, checkpoint, said, ingested, ranges>>
    BY <1>8 DEF FetchFails, tables, history
  <2> QED BY <2>1, <2>2, FailQuiet
<1>9. ASSUME NEW w \in Worker, RecordIncident(w) PROVE Quiet
  BY <1>9 DEF RecordIncident, history, TypeOK
<1>10. ASSUME NEW w \in Worker, MarkBlocked(w) PROVE Quiet
  BY <1>10 DEF MarkBlocked, EndIteration, upsertRangeStatus, history, TypeOK
<1>11. ASSUME NEW w \in Worker, IngestConflict(w) PROVE Quiet
  BY <1>11 DEF IngestConflict, RollBack, history, TypeOK
<1>17. ASSUME NEW w \in Worker, RecordIntegrityIncident(w) PROVE Quiet
  BY <1>17 DEF RecordIntegrityIncident, EndIteration, history, TypeOK
<1>12. ASSUME NEW w \in Worker, Assess(w) PROVE Quiet
  BY <1>12 DEF Assess, tables, history, TypeOK
<1>13. ASSUME NEW w \in Worker, UpsertCompleteness(w) PROVE Quiet
  BY <1>13 DEF UpsertCompleteness, history, TypeOK
<1>14. ASSUME NEW w \in Worker, ConsumeHints(w) PROVE Quiet
  BY <1>14 DEF ConsumeHints, Forget, history, TypeOK
<1>15. ASSUME NEW w \in Worker, Crash(w) PROVE Quiet
  BY <1>15 DEF Crash, Forget, tables, history, TypeOK
<1>16. CASE UNCHANGED vars
  BY <1>1, <1>16 DEF vars, tables, locals, history
<1> HIDE DEF Quiet
<1> QED
  BY <1>1, <1>2, <1>3, <1>4, <1>5, <1>6, <1>7, <1>8, <1>9, <1>10, <1>11, <1>12, <1>13, <1>14,
     <1>15, <1>16, <1>17, GroupsAnswerLedger, IngestCommitLedger, MarkCompleteLedger DEF Next, Step

\* The strengthening holds in every reachable state: what runReplay and ingestBatch keep
\* between them, row by row and pass by pass.
THEOREM LedgerCorrect == Spec => []LedgerInv
<1>1. Init => TypeOK /\ LedgerInv
  BY InitType, LedgerInvInit
<1>2. TypeOK /\ LedgerInv /\ [Next]_vars => TypeOK' /\ LedgerInv'
  BY NextType, LedgerInvNext
<1> QED BY <1>1, <1>2, PTL DEF Spec

\* No race of workers stores two accepted hashes for one height: the unique index
\* and the rollback of ingestBatch are enough, whatever the providers answer.
THEOREM OneHashPerHeight == Spec => []OneAcceptedPerHeight
<1>1. LedgerInv => OneAcceptedPerHeight
  BY DEF LedgerInv
<1> QED BY <1>1, LedgerCorrect, PTL

\* Every stored block has its quorum of provider groups, for every quorum size.
THEOREM QuorumTheorem == Spec => []QuorumBacked
<1>1. LedgerInv => QuorumBacked
  BY DEF LedgerInv
<1> QED BY <1>1, LedgerCorrect, PTL

\* The checkpoint is always the stored last block of an ingested range.
THEOREM CheckpointTheorem == Spec => []CheckpointBacked
<1>1. LedgerInv => CheckpointBacked
  BY DEF LedgerInv
<1> QED BY <1>1, LedgerCorrect, PTL

\* A range is listed as complete only after its ingest committed.
THEOREM CompleteTheorem == Spec => []CompleteIsIngested
<1>1. LedgerInv => CompleteIsIngested
  BY DEF LedgerInv, CompleteIsIngested, EndsStored
<1> QED BY <1>1, LedgerCorrect, PTL

----------------------------------------------------------------------------
(* Refinement *)

\* A failed attempt, and every other step but two, is a stutter of the ledger.
LEMMA LedgerStutters ==
  ASSUME [Next]_vars, \A w \in Worker : ~ GroupsAnswer(w) /\ ~ IngestCommit(w)
  PROVE  UNCHANGED Ledger!ledgerVars
<1> DEFINE Same == UNCHANGED <<blocks, checkpoint, said, ingested>>
<1>1. ASSUME NEW w \in Worker,
             ReadHints(w) \/ Plan(w) \/ ReadPrior(w) \/ Shift(w) \/ FetchFails(w) \/ RecordIncident(w)
      PROVE  Same
  BY <1>1 DEF ReadHints, Plan, ReadPrior, Shift, FetchFails, RecordIncident, tables, history
<1>2. ASSUME NEW w \in Worker,
             MarkBlocked(w) \/ IngestConflict(w) \/ RecordIntegrityIncident(w) \/ MarkComplete(w)
      PROVE  Same
  BY <1>2 DEF MarkBlocked, IngestConflict, RollBack, RecordIntegrityIncident, MarkComplete, history
<1>3. ASSUME NEW w \in Worker,
             Assess(w) \/ UpsertCompleteness(w) \/ ConsumeHints(w) \/ Crash(w)
      PROVE  Same
  BY <1>3 DEF Assess, UpsertCompleteness, ConsumeHints, Crash, tables, history
<1>4. ASSUME NEW h \in HintHeights, EnqueueHint(h) PROVE Same
  BY <1>4 DEF EnqueueHint, history
<1>5. ASSUME Tick PROVE Same
  BY <1>5 DEF Tick, tables, history
<1>6. ASSUME UNCHANGED vars PROVE Same
  BY <1>6 DEF vars, tables, history
<1> HIDE DEF Same
<1>7. Same
  BY <1>1, <1>2, <1>3, <1>4, <1>5, <1>6 DEF Next, Step
<1> QED BY <1>7 DEF Same, Ledger!ledgerVars

\* The ingest transaction of a pass is the one Commit step of the abstract ledger.
LEMMA CommitRefines ==
  ASSUME TypeOK, LedgerInv, NEW w \in Worker, IngestCommit(w)
  PROVE  Ledger!LedgerNext
<1> DEFINE r == cur[w].range
           batch == obs[w]
<1>1. /\ ~ Conflicting(batch)
      /\ blocks' = blocks \cup batch /\ ingested' = ingested \cup {r} /\ said' = said
  BY DEF IngestCommit
<1>2. BatchOK(w)
  BY DEF IngestCommit, LedgerInv
<1>3. PICK last \in batch : last.number = r.toBlock /\ checkpoint' = advance(checkpoint, last)
  BY DEF IngestCommit
<1>4. ASSUME NEW b \in batch PROVE Ledger!VouchedFor(b)
  <2> DEFINE Q == { g \in Group : <<g, b.number, b.hash>> \in said }
  <2>1. Q \in SUBSET Group /\ Cardinality(Q) >= Required
    BY <1>2 DEF BatchOK, Vouched
  <2>2. \A g \in Q : <<g, b.number, b.hash>> \in said
    OBVIOUS
  <2> HIDE DEF Q
  <2> QED BY <2>1, <2>2 DEF Ledger!VouchedFor
<1>5. \A b \in batch, c \in blocks \cup batch : b.number = c.number => b.hash = c.hash
  BY <1>1, <1>2 DEF BatchOK, Conflicting
<1>6. \/ checkpoint = None /\ checkpoint' = last
      \/ checkpoint # None /\ checkpoint.number < last.number /\ checkpoint' = last
      \/ checkpoint # None /\ checkpoint.number >= last.number /\ checkpoint' = checkpoint
  <2>1. last.number \in Nat /\ (checkpoint # None => checkpoint.number \in Nat)
    BY DEF TypeOK, Block
  <2> QED BY <1>3, <2>1 DEF advance
<1>7. /\ \E b \in batch : b.number = r.fromBlock
      /\ \A b \in batch : r.fromBlock <= b.number /\ b.number <= r.toBlock
  BY <1>2 DEF BatchOK, In
<1>8. Ledger!Commit(r, batch)
  <2>1. \E x \in batch :
          /\ x.number = r.toBlock
          /\ \/ checkpoint = None /\ checkpoint' = x
             \/ checkpoint # None /\ checkpoint.number < x.number /\ checkpoint' = x
             \/ checkpoint # None /\ checkpoint.number >= x.number /\ checkpoint' = checkpoint
    BY <1>3, <1>6
  <2>2. /\ blocks' = blocks \cup batch /\ ingested' = ingested \cup {r} /\ said' = said
    BY <1>1
  <2> HIDE DEF r, batch
  <2> QED BY <1>4, <1>5, <1>7, <2>1, <2>2, Zenon DEF Ledger!Commit
<1> QED BY <1>1, <1>8 DEF Ledger!LedgerNext

\* Every behaviour of the replay workers is one of the abstract ledger.
THEOREM Refinement == Spec => LedgerRefined
<1>1. Init => Ledger!LedgerInit
  BY DEF Init, Ledger!LedgerInit
<1>2. TypeOK /\ LedgerInv /\ [Next]_vars => [Ledger!LedgerNext]_(Ledger!ledgerVars)
  <2> SUFFICES ASSUME TypeOK, LedgerInv, [Next]_vars
               PROVE  Ledger!LedgerNext \/ UNCHANGED Ledger!ledgerVars
    OBVIOUS
  <2>1. ASSUME NEW w \in Worker, GroupsAnswer(w) PROVE Ledger!LedgerNext
    <3>1. said \subseteq said' /\ UNCHANGED <<blocks, checkpoint, ingested>>
      BY <2>1 DEF GroupsAnswer, tables
    <3> QED BY <3>1 DEF Ledger!LedgerNext, Ledger!Attest
  <2>2. ASSUME NEW w \in Worker, IngestCommit(w) PROVE Ledger!LedgerNext
    BY <2>2, CommitRefines
  <2> QED BY <2>1, <2>2, LedgerStutters
<1> QED BY <1>1, <1>2, TypeCorrect, LedgerCorrect, PTL DEF Spec, LedgerRefined, Ledger!LedgerSpec

----------------------------------------------------------------------------
(* Action properties *)

\* The monotone upsert of the checkpoint, one step at a time.
LEMMA CheckpointStep ==
  ASSUME TypeOK, [Next]_vars, checkpoint # None
  PROVE  /\ checkpoint' # None
         /\ checkpoint'.number >= checkpoint.number
         /\ checkpoint'.number = checkpoint.number => checkpoint' = checkpoint
<1>1. checkpoint \in Block /\ checkpoint.number \in Nat
  BY DEF TypeOK, Block
<1>2. CASE checkpoint' = checkpoint
  BY <1>1, <1>2
<1>3. ASSUME NEW w \in Worker, IngestCommit(w)
      PROVE  \E b \in Block : checkpoint' = advance(checkpoint, b)
  BY <1>3 DEF IngestCommit, TypeOK
<1>4. CASE \E b \in Block : checkpoint' = advance(checkpoint, b)
  BY <1>1, <1>4, NoneAssumption DEF advance, Block
<1>5. ASSUME \A w \in Worker : ~ IngestCommit(w) PROVE checkpoint' = checkpoint
  <2>1. ASSUME NEW w \in Worker, GroupsAnswer(w) PROVE checkpoint' = checkpoint
    BY <2>1 DEF GroupsAnswer, tables
  <2>2. CASE \A w \in Worker : ~ GroupsAnswer(w)
    BY <1>5, <2>2, LedgerStutters DEF Ledger!ledgerVars
  <2> QED BY <1>5, <2>1, <2>2
<1> QED BY <1>2, <1>3, <1>4, <1>5

\* The checkpoint never moves back, whichever worker writes last.
THEOREM CheckpointNeverBack == Spec => CheckpointMonotone
<1>1. TypeOK /\ [Next]_vars =>
        [ checkpoint # None => /\ checkpoint' # None
                               /\ checkpoint'.number >= checkpoint.number
                               /\ checkpoint'.number = checkpoint.number
                                    => checkpoint' = checkpoint ]_vars
  BY CheckpointStep
<1> QED BY <1>1, TypeCorrect, PTL DEF Spec, CheckpointMonotone
\* One step of any pass keeps what is stored: the rollback of ingestBatch leaves the
\* blocks alone and recordIntegrityIncident and recordDataQualityIncident only insert.
LEMMA AppendStep ==
  ASSUME [Next]_vars
  PROVE  blocks \subseteq blocks' /\ integrity \subseteq integrity' /\ incidents \subseteq incidents'
<1>1. ASSUME NEW w \in Worker, IngestCommit(w)
      PROVE  blocks \subseteq blocks' /\ UNCHANGED <<integrity, incidents>>
  BY <1>1 DEF IngestCommit
<1>2. ASSUME NEW w \in Worker, RecordIntegrityIncident(w)
      PROVE  integrity \subseteq integrity' /\ UNCHANGED <<blocks, incidents>>
  BY <1>2 DEF RecordIntegrityIncident, FileIncident
<1>3. ASSUME NEW w \in Worker, RecordIncident(w)
      PROVE  incidents \subseteq incidents' /\ UNCHANGED <<blocks, integrity>>
  BY <1>3 DEF RecordIncident
<1>4. ASSUME \A w \in Worker : ~ IngestCommit(w) /\ ~ RecordIntegrityIncident(w) /\ ~ RecordIncident(w)
      PROVE  UNCHANGED <<blocks, integrity, incidents>>
  <2>1. ASSUME NEW w \in Worker, GroupsAnswer(w) \/ FetchFails(w) \/ MarkBlocked(w) \/ MarkComplete(w)
                               \/ IngestConflict(w)
        PROVE  UNCHANGED <<blocks, integrity, incidents>>
    BY <2>1 DEF GroupsAnswer, FetchFails, MarkBlocked, MarkComplete, IngestConflict, RollBack, tables
  <2>2. ASSUME NEW w \in Worker, ReadHints(w) \/ Plan(w) \/ ReadPrior(w) \/ Shift(w) \/ Assess(w)
        PROVE  UNCHANGED <<blocks, integrity, incidents>>
    BY <2>2 DEF ReadHints, Plan, ReadPrior, Shift, Assess, tables
  <2>3. ASSUME NEW w \in Worker, UpsertCompleteness(w) \/ ConsumeHints(w) \/ Crash(w)
        PROVE  UNCHANGED <<blocks, integrity, incidents>>
    BY <2>3 DEF UpsertCompleteness, ConsumeHints, Crash, tables
  <2>4. ASSUME NEW h \in HintHeights, EnqueueHint(h) PROVE UNCHANGED <<blocks, integrity, incidents>>
    BY <2>4 DEF EnqueueHint
  <2>5. CASE Tick \/ UNCHANGED vars
    BY <2>5 DEF Tick, vars, tables
  <2> QED BY <1>4, <2>1, <2>2, <2>3, <2>4, <2>5 DEF Next, Step
<1> QED BY <1>1, <1>2, <1>3, <1>4

\* Stored evidence is never removed or overwritten, for any number of racing workers.
THEOREM EvidenceKept == Spec => LedgerAppendOnly
BY AppendStep, PTL DEF Spec, LedgerAppendOnly

---------------------------------------------------------------------------
\* Coverage.

\* Every non-empty set of naturals has a least member.
LEMMA LeastNatural ==
  ASSUME NEW S \in SUBSET Nat, S # {}
  PROVE  \E m \in S : \A n \in S : m <= n
<1> DEFINE R == OpToRel(<, Nat)
<1>1. IsWellFoundedOn(R, Nat)
  BY NatLessThanWellFounded
<1>2. PICK m \in S : \A n \in S : ~ (<<n, m>> \in R)
  BY <1>1, WFMin
<1>3. \A n \in S : ~ (n < m)
  BY <1>2 DEF OpToRel
<1> QED BY <1>3

\* findRangeGaps is sound: a window without gaps is covered height by height.
LEMMA NoGapsCovers ==
  ASSUME NEW covered \in SUBSET Bounded, NEW window \in BlockRange,
         NoGaps(covered, window), NEW h \in Nat, In(h, window)
  PROVE  \E r \in covered : In(h, r)
<1> SUFFICES ASSUME \A r \in covered : ~ In(h, r)
             PROVE  FALSE
  OBVIOUS
<1>1. ASSUME NEW x \in covered
      PROVE  /\ x.fromBlock \in Nat /\ x.toBlock \in Nat
             /\ x.fromBlock > h \/ x.toBlock < h
  <2>1. x.fromBlock \in Nat /\ x.toBlock \in Nat
    BY BoundedFields
  <2> QED BY <2>1 DEF In
<1>2. /\ window.fromBlock \in Nat /\ window.toBlock \in Nat
      /\ window.fromBlock <= h /\ h <= window.toBlock
  BY DEF In, BlockRange
<1> DEFINE above == { n \in Nat : n > h /\ \E y \in covered : y.fromBlock = n }
<1>3. CASE above = {}
  <2>1. ASSUME NEW x \in covered PROVE x.toBlock < window.toBlock
    <3>1. x.fromBlock \in Nat /\ x.toBlock \in Nat /\ (x.fromBlock > h \/ x.toBlock < h)
      BY <1>1
    <3>2. ~ (x.fromBlock > h)
      BY <1>3, <3>1
    <3> QED BY <1>2, <3>1, <3>2
  <2>2. EndsShort(covered, window)
    BY <1>2, <2>1 DEF EndsShort
  <2> QED BY <2>2 DEF NoGaps
<1>4. CASE above # {}
  <2>1. PICK m \in above : \A n \in above : m <= n
    BY <1>4, LeastNatural
  <2>2. PICK r \in covered : r.fromBlock = m /\ m \in Nat /\ m > h
    BY <2>1
  <2>3. r.fromBlock > window.fromBlock
    BY <1>2, <2>2
  <2>4. ASSUME NEW x \in covered, x.fromBlock < r.fromBlock
        PROVE  x.toBlock + 1 < r.fromBlock
    <3>1. x.fromBlock \in Nat /\ x.toBlock \in Nat /\ (x.fromBlock > h \/ x.toBlock < h)
      BY <1>1
    <3>2. ~ (x.fromBlock > h)
      <4>1. SUFFICES ASSUME x.fromBlock > h PROVE FALSE
        OBVIOUS
      <4>2. x.fromBlock \in above
        BY <3>1, <4>1
      <4>3. m <= x.fromBlock
        BY <2>1, <4>2
      <4> QED BY <2>2, <2>4, <3>1, <4>3
    <3> QED BY <2>2, <3>1, <3>2
  <2>5. OpensGap(r, covered, window)
    BY <2>3, <2>4 DEF OpensGap
  <2> QED BY <2>5 DEF NoGaps
<1> QED BY <1>3, <1>4

----------------------------------------------------------------------------
(* The green row *)

SoundRow(row) ==
  row.verdict = "OK" =>
    /\ \A h \in StartBlock..row.windowTo : Covered(h)
    /\ row.lastSuccessAt # None
    /\ row.evaluatedAt - row.lastSuccessAt <= FreshnessTtl

GreenInv ==
  /\ completeness # None => SoundRow(completeness)
  /\ \A w \in Worker : pc[w] = "upsert" => SoundRow(result[w])

\* No pass has assessed anything yet.
LEMMA GreenInit == Init => GreenInv
BY DEF Init, GreenInv

\* Ingested ranges are never forgotten.
LEMMA IngestedGrows == [Next]_vars => ingested \subseteq ingested'
<1> SUFFICES ASSUME [Next]_vars PROVE ingested \subseteq ingested'
  OBVIOUS
<1>1. ASSUME NEW w \in Worker, IngestCommit(w) PROVE ingested \subseteq ingested'
  BY <1>1 DEF IngestCommit
<1>2. ASSUME NEW w \in Worker, GroupsAnswer(w) PROVE ingested \subseteq ingested'
  BY <1>2 DEF GroupsAnswer
<1>3. CASE \A w \in Worker : ~ GroupsAnswer(w) /\ ~ IngestCommit(w)
  BY <1>3, LedgerStutters DEF Ledger!ledgerVars
<1> QED BY <1>1, <1>2, <1>3

\* A row that was justified stays justified: coverage only grows.
LEMMA SoundRowStable ==
  ASSUME NEW row, SoundRow(row), ingested \subseteq ingested'
  PROVE  row.verdict = "OK" =>
           /\ \A h \in StartBlock..row.windowTo : Covered(h)'
           /\ row.lastSuccessAt # None
           /\ row.evaluatedAt - row.lastSuccessAt <= FreshnessTtl
BY DEF SoundRow, Covered

\* assessCompleteness says OK only over an ingested window and a fresh success.
LEMMA AssessGreen ==
  ASSUME TypeOK, LedgerInv, NEW w \in Worker, Assess(w)
  PROVE  SoundRow(result[w])'
<1> DEFINE window == [fromBlock |-> StartBlock, toBlock |-> head[w]]
           status == assessStatus(window, Committed, lastSuccessAt[w], FreshnessTtl,
                                  reasons[w], now[w])
           row == [status |-> status, verdict |-> verdictOf(status), windowTo |-> head[w],
                   lastSuccessAt |-> lastSuccessAt[w], evaluatedAt |-> now[w]]
<1>1. result'[w] = row /\ ingested' = ingested
  BY DEF Assess, TypeOK, history
<1>2. SUFFICES ASSUME row.verdict = "OK"
               PROVE  /\ \A h \in StartBlock..row.windowTo : Covered(h)
                      /\ row.lastSuccessAt # None
                      /\ row.evaluatedAt - row.lastSuccessAt <= FreshnessTtl
  <2>1. \A h : Covered(h)' <=> Covered(h)
    BY <1>1 DEF Covered
  <2> HIDE DEF row
  <2> QED BY <1>1, <2>1 DEF SoundRow
<1>3. status = "complete"
  BY <1>2 DEF verdictOf
<1>4. /\ NoGaps(Committed, window) /\ lastSuccessAt[w] # None
      /\ ~ (now[w] - lastSuccessAt[w] > FreshnessTtl)
  BY <1>3 DEF assessStatus
<1>5. Committed \in SUBSET Bounded /\ Committed \subseteq ingested
  BY DEF TypeOK, Committed, LedgerInv
<1>6. StartBlock \in Nat /\ head[w] \in Nat
  BY ReplayAssumption DEF TypeOK
<1>7. \A h \in StartBlock..head[w] : \E r \in Committed : In(h, r)
  <2>1. window \in BlockRange
    BY <1>6 DEF BlockRange
  <2>2. \A h \in StartBlock..head[w] : h \in Nat /\ In(h, window)
    BY <1>6 DEF In
  <2> HIDE DEF window
  <2> QED BY <1>4, <1>5, <2>1, <2>2, NoGapsCovers
<1>8. \A h \in StartBlock..head[w] : Covered(h)
  BY <1>5, <1>7 DEF Covered
<1>9. now[w] \in Nat /\ lastSuccessAt[w] \in Nat /\ FreshnessTtl \in Nat
  BY <1>4, ReplayAssumption DEF TypeOK, Times
<1> QED BY <1>4, <1>8, <1>9

\* Every step keeps the stored row, and the rows about to be stored, justified.
LEMMA GreenNext == TypeOK /\ LedgerInv /\ GreenInv /\ [Next]_vars => GreenInv'
<1> SUFFICES ASSUME TypeOK, LedgerInv, GreenInv, [Next]_vars PROVE GreenInv'
  OBVIOUS
<1>1. ingested \subseteq ingested'
  BY IngestedGrows
<1>2. \A row : SoundRow(row) => SoundRow(row)'
  BY <1>1, SoundRowStable DEF SoundRow
<1> DEFINE Quiet == /\ completeness' = completeness
                    /\ \A v \in Worker : pc'[v] = "upsert" => pc[v] = "upsert" /\ result'[v] = result[v]
<1>3. Quiet => GreenInv'
  BY <1>2 DEF GreenInv
<1>4. ASSUME NEW w \in Worker, Assess(w) PROVE GreenInv'
  <2>1. completeness' = completeness
        /\ \A v \in Worker : v # w => pc'[v] = pc[v] /\ result'[v] = result[v]
    BY <1>4 DEF Assess, tables, TypeOK
  <2>2. SoundRow(result[w])'
    BY <1>4, AssessGreen
  <2> QED BY <1>2, <2>1, <2>2 DEF GreenInv
<1>5. ASSUME NEW w \in Worker, UpsertCompleteness(w) PROVE GreenInv'
  <2>1. completeness' = result[w] /\ pc[w] = "upsert"
        /\ \A v \in Worker : pc'[v] = "upsert" => pc[v] = "upsert" /\ result'[v] = result[v]
    BY <1>5 DEF UpsertCompleteness, TypeOK
  <2> QED BY <1>2, <2>1 DEF GreenInv
<1>6. ASSUME NEW h \in HintHeights, EnqueueHint(h) PROVE Quiet
  BY <1>6 DEF EnqueueHint, locals
<1>7. CASE Tick
  BY <1>3, <1>7 DEF Tick, tables, locals
<1>8. ASSUME NEW w \in Worker, ReadHints(w) PROVE Quiet
  BY <1>8 DEF ReadHints, tables, TypeOK
<1>9. ASSUME NEW w \in Worker, Plan(w) \/ ReadPrior(w) \/ Shift(w) PROVE Quiet
  BY <1>9 DEF Plan, ReadPrior, Shift, tables, TypeOK
<1>10. ASSUME NEW w \in Worker, FetchFails(w) PROVE Quiet
  <2>1. PICK f \in Reasons : Fail(w, f)
    BY <1>10, ReplayAssumption DEF FetchFails
  <2>2. completeness' = completeness /\ result' = result
    BY <1>10 DEF FetchFails, tables
  <2>3. \A v \in Worker : pc'[v] = "upsert" => pc[v] = "upsert"
    BY <2>1 DEF Fail, EndIteration, TypeOK
  <2> QED BY <2>2, <2>3
<1>11. ASSUME NEW w \in Worker, GroupsAnswer(w) PROVE Quiet
  <2>1. completeness' = completeness /\ result' = result
    BY <1>11 DEF GroupsAnswer, tables
  <2>2. pc' = [pc EXCEPT ![w] = "ingest"] \/ \E f \in Reasons : Fail(w, f)
    BY <1>11, AgreeReason DEF GroupsAnswer
  <2>3. \A v \in Worker : pc'[v] = "upsert" => pc[v] = "upsert"
    BY <2>2 DEF Fail, EndIteration, TypeOK
  <2> QED BY <2>1, <2>3
<1>12. ASSUME NEW w \in Worker, RecordIncident(w) \/ MarkBlocked(w) \/ MarkComplete(w) PROVE Quiet
  BY <1>12 DEF RecordIncident, MarkBlocked, MarkComplete, EndIteration, TypeOK
<1>13. ASSUME NEW w \in Worker, IngestCommit(w) \/ IngestConflict(w) \/ RecordIntegrityIncident(w)
       PROVE  Quiet
  BY <1>13 DEF IngestCommit, IngestConflict, RollBack, RecordIntegrityIncident, EndIteration, TypeOK
<1>14. ASSUME NEW w \in Worker, ConsumeHints(w) \/ Crash(w) PROVE Quiet
  BY <1>14 DEF ConsumeHints, Crash, Forget, tables, TypeOK
<1>15. CASE UNCHANGED vars
  BY <1>3, <1>15 DEF vars, tables, locals
<1> HIDE DEF Quiet
<1> QED
  BY <1>3, <1>4, <1>5, <1>6, <1>7, <1>8, <1>9, <1>10, <1>11, <1>12, <1>13, <1>14, <1>15 DEF Next, Step

\* A green completeness row never hides a hole, whatever raced, crashed, was split
\* or was reordered by hints: every height of its window lies in an ingested range
\* and its last success is inside the freshness TTL.
THEOREM GreenIsSound == Spec => []OKSound
<1>1. Init => TypeOK /\ LedgerInv /\ GreenInv
  BY InitType, LedgerInvInit, GreenInit
<1>2. TypeOK /\ LedgerInv /\ GreenInv /\ [Next]_vars => TypeOK' /\ LedgerInv' /\ GreenInv'
  BY NextType, LedgerInvNext, GreenNext
<1>3. GreenInv => OKSound
  BY DEF GreenInv, SoundRow, OKSound
<1> QED BY <1>1, <1>2, <1>3, PTL DEF Spec

---------------------------------------------------------------------------
(* Without hints the checkpoint skips nothing *)

\* planRanges partitions its window: every height falls into a chunk.
LEMMA PlanCovers ==
  ASSUME NEW start \in Nat, NEW last \in Nat, NEW width \in Nat \ {0},
         NEW h \in Nat, start <= h, h <= last
  PROVE  \E r \in planRanges(start, last, width) : In(h, r)
<1> DEFINE d == h - start
           k == d \div width
           from == start + k * width
           to == IF from + width - 1 > last THEN last ELSE from + width - 1
           r == [fromBlock |-> from, toBlock |-> to]
<1>1. d \in Nat /\ k \in Int /\ d % width \in 0..(width - 1)
  OBVIOUS
<1>2. d = width * k + (d % width)
  BY <1>1
<1>3. k >= 0 /\ k <= d
  BY <1>1, <1>2
<1>4. from \in Nat /\ from <= h /\ h <= from + width - 1
  BY <1>1, <1>2, <1>3
<1>5. k \in { i \in 0..(last - start) : start + i * width <= last }
  BY <1>1, <1>3, <1>4
<1>6. r \in planRanges(start, last, width)
  BY <1>5 DEF planRanges
<1>7. In(h, r)
  <2> HIDE DEF from
  <2> QED BY <1>4 DEF In
<1> QED BY <1>6, <1>7

----------------------------------------------------------------------------
\* Points of a pass at which it holds a range taken off its queue.
Holding == {"collect", "blocked", "mark", "ingest", "conflict"}

Pending(w) == { a.range : a \in todo[w] } \cup (IF pc[w] \in Holding THEN {cur[w].range} ELSE {})

\* Below a pending range everything is covered or pending too.
Contiguous(w) ==
  \A r \in Pending(w) : \A h \in Nat :
    (StartBlock <= h /\ h < r.fromBlock) =>
      Covered(h) \/ \E x \in Pending(w) : In(h, x)

\* The range taken off the queue was the lowest, and no hint promotes another.
Lowest(w) ==
  /\ \A a \in todo[w] : a.tier = 1
  /\ pc[w] \in Holding =>
       cur[w].tier = 1 /\ \A a \in todo[w] : cur[w].range.fromBlock <= a.range.fromBlock

HoleInv == NoHole /\ \A w \in Worker : Contiguous(w) /\ Lowest(w)

\* No checkpoint, no work: nothing can have been skipped.
LEMMA HoleInit == Init => HoleInv
BY DEF Init, HoleInv, NoHole, Contiguous, Lowest, Pending, Holding

\* A pass that a step leaves alone keeps its part.
LEMMA KeepOther ==
  ASSUME NEW v \in Worker, Contiguous(v), Lowest(v), ingested \subseteq ingested',
         todo'[v] = todo[v],
         pc'[v] = pc[v] \/ (pc'[v] \notin Holding /\ pc[v] \notin Holding)
           \/ (pc'[v] \in Holding /\ pc[v] \in Holding),
         cur'[v] = cur[v]
  PROVE  Contiguous(v)' /\ Lowest(v)'
<1>1. Pending(v)' = Pending(v)
  BY DEF Pending
<1>2. \A h : Covered(h) => Covered(h)'
  BY DEF Covered
<1> QED BY <1>1, <1>2 DEF Contiguous, Lowest

\* A pass that has nothing left to do keeps its part trivially.
LEMMA KeepEmpty ==
  ASSUME NEW v \in Worker, todo'[v] = {}, pc'[v] \notin Holding
  PROVE  Contiguous(v)' /\ Lowest(v)'
BY DEF Contiguous, Lowest, Pending

\* The ranges of a set of work entries built from a set of ranges.
LEMMA WorkRanges ==
  ASSUME NEW P
  PROVE  { a.range : a \in { [range |-> x, tier |-> 1] : x \in P } } = P
<1> DEFINE W == { [range |-> x, tier |-> 1] : x \in P }
<1>1. ASSUME NEW x \in P PROVE x \in { a.range : a \in W }
  <2>1. [range |-> x, tier |-> 1] \in W /\ [range |-> x, tier |-> 1].range = x
    OBVIOUS
  <2> HIDE DEF W
  <2> QED BY <2>1
<1>2. ASSUME NEW a \in W PROVE a.range \in P
  OBVIOUS
<1> QED BY <1>1, <1>2

\* A fresh plan covers everything between the checkpoint and the agreed head.
LEMMA PlanHole ==
  ASSUME HintHeights = {}, TypeOK, HoleInv, NEW w \in Worker, Plan(w)
  PROVE  Contiguous(w)' /\ Lowest(w)'
<1>1. PICK h \in 0..MaxHead :
        todo' = [todo EXCEPT ![w] = prioritise(planRanges(resumeFrom, h, Width), taken[w])]
  BY DEF Plan
<1>2. /\ pc'[w] \notin Holding /\ checkpoint' = checkpoint /\ ingested' = ingested
      /\ taken[w] = {}
  <2>1. pc' = [pc EXCEPT ![w] = "prior"] /\ checkpoint' = checkpoint /\ ingested' = ingested
    BY DEF Plan, tables, history
  <2>2. pc'[w] = "prior" /\ taken[w] \subseteq HintHeights
    BY <2>1 DEF TypeOK
  <2> QED BY <2>1, <2>2 DEF Holding
<1>3. resumeFrom \in Nat /\ StartBlock \in Nat /\ Width \in Nat \ {0} /\ h \in Nat
  BY ReplayAssumption DEF TypeOK, resumeFrom, Block
<1> DEFINE planned == planRanges(resumeFrom, h, Width)
<1>4. todo'[w] = { [range |-> r, tier |-> 1] : r \in planned }
  BY <1>1, <1>2 DEF TypeOK, prioritise, tier
<1>5. Pending(w)' = planned
  <2> HIDE DEF planned
  <2>1. { a.range : a \in todo'[w] } = planned
    BY <1>4, WorkRanges
  <2> QED BY <1>2, <2>1 DEF Pending
<1>6. \A r \in planned : r \in Bounded /\ resumeFrom <= r.fromBlock /\ r.toBlock <= h
  BY <1>3, PlanBounded
<1>7. ASSUME NEW r \in planned, NEW n \in Nat, StartBlock <= n, n < r.fromBlock
      PROVE  Covered(n) \/ \E x \in planned : In(n, x)
  <2>1. CASE n < resumeFrom
    <3>1. checkpoint # None /\ checkpoint.number \in Nat /\ n <= checkpoint.number
      BY <1>7, <2>1, ReplayAssumption DEF resumeFrom, TypeOK, Block
    <3> QED BY <1>7, <3>1, <1>3 DEF HoleInv, NoHole
  <2>2. CASE resumeFrom <= n
    <3>1. n <= h
      BY <1>3, <1>6, <1>7, BoundedFields
    <3> QED BY <1>3, <2>2, <3>1, PlanCovers
  <2> QED BY <1>3, <2>1, <2>2
<1>8. Contiguous(w)'
  <2>1. \A n : Covered(n)' <=> Covered(n)
    BY <1>2 DEF Covered
  <2> QED BY <1>5, <1>7, <2>1 DEF Contiguous
<1>9. Lowest(w)'
  BY <1>2, <1>4 DEF Lowest
<1> QED BY <1>8, <1>9

\* Taking the lowest range leaves only higher ones in the queue.
LEMMA ShiftHole ==
  ASSUME TypeOK, HoleInv, NEW w \in Worker, Shift(w)
  PROVE  Contiguous(w)' /\ Lowest(w)'
<1>1. PICK a \in Firsts(todo[w]) : /\ cur' = [cur EXCEPT ![w] = a]
                                  /\ todo' = [todo EXCEPT ![w] = @ \ {a}]
  BY DEF Shift
<1>2. pc[w] \notin Holding /\ pc'[w] \in Holding /\ ingested' = ingested
  BY DEF Shift, Holding, history, TypeOK
<1>3. a \in todo[w] /\ a.tier = 1 /\ cur'[w] = a /\ todo'[w] = todo[w] \ {a}
  BY <1>1 DEF Firsts, HoleInv, Lowest, TypeOK
<1>4. \A b \in todo[w] : a.range.fromBlock <= b.range.fromBlock
  BY <1>1, <1>3 DEF Firsts, Precedes, HoleInv, Lowest
<1>5. Pending(w)' = Pending(w)
  BY <1>2, <1>3 DEF Pending
<1>6. \A n : Covered(n)' <=> Covered(n)
  BY <1>2 DEF Covered
<1>7. Contiguous(w)'
  BY <1>5, <1>6 DEF HoleInv, Contiguous
<1>8. Lowest(w)'
  BY <1>3, <1>4 DEF HoleInv, Lowest
<1> QED BY <1>7, <1>8

\* A retry, a split and a give-up lose no height below the rest of the queue.
LEMMA FailHole ==
  ASSUME TypeOK, HoleInv, NEW w \in Worker, pc[w] = "collect", ingested' = ingested,
         NEW f \in Reasons, Fail(w, f)
  PROVE  Contiguous(w)' /\ Lowest(w)'
<1> DEFINE step == nextStep(cur[w].range, attempts[w], RetryBudget, f)
           r == cur[w].range
<1>1. r \in Bounded /\ attempts[w] \in Nat /\ pc[w] \in Holding /\ cur[w].tier = 1
  BY DEF TypeOK, Holding, HoleInv, Lowest
<1>2. step.kind = "split" => step.ranges = splitRange(r) /\ step.ranges # {}
  BY <1>1, NextStepKinds
<1>3. CASE /\ step.kind = "split"
           /\ todo' = [todo EXCEPT ![w] = @ \cup
                   { [range |-> x, tier |-> cur[w].tier] : x \in step.ranges }]
           /\ EndIteration(w)
  <2>1. pc'[w] = "loop" /\ pc'[w] \notin Holding
    BY <1>3 DEF EndIteration, TypeOK, Holding
  <2>2. todo'[w] = todo[w] \cup { [range |-> x, tier |-> 1] : x \in splitRange(r) }
    <3>1. todo'[w] = todo[w] \cup { [range |-> x, tier |-> cur[w].tier] : x \in step.ranges }
      BY <1>3 DEF TypeOK
    <3>2. step.ranges = splitRange(r)
      BY <1>2, <1>3
    <3> HIDE DEF step, r
    <3> QED BY <1>1, <3>1, <3>2
  <2>3. Pending(w)' = { a.range : a \in todo[w] } \cup splitRange(r)
    <3> DEFINE H == { [range |-> x, tier |-> 1] : x \in splitRange(r) }
    <3>1. { a.range : a \in H } = splitRange(r)
      BY WorkRanges
    <3>2. todo'[w] = todo[w] \cup H
      BY <2>2
    <3> HIDE DEF H
    <3>3. { a.range : a \in todo'[w] } = { a.range : a \in todo[w] } \cup splitRange(r)
      BY <3>1, <3>2
    <3> QED BY <2>1, <3>3 DEF Pending
  <2>4. Pending(w) = { a.range : a \in todo[w] } \cup {r}
    BY <1>1 DEF Pending
  <2>5. \A x \in splitRange(r) : r.fromBlock <= x.fromBlock /\ x.toBlock <= r.toBlock /\ x \in Bounded
    BY <1>1, SplitBounded
  <2>6. \A n \in Nat : In(n, r) => \E x \in splitRange(r) : In(n, x)
    BY <1>1, <1>2, <1>3, SplitCovers
  <2>7. \A n \in Nat : (\E x \in Pending(w) : In(n, x)) => \E x \in Pending(w)' : In(n, x)
    BY <2>3, <2>4, <2>6
  <2>8. ASSUME NEW x \in Pending(w)', NEW n \in Nat, StartBlock <= n, n < x.fromBlock
        PROVE  Covered(n) \/ \E y \in Pending(w)' : In(n, y)
    <3>1. CASE x \in Pending(w)
      BY <2>7, <2>8, <3>1 DEF HoleInv, Contiguous
    <3>2. CASE x \in splitRange(r) /\ n < r.fromBlock
      BY <2>4, <2>7, <2>8, <3>2 DEF HoleInv, Contiguous
    <3>3. CASE x \in splitRange(r) /\ ~ (n < r.fromBlock)
      <4>1. In(n, r)
        BY <1>1, <2>5, <2>8, <3>3, BoundedFields DEF In
      <4> QED BY <2>4, <2>7, <4>1
    <3> QED BY <2>3, <2>4, <2>8, <3>1, <3>2, <3>3
  <2>9. \A n : Covered(n)' <=> Covered(n)
    BY DEF Covered
  <2>10. Contiguous(w)'
    BY <2>8, <2>9 DEF Contiguous
  <2>11. Lowest(w)'
    BY <2>1, <2>2 DEF HoleInv, Lowest
  <2> QED BY <2>10, <2>11
<1>4. CASE cur' = cur /\ todo' = todo /\ pc'[w] \in Holding
  BY <1>1, <1>4, KeepOther DEF HoleInv
<1>5. \/ /\ step.kind = "split"
         /\ todo' = [todo EXCEPT ![w] = @ \cup
                   { [range |-> x, tier |-> cur[w].tier] : x \in step.ranges }]
         /\ EndIteration(w)
      \/ cur' = cur /\ todo' = todo /\ pc'[w] \in Holding
  BY <1>1 DEF Fail, TypeOK, Holding
<1> QED BY <1>3, <1>4, <1>5

\* Ingesting the current range moves the checkpoint over covered heights only.
LEMMA IngestHole ==
  ASSUME TypeOK, HoleInv, NEW w \in Worker, IngestCommit(w)
  PROVE  NoHole' /\ Contiguous(w)' /\ Lowest(w)'
<1> DEFINE r == cur[w].range
<1>1. /\ pc[w] \in Holding /\ pc'[w] \notin Holding
      /\ ingested' = ingested \cup {r} /\ todo' = todo
  BY DEF IngestCommit, Holding, TypeOK
<1>2. PICK b \in Block : b.number = r.toBlock /\ checkpoint' = advance(checkpoint, b)
  BY DEF IngestCommit, TypeOK
<1>3. r \in Bounded /\ r.fromBlock \in Nat /\ r.toBlock \in Nat
  BY BoundedFields DEF TypeOK
<1>4. \A h : Covered(h)' <=> (Covered(h) \/ In(h, r))
  BY <1>1 DEF Covered
<1>5. Pending(w) = Pending(w)' \cup {r}
  BY <1>1 DEF Pending
<1>6. ASSUME NEW h \in Nat, StartBlock <= h, h < r.fromBlock
      PROVE  Covered(h)
  <2>1. Covered(h) \/ \E x \in Pending(w) : In(h, x)
    BY <1>5, <1>6 DEF HoleInv, Contiguous
  <2>2. ASSUME NEW x \in Pending(w), In(h, x) PROVE FALSE
    <3>1. r.fromBlock <= x.fromBlock /\ x.fromBlock \in Nat
      BY <1>1, <1>3, BoundedFields DEF Pending, HoleInv, Lowest, TypeOK
    <3> QED BY <1>3, <1>6, <2>2, <3>1 DEF In
  <2> QED BY <2>1, <2>2
<1>7. NoHole'
  <2>1. CASE checkpoint' = checkpoint
    BY <1>4, <2>1 DEF HoleInv, NoHole
  <2>2. CASE checkpoint' = b
    <3>1. ASSUME NEW h \in StartBlock..b.number PROVE Covered(h)'
      <4>1. h \in Nat /\ StartBlock <= h /\ h <= r.toBlock
        BY <1>2, <1>3, <3>1, ReplayAssumption
      <4>2. CASE h < r.fromBlock
        BY <1>4, <1>6, <4>1, <4>2
      <4>3. CASE ~ (h < r.fromBlock)
        BY <1>3, <1>4, <4>1, <4>3 DEF In
      <4> QED BY <4>2, <4>3
    <3> QED BY <2>2, <3>1 DEF NoHole
  <2> QED BY <1>2, <2>1, <2>2 DEF advance
<1>8. Contiguous(w)'
  BY <1>4, <1>5 DEF HoleInv, Contiguous
<1>9. Lowest(w)'
  BY <1>1 DEF HoleInv, Lowest
<1> QED BY <1>7, <1>8, <1>9

\* Every step of every pass keeps the strengthening when no hint reorders the queue.
LEMMA HoleNext ==
  ASSUME HintHeights = {}
  PROVE  TypeOK /\ HoleInv /\ [Next]_vars => HoleInv'
<1> SUFFICES ASSUME TypeOK, HoleInv, [Next]_vars PROVE HoleInv'
  OBVIOUS
<1>0. ingested \subseteq ingested'
  BY IngestedGrows
\* Every other pass is left alone by a step of w.
<1> DEFINE Others(w) == \A v \in Worker \ {w} :
                          pc'[v] = pc[v] /\ todo'[v] = todo[v] /\ cur'[v] = cur[v]
           Mine(w) == Contiguous(w)' /\ Lowest(w)'
<1>1. ASSUME NEW w \in Worker, Others(w), Mine(w) PROVE \A v \in Worker : Contiguous(v)' /\ Lowest(v)'
  BY <1>0, <1>1, KeepOther DEF HoleInv
<1>2. checkpoint' = checkpoint => NoHole'
  BY <1>0 DEF HoleInv, NoHole, Covered
<1>3. ASSUME NEW w \in Worker, checkpoint' = checkpoint, Others(w), Mine(w) PROVE HoleInv'
  BY <1>1, <1>2, <1>3 DEF HoleInv
\* The pass keeps its queue and what it holds, or has nothing left to do.
<1>4. ASSUME NEW w \in Worker, todo'[w] = todo[w], cur'[w] = cur[w],
             (pc'[w] \in Holding) = (pc[w] \in Holding)
      PROVE  Mine(w)
  BY <1>0, <1>4, KeepOther DEF HoleInv
<1>5. ASSUME NEW w \in Worker, todo'[w] = {}, pc'[w] \notin Holding
      PROVE  Mine(w)
  BY <1>5, KeepEmpty
<1>6. ASSUME NEW w \in Worker, todo'[w] = todo[w], pc'[w] \notin Holding, pc[w] \notin Holding
      PROVE  Mine(w)
  <2>1. Pending(w)' = Pending(w)
    BY <1>6 DEF Pending
  <2> QED BY <1>0, <1>6, <2>1 DEF HoleInv, Contiguous, Lowest, Covered
<1>7. CASE UNCHANGED vars
  BY <1>7 DEF vars, tables, locals, history, HoleInv, NoHole, Contiguous, Lowest, Pending, Covered
<1>8. ASSUME NEW h \in HintHeights PROVE FALSE
  BY <1>8
<1>9. CASE Tick
  BY <1>9 DEF Tick, tables, locals, history, HoleInv, NoHole, Contiguous, Lowest, Pending, Covered
<1> HIDE DEF Mine
<1>10. ASSUME NEW w \in Worker, ReadHints(w) \/ ReadPrior(w) \/ Assess(w) \/ UpsertCompleteness(w)
       PROVE  HoleInv'
  <2>1. /\ checkpoint' = checkpoint /\ todo' = todo /\ cur' = cur /\ Others(w)
        /\ pc'[w] \notin Holding /\ pc[w] \notin Holding
    BY <1>10 DEF ReadHints, ReadPrior, Assess, UpsertCompleteness, tables, Holding, TypeOK
  <2> QED BY <1>3, <1>6, <2>1
<1>11. ASSUME NEW w \in Worker, Plan(w) PROVE HoleInv'
  <2>1. checkpoint' = checkpoint /\ Others(w)
    BY <1>11 DEF Plan, tables, TypeOK
  <2> QED BY <1>3, <1>11, <2>1, PlanHole DEF Mine
<1>12. ASSUME NEW w \in Worker, Shift(w) PROVE HoleInv'
  <2>1. checkpoint' = checkpoint /\ Others(w)
    BY <1>12 DEF Shift, tables, TypeOK
  <2> QED BY <1>3, <1>12, <2>1, ShiftHole DEF Mine
<1>13. ASSUME NEW w \in Worker, NEW f \in Reasons, pc[w] = "collect", Fail(w, f),
              checkpoint' = checkpoint, ingested' = ingested
       PROVE  HoleInv'
  <2>1. Others(w)
    BY <1>13 DEF Fail, EndIteration, TypeOK
  <2>2. Mine(w)
    BY <1>13, FailHole DEF Mine
  <2> QED BY <1>3, <1>13, <2>1, <2>2
<1>14. ASSUME NEW w \in Worker, FetchFails(w) PROVE HoleInv'
  <2>1. PICK f \in Reasons : Fail(w, f)
    BY <1>14, ReplayAssumption DEF FetchFails
  <2>2. pc[w] = "collect" /\ checkpoint' = checkpoint /\ ingested' = ingested
    BY <1>14 DEF FetchFails, tables, history
  <2> QED BY <1>13, <2>1, <2>2
<1>15. ASSUME NEW w \in Worker, GroupsAnswer(w) PROVE HoleInv'
  <2>1. pc[w] = "collect" /\ checkpoint' = checkpoint /\ ingested' = ingested
    BY <1>15 DEF GroupsAnswer, tables
  <2>2. \/ pc' = [pc EXCEPT ![w] = "ingest"] /\ todo' = todo /\ cur' = cur
        \/ \E f \in Reasons : Fail(w, f)
    BY <1>15, AgreeReason DEF GroupsAnswer
  <2>3. CASE pc' = [pc EXCEPT ![w] = "ingest"] /\ todo' = todo /\ cur' = cur
    <3>1. pc'[w] \in Holding /\ pc[w] \in Holding /\ Others(w)
      BY <2>1, <2>3 DEF TypeOK, Holding
    <3> QED BY <1>3, <1>4, <2>1, <2>3, <3>1
  <2> QED BY <1>13, <2>1, <2>2, <2>3
<1>16. ASSUME NEW w \in Worker, RecordIncident(w) \/ IngestConflict(w) PROVE HoleInv'
  <2>1. /\ checkpoint' = checkpoint /\ todo' = todo /\ cur' = cur /\ Others(w)
        /\ pc'[w] \in Holding /\ pc[w] \in Holding
    BY <1>16 DEF RecordIncident, IngestConflict, RollBack, Holding, TypeOK
  <2> QED BY <1>3, <1>4, <2>1
<1>17. ASSUME NEW w \in Worker, MarkBlocked(w) \/ RecordIntegrityIncident(w) \/ ConsumeHints(w) \/ Crash(w)
       PROVE  HoleInv'
  <2>1. checkpoint' = checkpoint
    BY <1>17 DEF MarkBlocked, RecordIntegrityIncident, ConsumeHints, Crash, tables
  <2>2. todo'[w] = {} /\ pc'[w] \notin Holding /\ Others(w)
    BY <1>17 DEF MarkBlocked, RecordIntegrityIncident, ConsumeHints, Crash, Forget, EndIteration, Holding,
                 TypeOK
  <2> QED BY <1>3, <1>5, <2>1, <2>2
<1>18. ASSUME NEW w \in Worker, IngestCommit(w) PROVE HoleInv'
  <2>1. Others(w)
    BY <1>18 DEF IngestCommit, TypeOK
  <2>2. NoHole' /\ Mine(w)
    BY <1>18, IngestHole DEF Mine
  <2> QED BY <1>1, <2>1, <2>2 DEF HoleInv
<1>19. ASSUME NEW w \in Worker, MarkComplete(w) PROVE HoleInv'
  <2>1. /\ checkpoint' = checkpoint /\ todo' = todo /\ Others(w)
        /\ pc'[w] \notin Holding /\ pc[w] \notin Holding
    BY <1>19 DEF MarkComplete, EndIteration, Holding, TypeOK
  <2> QED BY <1>3, <1>6, <2>1
<1> QED
  BY <1>7, <1>8, <1>9, <1>10, <1>11, <1>12, <1>14, <1>15, <1>16, <1>17, <1>18, <1>19 DEF Next, Step

\* While no hint reorders the queue, the checkpoint never skips a height, whatever
\* the number of workers, the crashes, the failures and the splits.
THEOREM CheckpointSkipsNothing ==
  ASSUME HintHeights = {}
  PROVE  Spec => []NoHoleUnhinted
<1>1. Init => TypeOK /\ HoleInv
  BY InitType, HoleInit
<1>2. TypeOK /\ HoleInv /\ [Next]_vars => TypeOK' /\ HoleInv'
  BY NextType, HoleNext
<1>3. HoleInv => NoHoleUnhinted
  BY DEF HoleInv, NoHoleUnhinted
<1> QED BY <1>1, <1>2, <1>3, PTL DEF Spec

---------------------------------------------------------------------------
(* The range arithmetic *)

\* Every finite set of naturals has a greatest member.
LEMMA GreatestNatural ==
  ASSUME NEW S \in SUBSET Nat, IsFiniteSet(S), S # {}
  PROVE  \E m \in S : \A n \in S : n <= m
<1> DEFINE size == Cardinality(S)
<1>1. size \in Nat /\ \E f : f \in Surjection(1..size, S)
  <2>1. Cardinality(S) \in Nat /\ ExistsBijection(1..Cardinality(S), S)
    BY FS_CardinalityType
  <2> QED BY <2>1 DEF ExistsBijection, Bijection
<1> HIDE DEF size
<1>0. PICK f : f \in Surjection(1..size, S)
  BY <1>1
<1>2. (\A i \in 1..size : f[i] \in S /\ f[i] \in Nat) /\ \A n \in S : \E i \in 1..size : f[i] = n
  BY <1>0 DEF Surjection
<1> DEFINE Tops(k) == \E m \in 1..k : \A i \in 1..k : f[i] <= f[m]
           Bad == {k \in Nat : 1 <= k /\ k <= size /\ ~Tops(k)}
<1>3. Bad = {}
  <2> SUFFICES ASSUME Bad # {} PROVE FALSE
    OBVIOUS
  <2>0. Bad \in SUBSET Nat
    OBVIOUS
  <2>1. PICK k \in Bad : \A l \in Bad : k <= l
    BY <2>0, LeastNatural
  <2> HIDE DEF Tops
  <2>2. k \in Nat /\ 1 <= k /\ k <= size /\ ~Tops(k)
    BY <2>1
  <2>3. f[k] \in Nat
    <3>1. k \in 1..size
      BY <1>1, <2>2
    <3> QED BY <1>2, <3>1
  <2>4. CASE k = 1
    <3>1. \A i \in 1..1 : f[i] <= f[1]
      BY <2>3, <2>4
    <3> QED BY <2>2, <2>4, <3>1 DEF Tops
  <2>5. CASE k # 1
    <3>1. k - 1 \in Nat /\ 1 <= k - 1 /\ k - 1 <= size /\ ~ (k <= k - 1)
      BY <1>1, <2>2, <2>5
    <3>2. k - 1 \notin Bad
      BY <2>1, <3>1
    <3>3. PICK m \in 1..(k - 1) : \A i \in 1..(k - 1) : f[i] <= f[m]
      BY <3>1, <3>2 DEF Tops
    <3>4. m \in 1..k /\ k \in 1..k /\ m \in 1..size
      BY <1>1, <2>2, <3>3
    <3>5. f[m] \in Nat
      BY <1>2, <3>4
    <3>6. \A i \in 1..k : f[i] \in Nat /\ (i = k \/ f[i] <= f[m])
      <4> SUFFICES ASSUME NEW i \in 1..k PROVE f[i] \in Nat /\ (i = k \/ f[i] <= f[m])
        OBVIOUS
      <4>1. i \in 1..size /\ (i = k \/ i \in 1..(k - 1))
        BY <1>1, <2>2
      <4> QED BY <1>2, <3>3, <4>1
    <3>7. CASE f[k] <= f[m]
      <4>1. \A i \in 1..k : f[i] <= f[m]
        BY <3>6, <3>7
      <4> QED BY <2>2, <3>4, <4>1 DEF Tops
    <3>8. CASE f[m] <= f[k]
      <4>1. \A i \in 1..k : f[i] <= f[k]
        BY <2>3, <3>5, <3>6, <3>8
      <4> QED BY <2>2, <3>4, <4>1 DEF Tops
    <3> QED BY <2>3, <3>5, <3>7, <3>8
  <2> QED BY <2>4, <2>5
<1>4. 1 <= size /\ size <= size
  <2>1. PICK n \in S : TRUE
    OBVIOUS
  <2>2. PICK i \in 1..size : f[i] = n
    BY <1>2
  <2> QED BY <1>1, <2>2
<1>5. Tops(size)
  BY <1>1, <1>3, <1>4
<1>6. PICK m \in 1..size : \A i \in 1..size : f[i] <= f[m]
  BY <1>5
<1> QED BY <1>2, <1>6

\* A set of ranges, as a ledger may hold.
Ranges(s) == s \subseteq Bounded /\ IsFiniteSet(s)

\* The cursor stands one past the last range swept, and not before the window.
LEMMA CursorIs ==
  ASSUME NEW s, Ranges(s), NEW window \in BlockRange
  PROVE  /\ Cursor(s, window) \in Nat /\ Cursor(s, window) >= window.fromBlock
         /\ \A x \in s : Cursor(s, window) >= x.toBlock + 1
         /\ Cursor(s, window) = window.fromBlock \/ \E x \in s : Cursor(s, window) = x.toBlock + 1
<1> DEFINE ends == [x \in s |-> x.toBlock + 1]
           past == { x.toBlock + 1 : x \in s }
           all == {window.fromBlock} \cup past
<1>1. \A x \in s : x.toBlock \in Nat
  BY BoundedFields DEF Ranges
<1>2. window.fromBlock \in Nat
  BY DEF BlockRange
<1>3. IsFiniteSet(past)
  <2>1. ends \in Surjection(s, past)
    BY DEF Surjection
  <2> QED BY <2>1, FS_Surjection DEF Ranges
<1>4. IsFiniteSet(all) /\ all \in SUBSET Nat /\ all # {}
  <2>1. IsFiniteSet({window.fromBlock})
    BY FS_Singleton
  <2> HIDE DEF past
  <2>2. IsFiniteSet(all)
    BY <1>3, <2>1, FS_Union
  <2> QED BY <1>1, <1>2, <2>2 DEF past
<1>5. Cursor(s, window) = CHOOSE c \in all : \A d \in all : d <= c
  BY DEF Cursor
<1> HIDE DEF all
<1>6. \E c \in all : \A d \in all : d <= c
  BY <1>4, GreatestNatural
<1>7. Cursor(s, window) \in all /\ \A d \in all : d <= Cursor(s, window)
  BY <1>5, <1>6
<1>8. window.fromBlock \in all /\ \A x \in s : x.toBlock + 1 \in all
  BY DEF all
<1>9. \A d \in all : d \in Nat
  BY <1>4
<1>10. \A x \in s : Cursor(s, window) >= x.toBlock + 1
  BY <1>7, <1>8, <1>9
<1>11. Cursor(s, window) = window.fromBlock \/ \E x \in s : Cursor(s, window) = x.toBlock + 1
  BY <1>7 DEF all
<1> QED BY <1>2, <1>7, <1>8, <1>9, <1>10, <1>11

\* The ranges that sort before one.
Below(covered, r) == { x \in covered : x.fromBlock < r.fromBlock }

GapBefore(covered, window, r) ==
  [fromBlock |-> Cursor(Below(covered, r), window), toBlock |-> r.fromBlock - 1]
LastGap(covered, window) == [fromBlock |-> Cursor(covered, window), toBlock |-> window.toBlock]

LEMMA GapsAre ==
  ASSUME NEW covered, NEW window, NEW g
  PROVE  g \in findRangeGaps(covered, window) <=>
           \/ \E r \in covered : OpensGap(r, covered, window) /\ g = GapBefore(covered, window, r)
           \/ EndsShort(covered, window) /\ g = LastGap(covered, window)
BY DEF findRangeGaps, GapBefore, LastGap, Below

\* An opened gap holds a height, ends right before the range that opens it and begins
\* after everything that sorts before.
LEMMA GapBeforeIs ==
  ASSUME NEW covered, Ranges(covered), NEW window \in BlockRange, NEW r \in covered
  PROVE  LET g == GapBefore(covered, window, r)
         IN  /\ r.fromBlock \in Nat
             /\ g.fromBlock = Cursor(Below(covered, r), window) /\ g.toBlock = r.fromBlock - 1
             /\ g.fromBlock \in Nat /\ g.fromBlock >= window.fromBlock
             /\ \A x \in covered : x.fromBlock < r.fromBlock => g.fromBlock >= x.toBlock + 1
             /\ g.fromBlock = window.fromBlock \/ \E x \in covered : g.fromBlock = x.toBlock + 1
             /\ OpensGap(r, covered, window) <=> g.fromBlock < r.fromBlock
<1> DEFINE g == GapBefore(covered, window, r)
           below == Below(covered, r)
           c == Cursor(below, window)
<1>1. Ranges(below) /\ below \subseteq covered
  BY FS_Subset DEF Ranges, Below
<1>2. /\ c \in Nat /\ c >= window.fromBlock
      /\ \A x \in below : c >= x.toBlock + 1
      /\ c = window.fromBlock \/ \E x \in below : c = x.toBlock + 1
  BY <1>1, CursorIs
<1>3. g.fromBlock = c /\ g.toBlock = r.fromBlock - 1
  BY DEF GapBefore
<1>4. /\ window.fromBlock \in Nat
      /\ \A x \in covered : x.fromBlock \in Nat /\ x.toBlock \in Nat
  BY BoundedFields DEF Ranges, BlockRange
<1>5. \A x : x \in below <=> x \in covered /\ x.fromBlock < r.fromBlock
  BY DEF Below
<1> HIDE DEF c, g, below
<1>6. OpensGap(r, covered, window) <=> c < r.fromBlock
  <2>1. ASSUME OpensGap(r, covered, window) PROVE c < r.fromBlock
    BY <1>2, <1>4, <1>5, <2>1 DEF OpensGap
  <2>2. ASSUME c < r.fromBlock PROVE OpensGap(r, covered, window)
    BY <1>2, <1>4, <1>5, <2>2 DEF OpensGap
  <2> QED BY <2>1, <2>2
<1>7. \A x \in covered : x.fromBlock < r.fromBlock => c >= x.toBlock + 1
  BY <1>2, <1>5
<1>8. c = window.fromBlock \/ \E x \in covered : c = x.toBlock + 1
  BY <1>1, <1>2
<1> QED BY <1>2, <1>3, <1>4, <1>6, <1>7, <1>8 DEF g, c, below

LEMMA LastGapIs ==
  ASSUME NEW covered, Ranges(covered), NEW window \in BlockRange
  PROVE  LET g == LastGap(covered, window)
         IN  /\ g.toBlock = window.toBlock /\ window.toBlock \in Nat /\ window.fromBlock \in Nat
             /\ g.fromBlock \in Nat /\ g.fromBlock >= window.fromBlock
             /\ \A x \in covered : g.fromBlock >= x.toBlock + 1
             /\ g.fromBlock = window.fromBlock \/ \E x \in covered : g.fromBlock = x.toBlock + 1
             /\ EndsShort(covered, window) => g.fromBlock <= window.toBlock
<1> DEFINE g == LastGap(covered, window)
           c == Cursor(covered, window)
<1>1. /\ c \in Nat /\ c >= window.fromBlock
      /\ \A x \in covered : c >= x.toBlock + 1
      /\ c = window.fromBlock \/ \E x \in covered : c = x.toBlock + 1
  BY CursorIs
<1>2. g.fromBlock = c /\ g.toBlock = window.toBlock
  BY DEF LastGap
<1>3. window.toBlock \in Nat /\ window.fromBlock \in Nat /\ \A x \in covered : x.toBlock \in Nat
  BY BoundedFields DEF Ranges, BlockRange
<1> HIDE DEF c, g
<1>4. EndsShort(covered, window) => c <= window.toBlock
  BY <1>1, <1>3 DEF EndsShort
<1> QED BY <1>1, <1>2, <1>3, <1>4 DEF g

\* The heights of the gaps are the heights that nothing covers.
LEMMA GapsTell ==
  ASSUME NEW covered, Ranges(covered), NEW window \in BlockRange, NEW h \in Nat, In(h, window)
  PROVE  (\E g \in findRangeGaps(covered, window) : In(h, g)) <=> ~ \E x \in covered : In(h, x)
<1>1. /\ window.fromBlock \in Nat /\ window.toBlock \in Nat
      /\ window.fromBlock <= h /\ h <= window.toBlock
      /\ \A x \in covered : x.fromBlock \in Nat /\ x.toBlock \in Nat
  BY BoundedFields DEF Ranges, BlockRange, In
<1>2. ASSUME NEW g \in findRangeGaps(covered, window), In(h, g), NEW x \in covered, In(h, x)
      PROVE  FALSE
  <2>1. g.fromBlock <= h /\ h <= g.toBlock /\ x.fromBlock <= h /\ h <= x.toBlock
    BY <1>2 DEF In
  <2>2. CASE \E r \in covered : OpensGap(r, covered, window) /\ g = GapBefore(covered, window, r)
    <3>1. PICK r \in covered : g = GapBefore(covered, window, r)
      BY <2>2
    <3>2. /\ r.fromBlock \in Nat /\ g.toBlock = r.fromBlock - 1 /\ g.fromBlock \in Nat
          /\ x.fromBlock < r.fromBlock => g.fromBlock >= x.toBlock + 1
      BY <3>1, GapBeforeIs
    <3> QED BY <1>1, <2>1, <3>2
  <2>3. CASE g = LastGap(covered, window)
    <3>1. g.fromBlock \in Nat /\ g.fromBlock >= x.toBlock + 1
      BY <2>3, LastGapIs
    <3> QED BY <1>1, <2>1, <3>1
  <2> QED BY <2>2, <2>3, GapsAre
<1>3. ASSUME ~ \E x \in covered : In(h, x)
      PROVE  \E g \in findRangeGaps(covered, window) : In(h, g)
  <2>1. \A x \in covered : x.fromBlock > h \/ x.toBlock < h
    BY <1>1, <1>3 DEF In
  <2> DEFINE above == { n \in Nat : n > h /\ \E y \in covered : y.fromBlock = n }
  <2>2. CASE above = {}
    <3>1. \A x \in covered : x.toBlock < h
      BY <1>1, <2>1, <2>2
    <3>2. EndsShort(covered, window)
      BY <1>1, <3>1 DEF EndsShort
    <3> DEFINE g == LastGap(covered, window)
    <3>3. /\ g.toBlock = window.toBlock /\ g.fromBlock \in Nat
          /\ g.fromBlock = window.fromBlock \/ \E x \in covered : g.fromBlock = x.toBlock + 1
      BY LastGapIs
    <3>4. g \in findRangeGaps(covered, window)
      BY <3>2, GapsAre
    <3> HIDE DEF g
    <3>5. g.fromBlock <= h /\ h <= g.toBlock
      BY <1>1, <3>1, <3>3
    <3> QED BY <3>4, <3>5 DEF In
  <2>3. CASE above # {}
    <3>0. above \in SUBSET Nat
      OBVIOUS
    <3>1. PICK m \in above : \A n \in above : m <= n
      BY <2>3, <3>0, LeastNatural
    <3>2. m \in Nat /\ m > h /\ \E y \in covered : y.fromBlock = m
      BY <3>1
    <3>3. PICK r \in covered : r.fromBlock = m
      BY <3>2
    <3>4. \A x \in covered : x.fromBlock > h => m <= x.fromBlock
      BY <1>1, <3>1
    <3> HIDE DEF above
    <3>5. \A x \in covered : x.fromBlock < m => x.toBlock < h
      BY <1>1, <2>1, <3>2, <3>4
    <3>6. OpensGap(r, covered, window)
      BY <1>1, <3>2, <3>3, <3>5 DEF OpensGap
    <3> DEFINE g == GapBefore(covered, window, r)
    <3>7. /\ g.fromBlock \in Nat /\ g.toBlock = r.fromBlock - 1
          /\ g.fromBlock = Cursor(Below(covered, r), window)
      BY GapBeforeIs
    <3>8. g.fromBlock <= h
      <4>1. Ranges(Below(covered, r))
        BY FS_Subset DEF Ranges, Below
      <4>2. g.fromBlock = window.fromBlock \/ \E x \in Below(covered, r) : g.fromBlock = x.toBlock + 1
        BY <3>7, <4>1, CursorIs
      <4>3. \A x \in Below(covered, r) : x \in covered /\ x.fromBlock < m
        BY <3>3 DEF Below
      <4> HIDE DEF g
      <4> QED BY <1>1, <3>5, <4>2, <4>3
    <3>9. g \in findRangeGaps(covered, window)
      BY <3>6, GapsAre
    <3> HIDE DEF g
    <3>10. h <= g.toBlock
      BY <3>2, <3>3, <3>7
    <3> QED BY <3>8, <3>9, <3>10 DEF In
  <2> QED BY <2>2, <2>3
<1> QED BY <1>2, <1>3

\* Two gaps are one or have no height in common.
LEMMA GapsApart ==
  ASSUME NEW covered, Ranges(covered), NEW window \in BlockRange,
         NEW g \in findRangeGaps(covered, window), NEW k \in findRangeGaps(covered, window), g # k
  PROVE  g.toBlock < k.fromBlock \/ k.toBlock < g.fromBlock
<1> DEFINE Opened(x, r) == OpensGap(r, covered, window) /\ x = GapBefore(covered, window, r)
<1>0. \A x \in covered : x.fromBlock \in Nat /\ x.toBlock \in Nat /\ x.fromBlock <= x.toBlock
  BY BoundedFields DEF Ranges
<1>1. ASSUME NEW r \in covered, NEW q \in covered, Opened(g, r), Opened(k, q)
      PROVE  g.toBlock < k.fromBlock \/ k.toBlock < g.fromBlock
  <2>1. /\ g.toBlock = r.fromBlock - 1 /\ g.fromBlock \in Nat
        /\ q.fromBlock < r.fromBlock => g.fromBlock >= q.toBlock + 1
    BY <1>1, GapBeforeIs
  <2>2. /\ k.toBlock = q.fromBlock - 1 /\ k.fromBlock \in Nat
        /\ r.fromBlock < q.fromBlock => k.fromBlock >= r.toBlock + 1
    BY <1>1, GapBeforeIs
  <2>3. r.fromBlock # q.fromBlock
    <3> SUFFICES ASSUME r.fromBlock = q.fromBlock PROVE FALSE
      OBVIOUS
    <3>1. Below(covered, r) = Below(covered, q)
      BY DEF Below
    <3>2. g = k
      BY <1>1, <3>1 DEF GapBefore
    <3> QED BY <3>2
  <2> QED BY <1>0, <2>1, <2>2, <2>3
<1>2. ASSUME NEW x, NEW y, NEW r \in covered, Opened(x, r), y = LastGap(covered, window)
      PROVE  x.toBlock < y.fromBlock
  <2>1. x.toBlock = r.fromBlock - 1
    BY <1>2, GapBeforeIs
  <2>2. y.fromBlock \in Nat /\ y.fromBlock >= r.toBlock + 1
    BY <1>2, LastGapIs
  <2> QED BY <1>0, <2>1, <2>2
<1>3. \A x \in findRangeGaps(covered, window) : (\E r \in covered : Opened(x, r)) \/ x = LastGap(covered, window)
  BY GapsAre
<1> HIDE DEF Opened
<1> QED BY <1>1, <1>2, <1>3

LEMMA NoGapsMeansNone ==
  ASSUME NEW covered, NEW window
  PROVE  NoGaps(covered, window) <=> findRangeGaps(covered, window) = {}
BY GapsAre DEF NoGaps

\* With its gaps replayed the window has none left.
LEMMA GapsClose ==
  ASSUME NEW covered, Ranges(covered), NEW window \in BlockRange
  PROVE  NoGaps(covered \cup findRangeGaps(covered, window), window)
<1> DEFINE gaps == findRangeGaps(covered, window)
           all == covered \cup gaps
<1>0. /\ window.fromBlock \in Nat /\ window.toBlock \in Nat
      /\ \A x \in covered : x.fromBlock \in Nat /\ x.toBlock \in Nat /\ x.fromBlock <= x.toBlock
  BY BoundedFields DEF Ranges, BlockRange
<1>1. ~ EndsShort(all, window)
  <2>1. CASE EndsShort(covered, window)
    <3>1. LastGap(covered, window) \in all /\ LastGap(covered, window).toBlock = window.toBlock
      BY <2>1, GapsAre, LastGapIs
    <3> QED BY <1>0, <3>1 DEF EndsShort
  <2>2. CASE ~EndsShort(covered, window)
    BY <2>2 DEF EndsShort
  <2> QED BY <2>1, <2>2
<1>2. ASSUME NEW r \in covered PROVE ~ OpensGap(r, all, window)
  <2>1. CASE OpensGap(r, covered, window)
    <3> DEFINE g == GapBefore(covered, window, r)
    <3>1. g \in all
      BY <2>1, GapsAre
    <3>2. g.toBlock = r.fromBlock - 1 /\ g.fromBlock < r.fromBlock
      BY <2>1, GapBeforeIs
    <3> HIDE DEF g, all
    <3>3. ~ (g.toBlock + 1 < r.fromBlock)
      BY <1>0, <3>2
    <3> QED BY <3>1, <3>2, <3>3 DEF OpensGap
  <2>2. CASE ~OpensGap(r, covered, window)
    BY <2>2 DEF OpensGap
  <2> QED BY <2>1, <2>2
<1>3. ASSUME NEW g \in gaps PROVE ~ OpensGap(g, all, window)
  <2>1. g.fromBlock = window.fromBlock \/ \E x \in covered : g.fromBlock = x.toBlock + 1
    <3>1. CASE \E r \in covered : g = GapBefore(covered, window, r)
      BY <3>1, GapBeforeIs
    <3>2. CASE g = LastGap(covered, window)
      BY <3>2, LastGapIs
    <3> QED BY <3>1, <3>2, GapsAre
  <2>2. CASE g.fromBlock = window.fromBlock
    BY <1>0, <2>2 DEF OpensGap
  <2>3. CASE \E x \in covered : g.fromBlock = x.toBlock + 1
    <3>1. PICK x \in covered : g.fromBlock = x.toBlock + 1
      BY <2>3
    <3>2. x.fromBlock < g.fromBlock /\ ~ (x.toBlock + 1 < g.fromBlock) /\ x \in all
      BY <1>0, <3>1
    <3> HIDE DEF all
    <3> QED BY <3>2 DEF OpensGap
  <2> QED BY <2>1, <2>2, <2>3
<1> QED BY <1>1, <1>2, <1>3 DEF NoGaps

---------------------------------------------------------------------------
\* The sweep of the code, range by range.

SweptTo(f, q, window, n) ==
  f = [i \in 0..n |-> IF i = 0 THEN [gaps |-> {}, cursor |-> window.fromBlock] ELSE visit(f[i - 1], q[i])]

LEMMA SweepRuns ==
  ASSUME NEW q, NEW window, NEW n \in Nat
  PROVE  \E f : SweptTo(f, q, window, n)
<1> DEFINE Missing == {k \in Nat : ~ \E f : SweptTo(f, q, window, k)}
           start == [gaps |-> {}, cursor |-> window.fromBlock]
<1> SUFFICES ASSUME Missing # {} PROVE FALSE
  OBVIOUS
<1>0. Missing \in SUBSET Nat
  OBVIOUS
<1>1. PICK k \in Missing : \A l \in Missing : k <= l
  BY <1>0, LeastNatural
<1>2. CASE k = 0
  <2> DEFINE f == [i \in 0..0 |-> start]
  <2>1. SweptTo(f, q, window, 0)
    BY DEF SweptTo
  <2> QED BY <1>2, <2>1
<1>3. CASE k # 0
  <2>1. k - 1 \in Nat /\ k - 1 \notin Missing
    BY <1>1, <1>3
  <2>2. PICK g : SweptTo(g, q, window, k - 1)
    BY <2>1
  <2> DEFINE last == visit(g[k - 1], q[k])
             f == [i \in 0..k |-> IF i < k THEN g[i] ELSE last]
  <2> HIDE DEF start
  <2>3. \A i \in 0..k : f[i] = IF i = 0 THEN start ELSE visit(f[i - 1], q[i])
    <3> SUFFICES ASSUME NEW i \in 0..k
                 PROVE f[i] = IF i = 0 THEN start ELSE visit(f[i - 1], q[i])
      OBVIOUS
    <3>1. CASE i < k
      <4>1. i \in 0..(k - 1) /\ f[i] = g[i]
        BY <3>1, <2>1
      <4>2. i # 0 => i - 1 \in 0..k /\ i - 1 < k
        BY <4>1, <2>1
      <4>3. i # 0 => f[i - 1] = g[i - 1]
        BY <4>2
      <4>4. g[i] = IF i = 0 THEN start ELSE visit(g[i - 1], q[i])
        BY <4>1, <2>2 DEF SweptTo, start
      <4> HIDE DEF f
      <4> QED BY <4>1, <4>3, <4>4
    <3>2. CASE i = k
      <4>1. f[k] = last /\ f[k - 1] = g[k - 1]
        BY <2>1, <1>3
      <4> HIDE DEF f
      <4> QED BY <4>1, <3>2, <1>3
    <3> QED BY <3>1, <3>2, <1>1
  <2>4. SweptTo(f, q, window, k)
    <3> DEFINE all == [i \in 0..k |-> IF i = 0 THEN start ELSE visit(f[i - 1], q[i])]
    <3>1. f = all
      BY <2>3
    <3> HIDE DEF f
    <3> QED BY <3>1 DEF SweptTo, start
  <2> QED BY <2>4
<1> QED BY <1>2, <1>3

\* The cursor of the sweep is the cursor of what was swept.
IsCursor(c, s, window) ==
  /\ c \in Nat /\ c >= window.fromBlock
  /\ \A x \in s : c >= x.toBlock + 1
  /\ c = window.fromBlock \/ \E x \in s : c = x.toBlock + 1

LEMMA CursorIsOne ==
  ASSUME NEW s, Ranges(s), NEW window \in BlockRange, NEW c, IsCursor(c, s, window)
  PROVE  c = Cursor(s, window)
<1> DEFINE d == Cursor(s, window)
<1>1. IsCursor(d, s, window)
  BY CursorIs DEF IsCursor
<1>2. window.fromBlock \in Nat /\ \A x \in s : x.toBlock \in Nat
  BY BoundedFields DEF Ranges, BlockRange
<1> HIDE DEF d
<1>3. c <= d /\ d <= c
  BY <1>1, <1>2 DEF IsCursor
<1>4. c = d
  BY <1>1, <1>3 DEF IsCursor
<1> QED BY <1>4 DEF d

\* The code's order: every range once or more, by ascending start.
Orders(q, covered, n) ==
  /\ n \in Nat /\ Len(q) = n
  /\ \A i \in 1..n : q[i] \in covered
  /\ \A x \in covered : \E i \in 1..n : q[i] = x
  /\ \A i, j \in 1..n : i < j => q[i].fromBlock <= q[j].fromBlock

Seen(q, i) == { q[j] : j \in 1..i }
GapsSeen(covered, window, q, i) ==
  { GapBefore(covered, window, r) : r \in { x \in Seen(q, i) : OpensGap(x, covered, window) } }

\* One range more.
LEMMA SweepOneMore ==
  ASSUME NEW covered, Ranges(covered), NEW window \in BlockRange, NEW q, NEW n, Orders(q, covered, n),
         NEW i \in 1..n, NEW acc, IsCursor(acc.cursor, Seen(q, i - 1), window),
         acc.gaps = GapsSeen(covered, window, q, i - 1)
  PROVE  /\ IsCursor(visit(acc, q[i]).cursor, Seen(q, i), window)
         /\ visit(acc, q[i]).gaps = GapsSeen(covered, window, q, i)
<1> DEFINE r == q[i]
           c == acc.cursor
           s == Seen(q, i - 1)
<1>1. /\ window.fromBlock \in Nat /\ n \in Nat /\ i \in Nat
      /\ \A x \in covered : x.fromBlock \in Nat /\ x.toBlock \in Nat /\ x.fromBlock <= x.toBlock
  BY BoundedFields DEF Ranges, BlockRange, Orders
<1>2. Seen(q, i) = s \cup {r}
  <2>1. 1..i = 1..(i - 1) \cup {i}
    BY <1>1
  <2> QED BY <2>1 DEF Seen
<1>3. r \in covered /\ s \subseteq covered
  <2>1. \A j \in 1..(i - 1) : j \in 1..n
    BY <1>1
  <2> QED BY <2>1 DEF Orders, Seen
<1>4. \A x \in covered : x.fromBlock < r.fromBlock => x \in s
  <2> SUFFICES ASSUME NEW x \in covered, x.fromBlock < r.fromBlock PROVE x \in s
    OBVIOUS
  <2>1. PICK j \in 1..n : q[j] = x
    BY DEF Orders
  <2>2. ~ (i < j) /\ i # j
    <3>1. i < j => r.fromBlock <= x.fromBlock
      BY <2>1 DEF Orders
    <3> QED BY <1>1, <1>3, <2>1, <3>1
  <2>3. j \in 1..(i - 1)
    BY <1>1, <2>2
  <2> QED BY <2>1, <2>3 DEF Seen
<1>5. \A x \in s : x.fromBlock <= r.fromBlock
  <2>1. \A j \in 1..(i - 1) : j \in 1..n /\ j < i
    BY <1>1
  <2> QED BY <2>1 DEF Orders, Seen
<1>6. /\ visit(acc, r).cursor = IF r.toBlock >= c THEN r.toBlock + 1 ELSE c
      /\ visit(acc, r).gaps = IF r.fromBlock > c
                                THEN acc.gaps \cup {[fromBlock |-> c, toBlock |-> r.fromBlock - 1]}
                                ELSE acc.gaps
  BY DEF visit
<1> HIDE DEF r, c, s
<1>7. IsCursor(c, s, window)
  BY DEF c, s
<1>8. IsCursor(visit(acc, r).cursor, Seen(q, i), window)
  <2>1. CASE r.toBlock >= c
    <3>1. visit(acc, r).cursor = r.toBlock + 1
      BY <1>6, <2>1
    <3>2. IsCursor(r.toBlock + 1, s \cup {r}, window)
      BY <1>1, <1>3, <1>7, <2>1 DEF IsCursor
    <3> QED BY <1>2, <3>1, <3>2
  <2>2. CASE ~ (r.toBlock >= c)
    <3>1. visit(acc, r).cursor = c
      BY <1>6, <2>2
    <3>2. IsCursor(c, s \cup {r}, window)
      BY <1>1, <1>3, <1>7, <2>2 DEF IsCursor
    <3> QED BY <1>2, <3>1, <3>2
  <2> QED BY <2>1, <2>2
<1> DEFINE before(x) == GapBefore(covered, window, x)
           opens(x) == OpensGap(x, covered, window)
<1>9. GapsSeen(covered, window, q, i) = acc.gaps \cup { before(x) : x \in { y \in {r} : opens(y) } }
  <2>1. acc.gaps = { before(x) : x \in { y \in s : opens(y) } }
    BY DEF GapsSeen, s
  <2>2. GapsSeen(covered, window, q, i) = { before(x) : x \in { y \in s \cup {r} : opens(y) } }
    BY <1>2 DEF GapsSeen
  <2> HIDE DEF before, opens
  <2> QED BY <2>1, <2>2
<1>10. CASE r.fromBlock > c
  <2>1. Below(covered, r) = s
    <3>1. \A x \in s : x.fromBlock < r.fromBlock
      BY <1>1, <1>3, <1>7, <1>10 DEF IsCursor
    <3> QED BY <1>3, <1>4, <3>1 DEF Below
  <2>2. c = Cursor(s, window)
    <3>1. Ranges(s)
      BY <1>3, FS_Subset DEF Ranges
    <3> QED BY <1>7, <3>1, CursorIsOne
  <2>3. before(r) = [fromBlock |-> c, toBlock |-> r.fromBlock - 1]
    BY <2>1, <2>2 DEF GapBefore
  <2>4. opens(r)
    <3>1. before(r).fromBlock < r.fromBlock
      BY <1>1, <1>3, <1>7, <1>10, <2>3 DEF IsCursor
    <3> QED BY <1>3, <3>1, GapBeforeIs
  <2> HIDE DEF before, opens
  <2>5. visit(acc, r).gaps = acc.gaps \cup {before(r)}
    BY <1>6, <1>10, <2>3
  <2>6. visit(acc, r).gaps = GapsSeen(covered, window, q, i)
    BY <1>9, <2>4, <2>5
  <2> QED BY <1>8, <2>6 DEF r
<1>11. CASE ~ (r.fromBlock > c)
  <2>1. ASSUME opens(r) PROVE before(r) \in acc.gaps
    <3>1. PICK x \in s : c = x.toBlock + 1
      BY <1>1, <1>3, <1>7, <1>11, <2>1 DEF IsCursor, OpensGap
    <3>2. x.fromBlock = r.fromBlock
      <4>1. ~ (x.fromBlock < r.fromBlock)
        BY <1>1, <1>3, <1>11, <2>1, <3>1 DEF OpensGap
      <4> QED BY <1>1, <1>3, <1>5, <3>1, <4>1
    <3>3. opens(x)
      BY <2>1, <3>2 DEF OpensGap
    <3>4. before(x) = before(r)
      BY <3>2 DEF GapBefore, Below
    <3>5. before(x) \in GapsSeen(covered, window, q, i - 1)
      BY <3>1, <3>3 DEF GapsSeen, s
    <3> QED BY <3>4, <3>5
  <2> HIDE DEF before, opens
  <2>2. visit(acc, r).gaps = GapsSeen(covered, window, q, i)
    BY <1>6, <1>9, <1>11, <2>1
  <2> QED BY <1>8, <2>2 DEF r
<1> QED BY <1>10, <1>11

LEMMA SweepReaches ==
  ASSUME NEW covered, Ranges(covered), NEW window \in BlockRange, NEW q, NEW n, Orders(q, covered, n),
         NEW f, SweptTo(f, q, window, n)
  PROVE  \A i \in 0..n : /\ IsCursor(f[i].cursor, Seen(q, i), window)
                         /\ f[i].gaps = GapsSeen(covered, window, q, i)
<1> DEFINE Right(i) == /\ IsCursor(f[i].cursor, Seen(q, i), window)
                       /\ f[i].gaps = GapsSeen(covered, window, q, i)
           Wrong == {i \in 0..n : ~ Right(i)}
<1> SUFFICES ASSUME Wrong # {} PROVE FALSE
  OBVIOUS
<1>0. Wrong \in SUBSET Nat /\ n \in Nat
  BY DEF Orders
<1>1. PICK k \in Wrong : \A l \in Wrong : k <= l
  BY <1>0, LeastNatural
<1>2. \A i \in 0..n : f[i] = IF i = 0 THEN [gaps |-> {}, cursor |-> window.fromBlock]
                                      ELSE visit(f[i - 1], q[i])
  BY DEF SweptTo
<1>3. CASE k = 0
  <2>1. f[0].gaps = {} /\ f[0].cursor = window.fromBlock
    BY <1>0, <1>2
  <2>2. Seen(q, 0) = {}
    BY DEF Seen
  <2>3. IsCursor(f[0].cursor, {}, window)
    BY <2>1 DEF IsCursor, BlockRange
  <2>4. GapsSeen(covered, window, q, 0) = {}
    BY <2>2 DEF GapsSeen
  <2>5. Right(0)
    BY <2>1, <2>2, <2>3, <2>4
  <2> QED BY <1>1, <1>3, <2>5
<1>4. CASE k # 0
  <2>1. k \in 1..n /\ k - 1 \in 0..n /\ k - 1 < k
    BY <1>0, <1>1, <1>4
  <2>2. Right(k - 1)
    BY <1>1, <2>1
  <2>3. f[k] = visit(f[k - 1], q[k])
    BY <1>2, <1>4, <2>1
  <2>4. /\ IsCursor(visit(f[k - 1], q[k]).cursor, Seen(q, k), window)
        /\ visit(f[k - 1], q[k]).gaps = GapsSeen(covered, window, q, k)
    BY <2>1, <2>2, SweepOneMore
  <2>5. Right(k)
    BY <2>3, <2>4
  <2> QED BY <1>1, <2>5
<1> QED BY <1>3, <1>4

\* The loop of the code finds the gaps, whatever order its sort leaves equal starts in.
LEMMA SweepFinds ==
  ASSUME NEW covered, Ranges(covered), NEW window \in BlockRange, NEW q, NEW n, Orders(q, covered, n)
  PROVE  sweep(q, window) = findRangeGaps(covered, window)
<1> DEFINE f == CHOOSE g : SweptTo(g, q, window, n)
           end == f[n]
<1>0. n \in Nat /\ Len(q) = n
  BY DEF Orders
<1>1. SweptTo(f, q, window, n)
  BY <1>0, SweepRuns
<1>2. sweep(q, window) =
        end.gaps \cup (IF end.cursor <= window.toBlock
                         THEN {[fromBlock |-> end.cursor, toBlock |-> window.toBlock]} ELSE {})
  BY <1>0 DEF sweep, SweptTo
<1> HIDE DEF f
<1>3. /\ IsCursor(end.cursor, Seen(q, n), window)
      /\ end.gaps = GapsSeen(covered, window, q, n)
  BY <1>0, <1>1, SweepReaches
<1>4. Seen(q, n) = covered
  BY DEF Orders, Seen
<1>5. end.cursor = Cursor(covered, window)
  BY <1>3, <1>4, CursorIsOne
<1>6. end.cursor <= window.toBlock <=> EndsShort(covered, window)
  <2>1. window.fromBlock \in Nat /\ window.toBlock \in Nat /\ \A x \in covered : x.toBlock \in Nat
    BY BoundedFields DEF Ranges, BlockRange
  <2>2. IsCursor(end.cursor, covered, window)
    BY <1>3, <1>4
  <2> HIDE DEF end
  <2> QED BY <2>1, <2>2 DEF IsCursor, EndsShort
<1> HIDE DEF end
<1>7. (IF end.cursor <= window.toBlock
         THEN {[fromBlock |-> end.cursor, toBlock |-> window.toBlock]} ELSE {})
        = { [fromBlock |-> Cursor(covered, window), toBlock |-> w.toBlock] :
              w \in { v \in {window} : EndsShort(covered, v) } }
  BY <1>5, <1>6
<1>8. end.gaps = { [fromBlock |-> Cursor({ x \in covered : x.fromBlock < r.fromBlock }, window),
                    toBlock   |-> r.fromBlock - 1] : r \in { p \in covered : OpensGap(p, covered, window) } }
  BY <1>3, <1>4 DEF GapsSeen, GapBefore, Below
<1> QED BY <1>2, <1>7, <1>8 DEF findRangeGaps

\* Every order the sort may produce lists all the ranges.
LEMMA SortedOrders ==
  ASSUME NEW covered, IsFiniteSet(covered), NEW q \in Sorted(covered)
  PROVE  Orders(q, covered, Cardinality(covered))
<1> DEFINE n == Cardinality(covered)
<1>1. n \in Nat
  BY FS_CardinalityType
<1>2. /\ q \in [1..n -> covered]
      /\ \A i, j \in 1..n : i # j => q[i] # q[j]
      /\ \A i, j \in 1..Len(q) : i < j => q[i].fromBlock <= q[j].fromBlock
  BY DEF Sorted, SetToSeqs
<1> HIDE DEF n
<1>3. Len(q) = n
  <2>1. q \in Seq(covered)
    BY <1>1, <1>2, SeqDef
  <2>2. DOMAIN q = 1..n /\ DOMAIN q = 1..Len(q) /\ Len(q) \in Nat
    BY <1>2, <2>1, LenProperties
  <2> QED BY <1>1, <2>2
<1>4. q \in Injection(1..n, covered)
  BY <1>2 DEF Injection, IsInjective
<1>5. Cardinality(1..n) = n
  <2>1. 1 \in Int /\ n \in Int
    BY <1>1
  <2>2. Cardinality(1..n) = IF 1 > n THEN 0 ELSE n - 1 + 1
    BY <2>1, FS_Interval, Zenon
  <2> QED BY <1>1, <2>2
<1>6. q \in Surjection(1..n, covered)
  <2>1. Cardinality(1..n) = Cardinality(covered) <=> q \in Surjection(1..n, covered)
    BY <1>4, FS_Injection, Zenon
  <2> QED BY <1>5, <2>1 DEF n
<1>7. \A x \in covered : \E i \in 1..n : q[i] = x
  BY <1>6 DEF Surjection
<1>8. Orders(q, covered, n)
  BY <1>1, <1>2, <1>3, <1>7 DEF Orders
<1> QED BY <1>8 DEF n

---------------------------------------------------------------------------
\* A plan: chunk k ends before chunk l begins, and all of them hold the window.
LEMMA PlanPartitions ==
  ASSUME NEW window \in Bounded, NEW width \in Nat \ {0}
  PROVE  /\ Partitions(planRanges(window.fromBlock, window.toBlock, width), window)
         /\ \A r \in planRanges(window.fromBlock, window.toBlock, width) : spanOf(r) \in 1..width
<1> DEFINE start == window.fromBlock
           last == window.toBlock
           plan == planRanges(start, last, width)
           K == { i \in 0..(last - start) : start + i * width <= last }
           upto(k) == IF start + k * width + width - 1 > last THEN last ELSE start + k * width + width - 1
           chunk(k) == [fromBlock |-> start + k * width, toBlock |-> upto(k)]
<1>1. start \in Nat /\ last \in Nat /\ start <= last
  BY BoundedFields
<1>2. plan = { chunk(k) : k \in K }
  BY DEF planRanges
<1>3. \A k \in K : k \in Nat /\ k * width \in Nat /\ start + k * width <= last
  BY <1>1
<1> HIDE DEF start, last, K
<1>4. \A k \in K : /\ chunk(k).fromBlock = start + k * width /\ chunk(k).toBlock = upto(k)
                   /\ upto(k) \in Nat /\ start + k * width <= upto(k) /\ upto(k) <= last
                   /\ upto(k) <= start + k * width + width - 1
  BY <1>1, <1>3
<1>5. ASSUME NEW k \in K, NEW l \in K, k < l PROVE chunk(k).toBlock < chunk(l).fromBlock
  <2>1. k \in Nat /\ l \in Nat /\ k + 1 <= l
    BY <1>3, <1>5
  <2>2. (k + 1) * width <= l * width
    BY <2>1
  <2>3. (k + 1) * width = k * width + width
    BY <2>1
  <2>4. k * width + width <= l * width
    BY <2>2, <2>3
  <2>5. k * width \in Nat /\ l * width \in Nat
    BY <1>3
  <2> DEFINE a == k * width
             b == l * width
  <2> HIDE DEF a, b
  <2>6. a \in Nat /\ b \in Nat /\ a + width <= b
    BY <2>4, <2>5 DEF a, b
  <2>7. upto(k) <= start + a + width - 1
    BY <1>4 DEF a
  <2>8. chunk(k).toBlock = upto(k) /\ upto(k) \in Nat /\ chunk(l).fromBlock = start + b
    BY <1>4 DEF b
  <2> HIDE DEF chunk, upto
  <2> QED BY <1>1, <2>6, <2>7, <2>8
<1>6. Disjoint(plan)
  <2> SUFFICES ASSUME NEW r \in plan, NEW x \in plan, r # x
               PROVE  r.toBlock < x.fromBlock \/ x.toBlock < r.fromBlock
    BY DEF Disjoint
  <2>1. PICK k \in K : r = chunk(k)
    BY <1>2
  <2>2. PICK l \in K : x = chunk(l)
    BY <1>2
  <2> HIDE DEF chunk, plan
  <2>3. k # l /\ k \in Nat /\ l \in Nat
    BY <1>3, <2>1, <2>2
  <2>4. k < l \/ l < k
    BY <2>3
  <2> QED BY <1>5, <2>1, <2>2, <2>4
<1>7. Heights(plan) = start..last
  <2>1. ASSUME NEW h \in Heights(plan) PROVE h \in start..last
    <3>1. PICK r \in plan : h \in r.fromBlock..r.toBlock
      BY DEF Heights
    <3>2. PICK k \in K : r = chunk(k)
      BY <1>2
    <3>3. r.fromBlock = start + k * width /\ r.toBlock = upto(k) /\ upto(k) \in Nat /\ upto(k) <= last
      BY <1>4, <3>2
    <3>4. k * width \in Nat
      BY <1>3
    <3> HIDE DEF chunk, plan, upto
    <3> QED BY <1>1, <3>1, <3>3, <3>4
  <2>2. ASSUME NEW h \in start..last PROVE h \in Heights(plan)
    <3>1. h \in Nat /\ start <= h /\ h <= last
      BY <1>1
    <3>2. PICK r \in plan : In(h, r)
      BY <1>1, <3>1, PlanCovers
    <3>3. r.fromBlock \in Nat /\ r.toBlock \in Nat
      BY <1>1, PlanBounded, BoundedFields
    <3>4. h \in r.fromBlock..r.toBlock
      BY <3>1, <3>2, <3>3 DEF In
    <3> QED BY <3>4 DEF Heights
  <2> HIDE DEF plan
  <2> QED BY <2>1, <2>2
<1>8. ASSUME NEW r \in plan PROVE spanOf(r) \in 1..width
  <2>1. PICK k \in K : r = chunk(k)
    BY <1>2
  <2> DEFINE a == k * width
             e == upto(k)
  <2>2. /\ r.fromBlock = start + a /\ r.toBlock = e
        /\ e \in Nat /\ start + a <= e /\ e <= start + a + width - 1
    BY <1>4, <2>1
  <2>3. a \in Nat
    BY <1>3
  <2> HIDE DEF a, e, plan, chunk
  <2> QED BY <1>1, <2>2, <2>3 DEF spanOf
<1> QED BY <1>6, <1>7, <1>8 DEF Partitions, start, last

\* A split: two shorter ranges and every height in one of them.
LEMMA SplitPartitions ==
  ASSUME NEW window \in Bounded, splitRange(window) # {}
  PROVE  /\ Partitions(splitRange(window), window)
         /\ \A r \in splitRange(window) : spanOf(r) \in 1..(spanOf(window) - 1)
<1>1. PICK m \in Nat : /\ window.fromBlock <= m /\ m < window.toBlock
                       /\ splitRange(window) = { [fromBlock |-> window.fromBlock, toBlock |-> m],
                                                 [fromBlock |-> m + 1, toBlock |-> window.toBlock] }
  BY SplitHalves
<1>2. window.fromBlock \in Nat /\ window.toBlock \in Nat
  BY BoundedFields
<1> DEFINE low == [fromBlock |-> window.fromBlock, toBlock |-> m]
           high == [fromBlock |-> m + 1, toBlock |-> window.toBlock]
<1>3. /\ low.fromBlock = window.fromBlock /\ low.toBlock = m
      /\ high.fromBlock = m + 1 /\ high.toBlock = window.toBlock
  OBVIOUS
<1>4. splitRange(window) = {low, high}
  BY <1>1
<1> HIDE DEF low, high
<1>5. Disjoint(splitRange(window))
  BY <1>1, <1>2, <1>3, <1>4 DEF Disjoint
<1>6. Heights(splitRange(window)) = window.fromBlock..window.toBlock
  <2>1. Heights({low, high}) = (low.fromBlock..low.toBlock) \cup (high.fromBlock..high.toBlock)
    BY DEF Heights
  <2>2. (window.fromBlock..m) \cup ((m + 1)..window.toBlock) = window.fromBlock..window.toBlock
    BY <1>1, <1>2
  <2> QED BY <1>3, <1>4, <2>1, <2>2
<1>7. \A r \in splitRange(window) : spanOf(r) \in 1..(spanOf(window) - 1)
  BY <1>1, <1>2, <1>3, <1>4 DEF spanOf
<1> QED BY <1>5, <1>6, <1>7 DEF Partitions

\* The heights of the gaps in the window are those no range covers.
LEMMA GapHeights ==
  ASSUME NEW covered, Ranges(covered), NEW window \in BlockRange
  PROVE  Heights(findRangeGaps(covered, window)) \cap (window.fromBlock..window.toBlock)
           = (window.fromBlock..window.toBlock) \ Heights(covered)
<1> DEFINE gaps == findRangeGaps(covered, window)
           all == window.fromBlock..window.toBlock
<1>1. window.fromBlock \in Nat /\ window.toBlock \in Nat
  BY DEF BlockRange
<1>2. ASSUME NEW s, NEW h \in all,
             \A r \in s : r.fromBlock \in Int /\ r.toBlock \in Int
      PROVE  h \in Heights(s) <=> \E r \in s : In(h, r)
  <2>1. h \in Heights(s) <=> \E r \in s : h \in r.fromBlock..r.toBlock
    BY DEF Heights
  <2>2. \A r \in s : h \in r.fromBlock..r.toBlock <=> In(h, r)
    BY <1>1, <1>2 DEF In
  <2> QED BY <2>1, <2>2
<1>3. \A r \in covered : r.fromBlock \in Int /\ r.toBlock \in Int
  BY BoundedFields DEF Ranges
<1>4. \A r \in gaps : r.fromBlock \in Int /\ r.toBlock \in Int
  <2> SUFFICES ASSUME NEW g \in gaps PROVE g.fromBlock \in Int /\ g.toBlock \in Int
    OBVIOUS
  <2>1. CASE \E r \in covered : OpensGap(r, covered, window) /\ g = GapBefore(covered, window, r)
    <3>1. PICK r \in covered : g = GapBefore(covered, window, r)
      BY <2>1
    <3>2. r.fromBlock \in Nat /\ g.toBlock = r.fromBlock - 1 /\ g.fromBlock \in Nat
      BY <3>1, GapBeforeIs
    <3> QED BY <3>2
  <2>2. CASE g = LastGap(covered, window)
    <3>1. g.toBlock = window.toBlock /\ g.fromBlock \in Nat
      BY <2>2, LastGapIs
    <3> QED BY <1>1, <3>1
  <2> QED BY <2>1, <2>2, GapsAre
<1>5. \A h \in all : h \in Heights(gaps) <=> h \notin Heights(covered)
  <2> SUFFICES ASSUME NEW h \in all PROVE h \in Heights(gaps) <=> h \notin Heights(covered)
    OBVIOUS
  <2>1. h \in Nat /\ In(h, window)
    BY <1>1 DEF In
  <2>2. (\E g \in gaps : In(h, g)) <=> ~ \E x \in covered : In(h, x)
    BY <2>1, GapsTell
  <2>3. h \in Heights(gaps) <=> \E g \in gaps : In(h, g)
    <3> HIDE DEF gaps, all
    <3> QED BY <1>2, <1>4
  <2>4. h \in Heights(covered) <=> \E x \in covered : In(h, x)
    <3> HIDE DEF gaps, all
    <3> QED BY <1>2, <1>3
  <2> QED BY <2>2, <2>3, <2>4
<1> HIDE DEF gaps, all
<1>6. Heights(gaps) \cap all = all \ Heights(covered)
  BY <1>5
<1> QED BY <1>6 DEF gaps, all

LEMMA RangesBelowTop ==
  ASSUME Top \in Nat
  PROVE  AllRanges \subseteq Bounded /\ IsFiniteSet(AllRanges)
<1>1. ASSUME NEW r \in AllRanges
      PROVE  /\ r \in Bounded /\ r.fromBlock \in 1..Top /\ r.toBlock \in 1..Top
             /\ r = [fromBlock |-> r.fromBlock, toBlock |-> r.toBlock]
  BY DEF AllRanges, Bounded, BlockRange
<1> DEFINE heights == 1..Top
           ends == heights \X heights
           f == [r \in AllRanges |-> <<r.fromBlock, r.toBlock>>]
<1>2. IsFiniteSet(heights)
  <2>1. 1 \in Int /\ Top \in Int
    OBVIOUS
  <2> QED BY <2>1, FS_Interval, Zenon
<1>3. IsFiniteSet(ends)
  <2> HIDE DEF heights
  <2> QED BY <1>2, FS_Product
<1>4. f \in [AllRanges -> ends]
  BY <1>1
<1>5. \A r, x \in AllRanges : f[r] = f[x] => r = x
  <2> SUFFICES ASSUME NEW r \in AllRanges, NEW x \in AllRanges, f[r] = f[x] PROVE r = x
    OBVIOUS
  <2>1. f[r] = <<r.fromBlock, r.toBlock>> /\ f[x] = <<x.fromBlock, x.toBlock>>
    OBVIOUS
  <2>2. r.fromBlock = x.fromBlock /\ r.toBlock = x.toBlock
    BY <2>1
  <2>3. r = [fromBlock |-> r.fromBlock, toBlock |-> r.toBlock]
        /\ x = [fromBlock |-> x.fromBlock, toBlock |-> x.toBlock]
    BY <1>1
  <2> QED BY <2>2, <2>3
<1>6. f \in Injection(AllRanges, ends)
  <2> HIDE DEF f, ends
  <2> QED BY <1>4, <1>5 DEF Injection, IsInjective
<1>7. IsFiniteSet(AllRanges)
  <2> HIDE DEF f, ends
  <2> QED BY <1>3, <1>6, FS_Injection, Zenon
<1> QED BY <1>1, <1>7

\* Replay's arithmetic is exact for chains of any height: a plan and a split lose no
\* height, add none and overlap nowhere, and every piece is within its width
\* (planRanges, splitRange, plan.ts); the gaps found are exactly the heights no
\* committed range covers, apart from each other, none reported means none there, the
\* code's sorted sweep finds that very set (findRangeGaps, range.ts), and replaying
\* them leaves no further gap behind (isGapClosed, completeness.ts).
THEOREM ArithmeticIsExact == Top \in Nat => Exact
<1> SUFFICES ASSUME Top \in Nat, NEW window \in AllRanges
             PROVE  /\ WorkPartitions(window)
                    /\ \A covered \in SUBSET AllRanges :
                         GapsAreUncovered(covered, window) /\ RecoveryCloses(covered, window)
  BY DEF Exact
<1>1. window \in Bounded /\ window \in BlockRange
  BY RangesBelowTop DEF Bounded
<1>2. WorkPartitions(window)
  <2>1. \A width \in 1..Top + 1 : width \in Nat \ {0}
    OBVIOUS
  <2> QED BY <1>1, <2>1, PlanPartitions, SplitPartitions DEF WorkPartitions
<1>3. ASSUME NEW covered \in SUBSET AllRanges
      PROVE  GapsAreUncovered(covered, window) /\ RecoveryCloses(covered, window)
  <2>1. Ranges(covered)
    BY RangesBelowTop, FS_Subset DEF Ranges
  <2> DEFINE gaps == findRangeGaps(covered, window)
  <2>2. Disjoint(gaps)
    BY <1>1, <2>1, GapsApart DEF Disjoint
  <2>3. \A q \in Sorted(covered) : sweep(q, window) = gaps
    <3>1. IsFiniteSet(covered)
      BY <2>1 DEF Ranges
    <3> QED BY <1>1, <2>1, <3>1, SortedOrders, SweepFinds
  <2>4. GapsAreUncovered(covered, window)
    BY <1>1, <2>1, <2>2, <2>3, GapHeights, NoGapsMeansNone DEF GapsAreUncovered
  <2>5. RecoveryCloses(covered, window)
    BY <1>1, <2>1, GapsClose DEF RecoveryCloses
  <2> QED BY <2>4, <2>5
<1> QED BY <1>2, <1>3
=============================================================================
