---------------------------- MODULE ReplayRanges ----------------------------
(***************************************************************************)
(* The pure half of packages/replay: range planning, adaptive splitting,   *)
(* hint priority, gap detection, witness agreement and the completeness    *)
(* lattice.  Every operator is a function of its arguments, as the code's  *)
(* are ("Pure: no clock, no randomness, no I/O").                          *)
(*                                                                         *)
(* Abstractions: block heights are naturals (the code's bigint never       *)
(* overflows); a digest is the observed content itself, so two digests are *)
(* equal exactly when the contents are.  A work queue is the SET of its    *)
(* ranges: prioritise sorts by (tier, fromBlock) and a split is put back   *)
(* in place of its parent, so the queue order is that sort at all times    *)
(* (a half inherits its parent's tier) and only the minimum is ever taken. *)
(***************************************************************************)
EXTENDS Integers, FiniteSets

CONSTANT None   \* "no value": SQL NULL, an absent row, TypeScript null

ASSUME NoneIsNoNumber == None \notin Nat

\* packages/replay/src/reasons.ts
Retryable == {"SILENT_TRUNCATION", "MISSING_BLOCK", "MISSING_LOG",
              "EMPTY_RESPONSE_AMBIGUITY", "STALE_COLLECTION"}

Structural == {"PRUNED_HISTORY", "PROVIDER_DIVERGENCE", "INSUFFICIENT_WITNESSES",
               "RETRY_BUDGET_EXHAUSTED", "RANGE_INDIVISIBLE",
               "ARCHIVE_FALLBACK_UNAVAILABLE", "REMOTE_HISTORY_UNAVAILABLE",
               "NONCANONICAL_BLOCK_REJECTED"}

Reasons == Retryable \cup Structural


----------------------------------------------------------------------------
(* plan.ts *)

BlockRange == [fromBlock : Nat, toBlock : Nat]

In(h, r) == r.fromBlock <= h /\ h <= r.toBlock

spanOf(r) == r.toBlock - r.fromBlock + 1

\* A slip: the next chunk starts on the last block of the one before it.
planRangesOverlap(start, head, width) ==
  { [fromBlock |-> start + k * width,
     toBlock   |-> IF start + k * width + width > head THEN head ELSE start + k * width + width] :
      k \in { i \in 0..(head - start) : start + i * width <= head } }

\* Ascending contiguous chunks: the k-th iteration of the loop starts at
\* start + k * width, and the last chunk is cut at the head.
planRanges(start, head, width) ==
  { [fromBlock |-> start + k * width,
     toBlock   |-> IF start + k * width + width - 1 > head
                   THEN head ELSE start + k * width + width - 1] :
      k \in { i \in 0..(head - start) : start + i * width <= head } }

\* A slip: without the one-block floor a single block splits into itself.
splitRangeNoFloor(r) ==
  LET half == spanOf(r) \div 2
  IN  { [fromBlock |-> r.fromBlock, toBlock |-> r.fromBlock + half - 1],
        [fromBlock |-> r.fromBlock + half, toBlock |-> r.toBlock] }

\* Halve a range; the empty set is the code's null for a one-block range.
splitRange(r) ==
  IF spanOf(r) <= 1 THEN {}
  ELSE LET half == spanOf(r) \div 2
       IN  { [fromBlock |-> r.fromBlock, toBlock |-> r.fromBlock + half - 1],
             [fromBlock |-> r.fromBlock + half, toBlock |-> r.toBlock] }

\* What follows a failed attempt: retry inside the budget, then halve, then stop.
nextStep(r, attempts, retryBudget, reason) ==
  IF reason \notin Retryable THEN [kind |-> "give-up", reason |-> reason]
  ELSE IF attempts + 1 < retryBudget THEN [kind |-> "retry", attempts |-> attempts + 1]
  ELSE IF splitRange(r) # {} THEN [kind |-> "split", ranges |-> splitRange(r)]
  ELSE [kind |-> "give-up",
        reason |-> IF spanOf(r) = 1 THEN "RANGE_INDIVISIBLE" ELSE "RETRY_BUDGET_EXHAUSTED"]

----------------------------------------------------------------------------
(* hints.ts *)

\* prioritise: a hinted range sorts before every unhinted one.
tier(r, hinted) == IF \E h \in hinted : In(h, r) THEN 0 ELSE 1

\* The comparator of the sort: tier first, ascending height inside a tier.
Precedes(a, b) == a.tier < b.tier \/ (a.tier = b.tier /\ a.range.fromBlock <= b.range.fromBlock)

prioritise(planned, hinted) == { [range |-> r, tier |-> tier(r, hinted)] : r \in planned }

\* The entries queue.shift() may return.
Firsts(queue) == { a \in queue : \A b \in queue : Precedes(a, b) }

----------------------------------------------------------------------------
(* range.ts *)

\* A slip: the cursor is taken to stand two past the last range, so a one-block
\* gap between two ranges is missed.
OpensGapTwoPast(r, covered, window) ==
  /\ r.fromBlock > window.fromBlock
  /\ \A x \in covered : x.fromBlock < r.fromBlock => x.toBlock + 2 < r.fromBlock

\* The sweep's cursor is one past everything seen so far, so a gap opens before
\* r exactly when r starts above the window's start and above one past the end
\* of every range that sorts before it.
OpensGap(r, covered, window) ==
  /\ r.fromBlock > window.fromBlock
  /\ \A x \in covered : x.fromBlock < r.fromBlock => x.toBlock + 1 < r.fromBlock

\* The trailing gap: the cursor ended inside the window.
EndsShort(covered, window) ==
  /\ window.fromBlock <= window.toBlock
  /\ \A x \in covered : x.toBlock < window.toBlock

\* gaps.length = 0
NoGaps(covered, window) ==
  /\ ~ EndsShort(covered, window)
  /\ \A r \in covered : ~ OpensGap(r, covered, window)

\* The cursor after sweeping the ranges of s.
Cursor(s, window) ==
  CHOOSE c \in {window.fromBlock} \cup { x.toBlock + 1 : x \in s } :
    \A d \in {window.fromBlock} \cup { x.toBlock + 1 : x \in s } : d <= c

findRangeGaps(covered, window) ==
  { [fromBlock |-> Cursor({ x \in covered : x.fromBlock < r.fromBlock }, window),
     toBlock   |-> r.fromBlock - 1] : r \in { q \in covered : OpensGap(q, covered, window) } }
  \cup
  { [fromBlock |-> Cursor(covered, window), toBlock |-> w.toBlock] :
      w \in { v \in {window} : EndsShort(covered, v) } }

----------------------------------------------------------------------------
(* agreement.ts *)

\* answers maps every provider group that answered to the content it returned.
agree(answers, archiveGroups, archiveDeclared, required) ==
  LET groups  == DOMAIN answers
      digests == { answers[g] : g \in groups }
  IN  IF groups \cap archiveGroups # {} /\ ~ archiveDeclared
        THEN [kind |-> "blocked", reason |-> "ARCHIVE_FALLBACK_UNAVAILABLE"]
      ELSE IF \E a, b \in digests : a # b
        THEN [kind |-> "blocked", reason |-> "PROVIDER_DIVERGENCE"]
      ELSE IF Cardinality(groups) < required \/ groups = {}
        THEN [kind |-> "blocked", reason |-> "INSUFFICIENT_WITNESSES"]
      ELSE [kind |-> "agreed"]

----------------------------------------------------------------------------
(* completeness.ts *)

BLOCKING_REASONS == {"PRUNED_HISTORY", "RETRY_BUDGET_EXHAUSTED", "RANGE_INDIVISIBLE",
                     "ARCHIVE_FALLBACK_UNAVAILABLE", "REMOTE_HISTORY_UNAVAILABLE",
                     "NONCANONICAL_BLOCK_REJECTED", "INSUFFICIENT_WITNESSES"}

\* Divergence, then a blocking reason, then a gap, then never, then stale.
assessStatus(window, committed, lastSuccessAt, ttl, openReasons, now) ==
  CASE "PROVIDER_DIVERGENCE" \in openReasons -> "divergent"
    [] "PROVIDER_DIVERGENCE" \notin openReasons
         /\ openReasons \cap BLOCKING_REASONS # {} -> "blocked"
    [] OTHER ->
         IF ~ NoGaps(committed, window) THEN "gap"
         ELSE IF lastSuccessAt = None THEN "pending"
         ELSE IF now - lastSuccessAt > ttl THEN "stale"
         ELSE "complete"

verdictOf(status) == IF status = "complete" THEN "OK" ELSE "UNKNOWN"
=============================================================================
