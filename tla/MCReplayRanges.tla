--------------------------- MODULE MCReplayRanges ---------------------------
(***************************************************************************)
(* The range algebra of packages/replay over every small input: every set  *)
(* of committed ranges, overlapping or not, and every window below a       *)
(* bounded height, each operator compared with what it promises.           *)
(***************************************************************************)
EXTENDS ReplayRanges, SequencesExt

CONSTANT Top   \* bound: the highest block height

AllRanges == { r \in [fromBlock : 1..Top, toBlock : 1..Top] : r.fromBlock <= r.toBlock }

Heights(s) == UNION { r.fromBlock..r.toBlock : r \in s }

\* No height lies in two ranges of s.
Disjoint(s) == \A r, q \in s : r # q => r.toBlock < q.fromBlock \/ q.toBlock < r.fromBlock

----------------------------------------------------------------------------
\* A slip: a range nested in an earlier one takes the cursor back.
visitBack(acc, r) ==
  [gaps   |-> IF r.fromBlock > acc.cursor
                THEN acc.gaps \cup {[fromBlock |-> acc.cursor, toBlock |-> r.fromBlock - 1]}
                ELSE acc.gaps,
   cursor |-> r.toBlock + 1]

\* The loop of findRangeGaps, range.ts:186-194, over the sorted ranges: what one range
\* does to the gaps and the cursor.
visit(acc, r) ==
  [gaps   |-> IF r.fromBlock > acc.cursor
                THEN acc.gaps \cup {[fromBlock |-> acc.cursor, toBlock |-> r.fromBlock - 1]}
                ELSE acc.gaps,
   cursor |-> IF r.toBlock >= acc.cursor THEN r.toBlock + 1 ELSE acc.cursor]

sweep(sorted, w) ==
  LET seen[i \in 0..Len(sorted)] ==
        IF i = 0 THEN [gaps |-> {}, cursor |-> w.fromBlock] ELSE visit(seen[i - 1], sorted[i])
      end == seen[Len(sorted)]
  IN  end.gaps \cup (IF end.cursor <= w.toBlock
                        THEN {[fromBlock |-> end.cursor, toBlock |-> w.toBlock]} ELSE {})

\* Every order in which the code's sort may leave ranges with the same start.
Sorted(s) ==
  { q \in SetToSeqs(s) : \A i, j \in 1..Len(q) : i < j => q[i].fromBlock <= q[j].fromBlock }

\* The gaps are exactly the heights of the window that no committed range covers,
\* whatever order the sort leaves equal starts in, and the sweep of the code finds
\* the set the other modules use (findRangeGaps, range.ts).
GapsAreUncovered(covered, window) ==
  LET gaps == findRangeGaps(covered, window) IN
  /\ Heights(gaps) \cap (window.fromBlock..window.toBlock)
       = (window.fromBlock..window.toBlock) \ Heights(covered)
  /\ Disjoint(gaps)
  /\ NoGaps(covered, window) <=> gaps = {}
  /\ Cardinality(covered) <= 4 => \A q \in Sorted(covered) : sweep(q, window) = gaps

\* Replaying every reported gap closes the window: no further gap hides behind
\* the first ones (isGapClosed, completeness.ts).
RecoveryCloses(covered, window) == NoGaps(covered \cup findRangeGaps(covered, window), window)

\* The heights of r, and no others, each in one of the pieces of s.
Partitions(s, r) == Disjoint(s) /\ Heights(s) = r.fromBlock..r.toBlock

\* Planning and splitting lose no height, add none and make progress: a plan cuts a
\* window into chunks of at most the given width ("chunk n+1 starts exactly one block
\* after chunk n ends", plan.ts), a split cuts a range into two shorter ones.
WorkPartitions(window) ==
  /\ \A width \in 1..Top + 1 :
       LET plan == planRanges(window.fromBlock, window.toBlock, width) IN
       Partitions(plan, window) /\ \A r \in plan : spanOf(r) \in 1..width
  /\ LET halves == splitRange(window) IN
     halves # {} => /\ Partitions(halves, window)
                    /\ \A r \in halves : spanOf(r) \in 1..(spanOf(window) - 1)

Exact ==
  \A window \in AllRanges :
    /\ WorkPartitions(window)
    /\ \A covered \in SUBSET AllRanges :
         GapsAreUncovered(covered, window) /\ RecoveryCloses(covered, window)
=============================================================================
