------------------------------ MODULE MCReplay ------------------------------
\* Model values for Replay.  The hashes and the groups are interchangeable.
EXTENDS Replay, MCReplayRanges, TLC

CONSTANTS w1, w2, g1, g2, a, b

\* Workers are interchangeable too: their locals are the only place they appear.
Symmetric == Permutations({w1, w2}) \cup Permutations({a, b}) \cup Permutations({g1, g2})

Source == INSTANCE MCLogSource

\* The range arithmetic loses no height and invents none, for every window and every
\* set of ranges a ledger could hold: gap detection, recovery, planning and splitting
\* (plan.ts, range.ts).  And whatever the endpoints of two witnesses answer, a range is
\* agreed on only with the chain's own content when one of the witnesses is honest,
\* and one endpoint under two names is one witness (log-source.ts, range.ts).  Neither
\* says anything of the state, so both are evaluated once.
RangesExact == Init => Exact /\ Source!SourceExact

\* A lane no pass of which died and no hint reordered catches up and stays green, once
\* providers answer alike again and again ("the next run replays the same range
\* rather than skipping it", engine.ts:30), as long as the last success is fresh: a
\* lane with no new block to replay goes stale when the clock outruns the TTL.
CatchesUpUndisturbed ==
  [](crashes = 0 /\ clock <= FreshnessTtl /\ Unhinted) => CatchesUp
=============================================================================
