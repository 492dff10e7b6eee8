---------------------------- MODULE MCAlertOutbox ----------------------------
\* What the two rules of the agent may observe, for AlertOutbox.
EXTENDS AlertOutbox, TLC

CONSTANTS p1, p2, oncall, dash, complete1, complete2, blocked1, blocked2, unavailable

\* The economic rule.  ACC-A00-RECONCILED comes first whenever Gate A passes: with an OK
\* and with a coverage shortfall (WARN; an UNKNOWN of Gate B alone would do as the WARN
\* does).  A proven breach names itself, here an excess of remote representation, and so
\* does a collection without a bundle (daemon.ts:388-397).  A bundle's content hash is
\* always new; the digest of a missing one is that of its reasons.
Economics ==
  { [verdict |-> "OK", reason |-> "ACC_A00_RECONCILED", digest |-> None],
    [verdict |-> "WARN", reason |-> "ACC_A00_RECONCILED", digest |-> None],
    [verdict |-> "CRITICAL", reason |-> "ACC_A01_EXCESS_REMOTE_REPRESENTATION", digest |-> None],
    [verdict |-> "UNKNOWN", reason |-> "COLLECT_UNAVAILABLE", digest |-> unavailable] }

\* The replay rule: an OK has no reason of its own, a blocked lane has, and the digest
\* of either names the checkpoint it was seen at.
Replayed ==
  {[verdict |-> "OK", reason |-> "REPLAY_OK", digest |-> complete1],
   [verdict |-> "OK", reason |-> "REPLAY_OK", digest |-> complete2],
   [verdict |-> "UNKNOWN", reason |-> "RANGE_INDIVISIBLE", digest |-> blocked1],
   [verdict |-> "UNKNOWN", reason |-> "RANGE_INDIVISIBLE", digest |-> blocked2]}

Warns == [t \in Target |-> IF t = oncall THEN "UNKNOWN" ELSE "WARN"]
=============================================================================
