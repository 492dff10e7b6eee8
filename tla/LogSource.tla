------------------------------ MODULE LogSource ------------------------------
(***************************************************************************)
(* The agent's log source (apps/agent/src/log-source.ts), the endpoint     *)
(* reader under it (rpc.ts) and the local checks the replay engine makes of *)
(* what it returns (packages/replay/src/range.ts): how the answers of the  *)
(* endpoints of one witness become a range that can be compared with the   *)
(* range of another witness, or a reason why there is none.                *)
(*                                                                         *)
(* Pure: an endpoint's answer is a function of the operation.  A transport *)
(* is [fails, answers]: the operations whose HTTP exchange fails, and what *)
(* the others return, with whether it has the shape that was asked for.    *)
(* A digest is the content it is taken of.                                 *)
(***************************************************************************)
EXTENDS ReplayRanges, Sequences, SequencesExt, TLC

Q == INSTANCE RpcQuorum

---------------------------------------------------------------------------
\* One request (rpc.ts): any failure of the exchange throws, whatever it is - no
\* URL, a timeout, a status, a body too large or too deep, an error object.

Unavailable == [ok |-> FALSE, shaped |-> FALSE, value |-> {}]

read(transport, op) ==
  IF op.op \in transport.fails THEN Unavailable
  ELSE [ok |-> TRUE] @@ transport.answers[op]

LogsOp(range) == [op |-> "logs", at |-> range]
BlockOp(h)    == [op |-> "block-by-number", at |-> h]
FinalizedOp   == [op |-> "finalized", at |-> 0]
HeadOp        == [op |-> "head", at |-> 0]

\* The first endpoint of the witness, in manifest order, whose exchange succeeds.
\* What it returned is decoded afterwards: a malformed answer is not retried.
readOne(witness, transports, op) ==
  LET answering == {i \in DOMAIN witness : read(transports[witness[i].id], op).ok}
      first     == CHOOSE i \in answering : \A j \in answering : i <= j
  IN  IF answering = {} THEN Unavailable ELSE read(transports[witness[first].id], op)

---------------------------------------------------------------------------
\* Decoding.

\* A block is a [number, hash]; a log a [height, hash, index, copy, removed], copy
\* telling apart the entries an answer repeats.
decodeBlock(reply) == reply.shaped
decodeLogs(reply)  == reply.shaped /\ \A l \in reply.value : ~l.removed

---------------------------------------------------------------------------
\* Witnesses.

\* Failure domains of a chain's endpoints, each in manifest order.
byWitness(endpoints) ==
  LET position(e)  == CHOOSE i \in DOMAIN endpoints : endpoints[i] = e
      ordered(unit) == SortSeq(unit, LAMBDA e, f : position(e) < position(f))
  IN  {ordered(unit) : unit \in
         ToSet(Q!collapsedIndependenceGroups(endpoints, Q!correlateEndpoints(endpoints)))}

\* The height every witness has reached, or nothing when one of them cannot say.
\* Under settled-quorum a witness reports its finalized block.
agreedAcceptedHead(witnesses, transports, settled) ==
  LET reply(w) == readOne(w, transports, IF settled THEN FinalizedOp ELSE HeadOp)
      Says(w)  == reply(w).ok /\ decodeBlock(reply(w))
      heights  == {reply(w).value.number : w \in witnesses}
  IN  IF witnesses = {} \/ \E w \in witnesses : ~Says(w) THEN None
      ELSE CHOOSE h \in heights : \A k \in heights : h <= k

---------------------------------------------------------------------------
\* A range through one witness.

Failed(reason)    == [ok |-> FALSE, reason |-> reason]

\* What an answered read decodes to: "lost" in the exchange, "malformed", or "good".
outcomeOf(reply, good) ==
  IF ~reply.ok THEN "lost" ELSE IF good THEN "good" ELSE "malformed"

\* assertLogRange throws no DecodeError, and neither does a failed exchange.
ReasonOf(outcome) ==
  IF outcome = "malformed" THEN "EMPTY_RESPONSE_AMBIGUITY" ELSE "RETRY_BUDGET_EXHAUSTED"

assertLogRange(range, maxRangeBlocks) ==
  range.fromBlock <= range.toBlock /\ spanOf(range) <= maxRangeBlocks

\* The blocks that back a log and the two ends of the range are read one by one, lowest
\* first; the first read that goes wrong gives the reason.
fetchRange(witness, transports, range, maxRangeBlocks) ==
  LET raw       == readOne(witness, transports, LogsOp(range))
      logsRead  == outcomeOf(raw, decodeLogs(raw))
      heights   == {range.fromBlock, range.toBlock} \cup {l.height : l \in raw.value}
      reply     == [h \in heights |-> readOne(witness, transports, BlockOp(h))]
      blockRead(h) == outcomeOf(reply[h], decodeBlock(reply[h]))
      wrong     == {h \in heights : blockRead(h) # "good"}
      firstWrong == CHOOSE h \in wrong : \A k \in wrong : h <= k
      blocks    == {reply[h].value : h \in heights}
      ends(h)   == {b \in blocks : b.number = h}
  IN  IF ~assertLogRange(range, maxRangeBlocks) THEN Failed(ReasonOf("lost"))
      ELSE IF logsRead # "good" THEN Failed(ReasonOf(logsRead))
      ELSE IF wrong # {} THEN Failed(ReasonOf(blockRead(firstWrong)))
      ELSE IF ends(range.fromBlock) = {} \/ ends(range.toBlock) = {}
        THEN Failed("SILENT_TRUNCATION")
      ELSE IF \E l \in raw.value : \A b \in blocks : b.hash # l.hash
        THEN Failed("MISSING_BLOCK")
      ELSE [ok |-> TRUE, range |-> range, logs |-> raw.value, blocks |-> blocks,
            logCount |-> Cardinality(raw.value), complete |-> TRUE,
            startBlockHash |-> (CHOOSE b \in ends(range.fromBlock) : TRUE).hash,
            endBlockHash   |-> (CHOOSE b \in ends(range.toBlock) : TRUE).hash]

---------------------------------------------------------------------------
\* The engine's checks of an observation (range.ts).

\* A slip: an index answered twice passes for one.
findLogIndexHoleOnly(logs) ==
  \E l \in logs :
    LET higher == {k \in logs : k.hash = l.hash /\ k.index > l.index}
    IN  higher # {} /\ \A k \in higher : k.index # l.index + 1

\* Two neighbours of a block's sorted log indices that are not consecutive: a hole,
\* or an index answered twice.
findLogIndexHole(logs) ==
  \E l \in logs :
    LET same   == {k \in logs : k.hash = l.hash}
        higher == {k \in same : k.index > l.index}
    IN  \/ \E k \in same : k.index = l.index /\ k.copy # l.copy
        \/ higher # {} /\ \A k \in higher : k.index # l.index + 1

\* Bounds, end hashes, count, logs and blocks together.
rangeDigest(o) ==
  [range |-> o.range, start |-> o.startBlockHash, end |-> o.endBlockHash,
   count |-> o.logCount, logs |-> o.logs, blocks |-> o.blocks]

\* The observation with its digest, or the reason it is refused.  The log source only
\* returns complete observations of accepted blocks.
classifyObservation(o) ==
  IF Cardinality(o.logs) # o.logCount THEN Failed("SILENT_TRUNCATION")
  ELSE IF \E l \in o.logs : \A b \in o.blocks : b.hash # l.hash THEN Failed("MISSING_BLOCK")
  ELSE IF ~o.complete
    THEN Failed(IF o.logs = {} THEN "EMPTY_RESPONSE_AMBIGUITY" ELSE "SILENT_TRUNCATION")
  ELSE IF findLogIndexHole(o.logs) THEN Failed("MISSING_LOG")
  ELSE [ok |-> TRUE, digest |-> rangeDigest(o)]

observe(witness, transports, range, maxRangeBlocks) ==
  LET fetched == fetchRange(witness, transports, range, maxRangeBlocks)
  IN  IF fetched.ok THEN classifyObservation(fetched) ELSE fetched
=============================================================================
