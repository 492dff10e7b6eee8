----------------------------- MODULE Projection -----------------------------
(***************************************************************************)
(* packages/replay/src/message-projection.ts: what an adapter observed on  *)
(* a chain becomes an input of the message state machine.                  *)
(*                                                                         *)
(* An observation is [kind, chain, peer, id, height, fact]: the chain whose *)
(* log it is and the other chain the log names.  ctx is the RouteContext:  *)
(* the messenger of each chain and the registry version of a messenger on  *)
(* a chain.  No projection sets a block time (at); a caller may.           *)
(***************************************************************************)
EXTENDS Integers, SequencesExt

NoTime == -1   \* the fact carries no block timestamp

TELEPORTER_KINDS ==
  [sent |-> "icm-sent", received |-> "delivered", executed |-> "execution-succeeded",
   failed |-> "execution-failed", receipt |-> "receipt-observed"]

\* The key is anchored to the source chain's messenger and its version there, so it is
\* the same whichever side of the route saw the fact.
keyFor(source, destination, id, ctx) ==
  LET messenger == ctx.messengerAddressOf[source]
  IN  [id |-> id, source |-> source, destination |-> destination, messenger |-> messenger,
       version |-> ctx.registryProtocolVersionOf[<<source, messenger>>]]

inputOf(kind, message, o, credits) ==
  [kind |-> kind, message |-> message, fact |-> o.fact,
   chain |-> o.chain, height |-> o.height, credits |-> credits, at |-> NoTime]

\* A send and a receipt are logged by the source, the others by the destination.  Only a
\* successful execution carries an economic effect.
projectTeleporter(o, ctx) ==
  LET kind == TELEPORTER_KINDS[o.kind]
      key  == IF o.kind \in {"sent", "receipt"} THEN keyFor(o.chain, o.peer, o.id, ctx)
                                                ELSE keyFor(o.peer, o.chain, o.id, ctx)
  IN  inputOf(kind, key, o, kind = "execution-succeeded")

\* The caller says whether the accounting moved value.
projectSourceAccounting(o, carries, ctx) ==
  inputOf("source-accounted", keyFor(o.chain, o.peer, o.id, ctx), o, carries)

projectUnsupportedShape(o, ctx) ==
  inputOf("unsupported", keyFor(o.chain, o.peer, o.id, ctx), o, FALSE)

\* Observations that are no lifecycle facts are reported, not projected.
projectObservations(observations, ctx) ==
  LET IsTeleporter(o) == o.kind \in DOMAIN TELEPORTER_KINDS
      lifecycle == SelectSeq(observations, IsTeleporter)
  IN  [inputs  |-> [i \in DOMAIN lifecycle |-> projectTeleporter(lifecycle[i], ctx)],
       skipped |-> SelectSeq(observations, LAMBDA o : ~IsTeleporter(o))]
=============================================================================
