-------------------------- MODULE MessageLifecycle --------------------------
(***************************************************************************)
(* The semantic state of a cross-chain message (packages/state-machine):   *)
(* transactions are folded into one set of facts per message, in whatever  *)
(* order they are read, and everything the product says of a message is    *)
(* derived from that set and an injected clock.                            *)
(*                                                                         *)
(* Abstractions: a raw fact is a transaction and the place of its log;     *)
(* counters of attempts, envelopes and the lists kept for evidence are     *)
(* left out.                                                               *)
(***************************************************************************)
EXTENDS Projection, FiniteSets

CONSTANTS
  Message,       \* keys: records [id, source, destination, messenger, version]
  Transaction,   \* records [inputs, complete]: what an adapter may hand over
  Chain,
  Height,        \* the heights a cut may be pinned at
  Time,          \* the evaluation times
  StaleAfter

ASSUME LifecycleAssumption ==
  /\ Height \subseteq Nat /\ Time \subseteq Nat /\ StaleAfter \in Nat
  /\ \A t \in Transaction : t.complete \in BOOLEAN /\ t.inputs \in Seq(ToSet(t.inputs))

NoCut == -1    \* the chain has no pinned cut

VARIABLES
  agg,      \* the facts of each message: MessageAggregate
  folded    \* the transactions folded so far

lifecycleVars == <<agg, folded>>

InputsOf(t) == ToSet(t.inputs)
MessagesOf(t) == { i.message : i \in InputsOf(t) }

LifecycleInit == agg = [m \in Message |-> {}] /\ folded = {}

----------------------------------------------------------------------------
(* aggregate.ts and transaction.ts *)

MixedTransaction(t) == \E i, j \in InputsOf(t) : i.fact.tx # j.fact.tx

\* The messageId alone chooses the inputs of a message ...
ofMessage(m, t) == { k \in DOMAIN t.inputs : t.inputs[k].message.id = m.id }

\* ... and reduce throws at one of another route.
KeyMismatch(m, t) == \E k \in ofMessage(m, t) : t.inputs[k].message # m

\* A slip: half a transaction is folded.
throwsMixedOnly(m, t) == MixedTransaction(t) \/ KeyMismatch(m, t)

throws(m, t) == MixedTransaction(t) \/ ~ t.complete \/ KeyMismatch(m, t)

\* Idempotent by raw fact: the first observation wins.
reduceTransaction(m, a, t) ==
  LET new   == { k \in ofMessage(m, t) : \A f \in a : f.fact # t.inputs[k].fact }
      first == { k \in new : \A j \in new : t.inputs[j].fact = t.inputs[k].fact => k <= j }
  IN  a \cup { t.inputs[k] : k \in first }

\* Every message of the transaction takes its facts; an exception refuses all of it.
Fold(t) ==
  /\ \A m \in MessagesOf(t) : ~ throws(m, t)
  /\ agg' = [m \in Message |->
               IF m \in MessagesOf(t) THEN reduceTransaction(m, agg[m], t) ELSE agg[m]]
  /\ folded' = folded \cup { i.fact.tx : i \in InputsOf(t) }

----------------------------------------------------------------------------
(* states.ts and derive.ts *)

DestinationEffects == {"execution-succeeded", "execution-retried"}
SourceEffects == {"source-accounted"}

\* isHealthyState
Healthy == {"EXECUTED_SUCCESS", "RETRIED_SUCCESS"}
Unknown == {"UNRECEIVABLE_BY_VERSION_POLICY", "PAUSED_VERSION", "STALE", "ORPHANED",
            "UNCLASSIFIABLE"}

stateVerdict(s) ==
  IF s \in Healthy THEN "OK" ELSE IF s \in Unknown THEN "UNKNOWN" ELSE "WARN"

\* The fail-closed precedence: the first line that applies names the state.
Precedence(a) ==
  LET has(k) == \E f \in a : f.kind = k
  IN << <<has("unsupported"),                    "UNCLASSIFIABLE">>,
        <<has("orphaned"),                       "ORPHANED">>,
        <<has("paused-version"),                 "PAUSED_VERSION">>,
        <<has("unreceivable-by-version-policy"), "UNRECEIVABLE_BY_VERSION_POLICY">>,
        <<has("execution-retried"),              "RETRIED_SUCCESS">>,
        <<has("execution-succeeded"),            "EXECUTED_SUCCESS">>,
        <<has("execution-failed") /\ (has("send-retry") \/ has("envelope-resigned")),
                                                 "RETRY_PENDING">>,
        <<has("execution-failed"),               "EXECUTED_FAILED">>,
        <<has("delivered"),                      "DELIVERED">>,
        <<has("icm-sent") \/ has("send-retry"),  "ICM_SENT">>,
        <<has("source-accounted"),               "SOURCE_ACCOUNTED">>,
        <<has("intent-observed"),                "INTENT_OBSERVED">>,
        <<has("source-application-emitted"),     "SOURCE_APPLICATION_EMITTED">>,
        <<has("receipt-observed"),               "RECEIPT_OBSERVED">>,
        <<TRUE,                                  "UNCLASSIFIABLE">> >>

\* A slip: the last fact to arrive on the destination decides.
lifecycleStateFailureFirst(a) ==
  IF \E f \in a : f.kind = "execution-failed" THEN "EXECUTED_FAILED"
  ELSE LET p == Precedence(a) IN p[Min({ k \in DOMAIN p : p[k][1] })][2]

lifecycleState(a) == LET p == Precedence(a) IN p[Min({ k \in DOMAIN p : p[k][1] })][2]

\* economicEffectOf: the distinct destination facts that carry an effect.
credits(a) == { f.fact : f \in { g \in a : g.kind \in DestinationEffects /\ g.credits } }

observed(a) == { f.at : f \in a } \ {NoTime}

stale(a, now) ==
  /\ stateVerdict(lifecycleState(a)) = "WARN"
  /\ observed(a) # {} /\ now - Max(observed(a)) > StaleAfter

deriveState(a, now) ==
  LET s == IF stale(a, now) THEN "STALE" ELSE lifecycleState(a)
  IN [state |-> s,
      verdict |-> IF Cardinality(credits(a)) > 1 THEN "CRITICAL" ELSE stateVerdict(s)]

----------------------------------------------------------------------------
(* watermark.ts: the facts of all messages against one pinned cut per chain *)

inCut(f, cut) == f.height <= cut[f.chain]

\* A slip: one source fact inside the cut closes the edge.
openEdgesAny(a, cut) ==
  /\ \E f \in a : f.kind \in DestinationEffects /\ inCut(f, cut)
  /\ \A f \in a : f.kind \in SourceEffects \cup {"icm-sent"} => ~ inCut(f, cut)

\* The causes of an execution inside the cut: none observed, or one outside.
openEdges(a, cut) ==
  LET sources == { f \in a : f.kind \in SourceEffects \cup {"icm-sent"} }
  IN /\ \E f \in a : f.kind \in DestinationEffects /\ inCut(f, cut)
     /\ sources = {} \/ \E f \in sources : ~ inCut(f, cut)

gap(cut) == \E m \in Message : \E f \in agg[m] : cut[f.chain] = NoCut

cutPermitsEvaluation(cut) == ~ gap(cut) /\ \A m \in Message : ~ openEdges(agg[m], cut)

----------------------------------------------------------------------------
(* Properties *)

\* A transaction that is handed over as complete is all of it, and a log is one input of
\* its message (TransactionBatch.complete, TransitionInput.fact).
WholeTransactions ==
  \A t, u \in { v \in Transaction : v.complete } :
    (\E i \in InputsOf(t), j \in InputsOf(u) : i.fact.tx = j.fact.tx) => InputsOf(t) = InputsOf(u)
OneInputPerLog ==
  \A i, j \in UNION { InputsOf(t) : t \in Transaction } : i.message = j.message /\ i.fact = j.fact => i = j

\* What the chains hold of m in the transactions folded so far.
OnChain(m) ==
  { i \in UNION { InputsOf(t) : t \in { u \in Transaction : u.complete } } :
      i.message = m /\ i.fact.tx \in folded }

\* Whatever the order, the repetitions and the pages in which transactions were read, a
\* message has exactly the facts of the whole transactions folded (aggregate.ts: "ingestion
\* order cannot change the answer"; transaction.ts: "reduced whole or not at all").
OrderFree == \A m \in Message : agg[m] = OnChain(m)

\* A late fact never makes a bad answer better: two credits stay CRITICAL, a message with an
\* unsupported fact is never OK, and a healthy close is never reopened into flight
\* (derive.ts, the order of lifecycleState).
FailClosed ==
  [][\A m \in Message, now \in Time :
       agg'[m] # agg[m] =>
       LET before == deriveState(agg[m], now).verdict
           after == deriveState(agg'[m], now).verdict
       IN /\ before = "CRITICAL" => after = "CRITICAL"
          /\ (\E f \in agg[m] : f.kind = "unsupported") => after # "OK"
          /\ before = "OK" => after # "WARN"]_lifecycleVars

\* On a cut that permits an evaluation, no message reads as executed by its facts inside the
\* cut unless all its observed source evidence is inside too (watermark.ts: "if a destination
\* execution is inside the cut, the source accounting and send ... must be inside").
NoPhantomShortfall ==
  \A cut \in [Chain -> Height \cup {NoCut}] :
    cutPermitsEvaluation(cut) =>
      \A m \in Message :
        LET inside == { f \in agg[m] : inCut(f, cut) }
            causes == { f \in agg[m] : f.kind \in {"source-accounted", "icm-sent"} }
        IN lifecycleState(inside) \in Healthy =>
             causes # {} /\ causes \subseteq inside
=============================================================================
