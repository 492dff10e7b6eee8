----------------------------- MODULE RpcQuorum -----------------------------
(***************************************************************************)
(* packages/rpc-quorum: which endpoints count as independent witnesses,    *)
(* when their answers are a quorum, what block may be pinned from it, and  *)
(* how one request is retried.  Operators only; the collector, the agent   *)
(* and the CLI call them on what they have read.                           *)
(*                                                                         *)
(* An endpoint is a record [id, trustDomain, providerGroup, secretRef,     *)
(* host].  Ids and trust domains are naturals, so that the code's string   *)
(* order on them is an order here too.                                     *)
(***************************************************************************)
EXTENDS Integers, Sequences, FiniteSets, SequencesExt

---------------------------------------------------------------------------
\* Independence.  A shared trust domain OR a shared provider group joins two
\* endpoints, transitively.

\* The elements of s that are in A, in the order of s.
Keep(s, A) ==
  LET kept[i \in 0..Len(s)] ==
        IF i = 0 THEN <<>> ELSE IF s[i] \in A THEN Append(kept[i - 1], s[i]) ELSE kept[i - 1]
  IN  kept[Len(s)]

\* A slip: a shared provider group does not join.
joinItemDomains(components, item) ==
  LET touched == {c \in ToSet(components) : item.trustDomain \in c.domains}
      joined  == Keep(components, touched)
      kept    == Keep(components, ToSet(components) \ touched)
  IN  Append(kept,
        [domains   |-> {item.trustDomain} \cup UNION {c.domains : c \in ToSet(joined)},
         providers |-> {item.providerGroup} \cup UNION {c.providers : c \in ToSet(joined)},
         items     |-> <<item>> \o FlattenSeq([i \in DOMAIN joined |-> joined[i].items])])

\* One component is [domains, providers, items]: the scan of the code, which
\* merges every component the next item touches, in the order it meets them.
joinItem(components, item) ==
  LET touched == {c \in ToSet(components) : \/ item.trustDomain \in c.domains
                                           \/ item.providerGroup \in c.providers}
      joined  == Keep(components, touched)
      kept    == Keep(components, ToSet(components) \ touched)
  IN  Append(kept,
        [domains   |-> {item.trustDomain} \cup UNION {c.domains : c \in ToSet(joined)},
         providers |-> {item.providerGroup} \cup UNION {c.providers : c \in ToSet(joined)},
         items     |-> <<item>> \o FlattenSeq([i \in DOMAIN joined |-> joined[i].items])])

\* The failure domains of a sequence of items, each a sequence of items.
independenceGroups(items) ==
  LET scan[i \in 0..Len(items)] == IF i = 0 THEN <<>> ELSE joinItem(scan[i - 1], items[i])
      components == scan[Len(items)]
  IN  [i \in DOMAIN components |-> components[i].items]

\* One endpoint under two names: the pair is folded into one trust domain.
conclusive(a, b) ==
  \/ a.secretRef = b.secretRef
  \/ a.host # "unresolved" /\ a.host = b.host

\* Every pair declared independent that is conclusively the same.  The code lists them in
\* id order; however they are listed, folding them in makes the same domains.
correlateEndpoints(endpoints) ==
  LET Pairs == {p \in ToSet(endpoints) \X ToSet(endpoints) :
                  /\ p[1].id < p[2].id
                  /\ p[1].trustDomain # p[2].trustDomain
                  /\ conclusive(p[1], p[2])}
  IN  SetToSeq({<<p[1].id, p[2].id>> : p \in Pairs})

\* Fold one merged pair into the smaller of the two domains.
mergePair(domains, pair) ==
  IF ~({pair[1], pair[2]} \subseteq DOMAIN domains) THEN domains
  ELSE LET one   == domains[pair[1]]
           other == domains[pair[2]]
       IN  [id \in DOMAIN domains |->
              IF domains[id] \in {one, other} THEN (IF one < other THEN one ELSE other)
              ELSE domains[id]]

\* Every merged pair folded in, one after the other.
mergedDomains(declared, merges) ==
  LET merged[i \in 0..Len(merges)] ==
        IF i = 0 THEN declared ELSE mergePair(merged[i - 1], merges[i])
  IN  merged[Len(merges)]

\* Failure domains once conclusive correlations are applied.
collapsedIndependenceGroups(endpoints, merges) ==
  LET declared == [id \in {e.id : e \in ToSet(endpoints)} |->
                     (CHOOSE e \in ToSet(endpoints) : e.id = id).trustDomain]
      domains  == mergedDomains(declared, merges)
      claims   == [i \in DOMAIN endpoints |->
                     [trustDomain   |-> domains[endpoints[i].id],
                      providerGroup |-> endpoints[i].providerGroup,
                      item          |-> endpoints[i]]]
      groups   == independenceGroups(claims)
  IN  [i \in DOMAIN groups |-> [j \in DOMAIN groups[i] |-> groups[i][j].item]]

\* One witness per failure domain: the smallest id of each.  The code sorts before it
\* groups, to list them in one order; which are grouped does not depend on it.
independentWitnesses(observations) ==
  LET groups == independenceGroups(SetToSeq(observations))
  IN  {CHOOSE o \in ToSet(groups[i]) : \A p \in ToSet(groups[i]) : o.id <= p.id
         : i \in DOMAIN groups}

---------------------------------------------------------------------------
\* Quorum over witness observations: [id, trustDomain, providerGroup, identity,
\* observedAt, head, hash].  An identity field or a hash may be NoAnswer.

NoAnswer == "no-answer"

\* The identity and freshness filter, first failing check first.
rejection(o, expected, policy, now) ==
  IF NoAnswer \in {o.blockchainId, o.evmChainId, o.networkId} THEN "missing-identity"
  ELSE IF o.blockchainId # expected.blockchainId THEN "wrong-blockchain-id"
  ELSE IF expected.genesis \notin {NoAnswer, o.genesis} THEN "wrong-genesis-hash"
  ELSE IF o.evmChainId # expected.evmChainId THEN "wrong-evm-chain-id"
  ELSE IF o.networkId # expected.networkId THEN "wrong-network-id"
  ELSE IF now - o.observedAt > policy.maxAge THEN "stale-observation"
  ELSE "none"

admissible(observations, expected, policy, now) ==
  {o \in observations : rejection(o, expected, policy, now) = "none"}

notLagging(S, policy) ==
  {o \in S : \A p \in S : p.head - o.head <= policy.maxLag}

\* The lowest head of the witnesses kept: all of them can answer for it.
commonHeight(S) == CHOOSE h \in {o.head : o \in S} : \A o \in S : h <= o.head

Quorum(outcome, height, hash, agreeing) ==
  [outcome |-> outcome, height |-> height, hash |-> hash, agreeing |-> agreeing]

\* There is no majority rule: two hashes at one height are a disagreement.
evaluateQuorum(observations, expected, policy, now) ==
  LET kept     == notLagging(admissible(observations, expected, policy, now), policy)
      withHash == {o \in kept : o.hash # NoAnswer}
      hashes   == {o.hash : o \in withHash}
      agreeing == independentWitnesses(withHash)
  IN  IF kept = {} THEN Quorum("insufficient-witnesses", NoAnswer, NoAnswer, {})
      ELSE IF hashes = {} THEN Quorum("no-common-height", NoAnswer, NoAnswer, {})
      ELSE IF Cardinality(hashes) > 1
             THEN Quorum("disagreement", commonHeight(kept), NoAnswer, {})
      ELSE Quorum(IF Cardinality(agreeing) < policy.minIndependent
                    THEN "insufficient-witnesses" ELSE "agreed",
                  commonHeight(kept), CHOOSE h \in hashes : TRUE, agreeing)

\* A different hash at a height already recorded as accepted is never a reorg.
integrityConflict(recorded, observed) ==
  recorded.height = observed.height /\ recorded.hash # observed.hash

---------------------------------------------------------------------------
\* The pin: agreement on a hash AND established finality, or nothing.

\* capability: the evidence of accepted state and whether the finalized tag
\* was probed and supported.
decideFinalityBasis(capability) ==
  IF capability.finalizedTag /\ capability.evidence = "probed-finality-tag" THEN "finalized-tag"
  ELSE IF capability.evidence = "probed-accepted-only" THEN "accepted-latest"
  ELSE "none"

buildPinnedContext(quorum, capability, observedAt, freshness) ==
  LET basis == decideFinalityBasis(capability)
  IN  IF quorum.outcome # "agreed" \/ basis = "none" THEN [ok |-> FALSE]
      ELSE [ok |-> TRUE, height |-> quorum.height, hash |-> quorum.hash, basis |-> basis,
            agreeing |-> quorum.agreeing, expiresAt |-> observedAt + freshness]

isExpired(context, now) == now > context.expiresAt

\* What is missing before a verdict may rest on the reading.
missingAssurance(in) ==
  {c \in {"identity", "acceptedState", "quorum", "pinned", "fresh"} : ~in[c]}
    \cup (IF in.domains < in.required THEN {"domains"} ELSE {})

evaluateGateA(in) == missingAssurance(in) = {}

---------------------------------------------------------------------------
\* One request through one transport.

TRANSIENT_FAULTS == {"timeout", "rate-limited", "transport", "server-error"}

faultForStatus(status) ==
  IF status = 429 THEN "rate-limited"
  ELSE IF status \in {408, 504} THEN "timeout"
  ELSE IF status >= 500 THEN "server-error"
  ELSE "transport"

\* answers[i] is what the i-th attempt meets: "ok", "too-deep", a fault the
\* endpoint reported, "thrown" for a transport that failed or was aborted, or
\* "raised" for an error of this library thrown by the transport itself.
ends(answer) == answer \in {"ok", "too-deep"} \/ answer \notin (TRANSIENT_FAULTS \cup {"thrown"})

\* The first attempt that ends the loop, else the last one allowed.
attemptsMade(answers, maxRetries) ==
  LET ending == {i \in 1..(maxRetries + 1) : ends(answers[i])}
  IN  IF ending = {} THEN maxRetries + 1 ELSE CHOOSE i \in ending : \A j \in ending : i <= j

\* The result, and the milliseconds slept between attempts.
sendChecked(answers, maxRetries, backoff) ==
  LET n    == attemptsMade(answers, maxRetries)
      last == answers[n]
  IN  [attempts |-> n,
       result   |-> CASE last = "too-deep" -> "response-too-deep"
                      [] last = "thrown"   -> "transport"
                      [] OTHER             -> last,
       slept    |-> backoff * (2 ^ (n - 1) - 1)]
=============================================================================
