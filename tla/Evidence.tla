------------------------------ MODULE Evidence ------------------------------
(***************************************************************************)
(* packages/evidence: the bundle a collection emits, the pure replay of the *)
(* rule over the bundle's own input, and the offline verifier.             *)
(*                                                                         *)
(* A digest is injective and is modelled by the value it digests: the      *)
(* content hash of a bundle is its core, the digest of a fact is its       *)
(* coordinate.  A list the verifier uses as a set is a set.  Anyone may    *)
(* edit a file and recompute its hash (TRUST_BOUNDARY), so what protects a *)
(* bundle is that its parts bind each other.                               *)
(***************************************************************************)
EXTENDS InvariantEngine, Sequences, SequencesExt

CONSTANT ActivationHeight   \* blocks from here on are after ACP-194's activation

ASSUME ActivationAssumption == ActivationHeight \in Nat

Q == INSTANCE RpcQuorum

FactAt(chain, height, hash) == [chain |-> chain, height |-> height, hash |-> hash]

\* Accepted-state quorum no longer stands for blocks after the activation.
finalityBasisStands(basis, height) == basis = "settled-quorum" \/ height < ActivationHeight

---------------------------------------------------------------------------
\* The pure replay.

\* How the one rule enters the aggregate; nothing here is a caller's assertion.
aggregationOf(in, e) ==
  LET divergent == in.witnesses < in.required
  IN  [contributions |->
         {[rule |-> "ACC-ERC20-CANONICAL", result |-> e.result, critical |-> e.critical,
           required |-> TRUE, reasons |-> e.reasons,
           claimMode |-> IF e.result = "UNKNOWN" THEN "INDETERMINATE"
                         ELSE IF e.result = "UNSUPPORTED" THEN "UNSUPPORTED"
                         ELSE "CAUSAL_EXACT"]},
       dataStatus |-> IF divergent THEN "DIVERGENT"
                      ELSE IF ~in.fresh THEN "STALE"
                      ELSE IF in.census # "complete" THEN "PARTIAL"
                      ELSE "COMPLETE",
       coverage |-> IF divergent THEN "UNVERIFIED"
                    ELSE IF in.untracked # {} THEN "PARTIAL" ELSE "COMPLETE",
       missing |-> IF in.remotes = {} THEN {"ACC-ERC20-CANONICAL"} ELSE {},
       previousOkExpired |-> ~in.fresh,
       faults |-> {}]

\* The rule is evaluated once, and bound.
replayProof(in) ==
  CHOOSE r \in {[evaluation |-> e, verdict |-> aggregate(aggregationOf(in, e))]
                   : e \in {evaluateCanonicalErc20(in)}} : TRUE

buildBundle(core) == [core |-> core, contentHash |-> core]

---------------------------------------------------------------------------
\* The verifier.

FactsCited(core) == UNION {t.facts : t \in core.messages}

recognised(core, chain, address) ==
  \E f \in core.fingerprints : f.chain = chain /\ f.address = address /\ f.recognised

Pinned(core, chain, height, hash) ==
  \E c \in core.chains : c.chain = chain /\ c.height = height /\ c.hash = hash

\* The escrow token carries no fingerprint of its own: its balance counts only
\* when a recognised TokenHome names it at the same pin and is asked about.
escrowBound(core, call) ==
  /\ call.path = "escrow"
  /\ \E t \in core.calls :
       /\ t.path = "tokenAddress"
       /\ recognised(core, t.chain, t.target)
       /\ <<t.chain, t.height, t.hash>> = <<call.chain, call.height, call.hash>>
       /\ t.address = call.target
       /\ call.holder = t.target

\* Witnesses of a chain's pinned hash, counted over failure domains.
votesFor(core, c) == {v \in core.votes : v.chain = c.chain /\ v.hash = c.hash}
independentVotes(core, c) == Len(Q!independenceGroups(SetToSeq(votesFor(core, c))))

fewestVotes(core) ==
  LET counts == {independentVotes(core, c) : c \in core.chains}
  IN  CHOOSE n \in counts : \A k \in counts : n <= k

\* A block below a pin carries the votes of every witness of its chain, and no others.
historyHolds(core, b) ==
  LET witnesses == {v \in core.votes : v.chain = b.chain}
  IN  /\ \E c \in core.chains : c.chain = b.chain /\ b.height < c.height
      /\ Cardinality(b.votes) = Cardinality(witnesses)
      /\ \A v \in b.votes : /\ v.hash = b.hash /\ v.chain = b.chain
                            /\ \E w \in witnesses : w.id = v.id /\ w.trustDomain = v.trustDomain
                                                     /\ w.providerGroup = v.providerGroup
      /\ Cardinality({v.id : v \in b.votes}) = Cardinality(witnesses)

\* A fact lies in a pinned block or in a block of the history.
factHolds(core, f) ==
  \/ \E c \in core.chains : c.chain = f.chain /\ c.hash = f.hash /\ c.height = f.height
  \/ \E b \in core.history : b.chain = f.chain /\ b.hash = f.hash /\ b.height = f.height

\* The observation recorded for a path, Absent without one.
observed(core, path) ==
  LET calls == {c \in core.calls : c.path = path}
  IN  IF calls = {} THEN Absent ELSE (CHOOSE c \in calls : TRUE).amount

balancesHold(core, in) ==
  /\ \A r \in in.remotes :
       /\ Absent \notin {r.D, r.S}
       /\ observed(core, "transferredBalance") = r.D
       /\ observed(core, "remoteTotalSupply") = r.S
  /\ in.escrow # Absent
  /\ observed(core, "escrow") = in.escrow

\* Everything the verifier asks for, by name; a bundle is verified when all hold.
Checks(bundle) ==
  LET core == bundle.core
      in   == core.input
      fewest   == fewestVotes(core)
      pins == {r.homePin : r \in in.remotes} \cup {r.remotePin : r \in in.remotes} \cup {in.homePin}
  IN  [hash |-> bundle.contentHash = core,
       references |-> FactsCited(core) \subseteq core.facts,
       admitsNothingMissing |-> core.missing = {} /\ core.contradictory = {},
       replay |-> [evaluation |-> core.evaluation, verdict |-> core.verdict] = replayProof(in),
       provenance |-> /\ core.deployment = in.deployment
                      /\ core.manifestHash = in.manifestHash /\ core.policyHash = in.policyHash
                      /\ core.sourceLock = in.sourceLock /\ core.adapter = in.adapter,
       collections |-> /\ Cardinality(core.chains) >= 2
                       /\ {} \notin {core.fingerprints, core.facts, core.calls, core.messages},
       threshold |-> core.required >= 2 /\ core.required = in.required,
       fingerprints |->
         /\ \A f \in core.fingerprints : \E c \in core.chains : c.chain = f.chain
         /\ \A r \in in.remotes : \E f \in core.fingerprints :
              f.address = r.remote /\ f.recognised = r.fingerprint,
       finality |-> \A c \in core.chains :
         /\ c.basis \in {"accepted-quorum", "settled-quorum"}
         /\ finalityBasisStands(c.basis, c.height),
       quorum |-> /\ \A c \in core.chains : independentVotes(core, c) >= core.required
                  /\ fewest = in.witnesses /\ fewest = core.independent
                  /\ \A v \in core.votes : \E c \in core.chains : c.chain = v.chain,
       pins |-> /\ Absent \notin pins
                /\ \A p \in pins : Pinned(core, p.chain, p.height, p.hash),
       history |-> /\ \A b \in core.history : historyHolds(core, b)
                   /\ \A a, b \in core.history : a.chain = b.chain /\ a.height = b.height => a = b,
       facts |-> \A f \in core.facts : factHolds(core, f),
       calls |-> /\ \A a, b \in core.calls : a.path = b.path => a = b
                 /\ \A c \in core.calls : /\ recognised(core, c.chain, c.target) \/ escrowBound(core, c)
                                          /\ Pinned(core, c.chain, c.height, c.hash),
       balances |-> balancesHold(core, in),
       census |-> /\ core.registered = {r.remote : r \in in.remotes}
                  /\ core.census = in.census,
       freshness |-> core.fresh /\ in.fresh /\ core.lifetime > 0,
       lineage |-> \A t \in core.messages : t.facts # {},
       effects |-> \A e \in in.effects : e.sourceFact # Absent /\ e.sourceFact \in core.facts]

findings(checks) == {c \in DOMAIN checks : ~checks[c]}
=============================================================================
