------------------------------- MODULE Config -------------------------------
(***************************************************************************)
(* packages/config: what a reviewed manifest or policy must be before any   *)
(* of it is used.  A document is [version, kind, secrets, digest, value]:   *)
(* secrets says that the text holds credential material.  A manifest value  *)
(* is [name, approved, mode, homeDecimals, home, fromBlock, chains,         *)
(* remotes]; chains lists the home chain first.                            *)
(***************************************************************************)
EXTENDS Integers, Sequences, FiniteSets, SequencesExt

SupportedVersions == {"sentinel.ictt/v1alpha1"}

domainsOf(chain) == {e.trustDomain : e \in ToSet(chain.endpoints)}

---------------------------------------------------------------------------
\* The bounds of the strict schemas.

zEndpoint(e) == e.archiveDepth \in {"full", "pruned", "unknown"} /\ e.secretRef.allowed

zChainIdentity(chain) ==
  /\ Len(chain.endpoints) \in 1..8
  /\ \A e \in ToSet(chain.endpoints) : zEndpoint(e)
  /\ chain.quorum \in 2..8
  /\ chain.finality \in {"accepted-quorum", "settled-quorum"}

zSpec(m) ==
  /\ m.mode \in {"canonical-erc20", "native"} /\ m.homeDecimals \in 0..77
  /\ Len(m.chains) - 1 \in 1..32 /\ Cardinality(m.remotes) = Len(m.chains) - 1
  /\ \A c \in ToSet(m.chains) : zChainIdentity(c)
  /\ \A r \in m.remotes : r.decimals \in 0..77

zEvidence(p) ==
  /\ p.maxAge \in Nat \ {0} /\ p.maxAge <= 86400
  /\ p.expiresAfter \in Nat \ {0} /\ p.expiresAfter <= 604800
zQuorum(p)   == p.minDomains \in 2..8
zDataPath(p) == p.maxRetries \in 0..5 /\ p.maxLogRange \in Nat \ {0} /\ p.maxLogRange <= 100000

zPolicySpec(p) == zEvidence(p) /\ zQuorum(p) /\ zDataPath(p)

---------------------------------------------------------------------------
\* Cross-field rules.

\* More domains are asked for than the endpoints have between them.
fakeQuorum(chain, required) == Cardinality(domainsOf(chain)) < required

\* What is wrong with a chain on its own.
chainIssues(chain) ==
  LET Twice(field(_)) == \E i, j \in DOMAIN chain.endpoints :
                           i # j /\ field(chain.endpoints[i]) = field(chain.endpoints[j])
      When(bad, issue) == IF bad THEN {issue} ELSE {}
  IN  When(~chain.anchored, "not-anchored")
        \cup When(Twice(LAMBDA e : e.id), "DUPLICATE_ENDPOINT")
        \cup When(Twice(LAMBDA e : e.secretRef), "DUPLICATE_ENDPOINT")
        \cup When(fakeQuorum(chain, chain.quorum), "FAKE_QUORUM")
        \cup When(chain.finality = "accepted-quorum" /\ ~chain.acceptedOnly, "unfinalized-queries")
        \cup When(chain.blockchainId = chain.subnetId, "subnet-is-blockchain")

checkManifestInvariants(m) ==
  (UNION {chainIssues(c) : c \in ToSet(m.chains)})
    \cup (IF m.fromBlock > m.chains[1].deploymentBlock THEN {"census-starts-late"} ELSE {})
    \cup (IF IsInjective([i \in DOMAIN m.chains |-> m.chains[i].blockchainId]) THEN {} ELSE {"duplicate-blockchain"})

---------------------------------------------------------------------------
\* Loading.

\* A version of a later build, or the document of another kind, is refused.
checkApiVersion(document, kind) == document.kind = kind /\ document.version \in SupportedVersions

\* Whether a document may be used: each gate only sees what passed the last.
loadDocument(document, kind, fitsSchema, issues) ==
  /\ ~document.secrets
  /\ checkApiVersion(document, kind)
  /\ fitsSchema
  /\ issues = {}

loadManifest(document) ==
  loadDocument(document, "ICTTDeployment", zSpec(document.value), checkManifestInvariants(document.value))
loadPolicy(document) == loadDocument(document, "SentinelPolicy", zPolicySpec(document.value), {})

\* Where the two meet: a policy no chain could satisfy is an error now.
assertManifestMeetsPolicy(m, policy) == \A c \in ToSet(m.chains) : ~fakeQuorum(c, policy.minDomains)

collectSecretRefs(m) == UNION {{e.secretRef.name : e \in ToSet(c.endpoints)} : c \in ToSet(m.chains)}
=============================================================================
