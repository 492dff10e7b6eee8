------------------------------- MODULE MCCli -------------------------------
(***************************************************************************)
(* The command line for TLC: one approved deployment of two chains, three   *)
(* endpoints in two failure domains each, a revision of its manifest and    *)
(* three that must be refused, two pins, six bundles, and the command lines *)
(* worth telling apart.                                                     *)
(***************************************************************************)
EXTENDS Cli

Argv(words, flags, value) == [words |-> words, flags |-> flags, value |-> value, repeated |-> FALSE]

Reviewed(words, more) ==
  LET value == more @@ ("--manifest" :> "m" @@ "--policy" :> "p")
  IN  Argv(words, DOMAIN value, value)

Offline(argv) == [argv EXCEPT !.flags = @ \cup {"--offline"}]
Resume(argv)  == [argv EXCEPT !.flags = @ \cup {"--resume"}]

With(flag, path, argv) == [argv EXCEPT !.value[flag] = path]
Discoveries == {Reviewed(<<"discover">>, "--pins" :> p) : p \in {"early", "late"}}
Replays     == {Reviewed(<<"replay">>, "--file" :> f @@ "--max-facts" :> 1) : f \in {"good", "expiring"}}

MCArgvs ==
  Discoveries \cup {Resume(a) : a \in Discoveries}
    \cup Replays \cup {Resume(a) : a \in Replays} \cup {Offline(a) : a \in Replays}
    \cup {Reviewed(<<"check">>, "--file" :> f) : f \in {"good", "expiring", "foreign", "breach", "absent"}}
    \cup {Reviewed(<<"evidence", "export">>, "--file" :> "expiring"),
          Reviewed(<<"collect">>, "--max-facts" :> 2),
          Reviewed(<<"doctor">>, "--pins" :> "late"),
          Reviewed(<<"check">>, "--file" :> "collected.evidence.json"),
          Reviewed(<<"check">>, "--file" :> "replayed.evidence.json"),
          Reviewed(<<"check">>, "--file" :> "collected.evidence.html"),
          Reviewed(<<"check">>, "--file" :> "accepted"),
          Reviewed(<<"discover">>, "--pins" :> "twice"),
          Resume(With("--manifest", "revised", Reviewed(<<"discover">>, "--pins" :> "late"))),
          With("--manifest", "fake", Reviewed(<<"check">>, "--file" :> "good")),
          With("--manifest", "future", Reviewed(<<"check">>, "--file" :> "good")),
          With("--manifest", "late", Reviewed(<<"discover">>, "--pins" :> "late")),
          With("--policy", "strict", Reviewed(<<"check">>, "--file" :> "good")),
          [Reviewed(<<"check">>, "--file" :> "good") EXCEPT !.repeated = TRUE],
          Argv(<<"check">>, {"--fixture"}, "--fixture" :> "healthy"),
          Argv(<<"replay">>, {"--fixture", "--max-facts"}, "--fixture" :> "healthy" @@ "--max-facts" :> 1),
          Argv(<<"evidence", "export">>, {"--fixture"}, "--fixture" :> "healthy"),
          Argv(<<"evidence", "verify">>, {"--file"}, "--file" :> "breach"),
          Argv(<<"evidence", "verify">>, {"--file"}, "--file" :> "discovery.json"),
          Argv(<<"doctor">>, {}, <<>>), Argv(<<>>, {}, <<>>), Argv(<<"init">>, {"--version"}, <<>>)}

Endpoint(id, domain, group) ==
  [id |-> id, trustDomain |-> domain, providerGroup |-> group, archiveDepth |-> "full",
   secretRef |-> [name |-> <<"RPC_1", "RPC_2", "RPC_3">>[id], allowed |-> TRUE]]
Chain(id) ==
  [blockchainId |-> id, subnetId |-> "subnet", address |-> id, evmChainId |-> id, deploymentBlock |-> 1,
   finality |-> "settled-quorum", acceptedOnly |-> FALSE, anchored |-> TRUE, quorum |-> 2, role |-> id,
   codeHash |-> id, proxy |-> [kind |-> "none", implementation |-> None, admin |-> None],
   allowedImplementations |-> {}, endpoints |-> <<Endpoint(1, 1, "x"), Endpoint(2, 1, "y"), Endpoint(3, 2, "z")>>]

Remote(id, address) == [blockchainId |-> id, address |-> address, decimals |-> 6]
Deployment ==
  [name |-> "d1", approved |-> TRUE, mode |-> "canonical-erc20", homeDecimals |-> 18, fromBlock |-> 1,
   chains |-> <<Chain("home"), Chain("remote")>>, remotes |-> {Remote("remote", "a")}]
Document(kind, digest, value) ==
  [version |-> "sentinel.ictt/v1alpha1", kind |-> kind, secrets |-> FALSE, digest |-> digest, value |-> value]

\* The reviewed manifest, a revision of it that names another remote, and
\* documents that must not be used.
MCManifests ==
  LET m == Document("ICTTDeployment", "md", Deployment)
  IN  [m |-> m,
       revised |-> [m EXCEPT !.digest = "md2", !.value.name = "d2", !.value.remotes = {Remote("remote", "b")}],
       fake |-> [m EXCEPT !.digest = "md3", !.value.chains[2].endpoints = <<Endpoint(1, 1, "x"), Endpoint(2, 1, "z")>>],
       future |-> [m EXCEPT !.digest = "md4", !.version = "sentinel.ictt/v2"],
       late |-> [m EXCEPT !.digest = "md5", !.value.fromBlock = 2]]
MCPolicies ==
  LET p == Document("SentinelPolicy", "pd",
             [minDomains |-> 2, maxAge |-> 3, expiresAfter |-> 3, maxLogRange |-> 2, maxRetries |-> 1])
  IN  [p |-> p, strict |-> [p EXCEPT !.digest = "pd2", !.value.minDomains = 3]]

Pin(id, number) == [blockchainId |-> id, number |-> number, hash |-> number]
MCPinFiles  == [early |-> <<Pin("home", 2), Pin("remote", 1)>>, late |-> <<Pin("home", 3), Pin("remote", 1)>>,
                twice |-> <<Pin("home", 2), Pin("home", 3)>>]
MCRegistered == {[block |-> 1, remote |-> <<"remote", "a">>, decimals |-> 6],
                 [block |-> 3, remote |-> <<"other", "b">>, decimals |-> 6]}

Pinned(id, number) ==
  [blockchainId |-> id, evmChainId |-> id, number |-> number, hash |-> number, timestamp |-> 0,
   finality |-> "settled-quorum"]
Bundle(hash, verdict, expires) ==
  [contentHash |-> hash, verifies |-> TRUE, manifestHash |-> "md", policyHash |-> "pd", deployment |-> "d1",
   sourceLocked |-> TRUE, mode |-> "canonical-erc20", requiredGroups |-> 2, observed |-> 0, expires |-> expires,
   verdict |-> verdict, facts |-> 2, chains |-> {Pinned("home", 3), Pinned("remote", 1)},
   fingerprints |-> {[blockchainId |-> c, address |-> c, role |-> c, codeHash |-> c, recognised |-> TRUE,
                      implementation |-> None, admin |-> None, beacon |-> None, implementationHash |-> None] :
                       c \in {"home", "remote"}},
   votes |-> {[blockchainId |-> "home", endpoint |-> 1, trustDomain |-> 1, providerGroup |-> "x"]},
   remotes |-> {Remote("remote", "a") @@ [homeDecimals |-> 18]}]
MCFiles ==
  [good |-> Bundle("b1", "OK", 3), expiring |-> Bundle("b2", "OK", 1), breach |-> Bundle("b3", "CRITICAL", 1),
   foreign |-> [Bundle("b4", "OK", 3) EXCEPT !.deployment = "d2"],
   accepted |-> [Bundle("b7", "OK", 3) EXCEPT !.chains = {Pinned("home", 3), [Pinned("remote", 1) EXCEPT !.finality = "accepted-quorum"]}],
   absent |-> None]
MCScenarios == [healthy |-> Bundle("b5", "OK", 3)]
MCCollected == {None, Bundle("b6", "OK", 1), MCFiles.breach}

\* Endpoints 1 and 2 are one failure domain; at most one domain lies.
Steady(quality) == [e \in 1..3 |-> <<quality[e]>>]
Network(endpoints, hosts) ==
  [endpoints |-> endpoints, hosts |-> hosts, tables |-> {"chain_logs", "evaluations", "schema_migrations"}]
Apart   == [e \in 1..3 |-> <<"h1", "h2", "h3">>[e]]
Shared  == [e \in 1..3 |-> IF e = 1 THEN "unresolved" ELSE "h2"]
Serving == Steady([e \in 1..3 |-> "serves"])
MCAnswers ==
  {Network(Serving, Apart), Network(Serving, Shared),
   [Network(Serving, Apart) EXCEPT !.tables = {"chain_logs"}], [Network(Serving, Apart) EXCEPT !.tables = None],
   Network([Serving EXCEPT ![2] = <<"fails", "moves">>, ![3] = <<"fails", "serves">>], Apart),
   Network([Serving EXCEPT ![1] = <<"garbles">>, ![3] = <<"fails", "fails", "serves">>], Apart),
   Network(Steady([e \in 1..3 |-> IF e = 3 THEN "down" ELSE "hides"]), Apart),
   Network(Steady([e \in 1..3 |-> IF e = 3 THEN "serves" ELSE "hides"]), Apart),
   Network(Steady([e \in 1..3 |-> IF e = 1 THEN "hides" ELSE IF e = 2 THEN "forked" ELSE "pruned"]), Apart)}
MCEnvironment == {"RPC_1", "RPC_2", "RPC_3", "DATABASE_URL"}

MCFileNames == {"discovery-checkpoint.json", "replay-checkpoint.json", "candidate.manifest.json", "discovery.json",
                "collected.evidence.json", "collected.evidence.html", "replayed.evidence.json",
                "replayed.evidence.html", "fixture.evidence.json", "fixture.evidence.html"}
=============================================================================
