-------------------------------- MODULE Cli --------------------------------
(***************************************************************************)
(* The command line (apps/cli): what an invocation is refused for, what it  *)
(* reads, the files it leaves in the evidence directory and the code it     *)
(* exits with.  An invocation reads everything first and then writes its    *)
(* files one by one, so it is one step that decides and the steps of        *)
(* AtomicWrite; the next invocation finds what the last one left.           *)
(*                                                                         *)
(* argv is [words, flags, value, repeated]: the positional words, the set   *)
(* of flags given, the value of each flag that takes one (None when it is   *)
(* missing), and whether a flag is given twice.  A path is a key of Files, *)
(* or the name of a file of the evidence directory.  setup is the manifest  *)
(* and the policy of a configured invocation, [manifest, policy], each      *)
(* [value, digest].                                                        *)
(***************************************************************************)
EXTENDS AtomicWrite, Config

CONSTANTS
  Argvs,         \* the command lines an operator may give
  Scenarios,     \* [name -> bundle]: the built-in fixtures
  Files,         \* [path -> bundle, or None when there is no such file]
  Manifests, Policies,  \* [path -> document]
  PinFiles,      \* [path -> sequence of [blockchainId, number, hash]]
  Registered,    \* registrations at the home contract: [block, remote, decimals]
  Answers,       \* what the network may do: [endpoints, hosts, tables]
  Environment,   \* the variables that are set
  Collected,     \* what a collection may come to: a bundle, or None
  DefaultFacts,  \* maxFacts of an invocation that gives none
  MaxFactsBound, MaxClock, MaxRuns, MaxFaults

VARIABLES
  now,
  job,         \* the invocation: what it comes to and what it has still to write, or None
  phase,       \* of its current write
  exits,       \* codes given, with what they were given for
  processed,   \* history: facts of each bundle that some replay went through
  runs, faults

Bundles ==
  ({Files[p] : p \in DOMAIN Files} \cup {Scenarios[s] : s \in DOMAIN Scenarios} \cup Collected) \ {None}

\* A path that is given names a file there is, or may come to be.
Names(argv, flag, paths) == flag \in argv.flags => argv.value[flag] \in paths \cup {None}

\* A digest stands for what it was computed from.
ASSUME CliAssumption ==
  /\ DefaultFacts \in Nat /\ MaxFactsBound \in Nat
  /\ {"replay-checkpoint.json", "discovery-checkpoint.json", "candidate.manifest.json", "discovery.json"}
       \subseteq FileNames
  /\ \A b \in Bundles : /\ b.facts \in Nat /\ b.observed \in Int /\ b.expires \in Int
                         /\ b.verdict \in {"OK", "CRITICAL", "UNKNOWN", "WARN"}
  /\ \A f \in DOMAIN Manifests :
       LET m == Manifests[f].value
       IN  /\ m.fromBlock \in Int /\ m.chains \in Seq(ToSet(m.chains))
           /\ \A c \in ToSet(m.chains) : c.deploymentBlock \in Int /\ c.endpoints \in Seq(ToSet(c.endpoints))
           /\ \A g \in DOMAIN Manifests : Manifests[f].digest = Manifests[g].digest => m = Manifests[g].value
  /\ \A f \in DOMAIN PinFiles : \A i \in DOMAIN PinFiles[f] : PinFiles[f][i].number \in Int
  /\ \A argv \in Argvs :
       /\ Names(argv, "--manifest", DOMAIN Manifests) /\ Names(argv, "--policy", DOMAIN Policies)
       /\ Names(argv, "--pins", DOMAIN PinFiles) /\ Names(argv, "--file", DOMAIN Files \cup FileNames)

cliVars == <<dirVars, now, job, phase, exits, processed, runs, faults>>

Q == INSTANCE RpcQuorum

When(condition, reason) == IF condition THEN {reason} ELSE {}

---------------------------------------------------------------------------
\* Arguments.

ConfigFlags == {"--manifest", "--policy", "--pins", "--offline"}
ValueFlags  == {"--fixture", "--file", "--evidence-dir", "--max-facts"}
PlainFlags  == {"--resume", "--json", "--help", "--version"}

WordAt(argv, i) == IF Len(argv.words) >= i THEN argv.words[i] ELSE None

\* Anything it does not know is a fault, never ignored.
parseArgs(argv) ==
  LET given == argv.flags \ ConfigFlags
      limit == IF WordAt(argv, 1) = "evidence" THEN 2 ELSE 1
      Of(f, default) == IF f \in given THEN argv.value[f] ELSE default
  IN  [command |-> WordAt(argv, 1), sub |-> WordAt(argv, 2),
       resume |-> "--resume" \in given, help |-> "--help" \in given, version |-> "--version" \in given,
       fixture |-> Of("--fixture", None), file |-> Of("--file", None),
       maxFacts |-> Of("--max-facts", DefaultFacts),
       faulty |-> \/ argv.repeated
                  \/ \E f \in given : f \notin ValueFlags \cup PlainFlags
                  \/ \E f \in given \cap ValueFlags : argv.value[f] = None
                  \/ "--max-facts" \in given /\ argv.value["--max-facts"] \notin 1..MaxFactsBound
                  \/ Len(argv.words) > limit]

exitCodeForVerdict(status) ==
  CASE status = "OK" -> "ok" [] status = "CRITICAL" -> "critical"
    [] status = "UNKNOWN" -> "requiredUnknown" [] status = "WARN" -> "warn"

\* What an invocation comes to: a code, the files it writes before it gives it,
\* and the facts a replay went through: <<content hash, fact>>.
Exit(code)              == [code |-> code, writes |-> <<>>, read |-> {}, bundle |-> None]
ExitWith(code, w, r, b) == [code |-> code, writes |-> w, read |-> r, bundle |-> b]
InvalidConfig           == Exit("invalidConfig")
Write(name, content)    == [name |-> name, content |-> content]

---------------------------------------------------------------------------
\* Offline replay: a bounded walk over a bundle's facts.

Smaller(a, b) == IF a < b THEN a ELSE b

\* A slip: a checkpoint of other evidence is taken.
resumePointOfAny(bundle, resume) ==
  LET file == entries["replay-checkpoint.json"]
  IN  IF ~resume THEN 0
      ELSE IF ~Parses("replay-checkpoint.json") THEN None
      ELSE IF file.content.cursor > bundle.facts THEN None
      ELSE file.content.cursor

\* The cursor to start from, None when the checkpoint is missing or is of
\* another bundle.
resumePoint(bundle, resume) ==
  LET file == entries["replay-checkpoint.json"]
  IN  IF ~resume THEN 0
      ELSE IF ~Parses("replay-checkpoint.json") THEN None
      ELSE IF file.content.contentHash # bundle.contentHash \/ file.content.cursor > bundle.facts THEN None
      ELSE file.content.cursor

\* Nothing advances past a bundle that does not verify.
replayOffline(bundle, args) ==
  LET cursor == resumePoint(bundle, args.resume)
      end    == Smaller(cursor + args.maxFacts, bundle.facts)
  IN  IF cursor = None THEN None
      ELSE IF ~bundle.verifies THEN [complete |-> FALSE, writes |-> <<>>, read |-> {}]
      ELSE [complete |-> end = bundle.facts,
            writes |-> <<Write("replay-checkpoint.json", [contentHash |-> bundle.contentHash, cursor |-> end])>>,
            read |-> {<<bundle.contentHash, i>> : i \in (cursor + 1)..end}]

---------------------------------------------------------------------------
\* Commands without configuration: the built-in fixtures.

isScenario(scenario) == scenario \in DOMAIN Scenarios
unknownScenario      == InvalidConfig

\* Guidance, and nothing else.
init == Exit("ok")

\* There is no chain to discover: a draft of the fixture, never an answer.
fixtureDiscover(scenario) ==
  IF scenario # None /\ ~isScenario(scenario) THEN unknownScenario ELSE Exit("requiredUnknown")

\* Which variables are set is all it can say.
fixtureDoctor ==
  Exit(IF {"HOME_RPC_PRIMARY", "HOME_RPC_SECONDARY", "DATABASE_URL"} \subseteq Environment
       THEN "requiredUnknown" ELSE "invalidConfig")

\* A verdict, nothing written.
check(scenario) ==
  IF ~isScenario(scenario) THEN unknownScenario
  ELSE LET bundle == Scenarios[scenario]
       IN  ExitWith(exitCodeForVerdict(bundle.verdict), <<>>, {}, bundle)

fixtureReplay(scenario, args) ==
  LET evaluated == check(scenario)
      progress  == replayOffline(evaluated.bundle, args)
  IN  IF evaluated.bundle = None THEN evaluated
      ELSE IF progress = None THEN InvalidConfig
      ELSE ExitWith(IF progress.complete THEN evaluated.code ELSE "requiredUnknown",
                    progress.writes, progress.read, evaluated.bundle)

\* The code is the verdict's, not merely that the files were written.
evidenceExport(scenario) ==
  LET evaluated == check(scenario)
  IN  IF evaluated.bundle = None THEN evaluated
      ELSE ExitWith(evaluated.code,
             <<Write("fixture.evidence.json", evaluated.bundle),
               Write("fixture.evidence.html", evaluated.bundle.contentHash)>>, {}, evaluated.bundle)

\* What a path names, None when it is not there or does not parse.
Pages == {"collected.evidence.html", "replayed.evidence.html", "fixture.evidence.html"}
readDocument(path) ==
  IF path \notin FileNames THEN Files[path]
  ELSE IF ~Parses(path) \/ path \in Pages THEN None
  ELSE entries[path].content

\* A document that is no bundle does not verify.
verifyBundle(bundle) == "verifies" \in DOMAIN bundle /\ bundle.verifies

\* A file that is not there is an internal error here.
evidenceVerify(path, scenario) ==
  LET bundle == readDocument(path)
  IN  IF bundle = None THEN Exit("internalError")
      ELSE IF scenario # None /\ ~isScenario(scenario) THEN unknownScenario
      ELSE ExitWith(IF verifyBundle(bundle) THEN exitCodeForVerdict(bundle.verdict) ELSE "requiredUnknown",
                    <<>>, {}, bundle)

requireFixture(fixture, outcome) == IF fixture = None THEN InvalidConfig ELSE outcome

evidence(args) ==
  CASE args.sub = "export" -> requireFixture(args.fixture, evidenceExport(args.fixture))
    [] args.sub = "verify" /\ args.file # None -> evidenceVerify(args.file, args.fixture)
    [] OTHER -> InvalidConfig

\* An option on a command it is not of is refused.
invalidUse(args) ==
  \/ (args.resume \/ args.maxFacts # DefaultFacts) /\ args.command # "replay"
  \/ args.file # None /\ ~(args.command = "evidence" /\ args.sub = "verify")
  \/ args.fixture # None /\ args.command \notin {"check", "replay", "discover", "evidence"}

dispatch(argv) ==
  LET args == parseArgs(argv)
  IN  IF args.faulty \/ invalidUse(args) THEN InvalidConfig
      ELSE IF args.version THEN Exit("ok")
      ELSE IF args.help \/ args.command \in {None, "help"}
        THEN Exit(IF args.command = None /\ ~args.help THEN "invalidConfig" ELSE "ok")
      ELSE CASE args.command = "init" -> init
             [] args.command = "discover" -> fixtureDiscover(args.fixture)
             [] args.command = "doctor" -> fixtureDoctor
             [] args.command = "replay" -> requireFixture(args.fixture, fixtureReplay(args.fixture, args))
             [] args.command = "check" -> requireFixture(args.fixture, check(args.fixture))
             [] args.command = "evidence" -> evidence(args)
             [] OTHER -> InvalidConfig

---------------------------------------------------------------------------
\* What a configured invocation reads.

NoDuplicate(list) == IsInjective([i \in DOMAIN list |-> list[i].blockchainId])

\* A pin file names each chain once.
pinsDecode(list) == Len(list) \in 2..33 /\ NoDuplicate(list)

decodePins(list) ==
  [id \in {p.blockchainId : p \in ToSet(list)} |->
     LET pin == CHOOSE p \in ToSet(list) : p.blockchainId = id IN [number |-> pin.number, hash |-> pin.hash]]

\* A request is tried again until it is answered or the retries are spent; an
\* endpoint whose variable is not set is never called.  What answers an
\* endpoint gives is [network].endpoints[id], one for each attempt.
read(endpoint, network, policy) ==
  LET attempts == network.endpoints[endpoint.id]
      tried    == SubSeq(attempts, 1, Smaller(Len(attempts), policy.maxRetries + 1))
      answered == SelectSeq(tried, LAMBDA a : a # "fails")
  IN  IF endpoint.secretRef.name \notin Environment \/ answered = <<>> THEN "down" ELSE answered[1]

\* DNS is a diagnostic: what does not resolve says nothing.
resolveHost(endpoint, network) ==
  IF endpoint.secretRef.name \in Environment THEN network.hosts[endpoint.id] ELSE "unresolved"

\* The database is ready when it answers and has the tables that are needed.
database(network) ==
  /\ "DATABASE_URL" \in Environment /\ network.tables # None
  /\ {"chain_logs", "evaluations", "schema_migrations"} \subseteq network.tables

---------------------------------------------------------------------------
\* Configured commands: reviewed manifest, policy and pins.

FreshFor(bundle, policy) ==
  ~(now >= bundle.expires \/ now - bundle.observed > policy.maxAge \/ now < bundle.observed)

\* What a bundle says of one reviewed chain, where it differs: the faults.
chainFaults(bundle, p, c) ==
  LET pinned == {q \in bundle.chains : q.blockchainId = c.blockchainId}
      finger == {f \in bundle.fingerprints : f.blockchainId = c.blockchainId /\ f.address = c.address}
      AsApproved(f) == /\ f.recognised /\ f.role = c.role /\ f.codeHash = c.codeHash
                       /\ f.implementation = c.proxy.implementation /\ f.admin = c.proxy.admin
                       /\ c.proxy.kind = "beacon" <=> f.beacon # None
                       /\ f.implementationHash \in {None} \cup c.allowedImplementations
      votes  == {v \in bundle.votes : v.blockchainId = c.blockchainId}
  IN  When(~\E q \in pinned : q.evmChainId = c.evmChainId /\ q.number >= c.deploymentBlock, "chain-pin-mismatch")
        \cup When(\E q \in pinned : q.finality # c.finality, "finality-basis-mismatch")
        \cup When(bundle.requiredGroups < c.quorum, "chain-quorum-mismatch")
        \cup When(\E q \in pinned : bundle.observed - q.timestamp \notin 0..p.maxAge,
                  "pin-observation-age-mismatch")
        \cup When(~\E f \in finger : AsApproved(f), "approved-fingerprint-mismatch")
        \cup When(\E v \in votes : ~\E e \in ToSet(c.endpoints) :
                    e.id = v.endpoint /\ e.trustDomain = v.trustDomain /\ e.providerGroup = v.providerGroup,
                  "witness-identity-mismatch")

\* Binds what a bundle observed to the files that were reviewed: the faults.
bindBundle(bundle, setup, pins) ==
  LET m == setup.manifest.value
      p == setup.policy.value
  IN  When(~m.approved, "approved-baseline-required")
        \cup When(bundle.manifestHash # setup.manifest.digest \/ bundle.policyHash # setup.policy.digest,
                  "configuration-digest-mismatch")
        \cup When(bundle.deployment # m.name, "deployment-identity-mismatch")
        \cup When(~bundle.sourceLocked, "source-lock-mismatch")
        \cup When(bundle.mode # m.mode, "asset-mode-mismatch")
        \cup When(bundle.requiredGroups < p.minDomains, "policy-quorum-mismatch")
        \cup When(Cardinality(bundle.chains) # Len(m.chains), "chain-roster-mismatch")
        \cup When(bundle.expires - bundle.observed \notin 1..p.expiresAfter, "policy-expiry-mismatch")
        \cup (UNION {chainFaults(bundle, p, c) : c \in ToSet(m.chains)})
        \cup When(Cardinality(bundle.remotes) # Cardinality(m.remotes), "remote-roster-mismatch")
        \cup When(~(bundle.remotes \subseteq {r @@ [homeDecimals |-> m.homeDecimals] : r \in m.remotes}),
                  "remote-scale-or-address-mismatch")
        \cup When(pins # None /\ {<<id, pins[id].number, pins[id].hash>> : id \in DOMAIN pins}
                    # {<<q.blockchainId, q.number, q.hash>> : q \in bundle.chains}, "requested-pin-mismatch")

\* What a probe of an endpoint finds of a deployment, or None.
probeOf(quality) ==
  IF quality = "down" THEN None
  ELSE [sound |-> quality # "forked", archive |-> quality # "pruned", pinned |-> quality # "forked"]

\* Failure domains of the endpoints that back a count, once those that point at
\* one host are folded into one.
correlatedIndependence(declared, counted, network) ==
  LET hosted(list) == [i \in DOMAIN list |->
                         list[i] @@ [host |-> resolveHost(list[i], network)]]
  IN  Len(Q!collapsedIndependenceGroups(counted, Q!correlateEndpoints(hosted(declared))))

RequiredDomains(chain, policy) == IF policy.minDomains > chain.quorum THEN policy.minDomains ELSE chain.quorum

chainReady(chain, policy, network) ==
  LET Probe(e)   == probeOf(read(e, network, policy))
      successful == SelectSeq(chain.endpoints, LAMBDA e : Probe(e) # None /\ Probe(e).sound)
  IN  /\ correlatedIndependence(chain.endpoints, successful, network) >= RequiredDomains(chain, policy)
      /\ \A e \in ToSet(chain.endpoints) : Probe(e) # None => Probe(e).pinned
      /\ \E e \in ToSet(successful) : Probe(e).archive

doctorConfigured(setup, pins, network) ==
  LET m       == setup.manifest.value
      present == collectSecretRefs(m) \cup {"DATABASE_URL"} \subseteq Environment
  IN  IF pins = None \/ DOMAIN pins # {c.blockchainId : c \in ToSet(m.chains)} THEN InvalidConfig
      ELSE IF ~present THEN InvalidConfig
      ELSE Exit(IF database(network) /\ \A c \in ToSet(m.chains) : chainReady(c, setup.policy.value, network)
                THEN "ok" ELSE "requiredUnknown")

---------------------------------------------------------------------------
\* Discovery: one bounded range of the home contract's registrations.

HomeChain(m)         == m.chains[1]
FreshCursor(m)       == [next |-> m.fromBlock, registrations |-> {}]
binding(setup, pins) == <<setup.manifest.digest, setup.policy.digest, pins>>

\* The cursor to resume from, None when it is missing or bound to anything else.
discoveryCursor(setup, pins, resume) ==
  LET file == entries["discovery-checkpoint.json"]
      from == setup.manifest.value.fromBlock
  IN  IF ~resume THEN FreshCursor(setup.manifest.value)
      ELSE IF ~Parses("discovery-checkpoint.json") THEN None
      ELSE IF \/ file.content.binding # binding(setup, pins)
              \/ file.content.next \notin from..(pins[HomeChain(setup.manifest.value).blockchainId].number + 1)
              \/ \E r \in file.content.registrations : r.block \notin from..(file.content.next - 1)
        THEN None
      ELSE [next |-> file.content.next, registrations |-> file.content.registrations]

\* The registrations an endpoint gives for a range: one that hides gives none,
\* and one whose logs do not decode, or whose pin has moved when it is asked
\* again after them, gives no answer.
decodable(quality, logs) == quality # "garbles" /\ \A r \in logs : r.decimals \in 0..77
logsOf(quality, from, to) ==
  IF quality = "hides" THEN {} ELSE {r \in Registered : r.block \in from..to}

\* A slip: endpoints are counted, not their failure domains.
countEndpoints(declared, counted, network) == Len(counted)

countIndependent(declared, counted, network) == correlatedIndependence(declared, counted, network)

\* The endpoints that serve a range: reached, of the deployment, still at the pin.
servingEndpoints(setup, network, from, to, maxFacts) ==
  LET Serves(e) == LET quality == read(e, network, setup.policy.value)
                       probe   == probeOf(quality)
                       logs    == logsOf(quality, from, to)
                   IN  /\ probe # None /\ probe.sound /\ probe.archive
                       /\ Cardinality(logs) <= maxFacts
                       /\ decodable(quality, logs) /\ quality # "moves"
  IN  SelectSeq(HomeChain(setup.manifest.value).endpoints, Serves)

\* The independent ones among them are as many as the pair asks for.
enoughDomains(setup, network, witnesses) ==
  LET home == HomeChain(setup.manifest.value)
  IN  countIndependent(home.endpoints, witnesses, network) >= RequiredDomains(home, setup.policy.value)

\* The range agreed by enough independent witnesses that answer alike, or None.
agreedRange(setup, network, from, to, maxFacts) ==
  LET witnesses == servingEndpoints(setup, network, from, to, maxFacts)
      answers   == {logsOf(read(e, network, setup.policy.value), from, to) : e \in ToSet(witnesses)}
  IN  IF \/ ~enoughDomains(setup, network, witnesses)
         \/ answers = {} \/ \E a, b \in answers : a # b
      THEN None
      ELSE CHOOSE a \in answers : TRUE

remoteOf(r) == <<r.remote[1], r.remote[2]>>

rostered(remotes) == {<<r.blockchainId, r.address>> : r \in remotes}

\* A candidate for review: never approved, its decimals those that were seen, complete
\* as of the pin only when the scan reached the pin and found the approved remotes and
\* no others.
candidateOf(m, pin, registrations, complete) ==
  LET Seen(r) == {q.decimals : q \in {q \in registrations : remoteOf(q) = <<r.blockchainId, r.address>>}}
  IN  [baseline |-> "candidate", atBlock |-> pin, manifest |-> m.name, fromBlock |-> m.fromBlock,
       remotes |-> {[r EXCEPT !.decimals = IF Seen(r) = {} THEN @ ELSE CHOOSE d \in Seen(r) : TRUE] : r \in m.remotes},
       completeness |-> IF complete /\ {remoteOf(r) : r \in registrations} = rostered(m.remotes)
                        THEN "complete-from-deployment-block" ELSE "partial"]

\* The report beside it: what was found, how far the scan came, and whether that is the pin.
reportOf(m, pin, registrations, next, complete) ==
  [complete |-> complete, pin |-> pin, fromBlock |-> m.fromBlock, scannedThrough |-> next - 1,
   candidateRemotes |-> {remoteOf(r) : r \in registrations}]

\* A slip: one scan is the whole scan.
reachedAnyway(next, end) == TRUE

\* The scan has passed the pin.
reached(next, end) == next > end

discoverConfigured(setup, args, pins, network) ==
  LET m        == setup.manifest.value
      home     == HomeChain(m)
      cursor   == discoveryCursor(setup, pins, args.resume)
      end      == pins[home.blockchainId].number
      to       == Smaller(cursor.next + setup.policy.value.maxLogRange - 1, end)
      scans    == cursor.next <= end
      agreed   == IF scans THEN agreedRange(setup, network, cursor.next, to, args.maxFacts) ELSE {}
      all      == cursor.registrations \cup agreed
      next     == IF scans THEN to + 1 ELSE cursor.next
      complete == reached(next, end)
      saved    == IF ~scans THEN <<>>
                  ELSE <<Write("discovery-checkpoint.json",
                           [binding |-> binding(setup, pins), next |-> next, registrations |-> all])>>
  IN  IF home.blockchainId \notin DOMAIN pins \/ cursor = None THEN InvalidConfig
      ELSE IF end < home.deploymentBlock THEN InvalidConfig
      ELSE IF scans /\ agreed = None THEN Exit("requiredUnknown")
      \* Two registrations of one remote, found after the checkpoint was written.
      ELSE IF Cardinality({remoteOf(r) : r \in all}) # Cardinality(all)
        THEN ExitWith("invalidConfig", saved, {}, None)
      ELSE ExitWith("requiredUnknown",
             saved \o <<Write("candidate.manifest.json", candidateOf(m, end, all, complete)),
                       Write("discovery.json", reportOf(m, end, all, next, complete))>>,
             {}, None)

---------------------------------------------------------------------------
\* collect, check, replay and evidence export on a bundle file.

\* What Collector.tla's collectConfigured returns, a bundle or None.
collect(collected) ==
  IF collected = None THEN Exit("requiredUnknown")
  ELSE ExitWith(exitCodeForVerdict(collected.verdict),
         <<Write("collected.evidence.json", collected),
           Write("collected.evidence.html", collected.contentHash)>>, {}, collected)

\* The bundle verifies and is bound to what was reviewed.
Accepts(bundle, setup, pins) == verifyBundle(bundle) /\ bindBundle(bundle, setup, pins) = {}

judgeFile(setup, args, bundle, pins, offline) ==
  LET walks  == args.command = "replay" \/ args.resume \/ args.maxFacts # DefaultFacts
      replay == IF walks THEN replayOffline(bundle, args) ELSE [complete |-> TRUE, writes |-> <<>>, read |-> {}]
      stale  == ~offline /\ ~FreshFor(bundle, setup.policy.value)
      code   == exitCodeForVerdict(bundle.verdict)
      export == IF args.command = "evidence"
                THEN <<Write("replayed.evidence.json", bundle),
                       Write("replayed.evidence.html", bundle.contentHash)>> ELSE <<>>
  IN  IF ~Accepts(bundle, setup, pins) THEN Exit("requiredUnknown")
      ELSE IF args.command = "discover" \/ replay = None THEN InvalidConfig
      ELSE ExitWith(IF (stale \/ ~replay.complete) /\ code # "critical" THEN "requiredUnknown" ELSE code,
                    replay.writes \o export, replay.read, bundle)

\* The outputs of fixed name, which may never be an input as well.
FixedNames == {"candidate.manifest.json", "discovery.json", "discovery-checkpoint.json",
               "replay-checkpoint.json", "replayed.evidence.json", "replayed.evidence.html"}

\* What no configured command accepts.
refused(argv, args, offline) ==
  \/ args.faulty \/ args.fixture # None \/ args.help \/ args.version
  \/ args.command \notin {"check", "replay", "discover", "doctor", "evidence", "collect"}
  \/ args.command = "evidence" /\ args.sub # "export"
  \/ args.command = "doctor" /\ (offline \/ args.file # None \/ args.resume \/ args.maxFacts # DefaultFacts)
  \/ args.command = "collect" /\ (offline \/ args.file # None \/ args.resume)
  \/ ~({"--manifest", "--policy"} \subseteq argv.flags)
  \/ \E f \in (ConfigFlags \ {"--offline"}) \cap argv.flags : argv.value[f] = None

\* The documents an invocation goes on with.
reviewed(f, p) ==
  /\ loadManifest(Manifests[f]) /\ loadPolicy(Policies[p])
  /\ assertManifestMeetsPolicy(Manifests[f].value, Policies[p].value)

\* The files it names do not load, do not agree, or are files it would write.
unusable(argv, args) ==
  \/ ~reviewed(argv.value["--manifest"], argv.value["--policy"])
  \/ "--pins" \in argv.flags /\ ~pinsDecode(PinFiles[argv.value["--pins"]])
  \/ args.file \in FixedNames

Loaded(document) == [value |-> document.value, digest |-> document.digest]

\* A command whose files are all there.
configured(argv, args, offline, network, collected) ==
  LET setup  == [manifest |-> Loaded(Manifests[argv.value["--manifest"]]),
                 policy |-> Loaded(Policies[argv.value["--policy"]])]
      pins   == IF "--pins" \in argv.flags THEN decodePins(PinFiles[argv.value["--pins"]]) ELSE None
      bundle == readDocument(args.file)
  IN  CASE args.command = "doctor" -> doctorConfigured(setup, pins, network)
        [] args.command = "collect" -> collect(collected)
        [] args.command = "discover" /\ args.file = None ->
             IF offline \/ pins = None THEN InvalidConfig ELSE discoverConfigured(setup, args, pins, network)
        [] OTHER -> IF args.file = None \/ bundle = None THEN InvalidConfig
                    ELSE judgeFile(setup, args, bundle, pins, offline)

runAsync(argv, network, collected) ==
  LET args    == parseArgs(argv)
      offline == "--offline" \in argv.flags
  IN  IF argv.flags \cap ConfigFlags = {} THEN dispatch(argv)
      ELSE IF refused(argv, args, offline) \/ unusable(argv, args) THEN InvalidConfig
      ELSE configured(argv, args, offline, network, collected)

---------------------------------------------------------------------------
\* Running.

Job(argv, outcome) == [argv |-> argv, code |-> outcome.code, writes |-> outcome.writes,
                       read |-> outcome.read, bundle |-> outcome.bundle, at |-> now]

\* What a run may meet: only some commands ask the network, and only one collects.
AnswersTo(argv) ==
  IF WordAt(argv, 1) \in {"discover", "doctor"} THEN Answers ELSE {CHOOSE a \in Answers : TRUE}
CollectedBy(argv) == IF WordAt(argv, 1) = "collect" THEN Collected ELSE {None}

\* Everything is read, and a replay's walk is done, before the first write.
Invoke ==
  /\ job = None /\ runs < MaxRuns /\ runs' = runs + 1
  /\ \E argv \in Argvs :
     \E outcome \in {runAsync(argv, n, c) : n \in AnswersTo(argv), c \in CollectedBy(argv)} :
       /\ job' = Job(argv, outcome)
       /\ processed' = processed \cup outcome.read
  /\ phase' = "open"
  /\ UNCHANGED <<dirVars, now, exits, faults>>

Gives(code) ==
  /\ exits' = exits \cup {[argv |-> job.argv, code |-> code, bundle |-> job.bundle, at |-> job.at]}
  /\ job' = None

\* writeAtomic, one system call a step.
WriteStep ==
  /\ job # None /\ job.writes # <<>>
  /\ \/ phase = "open" /\ openTemp /\ phase' = "write" /\ UNCHANGED job
     \/ phase = "write" /\ writeAndSync(Head(job.writes).content) /\ phase' = "rename" /\ UNCHANGED job
     \/ phase = "rename" /\ renameOver(Head(job.writes).name) /\ phase' = "sync" /\ UNCHANGED job
     \/ phase = "sync" /\ syncDirectory /\ phase' = "open" /\ job' = [job EXCEPT !.writes = Tail(@)]
  /\ UNCHANGED <<now, exits, processed, runs, faults>>

Finish ==
  /\ job # None /\ job.writes = <<>> /\ Gives(job.code)
  /\ UNCHANGED <<dirVars, now, phase, processed, runs, faults>>

Faulted == faults < MaxFaults /\ faults' = faults + 1

\* A system call of a write throws: never a verdict, and a directory or a permission that
\* is gone passes for a configuration that is wrong where the command has one.
WriteFails ==
  /\ job # None /\ job.writes # <<>> /\ Faulted
  /\ IF phase \in {"write", "rename"} THEN unlinkOwned ELSE UNCHANGED dirVars
  /\ \/ Gives("internalError")
     \/ job.argv.flags \cap ConfigFlags # {} /\ Gives("invalidConfig")
  /\ UNCHANGED <<now, phase, processed, runs>>

\* The process is killed: its temporary file stays, under a name never used again.
Kill ==
  /\ job # None /\ Faulted /\ job' = None /\ temp' = None
  /\ UNCHANGED <<entries, durable, now, phase, exits, processed, runs>>

PowerLoss ==
  /\ Faulted /\ losePower /\ job' = None
  /\ UNCHANGED <<now, phase, exits, processed, runs>>

Tick ==
  /\ now < MaxClock /\ now' = now + 1
  /\ UNCHANGED <<dirVars, job, phase, exits, processed, runs, faults>>

Init ==
  /\ DirInit /\ now = 0 /\ job = None /\ phase = "open"
  /\ exits = {} /\ processed = {} /\ runs = 0 /\ faults = 0

Next ==
  \/ Invoke \/ WriteStep \/ Finish \/ WriteFails \/ Kill \/ PowerLoss \/ Tick

Spec == Init /\ [][Next]_cliVars

---------------------------------------------------------------------------
\* Properties.

\* A file of the evidence directory is there whole or not at all, whichever
\* system call a crash or a loss of power falls between.  (atomic-write.ts)
NoTornFile == \A n \in FileNames : entries[n] # None => entries[n].whole

\* Exit 0 of a configured command that judges a bundle: manifest and policy are
\* a pair whose quorum the chains can supply, the bundle verifies, is bound to
\* them, was fresh unless the run was offline, says OK, and a replay that says so
\* has been through every fact of it, over as many resumed runs and crashes as it
\* took.  (configured.ts, offline-replay.ts)
GreenMeansAll ==
  \A e \in exits : e.code = "ok" /\ e.bundle # None /\ "--file" \in e.argv.flags /\ "--manifest" \in e.argv.flags =>
    LET manifest == Manifests[e.argv.value["--manifest"]]
    IN  /\ e.bundle.verifies /\ e.bundle.verdict = "OK"
        /\ e.bundle.manifestHash = manifest.digest /\ e.bundle.deployment = manifest.value.name
        /\ \A c \in ToSet(manifest.value.chains) :
             /\ Cardinality(domainsOf(c)) >= Policies[e.argv.value["--policy"]].value.minDomains
             /\ \E q \in e.bundle.chains : q.blockchainId = c.blockchainId /\ q.finality = c.finality
        /\ "--offline" \in e.argv.flags \/ e.at \in e.bundle.observed..(e.bundle.expires - 1)
        /\ WordAt(e.argv, 1) = "replay" =>
             \A i \in 1..e.bundle.facts : <<e.bundle.contentHash, i>> \in processed

\* The premise of a quorum of witnesses: of as many failure domains as the pair asks
\* for, one does not hide what the chain holds.
HasHonestWitness(f, p, network, from, to, maxFacts) ==
  LET setup     == [manifest |-> Loaded(Manifests[f]), policy |-> Loaded(Policies[p])]
      witnesses == servingEndpoints(setup, network, from, to, maxFacts)
  IN  enoughDomains(setup, network, witnesses) =>
        \E e \in ToSet(witnesses) : read(e, network, Policies[p].value) # "hides"

\* What discovery leaves claims no block it has not scanned: the checkpoint holds exactly
\* the registrations below its cursor, under the manifest it was begun with; the report
\* names exactly the remotes registered as far as it says it has scanned, which is its pin
\* when it says that it is complete; and a candidate whose census is complete from the
\* deployment block has exactly the remotes registered up to the block it is of.
\* (discovery.ts 90-126, 219-298)
DiscoveryExact ==
  LET saved     == entries["discovery-checkpoint.json"]
      candidate == entries["candidate.manifest.json"]
      report    == entries["discovery.json"]
      From(digest)   == (CHOOSE p \in DOMAIN Manifests : Manifests[p].digest = digest)
      Between(a, b)  == {r \in Registered : r.block \in a..b}
      Census(a, b)   == {remoteOf(r) : r \in Between(a, b)}
  IN  /\ saved # None =>
           saved.content.registrations =
             Between(Manifests[From(saved.content.binding[1])].value.fromBlock, saved.content.next - 1)
      /\ report # None =>
           LET c == report.content
           IN  /\ c.candidateRemotes = Census(c.fromBlock, c.scannedThrough)
               /\ c.complete => c.scannedThrough >= c.pin
      /\ candidate # None /\ candidate.content.completeness = "complete-from-deployment-block" =>
           LET c == candidate.content
           IN  rostered(c.remotes) = Census(c.fromBlock, c.atBlock)
=============================================================================
