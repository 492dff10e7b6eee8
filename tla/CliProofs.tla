------------------------------ MODULE CliProofs ------------------------------
(***************************************************************************)
(* The command line, for every command line, every set of files and every  *)
(* place a crash or a loss of power falls between two system calls: what   *)
(* is in the evidence directory, what exit code 0 means, and what a        *)
(* discovery that was resumed has seen.                                    *)
(***************************************************************************)
EXTENDS Cli, FiniteSetTheorems, TLAPS

\* The facts below a cursor were all gone through.
Walked(checkpoint, seen) ==
  /\ checkpoint.cursor \in Nat
  /\ \A i \in 1..checkpoint.cursor : <<checkpoint.contentHash, i>> \in seen

RegisteredIn(from, to) == {r \in Registered : r.block \in from..to}

\* The premise of a quorum, for every reviewed pair of documents and every network.
OneIsHonest ==
  \A f \in DOMAIN Manifests, p \in DOMAIN Policies, network \in Answers, from, to \in Int, max \in Nat :
    reviewed(f, p) => HasHonestWitness(f, p, network, from, to, max)

\* A discovery checkpoint holds what the blocks below its cursor hold.
SavedOK(saved) ==
  \E f \in DOMAIN Manifests :
    /\ saved.binding[1] = Manifests[f].digest
    /\ saved.next \in Int
    /\ saved.registrations = RegisteredIn(Manifests[f].value.fromBlock, saved.next - 1)

\* A candidate with a complete census has the remotes registered up to its block.
CandidateOK(candidate) ==
  candidate.completeness = "complete-from-deployment-block" =>
    rostered(candidate.remotes) = {remoteOf(r) : r \in RegisteredIn(candidate.fromBlock, candidate.atBlock)}

\* A report names the remotes registered as far as it says it has scanned.
ReportOK(report) ==
  /\ report.candidateRemotes = {remoteOf(r) : r \in RegisteredIn(report.fromBlock, report.scannedThrough)}
  /\ report.complete => report.scannedThrough >= report.pin

\* What may be written under a name, once the facts in seen were gone through.
\* What discovery writes is worth what its witnesses are.
ContentOK(name, content, seen) ==
  /\ name = "replay-checkpoint.json" => Walked(content, seen)
  /\ OneIsHonest /\ name = "discovery-checkpoint.json" => SavedOK(content)
  /\ OneIsHonest /\ name = "candidate.manifest.json" => CandidateOK(content)
  /\ OneIsHonest /\ name = "discovery.json" => ReportOK(content)
  /\ name \notin FixedNames \cup Pages => content \in Bundles

WritesOK(writes, seen) ==
  \E S : writes \in Seq(S) /\ \A w \in S : ContentOK(w.name, w.content, seen)

\* A file that was written in full and synced.
Kept(content) == [content |-> content, whole |-> TRUE, synced |-> TRUE]
FileOK(name, file) == file = Kept(file.content) /\ ContentOK(name, file.content, processed)

FilesOK ==
  /\ entries = [n \in FileNames |-> entries[n]]
  /\ durable = [n \in FileNames |-> durable[n]]
  /\ \A n \in FileNames :
       /\ entries[n] # None => FileOK(n, entries[n])
       /\ durable[n] # None => FileOK(n, durable[n]) /\ entries[n] # None

\* What exit code 0 of a configured judgement says.
Green(argv, bundle, at, seen) ==
  LET manifest == Manifests[argv.value["--manifest"]]
  IN  /\ bundle.verifies /\ bundle.verdict = "OK"
      /\ bundle.manifestHash = manifest.digest /\ bundle.deployment = manifest.value.name
      /\ \A c \in ToSet(manifest.value.chains) :
           /\ Cardinality(domainsOf(c)) >= Policies[argv.value["--policy"]].value.minDomains
           /\ \E q \in bundle.chains : q.blockchainId = c.blockchainId /\ q.finality = c.finality
      /\ "--offline" \in argv.flags \/ at \in bundle.observed..(bundle.expires - 1)
      /\ WordAt(argv, 1) = "replay" =>
           \A i \in 1..bundle.facts : <<bundle.contentHash, i>> \in seen

Judges(argv) == "--file" \in argv.flags /\ "--manifest" \in argv.flags

CodeOK(argv, code, bundle, at, seen) ==
  code = "ok" /\ bundle # None /\ Judges(argv) => Green(argv, bundle, at, seen)

\* What an invocation comes to.
OutcomeOK(argv, o) ==
  /\ o = ExitWith(o.code, o.writes, o.read, o.bundle)
  /\ WritesOK(o.writes, processed \cup o.read)
  /\ CodeOK(argv, o.code, o.bundle, now, processed \cup o.read)

JobOK ==
  job # None =>
    /\ job = [argv |-> job.argv, code |-> job.code, writes |-> job.writes, read |-> job.read,
              bundle |-> job.bundle, at |-> job.at]
    /\ WritesOK(job.writes, processed)
    /\ CodeOK(job.argv, job.code, job.bundle, job.at, processed)
    /\ phase = "rename" => job.writes # <<>> /\ temp = Kept(Head(job.writes).content)

ExitsOK == \A e \in exits : CodeOK(e.argv, e.code, e.bundle, e.at, processed)

CliInv == now \in Nat /\ FilesOK /\ JobOK /\ ExitsOK

LEMMA InvMeans == CliInv => NoTornFile /\ GreenMeansAll
<1>1. FilesOK => NoTornFile
  BY DEF FilesOK, FileOK, Kept, NoTornFile
<1>2. ExitsOK => GreenMeansAll
  BY DEF ExitsOK, CodeOK, Judges, Green, GreenMeansAll
<1> QED BY <1>1, <1>2 DEF CliInv

---------------------------------------------------------------------------
(* More facts gone through disturb nothing *)

LEMMA SeenGrows ==
  ASSUME NEW s, NEW t, s \subseteq t
  PROVE  /\ \A n, c : ContentOK(n, c, s) => ContentOK(n, c, t)
         /\ \A w : WritesOK(w, s) => WritesOK(w, t)
         /\ \A a, c, b, at : CodeOK(a, c, b, at, s) => CodeOK(a, c, b, at, t)
<1>1. \A n, c : ContentOK(n, c, s) => ContentOK(n, c, t)
  BY DEF ContentOK, Walked
<1>2. \A w : WritesOK(w, s) => WritesOK(w, t)
  BY <1>1 DEF WritesOK
<1>3. \A a, c, b, at : CodeOK(a, c, b, at, s) => CodeOK(a, c, b, at, t)
  <2>1. \A a, b, at : Green(a, b, at, s) => Green(a, b, at, t)
    <3> SUFFICES ASSUME NEW a, NEW b, NEW at, Green(a, b, at, s) PROVE Green(a, b, at, t)
      OBVIOUS
    <3> QED BY Zenon DEF Green
  <2> QED BY <2>1, Zenon DEF CodeOK
<1> QED BY <1>1, <1>2, <1>3

LEMMA WritesOf ==
  ASSUME NEW w, NEW S, NEW s, w \in Seq(S), \A x \in S : ContentOK(x.name, x.content, s)
  PROVE  WritesOK(w, s)
BY Zenon DEF WritesOK

LEMMA NoWrites == \A s : WritesOK(<<>>, s)
<1> SUFFICES ASSUME NEW s PROVE WritesOK(<<>>, s)
  OBVIOUS
<1> DEFINE S == {}
<1>1. <<>> \in Seq(S) /\ \A w \in S : ContentOK(w.name, w.content, s)
  OBVIOUS
<1> HIDE DEF S
<1> QED BY <1>1, WritesOf

LEMMA OneWrite ==
  ASSUME NEW n, NEW c, NEW s, ContentOK(n, c, s)
  PROVE  WritesOK(<<Write(n, c)>>, s)
<1> DEFINE S == {Write(n, c)}
<1>1. <<Write(n, c)>> \in Seq(S)
  OBVIOUS
<1>2. \A w \in S : ContentOK(w.name, w.content, s)
  BY DEF Write
<1> HIDE DEF S
<1> QED BY <1>1, <1>2, WritesOf

LEMMA TwoWrites ==
  ASSUME NEW n, NEW c, NEW m, NEW d, NEW s, ContentOK(n, c, s), ContentOK(m, d, s)
  PROVE  WritesOK(<<Write(n, c), Write(m, d)>>, s)
<1> DEFINE S == {Write(n, c), Write(m, d)}
<1>1. <<Write(n, c), Write(m, d)>> \in Seq(S)
  OBVIOUS
<1>2. \A w \in S : ContentOK(w.name, w.content, s)
  BY DEF Write
<1> HIDE DEF S
<1> QED BY <1>1, <1>2, WritesOf

LEMMA MoreWrites ==
  ASSUME NEW v, NEW w, NEW s, WritesOK(v, s), WritesOK(w, s)
  PROVE  WritesOK(v \o w, s)
<1>1. PICK S : v \in Seq(S) /\ \A x \in S : ContentOK(x.name, x.content, s)
  BY DEF WritesOK
<1>2. PICK T : w \in Seq(T) /\ \A x \in T : ContentOK(x.name, x.content, s)
  BY DEF WritesOK
<1>3. v \in Seq(S \cup T) /\ w \in Seq(S \cup T)
  BY <1>1, <1>2
<1>4. v \o w \in Seq(S \cup T)
  BY <1>3
<1> QED BY <1>1, <1>2, <1>4 DEF WritesOK

LEMMA FewerWrites ==
  ASSUME NEW v, NEW s, WritesOK(v, s), v # <<>>
  PROVE  WritesOK(Tail(v), s) /\ ContentOK(Head(v).name, Head(v).content, s)
<1>1. PICK S : v \in Seq(S) /\ \A x \in S : ContentOK(x.name, x.content, s)
  BY DEF WritesOK
<1>2. Tail(v) \in Seq(S) /\ Head(v) \in S
  BY <1>1
<1> QED BY <1>1, <1>2 DEF WritesOK

LEMMA Nothing == \A argv, code : OutcomeOK(argv, Exit(code))
<1> SUFFICES ASSUME NEW argv, NEW code PROVE OutcomeOK(argv, Exit(code))
  OBVIOUS
<1> QED BY NoWrites DEF OutcomeOK, Exit, ExitWith, CodeOK

---------------------------------------------------------------------------
(* A replay over the facts of a bundle *)

\* The limit of an invocation that is not refused.
LEMMA FactsLimit ==
  ASSUME NEW argv, ~ parseArgs(argv).faulty
  PROVE  parseArgs(argv).maxFacts \in Nat
BY CliAssumption DEF parseArgs

LEMMA ReplayWalks ==
  ASSUME FilesOK, NEW bundle, bundle.facts \in Nat, NEW args, args.maxFacts \in Nat,
         NEW p, p = replayOffline(bundle, args), p # None
  PROVE  /\ WritesOK(p.writes, processed \cup p.read)
         /\ p.complete => \A i \in 1..bundle.facts : <<bundle.contentHash, i>> \in processed \cup p.read
<1> DEFINE file   == entries["replay-checkpoint.json"]
           cursor == resumePoint(bundle, args.resume)
           end    == Smaller(cursor + args.maxFacts, bundle.facts)
<1>1. cursor # None
  BY DEF replayOffline
<1>2. /\ cursor \in Nat /\ cursor <= bundle.facts
      /\ \A i \in 1..cursor : <<bundle.contentHash, i>> \in processed
  <2>1. CASE ~ args.resume
    BY <2>1 DEF resumePoint
  <2>2. CASE args.resume
    <3>1. /\ Parses("replay-checkpoint.json") /\ ~ (file.content.contentHash # bundle.contentHash)
          /\ ~ (file.content.cursor > bundle.facts) /\ cursor = file.content.cursor
      BY <1>1, <2>2 DEF resumePoint
    <3>2. Walked(file.content, processed)
        BY <3>1, CliAssumption DEF Parses, FilesOK, FileOK, ContentOK
    <3> QED BY <3>1, <3>2 DEF Walked
  <2> QED BY <2>1, <2>2
<1>3. end \in Nat /\ end <= bundle.facts
  BY <1>2 DEF Smaller
<1>4. CASE ~ bundle.verifies
  <2>1. p.writes = <<>> /\ p.complete = FALSE
    BY <1>1, <1>4 DEF replayOffline
  <2> QED BY <2>1, NoWrites
<1>5. CASE bundle.verifies
  <2> DEFINE saved == [contentHash |-> bundle.contentHash, cursor |-> end]
  <2>1. /\ p.writes = <<Write("replay-checkpoint.json", saved)>>
        /\ p.complete = (end = bundle.facts)
        /\ p.read = {<<bundle.contentHash, i>> : i \in (cursor + 1)..end}
    BY <1>1, <1>5 DEF replayOffline
  <2> HIDE DEF cursor, end
  <2>2. \A i \in 1..end : <<bundle.contentHash, i>> \in processed \cup p.read
    BY <1>2, <1>3, <2>1
  <2>3. ContentOK("replay-checkpoint.json", saved, processed \cup p.read)
    BY <1>3, <2>2 DEF ContentOK, Walked, FixedNames
  <2>4. WritesOK(p.writes, processed \cup p.read)
    BY <2>1, <2>3, OneWrite
  <2> QED BY <2>1, <2>2, <2>4
<1> QED BY <1>4, <1>5

---------------------------------------------------------------------------
(* Commands without configuration *)

\* A file of the evidence directory that is read is the bundle that was written.
LEMMA DocumentIsBundle ==
  ASSUME FilesOK, NEW argv \in Argvs, "--file" \in argv.flags, argv.value["--file"] # None,
         NEW path, path = argv.value["--file"], path \notin FixedNames, readDocument(path) # None
  PROVE  readDocument(path) \in Bundles
<1>1. path \in DOMAIN Files \cup FileNames
  BY CliAssumption DEF Names
<1>2. CASE path \notin FileNames
  BY <1>1, <1>2 DEF readDocument, Bundles
<1>3. CASE path \in FileNames
  <2>1. Parses(path) /\ path \notin Pages /\ readDocument(path) = entries[path].content
    BY <1>3 DEF readDocument
  <2> QED BY <1>3, <2>1 DEF Parses, FilesOK, FileOK, ContentOK
<1> QED BY <1>2, <1>3

LEMMA FixtureOK ==
  ASSUME FilesOK, NEW argv, "--manifest" \notin argv.flags
  PROVE  OutcomeOK(argv, dispatch(argv))
<1> DEFINE args == parseArgs(argv)
           o    == dispatch(argv)
<1>1. \A code, w, gone, b : WritesOK(w, processed \cup gone) => OutcomeOK(argv, ExitWith(code, w, gone, b))
  BY DEF OutcomeOK, ExitWith, CodeOK, Judges
<1>2. \A code : OutcomeOK(argv, Exit(code))
  BY Nothing
<1>3. \A code, b : OutcomeOK(argv, ExitWith(code, <<>>, {}, b))
  BY <1>1, NoWrites
<1>4. OutcomeOK(argv, InvalidConfig) /\ OutcomeOK(argv, init)
  BY <1>2 DEF InvalidConfig, init
<1>5. \A f : OutcomeOK(argv, fixtureDiscover(f))
  BY <1>2, <1>4 DEF fixtureDiscover, unknownScenario
<1>6. OutcomeOK(argv, fixtureDoctor)
  BY <1>2 DEF fixtureDoctor
<1>7. \A f : OutcomeOK(argv, check(f))
  BY <1>3, <1>4 DEF check, unknownScenario
<1>8. \A f : isScenario(f) => /\ check(f).bundle = Scenarios[f]
                              /\ Scenarios[f] # None => Scenarios[f] \in Bundles
  BY DEF check, isScenario, ExitWith, Bundles
<1>9. \A f : ~ isScenario(f) => check(f).bundle = None
  BY DEF check, unknownScenario, InvalidConfig, Exit
<1>10. ASSUME NEW f, ~ args.faulty PROVE OutcomeOK(argv, fixtureReplay(f, args))
  <2> DEFINE b == check(f).bundle
             p == replayOffline(b, args)
  <2>1. CASE b = None \/ p = None
    BY <2>1, <1>4, <1>7 DEF fixtureReplay
  <2>2. CASE b # None /\ p # None
    <3>1. b \in Bundles
      BY <2>2, <1>8, <1>9
    <3>2. b.facts \in Nat /\ args.maxFacts \in Nat
      BY <3>1, <1>10, CliAssumption, FactsLimit
    <3>3. WritesOK(p.writes, processed \cup p.read)
      BY <2>2, <3>2, ReplayWalks
    <3>4. fixtureReplay(f, args) = ExitWith(IF p.complete THEN check(f).code ELSE "requiredUnknown",
                                            p.writes, p.read, b)
      BY <2>2 DEF fixtureReplay
    <3> QED BY <3>3, <3>4, <1>1
  <2> QED BY <2>1, <2>2
<1>11. \A f : OutcomeOK(argv, evidenceExport(f))
  <2> SUFFICES ASSUME NEW f PROVE OutcomeOK(argv, evidenceExport(f))
    OBVIOUS
  <2> DEFINE b == check(f).bundle
  <2>1. CASE b = None
    BY <2>1, <1>7 DEF evidenceExport
  <2>2. CASE b # None
    <3>1. b \in Bundles
      BY <2>2, <1>8, <1>9
    <3>2. /\ ContentOK("fixture.evidence.json", b, processed \cup {})
          /\ ContentOK("fixture.evidence.html", b.contentHash, processed \cup {})
      BY <3>1 DEF ContentOK, Pages
    <3>3. evidenceExport(f) = ExitWith(check(f).code, <<Write("fixture.evidence.json", b),
                                Write("fixture.evidence.html", b.contentHash)>>, {}, b)
      BY <2>2 DEF evidenceExport
    <3> QED BY <3>2, <3>3, <1>1, TwoWrites
  <2> QED BY <2>1, <2>2
<1>12. \A path, f : OutcomeOK(argv, evidenceVerify(path, f))
  BY <1>2, <1>3, <1>4 DEF evidenceVerify, unknownScenario
<1>13. \A f, out : OutcomeOK(argv, out) => OutcomeOK(argv, requireFixture(f, out))
  BY <1>4 DEF requireFixture
<1>14. OutcomeOK(argv, evidence(args))
  BY <1>4, <1>11, <1>12, <1>13 DEF evidence
<1> HIDE DEF args
<1>15. o = dispatch(argv) /\ args = parseArgs(argv)
  BY DEF args
<1> QED BY <1>2, <1>4, <1>5, <1>6, <1>7, <1>10, <1>13, <1>14, <1>15 DEF dispatch

---------------------------------------------------------------------------
(* The configured commands on a bundle *)

\* The setup of a configured invocation that was not refused.
SetupOf(argv) == [manifest |-> Loaded(Manifests[argv.value["--manifest"]]),
                  policy |-> Loaded(Policies[argv.value["--policy"]])]

\* What is known of an invocation whose files were all usable.
Usable(argv) ==
  /\ argv \in Argvs
  /\ {"--manifest", "--policy"} \subseteq argv.flags
  /\ argv.value["--manifest"] \in DOMAIN Manifests /\ argv.value["--policy"] \in DOMAIN Policies
  /\ "--pins" \in argv.flags => argv.value["--pins"] \in DOMAIN PinFiles
  /\ ~ parseArgs(argv).faulty /\ ~ unusable(argv, parseArgs(argv))

LEMMA NotRefused ==
  ASSUME NEW argv \in Argvs, NEW offline,
         ~ refused(argv, parseArgs(argv), offline), ~ unusable(argv, parseArgs(argv))
  PROVE  Usable(argv)
BY CliAssumption DEF refused, Usable, Names, ConfigFlags

\* What is wrong with a chain of the manifest is wrong with the bundle.
LEMMA ChainFaultsBind ==
  ASSUME NEW bundle, NEW setup, NEW pins, bindBundle(bundle, setup, pins) = {},
         NEW c \in ToSet(setup.manifest.value.chains)
  PROVE  chainFaults(bundle, setup.policy.value, c) = {}
<1> DEFINE wrong == { chainFaults(bundle, setup.policy.value, d) : d \in ToSet(setup.manifest.value.chains) }
<1>1. UNION wrong = {}
  BY Zenon DEF bindBundle
<1>2. chainFaults(bundle, setup.policy.value, c) \in wrong
  OBVIOUS
<1> HIDE DEF wrong
<1> QED BY <1>1, <1>2

\* A bundle that is accepted is what the reviewed files describe.
LEMMA AcceptedIsBound ==
  ASSUME NEW argv, Usable(argv), NEW bundle, NEW pins, Accepts(bundle, SetupOf(argv), pins)
  PROVE  LET manifest == Manifests[argv.value["--manifest"]]
         IN  /\ bundle.verifies
             /\ bundle.manifestHash = manifest.digest /\ bundle.deployment = manifest.value.name
             /\ \A c \in ToSet(manifest.value.chains) :
                  /\ Cardinality(domainsOf(c)) >= Policies[argv.value["--policy"]].value.minDomains
                  /\ \E q \in bundle.chains : q.blockchainId = c.blockchainId /\ q.finality = c.finality
<1> DEFINE manifest == Manifests[argv.value["--manifest"]]
           policy   == Policies[argv.value["--policy"]]
           setup    == SetupOf(argv)
<1>1. bindBundle(bundle, setup, pins) = {} /\ bundle.verifies
  BY DEF Accepts, verifyBundle
<1>2. setup.manifest.value = manifest.value /\ setup.manifest.digest = manifest.digest
  BY DEF SetupOf, Loaded
<1>3. loadManifest(manifest) /\ loadPolicy(policy) /\ assertManifestMeetsPolicy(manifest.value, policy.value)
  BY DEF Usable, unusable, reviewed
<1>4. bundle.manifestHash = manifest.digest /\ bundle.deployment = manifest.value.name
  BY <1>1, <1>2 DEF bindBundle, When
<1>5. ASSUME NEW c \in ToSet(manifest.value.chains)
      PROVE  \E q \in bundle.chains : q.blockchainId = c.blockchainId /\ q.finality = c.finality
  <2>1. bindBundle(bundle, setup, pins) = {} /\ c \in ToSet(setup.manifest.value.chains)
    BY <1>1, <1>2, <1>5
  <2>2. chainFaults(bundle, setup.policy.value, c) = {}
    BY <2>1, ChainFaultsBind
  <2> QED BY <2>2 DEF chainFaults, When
<1>6. ASSUME NEW c \in ToSet(manifest.value.chains)
      PROVE  Cardinality(domainsOf(c)) >= policy.value.minDomains
  <2>1. ~ (Cardinality(domainsOf(c)) < policy.value.minDomains)
    BY <1>3, <1>6 DEF assertManifestMeetsPolicy, fakeQuorum
  <2>2. policy.value.minDomains \in Int
    <3>1. zQuorum(policy.value)
      BY <1>3, Zenon DEF loadPolicy, loadDocument, zPolicySpec
    <3> QED BY <3>1 DEF zQuorum
  <2>3. c.endpoints \in Seq(ToSet(c.endpoints))
    BY <1>6, CliAssumption DEF Usable
  <2>4. domainsOf(c) = {c.endpoints[i].trustDomain : i \in 1..Len(c.endpoints)}
    BY <2>3 DEF domainsOf, ToSet
  <2>5. IsFiniteSet(domainsOf(c))
    <3> DEFINE domainAt == [i \in 1..Len(c.endpoints) |-> c.endpoints[i].trustDomain]
    <3>1. IsFiniteSet(1..Len(c.endpoints))
      BY <2>3, FS_Interval
    <3>2. domainAt \in Surjection(1..Len(c.endpoints), domainsOf(c))
      BY <2>4 DEF Surjection
    <3> QED BY <3>1, <3>2, FS_Surjection
  <2>6. Cardinality(domainsOf(c)) \in Nat
    BY <2>5, FS_CardinalityType
  <2> QED BY <2>1, <2>2, <2>6
<1> QED BY <1>1, <1>4, <1>5, <1>6

LEMMA JudgeOK ==
  ASSUME FilesOK, now \in Nat, NEW argv, Usable(argv), NEW bundle \in Bundles, NEW pins
  PROVE  OutcomeOK(argv, judgeFile(SetupOf(argv), parseArgs(argv), bundle, pins, "--offline" \in argv.flags))
<1> DEFINE offline == "--offline" \in argv.flags
           setup  == SetupOf(argv)
           args   == parseArgs(argv)
           walks  == args.command = "replay" \/ args.resume \/ args.maxFacts # DefaultFacts
           replay == IF walks THEN replayOffline(bundle, args) ELSE [complete |-> TRUE, writes |-> <<>>, read |-> {}]
           stale  == ~offline /\ ~FreshFor(bundle, setup.policy.value)
           code   == exitCodeForVerdict(bundle.verdict)
           export == IF args.command = "evidence"
                     THEN <<Write("replayed.evidence.json", bundle),
                            Write("replayed.evidence.html", bundle.contentHash)>> ELSE <<>>
           given  == IF (stale \/ ~replay.complete) /\ code # "critical" THEN "requiredUnknown" ELSE code
           seen   == processed \cup replay.read
           o      == judgeFile(setup, args, bundle, pins, offline)
<1>1. CASE ~ Accepts(bundle, setup, pins) \/ args.command = "discover" \/ replay = None
  <2>1. o \in {Exit("requiredUnknown"), InvalidConfig}
    BY <1>1 DEF judgeFile
  <2> QED BY <2>1, Nothing DEF InvalidConfig
<1>2. CASE Accepts(bundle, setup, pins) /\ args.command # "discover" /\ replay # None
  <2>1. o = ExitWith(given, replay.writes \o export, replay.read, bundle)
    BY <1>2 DEF judgeFile
  <2>2. args.maxFacts \in Nat /\ bundle.facts \in Nat
    BY FactsLimit, CliAssumption DEF Usable
  <2>3. /\ WritesOK(replay.writes, seen)
        /\ walks /\ replay.complete => \A i \in 1..bundle.facts : <<bundle.contentHash, i>> \in seen
    <3>1. CASE walks
      BY <1>2, <2>2, <3>1, ReplayWalks
    <3>2. CASE ~ walks
      BY <3>2, NoWrites
    <3> QED BY <3>1, <3>2
  <2>4. WritesOK(export, seen)
    <3>1. CASE args.command = "evidence"
      <4>1. /\ ContentOK("replayed.evidence.json", bundle, seen)
            /\ ContentOK("replayed.evidence.html", bundle.contentHash, seen)
        BY DEF ContentOK, FixedNames
      <4> QED BY <3>1, <4>1, TwoWrites
    <3>2. CASE args.command # "evidence"
      BY <3>2, NoWrites
    <3> QED BY <3>1, <3>2
  <2>5. ASSUME given = "ok" PROVE Green(argv, bundle, now, seen)
    <3>1. ~ stale /\ replay.complete /\ code = "ok"
      BY <2>5
    <3>2. bundle.verdict = "OK"
      BY <3>1, CliAssumption DEF exitCodeForVerdict
    <3>3. "--offline" \in argv.flags \/ now \in bundle.observed..(bundle.expires - 1)
      <4>1. bundle.observed \in Int /\ bundle.expires \in Int
        BY CliAssumption
      <4>2. offline \/ FreshFor(bundle, setup.policy.value)
        BY <3>1
      <4>3. FreshFor(bundle, setup.policy.value) => ~ (now >= bundle.expires) /\ ~ (now < bundle.observed)
        BY DEF FreshFor
      <4> HIDE DEF setup, replay, stale, code, given, seen, walks
      <4> QED BY <4>1, <4>2, <4>3
    <3>4. WordAt(argv, 1) = "replay" => walks
      BY DEF parseArgs
    <3> HIDE DEF setup, replay, stale, code, given, seen, walks
    <3> QED BY <1>2, <2>3, <3>1, <3>2, <3>3, <3>4, AcceptedIsBound DEF Green, setup
  <2>6. WritesOK(replay.writes \o export, seen)
    BY <2>3, <2>4, MoreWrites
  <2> HIDE DEF setup, args, walks, replay, stale, code, export, given, o
  <2>7. OutcomeOK(argv, o)
    BY <2>1, <2>5, <2>6 DEF OutcomeOK, ExitWith, CodeOK
  <2> QED BY <2>7 DEF o, setup, args
<1> QED BY <1>1, <1>2

LEMMA CollectOK ==
  ASSUME NEW argv, "--file" \notin argv.flags, NEW collected \in Collected
  PROVE  OutcomeOK(argv, collect(collected))
<1>1. CASE collected = None
  BY <1>1, Nothing DEF collect
<1>2. CASE collected # None
  <2>1. collected \in Bundles
    BY <1>2 DEF Bundles
  <2>2. /\ ContentOK("collected.evidence.json", collected, processed \cup {})
        /\ ContentOK("collected.evidence.html", collected.contentHash, processed \cup {})
    BY <2>1 DEF ContentOK, FixedNames, Pages
  <2>3. WritesOK(<<Write("collected.evidence.json", collected),
                   Write("collected.evidence.html", collected.contentHash)>>, processed \cup {})
    BY <2>2, TwoWrites
  <2> QED BY <1>2, <2>3 DEF collect, OutcomeOK, ExitWith, CodeOK, Judges
<1> QED BY <1>1, <1>2

LEMMA DoctorOK ==
  ASSUME NEW argv, NEW setup, NEW pins, NEW network
  PROVE  OutcomeOK(argv, doctorConfigured(setup, pins, network))
BY Nothing DEF doctorConfigured, InvalidConfig

---------------------------------------------------------------------------
(* Discovery *)

LEMMA PinIsNumber ==
  ASSUME NEW f \in DOMAIN PinFiles, NEW id \in DOMAIN decodePins(PinFiles[f])
  PROVE  decodePins(PinFiles[f])[id].number \in Int
<1> DEFINE list == PinFiles[f]
           pin  == CHOOSE p \in ToSet(list) : p.blockchainId = id
<1>1. \E p \in ToSet(list) : p.blockchainId = id
  BY DEF decodePins
<1>2. pin \in ToSet(list)
  BY <1>1
<1>3. pin.number \in Int
  BY <1>2, CliAssumption DEF ToSet
<1>4. decodePins(list)[id].number = pin.number
  BY DEF decodePins
<1> QED BY <1>3, <1>4

\* The census of a reviewed manifest starts no later than its home contract.
LEMMA CensusStarts ==
  ASSUME NEW f \in DOMAIN Manifests, loadManifest(Manifests[f])
  PROVE  LET m == Manifests[f].value
         IN  /\ m.fromBlock \in Int /\ HomeChain(m).deploymentBlock \in Int
             /\ m.fromBlock <= HomeChain(m).deploymentBlock
<1> DEFINE m == Manifests[f].value
<1>1. zSpec(m) /\ checkManifestInvariants(m) = {}
  BY Zenon DEF loadManifest, loadDocument
<1>2. ~ (m.fromBlock > m.chains[1].deploymentBlock)
  <2> DEFINE A == UNION {chainIssues(c) : c \in ToSet(m.chains)}
             C == IF IsInjective([i \in DOMAIN m.chains |-> m.chains[i].blockchainId])
                  THEN {} ELSE {"duplicate-blockchain"}
             B == IF m.fromBlock > m.chains[1].deploymentBlock THEN {"census-starts-late"} ELSE {}
  <2>1. A \cup B \cup C = {}
    BY <1>1, Zenon DEF checkManifestInvariants
  <2>2. B = {}
    <3> HIDE DEF A, B, C
    <3> QED BY <2>1
  <2> QED BY <2>2
<1>3. m.chains \in Seq(ToSet(m.chains)) /\ m.fromBlock \in Int
  BY CliAssumption
<1>4. Len(m.chains) - 1 \in 1..32
  BY <1>1, Zenon DEF zSpec
<1>5. m.chains[1] \in ToSet(m.chains)
  BY <1>3, <1>4
<1>6. m.chains[1].deploymentBlock \in Int
  BY <1>5, CliAssumption
<1> QED BY <1>2, <1>3, <1>6 DEF HomeChain

\* A cursor to go on from holds what the blocks below it hold, whatever checkpoint was left.
LEMMA CursorHolds ==
  ASSUME FilesOK, NEW argv, Usable(argv), NEW pins, NEW resume,
         LET m    == Manifests[argv.value["--manifest"]].value
             last == pins[HomeChain(m).blockchainId].number
         IN  last \in Int /\ HomeChain(m).deploymentBlock <= last,
         NEW cursor, cursor = discoveryCursor(SetupOf(argv), pins, resume), cursor # None
  PROVE  LET m    == Manifests[argv.value["--manifest"]].value
             last == pins[HomeChain(m).blockchainId].number
         IN  /\ cursor.next \in Int /\ m.fromBlock <= cursor.next /\ cursor.next <= last + 1
             /\ OneIsHonest => cursor.registrations = RegisteredIn(m.fromBlock, cursor.next - 1)
<1> DEFINE m     == Manifests[argv.value["--manifest"]].value
           last  == pins[HomeChain(m).blockchainId].number
           setup == SetupOf(argv)
           file  == entries["discovery-checkpoint.json"]
<1>1. setup.manifest.value = m /\ setup.manifest.digest = Manifests[argv.value["--manifest"]].digest
  BY DEF SetupOf, Loaded
<1>2. m.fromBlock \in Int /\ HomeChain(m).deploymentBlock \in Int /\ m.fromBlock <= HomeChain(m).deploymentBlock
  BY CensusStarts DEF Usable, unusable, reviewed
<1>3. CASE ~ resume
  <2>1. cursor = [next |-> m.fromBlock, registrations |-> {}]
    BY <1>1, <1>3 DEF discoveryCursor, FreshCursor
  <2>2. RegisteredIn(m.fromBlock, m.fromBlock - 1) = {}
    <3>1. \A from \in Int : from..(from - 1) = {}
      OBVIOUS
    <3> HIDE DEF m
    <3> QED BY <1>2, <3>1, Zenon DEF RegisteredIn
  <2>3. m.fromBlock <= last /\ last \in Int
    <3>1. last \in Int /\ HomeChain(m).deploymentBlock <= last
      OBVIOUS
    <3> HIDE DEF m, last
    <3> QED BY <1>2, <3>1
  <2>4. /\ cursor.next \in Int /\ m.fromBlock <= cursor.next /\ cursor.next <= last + 1
        /\ OneIsHonest => cursor.registrations = RegisteredIn(m.fromBlock, cursor.next - 1)
    <3> HIDE DEF m, last
    <3> QED BY <1>2, <2>1, <2>2, <2>3
  <2> QED BY <2>4
<1>4. CASE resume
  <2>1. /\ Parses("discovery-checkpoint.json")
        /\ file.content.binding = binding(setup, pins)
        /\ file.content.next \in m.fromBlock..(last + 1)
        /\ cursor = [next |-> file.content.next, registrations |-> file.content.registrations]
    BY <1>1, <1>4 DEF discoveryCursor
  <2>2. ASSUME OneIsHonest
        PROVE  file.content.registrations = RegisteredIn(m.fromBlock, file.content.next - 1)
    <3>1. SavedOK(file.content)
      BY <2>1, <2>2, CliAssumption DEF Parses, FilesOK, FileOK, ContentOK
    <3>2. PICK g \in DOMAIN Manifests :
             /\ file.content.binding[1] = Manifests[g].digest
             /\ file.content.registrations = RegisteredIn(Manifests[g].value.fromBlock, file.content.next - 1)
      BY <3>1 DEF SavedOK
    <3>3. file.content.binding[1] = setup.manifest.digest
      <4>1. binding(setup, pins)[1] = setup.manifest.digest
        <5> HIDE DEF setup
        <5> QED BY DEF binding
      <4> HIDE DEF setup, file
      <4> QED BY <2>1, <4>1
    <3>4. Manifests[g].value = m
      BY <1>1, <3>2, <3>3, CliAssumption DEF Usable
    <3> QED BY <3>2, <3>4
  <2>7. last \in Int
    OBVIOUS
  <2>8. /\ cursor.next \in Int /\ m.fromBlock <= cursor.next /\ cursor.next <= last + 1
        /\ OneIsHonest => cursor.registrations = RegisteredIn(m.fromBlock, cursor.next - 1)
    <3> HIDE DEF m, file, last
    <3> QED BY <1>2, <2>1, <2>2, <2>7
  <2> QED BY <2>8
<1> QED BY <1>3, <1>4

LEMMA RegisteredJoins ==
  ASSUME NEW a \in Int, NEW b \in Int, NEW c \in Int, a <= b, b - 1 <= c
  PROVE  RegisteredIn(a, b - 1) \cup RegisteredIn(b, c) = RegisteredIn(a, c)
<1>1. a..(b - 1) \cup b..c = a..c
  OBVIOUS
<1> QED BY <1>1 DEF RegisteredIn

\* What as many domains as asked for agree on is what the chain holds, if one of them does not hide.
LEMMA AgreesOnTruth ==
  ASSUME NEW f, NEW p, NEW network, NEW from, NEW to, NEW max,
         HasHonestWitness(f, p, network, from, to, max)
  PROVE  agreedRange([manifest |-> Loaded(Manifests[f]), policy |-> Loaded(Policies[p])], network, from, to, max)
           \in {None, RegisteredIn(from, to)}
<1> DEFINE setup     == [manifest |-> Loaded(Manifests[f]), policy |-> Loaded(Policies[p])]
           witnesses == servingEndpoints(setup, network, from, to, max)
           Logs(e)   == logsOf(read(e, network, Policies[p].value), from, to)
           answers   == {Logs(e) : e \in ToSet(witnesses)}
           agreed    == agreedRange(setup, network, from, to, max)
<1>1. agreed = IF ~enoughDomains(setup, network, witnesses) \/ answers = {} \/ \E a, b \in answers : a # b
               THEN None ELSE CHOOSE a \in answers : TRUE
  BY DEF agreedRange, Loaded
<1>2. ASSUME agreed # None PROVE agreed = RegisteredIn(from, to)
  <2>1. PICK e \in ToSet(witnesses) : read(e, network, Policies[p].value) # "hides"
    BY <1>1, <1>2 DEF HasHonestWitness
  <2>2. Logs(e) = RegisteredIn(from, to) /\ Logs(e) \in answers
    BY <2>1 DEF logsOf, RegisteredIn
  <2>3. agreed = (CHOOSE a \in answers : TRUE) /\ \A a, b \in answers : a = b
    BY <1>1, <1>2
  <2> HIDE DEF agreed, answers, Logs
  <2> QED BY <2>2, <2>3
<1> QED BY <1>2

LEMMA DiscoverOK ==
  ASSUME FilesOK, NEW argv, Usable(argv), "--pins" \in argv.flags, NEW network \in Answers
  PROVE  OutcomeOK(argv, discoverConfigured(SetupOf(argv), parseArgs(argv),
                           decodePins(PinFiles[argv.value["--pins"]]), network))
<1> DEFINE f      == argv.value["--manifest"]
           m      == Manifests[f].value
           policy == Policies[argv.value["--policy"]].value
           setup  == SetupOf(argv)
           args   == parseArgs(argv)
           list   == PinFiles[argv.value["--pins"]]
           pins   == decodePins(list)
           home   == HomeChain(m)
           last   == pins[home.blockchainId].number
           cursor == discoveryCursor(setup, pins, args.resume)
           to     == Smaller(cursor.next + policy.maxLogRange - 1, last)
           scans  == cursor.next <= last
           agreed == IF scans THEN agreedRange(setup, network, cursor.next, to, args.maxFacts) ELSE {}
           all    == cursor.registrations \cup agreed
           next   == IF scans THEN to + 1 ELSE cursor.next
           complete == reached(next, last)
           candidate == candidateOf(m, last, all, complete)
           report == reportOf(m, last, all, next, complete)
           file   == [binding |-> binding(setup, pins), next |-> next, registrations |-> all]
           saved  == IF ~scans THEN <<>> ELSE <<Write("discovery-checkpoint.json", file)>>
           found  == saved \o <<Write("candidate.manifest.json", candidate), Write("discovery.json", report)>>
           o      == discoverConfigured(setup, args, pins, network)
<1>1. /\ setup.manifest.value = m /\ setup.policy.value = policy
      /\ setup.manifest.digest = Manifests[f].digest
  BY DEF SetupOf, Loaded
<1>2. reviewed(f, argv.value["--policy"]) /\ pinsDecode(list)
  BY DEF Usable, unusable
<1>3. CASE home.blockchainId \notin DOMAIN pins \/ cursor = None \/ last < home.deploymentBlock
           \/ (scans /\ agreed = None)
  <2>1. o \in {InvalidConfig, Exit("requiredUnknown")}
    <3> HIDE DEF setup, args, pins, m, policy
    <3> QED BY <1>1, <1>3 DEF discoverConfigured
  <2> QED BY <2>1, Nothing DEF InvalidConfig
<1>4. CASE ~ (home.blockchainId \notin DOMAIN pins \/ cursor = None \/ last < home.deploymentBlock
              \/ (scans /\ agreed = None))
  <2>1. o \in {ExitWith("invalidConfig", saved, {}, None), ExitWith("requiredUnknown", found, {}, None)}
    <3> HIDE DEF setup, args, pins, m, policy
    <3> QED BY <1>1, <1>4 DEF discoverConfigured
  <2>2. last \in Int
    BY <1>4, PinIsNumber DEF Usable
  <2>3. /\ m.fromBlock \in Int /\ home.deploymentBlock \in Int
    BY <1>2, CensusStarts DEF reviewed, Usable
  <2>4. home.deploymentBlock <= last
    <3> HIDE DEF home, last
    <3> QED BY <1>4, <2>2, <2>3
  <2>5. /\ cursor.next \in Int /\ m.fromBlock <= cursor.next /\ cursor.next <= last + 1
        /\ OneIsHonest => cursor.registrations = RegisteredIn(m.fromBlock, cursor.next - 1)
    <3>1. cursor # None
      BY <1>4
    <3> QED BY <2>2, <2>4, <3>1, CursorHolds
  <2>6. policy.maxLogRange \in Nat \ {0}
    <3>1. zDataPath(policy)
      BY <1>2, Zenon DEF reviewed, loadPolicy, loadDocument, zPolicySpec
    <3> QED BY <3>1 DEF zDataPath
  <2>7. to \in Int /\ (scans => cursor.next <= to /\ to <= last)
    <3> HIDE DEF cursor, last, policy
    <3> QED BY <2>2, <2>5, <2>6 DEF Smaller
  <2>8. OneIsHonest /\ scans => agreed = RegisteredIn(cursor.next, to)
    <3>1. args.maxFacts \in Nat
      BY FactsLimit DEF Usable
    <3>2. setup = [manifest |-> Loaded(Manifests[f]), policy |-> Loaded(Policies[argv.value["--policy"]])]
      BY DEF SetupOf
    <3> HIDE DEF cursor, to, args
    <3>3. OneIsHonest => HasHonestWitness(f, argv.value["--policy"], network, cursor.next, to, args.maxFacts)
      BY <1>2, <2>5, <2>7, <3>1 DEF OneIsHonest, Usable
    <3>4. OneIsHonest => agreedRange(setup, network, cursor.next, to, args.maxFacts)
                           \in {None, RegisteredIn(cursor.next, to)}
      BY <3>2, <3>3, AgreesOnTruth
    <3> HIDE DEF setup, scans
    <3> QED BY <1>4, <3>4
  <2>9. /\ next \in Int /\ next <= last + 1 /\ m.fromBlock <= next
        /\ OneIsHonest => all = RegisteredIn(m.fromBlock, next - 1)
    <3> HIDE DEF cursor, to, last, agreed, m
    <3>1. CASE scans
      <4>1. OneIsHonest => all = RegisteredIn(m.fromBlock, to)
        BY <2>3, <2>5, <2>7, <2>8, <3>1, RegisteredJoins
      <4> QED BY <2>2, <2>3, <2>5, <2>7, <3>1, <4>1
    <3>2. CASE ~ scans
      <4>1. agreed = {}
        BY <3>2 DEF agreed
      <4> QED BY <2>5, <3>2, <4>1
    <3> QED BY <3>1, <3>2
  <2>10. OneIsHonest => SavedOK(file)
    <3>1. f \in DOMAIN Manifests /\ file.binding[1] = Manifests[f].digest
      BY <1>1 DEF Usable, binding
    <3>2. file.next = next /\ file.registrations = all
      OBVIOUS
    <3> HIDE DEF file, all, next, f
    <3> QED BY <2>9, <3>1, <3>2 DEF SavedOK, m
  <2>11. OneIsHonest => CandidateOK(candidate)
    <3>1. /\ candidate.fromBlock = m.fromBlock /\ candidate.atBlock = last
          /\ candidate.completeness = "complete-from-deployment-block" =>
               next > last /\ {remoteOf(r) : r \in all} = rostered(m.remotes)
      BY DEF candidateOf, reached
    <3>2. rostered(candidate.remotes) = rostered(m.remotes)
      <4> DEFINE Seen(r) == {q.decimals : q \in {q \in all : remoteOf(q) = <<r.blockchainId, r.address>>}}
                 Updated(r) == [r EXCEPT !.decimals = IF Seen(r) = {} THEN @ ELSE CHOOSE d \in Seen(r) : TRUE]
      <4>1. candidate.remotes = {Updated(r) : r \in m.remotes}
        BY DEF candidateOf
      <4>2. \A r \in m.remotes : Updated(r).blockchainId = r.blockchainId /\ Updated(r).address = r.address
        OBVIOUS
      <4> HIDE DEF Updated, candidate
      <4> QED BY <4>1, <4>2 DEF rostered
    <3>3. OneIsHonest /\ next > last => all = RegisteredIn(m.fromBlock, last)
      <4>1. next > last => next - 1 = last
        <5> HIDE DEF next, last
        <5> QED BY <2>2, <2>9
      <4> HIDE DEF next, last, all, m
      <4> QED BY <2>9, <4>1
    <3> HIDE DEF candidate, all, next
    <3> QED BY <3>1, <3>2, <3>3 DEF CandidateOK
  <2>16. OneIsHonest => ReportOK(report)
    <3>1. /\ report.fromBlock = m.fromBlock /\ report.scannedThrough = next - 1 /\ report.pin = last
          /\ report.candidateRemotes = {remoteOf(r) : r \in all}
          /\ report.complete = (next > last)
      BY DEF reportOf, reached
    <3>2. next > last => next - 1 >= last
      <4> HIDE DEF next, last
      <4> QED BY <2>2, <2>9
    <3> HIDE DEF report, all, next, last, m
    <3> QED BY <2>9, <3>1, <3>2 DEF ReportOK
  <2> HIDE DEF file, candidate, report, scans
  <2>12. /\ \A s : ContentOK("discovery-checkpoint.json", file, s)
         /\ \A s : ContentOK("candidate.manifest.json", candidate, s)
         /\ \A s : ContentOK("discovery.json", report, s)
    BY <2>10, <2>11, <2>16 DEF ContentOK, FixedNames
  <2>13. WritesOK(saved, processed \cup {})
    BY <2>12, OneWrite, NoWrites
  <2>14. WritesOK(found, processed \cup {})
    BY <2>12, <2>13, TwoWrites, MoreWrites
  <2> HIDE DEF saved, found, o
  <2>15. OutcomeOK(argv, o)
    BY <2>1, <2>13, <2>14 DEF OutcomeOK, ExitWith, CodeOK
  <2> QED BY <2>15 DEF o
<1> QED BY <1>3, <1>4

---------------------------------------------------------------------------
(* An invocation *)

LEMMA FlagGiven ==
  ASSUME NEW argv, parseArgs(argv).file # None
  PROVE  "--file" \in argv.flags /\ parseArgs(argv).file = argv.value["--file"]
BY DEF parseArgs, ConfigFlags

LEMMA ConfiguredOK ==
  ASSUME FilesOK, now \in Nat, NEW argv \in Argvs,
         NEW network \in AnswersTo(argv), NEW collected \in CollectedBy(argv),
         ~ refused(argv, parseArgs(argv), "--offline" \in argv.flags), ~ unusable(argv, parseArgs(argv))
  PROVE  OutcomeOK(argv, configured(argv, parseArgs(argv), "--offline" \in argv.flags, network, collected))
<1> DEFINE args    == parseArgs(argv)
           offline == "--offline" \in argv.flags
           setup   == SetupOf(argv)
           pins    == IF "--pins" \in argv.flags THEN decodePins(PinFiles[argv.value["--pins"]]) ELSE None
           bundle  == readDocument(args.file)
           o       == configured(argv, args, offline, network, collected)
<1>1. Usable(argv)
  BY NotRefused
<1>2. args.command = WordAt(argv, 1)
  BY DEF parseArgs
<1>3. CASE args.command = "doctor"
  <2>1. o = doctorConfigured(setup, pins, network)
    BY <1>3 DEF configured, SetupOf
  <2> QED BY <2>1, DoctorOK
<1>4. CASE args.command = "collect"
  <2>1. o = collect(collected)
    BY <1>4 DEF configured
  <2>2. args.file = None
    BY <1>4 DEF refused
  <2>3. "--file" \notin argv.flags
    <3>1. ~ args.faulty
      BY <1>1 DEF Usable
    <3> QED BY <2>2, <3>1 DEF parseArgs, ConfigFlags, ValueFlags
  <2>4. collected \in Collected
    BY <1>2, <1>4 DEF CollectedBy
  <2> QED BY <2>1, <2>3, <2>4, CollectOK
<1>5. CASE args.command = "discover" /\ args.file = None
  <2>1. o = IF offline \/ pins = None THEN InvalidConfig ELSE discoverConfigured(setup, args, pins, network)
    BY <1>5 DEF configured, SetupOf
  <2>2. CASE offline \/ pins = None
    BY <2>1, <2>2, Nothing DEF InvalidConfig
  <2>3. CASE ~ (offline \/ pins = None)
    <3>1. "--pins" \in argv.flags /\ pins = decodePins(PinFiles[argv.value["--pins"]])
      BY <2>3
    <3>2. network \in Answers
      BY <1>2, <1>5 DEF AnswersTo
    <3>3. o = discoverConfigured(setup, args, pins, network)
      <4> HIDE DEF o, setup, args, offline
      <4> QED BY <2>1, <2>3
    <3>4. OutcomeOK(argv, discoverConfigured(setup, args, decodePins(PinFiles[argv.value["--pins"]]), network))
      BY <1>1, <3>1, <3>2, DiscoverOK
    <3>5. OutcomeOK(argv, o)
      <4> HIDE DEF o, setup, args, pins
      <4> QED BY <3>1, <3>3, <3>4
    <3> QED BY <3>5
  <2> QED BY <2>2, <2>3
<1>6. CASE args.command \notin {"doctor", "collect"} /\ ~ (args.command = "discover" /\ args.file = None)
  <2>1. o = IF args.file = None \/ bundle = None THEN InvalidConfig
            ELSE judgeFile(setup, args, bundle, pins, offline)
    BY <1>6 DEF configured, SetupOf
  <2>2. CASE args.file = None \/ bundle = None
    BY <2>1, <2>2, Nothing DEF InvalidConfig
  <2>3. CASE args.file # None /\ bundle # None
    <3>1. "--file" \in argv.flags /\ args.file = argv.value["--file"]
      BY <2>3, FlagGiven
    <3>2. args.file \notin FixedNames
      BY DEF unusable
    <3>3. bundle \in Bundles
      BY <2>3, <3>1, <3>2, DocumentIsBundle
    <3>4. o = judgeFile(setup, args, bundle, pins, offline)
      BY <2>1, <2>3
    <3> HIDE DEF o, pins, bundle
    <3> QED BY <1>1, <3>3, <3>4, JudgeOK DEF o
  <2> QED BY <2>1, <2>2, <2>3
<1> QED BY <1>3, <1>4, <1>5, <1>6

LEMMA RunOK ==
  ASSUME FilesOK, now \in Nat, NEW argv \in Argvs,
         NEW network \in AnswersTo(argv), NEW collected \in CollectedBy(argv)
  PROVE  OutcomeOK(argv, runAsync(argv, network, collected))
<1>1. CASE argv.flags \cap ConfigFlags = {}
  <2>1. "--manifest" \notin argv.flags
    BY <1>1 DEF ConfigFlags
  <2> QED BY <1>1, <2>1, FixtureOK DEF runAsync
<1>2. CASE /\ argv.flags \cap ConfigFlags # {}
           /\ refused(argv, parseArgs(argv), "--offline" \in argv.flags) \/ unusable(argv, parseArgs(argv))
  BY <1>2, Nothing DEF runAsync, InvalidConfig
<1>3. CASE /\ argv.flags \cap ConfigFlags # {}
           /\ ~ refused(argv, parseArgs(argv), "--offline" \in argv.flags) /\ ~ unusable(argv, parseArgs(argv))
  BY <1>3, ConfiguredOK DEF runAsync
<1> QED BY <1>1, <1>2, <1>3

---------------------------------------------------------------------------
(* The steps *)

\* More facts gone through leave every file as it is worth.
LEMMA FilesStay ==
  ASSUME FilesOK, UNCHANGED <<entries, durable>>, processed \subseteq processed'
  PROVE  FilesOK'
BY SeenGrows DEF FilesOK, FileOK

LEMMA ExitsStay ==
  ASSUME ExitsOK, exits' = exits, processed \subseteq processed'
  PROVE  ExitsOK'
BY SeenGrows DEF ExitsOK

LEMMA InitiallyOK == Init => CliInv
BY DEF Init, DirInit, CliInv, FilesOK, JobOK, ExitsOK

LEMMA InvokeOK ==
  ASSUME CliInv, Invoke
  PROVE  CliInv'
<1> PICK argv \in Argvs :
       \E outcome \in {runAsync(argv, n, c) : n \in AnswersTo(argv), c \in CollectedBy(argv)} :
         job' = Job(argv, outcome) /\ processed' = processed \cup outcome.read
  BY DEF Invoke
<1>1. PICK outcome \in {runAsync(argv, n, c) : n \in AnswersTo(argv), c \in CollectedBy(argv)} :
        /\ job' = Job(argv, outcome)
        /\ processed' = processed \cup outcome.read
  OBVIOUS
<1>2. OutcomeOK(argv, outcome)
  BY <1>1, RunOK DEF CliInv
<1>3. phase' = "open" /\ UNCHANGED <<entries, durable, now, exits>>
  BY DEF Invoke, dirVars
<1>4. FilesOK' /\ ExitsOK'
  BY <1>1, <1>3, FilesStay, ExitsStay DEF CliInv
<1>5. JobOK'
  BY <1>1, <1>2, <1>3 DEF JobOK, Job, OutcomeOK
<1> QED BY <1>3, <1>4, <1>5 DEF CliInv

LEMMA WriteStepOK ==
  ASSUME CliInv, WriteStep
  PROVE  CliInv'
<1>1. /\ job # None /\ job.writes # <<>>
      /\ UNCHANGED <<now, exits, processed>>
  BY DEF WriteStep
<1>2. now' \in Nat /\ ExitsOK'
  BY <1>1, ExitsStay DEF CliInv
<1>3. CASE phase = "open" /\ openTemp /\ phase' = "write" /\ UNCHANGED job
  <2>1. FilesOK'
    BY <1>1, <1>3, FilesStay DEF CliInv, openTemp
  <2>2. JobOK'
    BY <1>1, <1>3 DEF CliInv, JobOK
  <2> QED BY <1>2, <2>1, <2>2 DEF CliInv
<1>4. CASE phase = "write" /\ writeAndSync(Head(job.writes).content) /\ phase' = "rename" /\ UNCHANGED job
  <2>1. FilesOK'
    BY <1>1, <1>4, FilesStay DEF CliInv, writeAndSync
  <2>2. JobOK'
    BY <1>1, <1>4 DEF CliInv, JobOK, writeAndSync, Kept
  <2> QED BY <1>2, <2>1, <2>2 DEF CliInv
<1>5. CASE phase = "rename" /\ renameOver(Head(job.writes).name) /\ phase' = "sync" /\ UNCHANGED job
  <2> DEFINE name == Head(job.writes).name
  <2>1. /\ entries' = [entries EXCEPT ![name] = temp] /\ durable' = durable /\ temp # None
    BY <1>5 DEF renameOver
  <2>2. temp = Kept(Head(job.writes).content) /\ ContentOK(name, Head(job.writes).content, processed)
    BY <1>1, <1>5, FewerWrites DEF CliInv, JobOK
  <2>3. FileOK(name, temp)
    BY <2>2 DEF FileOK, Kept
  <2>4. FilesOK'
    <3> HIDE DEF name
    <3>1. /\ entries' = [n \in FileNames |-> entries'[n]]
          /\ \A n \in FileNames : entries'[n] = IF n = name THEN temp ELSE entries[n]
      BY <2>1 DEF CliInv, FilesOK
    <3>2. \A n, x : FileOK(n, x) => FileOK(n, x)'
      BY <1>1 DEF FileOK
    <3> QED BY <2>1, <2>3, <3>1, <3>2 DEF CliInv, FilesOK
  <2>5. JobOK'
    BY <1>1, <1>5 DEF CliInv, JobOK
  <2> QED BY <1>2, <2>4, <2>5 DEF CliInv
<1>6. CASE phase = "sync" /\ syncDirectory /\ phase' = "open" /\ job' = [job EXCEPT !.writes = Tail(@)]
  <2>1. FilesOK'
    <3>1. \A n, x : FileOK(n, x) => FileOK(n, x)'
      BY <1>1 DEF FileOK
    <3> QED BY <1>6, <3>1 DEF CliInv, FilesOK, syncDirectory
  <2>2. JobOK'
    <3>1. WritesOK(Tail(job.writes), processed)
      BY <1>1, FewerWrites DEF CliInv, JobOK
    <3> QED BY <1>1, <1>6, <3>1 DEF CliInv, JobOK
  <2> QED BY <1>2, <2>1, <2>2 DEF CliInv
<1> QED BY <1>3, <1>4, <1>5, <1>6 DEF WriteStep

LEMMA EndOK ==
  ASSUME CliInv, NEW code, Gives(code), code \in {job.code, "internalError", "invalidConfig"}, job # None,
         UNCHANGED <<entries, durable, now, processed>>
  PROVE  CliInv'
<1>1. FilesOK'
  BY FilesStay DEF CliInv
<1>2. JobOK' /\ now' \in Nat
  BY DEF CliInv, Gives, JobOK
<1>3. CodeOK(job.argv, code, job.bundle, job.at, processed)
  BY DEF CliInv, JobOK, CodeOK
<1>4. ExitsOK'
  BY <1>3 DEF CliInv, Gives, ExitsOK
<1> QED BY <1>1, <1>2, <1>4 DEF CliInv

LEMMA FaultOK ==
  ASSUME CliInv, Kill \/ PowerLoss
  PROVE  CliInv'
<1>1. job' = None /\ UNCHANGED <<now, exits, processed>>
  BY DEF Kill, PowerLoss
<1>2. JobOK' /\ ExitsOK' /\ now' \in Nat
  BY <1>1, ExitsStay DEF CliInv, JobOK
<1>3. CASE Kill
  BY <1>1, <1>2, <1>3, FilesStay DEF CliInv, Kill
<1>4. CASE PowerLoss
  <2>1. PICK landed \in SUBSET {n \in FileNames : entries[n] # durable[n]} :
          /\ entries' = [n \in FileNames |->
               IF n \notin landed THEN durable[n]
               ELSE [entries[n] EXCEPT !.whole = @ /\ entries[n].synced, !.synced = TRUE]]
          /\ durable' = entries'
    BY <1>4 DEF PowerLoss, losePower
  <2>2. \A n \in landed : entries[n] # None /\ FileOK(n, entries[n])
    BY <2>1 DEF CliInv, FilesOK
  <2>3. \A n \in landed : entries'[n] = entries[n]
    <3> SUFFICES ASSUME NEW n \in landed PROVE entries'[n] = entries[n]
      OBVIOUS
    <3>1. PICK c : entries[n] = Kept(c)
      BY <2>2 DEF FileOK
    <3>2. entries'[n] = [entries[n] EXCEPT !.whole = @ /\ entries[n].synced, !.synced = TRUE]
      BY <2>1
    <3>3. [Kept(c) EXCEPT !.whole = @ /\ Kept(c).synced, !.synced = TRUE] = Kept(c)
      BY DEF Kept
    <3> QED BY <3>1, <3>2, <3>3
  <2>4. \A n \in FileNames : entries'[n] # None => FileOK(n, entries'[n])
    BY <2>1, <2>2, <2>3 DEF CliInv, FilesOK
  <2>5. \A n, x : FileOK(n, x) => FileOK(n, x)'
    BY <1>1 DEF FileOK
  <2>6. FilesOK'
    BY <2>1, <2>4, <2>5 DEF FilesOK
  <2> QED BY <1>2, <2>6 DEF CliInv
<1> QED BY <1>3, <1>4

LEMMA CliStep == CliInv /\ [Next]_cliVars => CliInv'
<1> SUFFICES ASSUME CliInv, [Next]_cliVars PROVE CliInv'
  OBVIOUS
<1>1. CASE Invoke
  BY <1>1, InvokeOK
<1>2. CASE WriteStep
  BY <1>2, WriteStepOK
<1>3. CASE Finish
  BY <1>3, EndOK DEF Finish, dirVars
<1>4. CASE WriteFails
  BY <1>4, EndOK DEF WriteFails, unlinkOwned, dirVars
<1>5. CASE Kill \/ PowerLoss
  BY <1>5, FaultOK
<1>6. CASE Tick \/ UNCHANGED cliVars
  <2>1. now' \in Nat /\ UNCHANGED <<entries, durable, temp, job, phase, exits, processed>>
    BY <1>6 DEF Tick, cliVars, dirVars, CliInv
  <2>2. FilesOK' /\ ExitsOK'
    BY <2>1, FilesStay, ExitsStay DEF CliInv
  <2> QED BY <2>1, <2>2 DEF CliInv, JobOK
<1> QED BY <1>1, <1>2, <1>3, <1>4, <1>5, <1>6 DEF Next

LEMMA DiscoveryMeans == OneIsHonest /\ CliInv => DiscoveryExact
<1> SUFFICES ASSUME OneIsHonest, CliInv PROVE DiscoveryExact
  OBVIOUS
<1> DEFINE saved     == entries["discovery-checkpoint.json"]
           candidate == entries["candidate.manifest.json"]
           report    == entries["discovery.json"]
           From(digest) == CHOOSE p \in DOMAIN Manifests : Manifests[p].digest = digest
<1>1. ASSUME saved # None
      PROVE  LET m == Manifests[From(saved.content.binding[1])].value
             IN  saved.content.registrations = RegisteredIn(m.fromBlock, saved.content.next - 1)
  <2>1. SavedOK(saved.content)
    BY <1>1, CliAssumption DEF CliInv, FilesOK, FileOK, ContentOK
  <2>2. PICK f \in DOMAIN Manifests :
           /\ saved.content.binding[1] = Manifests[f].digest
           /\ saved.content.registrations = RegisteredIn(Manifests[f].value.fromBlock, saved.content.next - 1)
    BY <2>1 DEF SavedOK
  <2> DEFINE g == From(saved.content.binding[1])
  <2>3. g \in DOMAIN Manifests /\ Manifests[g].digest = Manifests[f].digest
    BY <2>2
  <2>4. Manifests[g].value = Manifests[f].value
    BY <2>3, CliAssumption
  <2> QED BY <2>2, <2>4
<1>2. ASSUME candidate # None PROVE CandidateOK(candidate.content)
  BY <1>2, CliAssumption DEF CliInv, FilesOK, FileOK, ContentOK
<1>3. ASSUME report # None PROVE ReportOK(report.content)
  BY <1>3, CliAssumption DEF CliInv, FilesOK, FileOK, ContentOK
<1> HIDE DEF From
<1> QED BY <1>1, <1>2, <1>3 DEF DiscoveryExact, CandidateOK, ReportOK, RegisteredIn, From

---------------------------------------------------------------------------
(* The theorems *)

LEMMA AlwaysInv == Spec => []CliInv
<1>1. Init => CliInv
  BY InitiallyOK
<1>2. CliInv /\ [Next]_cliVars => CliInv'
  BY CliStep
<1> QED BY <1>1, <1>2, PTL DEF Spec

\* A file of the evidence directory is there whole or not at all, whatever a command
\* writes, wherever a system call fails and whichever two calls a crash or a loss of
\* power falls between (atomic-write.ts 60-110).
THEOREM FilesAreWhole == Spec => []NoTornFile
<1>1. CliInv => NoTornFile
  BY InvMeans
<1> QED BY <1>1, AlwaysInv, PTL

\* Exit 0 of a configured command that judges a bundle is earned: the bundle verifies,
\* is bound to a reviewed manifest and policy whose quorum the chains can supply, was
\* fresh unless the run was offline, says OK, and a replay that says so has been through
\* every fact of it, over however many resumed runs (configured.ts 54-130, 334-357,
\* offline-replay.ts 17-66).
THEOREM GreenIsEarned == Spec => []GreenMeansAll
<1>1. CliInv => GreenMeansAll
  BY InvMeans
<1> QED BY <1>1, AlwaysInv, PTL

\* If of as many failure domains as a pair of documents asks for one never hides a
\* registration, discovery claims no block it has not scanned, through every resumed run
\* and crash and whatever pin a run is given: the checkpoint holds exactly the
\* registrations below its cursor, the report names the remotes registered as far as it
\* says it has scanned, which is the pin when it calls itself complete, and a candidate
\* with a complete census has the remotes registered up to the block it is of, and no
\* others (discovery.ts 90-126, 195-298).
THEOREM DiscoveryIsExact == OneIsHonest => (Spec => []DiscoveryExact)
<1> SUFFICES ASSUME OneIsHonest PROVE Spec => []DiscoveryExact
  OBVIOUS
<1>1. CliInv => DiscoveryExact
  BY DiscoveryMeans
<1> QED BY <1>1, AlwaysInv, PTL
=============================================================================
