----------------------------- MODULE Collector -----------------------------
(***************************************************************************)
(* packages/collector over one route: choose a pin on each chain, read the *)
(* chain through every independent witness and demand identical readings,  *)
(* assess the route at the two pins, run the rule, and emit evidence that  *)
(* its own verifier accepts.                                               *)
(*                                                                         *)
(* The home is pinned and read first and the remote afterwards, and both   *)
(* chains go on while this happens, so the two pins are never one moment.  *)
(* What an endpoint does during one read is free (Behaviours).  A reading   *)
(* holds the logs up to the pin, as the events of IcttRoute that stand for *)
(* them, and the balances at the pin; assembly decodes it (Adapters).      *)
(***************************************************************************)
EXTENDS IcttRoute, Evidence

CONSTANTS
  Endpoints,         \* the configured endpoints of each chain, in order
  Required,          \* max of the policy's and the chains' required groups
  Mode,              \* finality.mode of both chains
  MaxLogs,           \* bound of one reading (maxLogs)
  MaxAge,            \* policy evidence.maxAgeSeconds
  AgeLimit,          \* PENDING_AGE_LIMIT_SECONDS
  MaxFaulty          \* bound: endpoints of one chain that misbehave in one read

\* An endpoint's id is its place in the configuration; the policy's schema asks for two
\* independent groups at least.
ASSUME EndpointsAssumption ==
  /\ Endpoints \in Seq([id : Nat, trustDomain : Nat, providerGroup : STRING,
                        secretRef : Nat, host : STRING])
  /\ \A i \in DOMAIN Endpoints : Endpoints[i].id = i
  /\ Required \in Nat /\ Required >= 2
  /\ Mode \in {"accepted-quorum", "settled-quorum"}
  /\ MaxLogs \in Nat /\ MaxAge \in Nat /\ AgeLimit \in Nat

VARIABLES
  phase,      \* "home", "remote", "assemble", then "done"
  reading,    \* [home, remote]: an agreed side, or the reason there is none
  outvoted,   \* history: as many failure domains as Required lied in some read
  result      \* what collectConfigured returned

vars == <<chains, phase, reading, outvoted, result>>

Sides  == {"home", "remote"}
Hashes == {"main", "fork", "none"}

\* What was read is there.
ASSUME AbsentIsNoReading ==
  /\ Absent \notin {"manifest", "policy", "pinned-commit", "adapter"}
  /\ Absent \notin [chain : Sides, height : Int, hash : Hashes]

LogOf(side) == IF side = "home" THEN home ELSE remote
Prefix(log, height) == SubSeq(log, 1, height)

---------------------------------------------------------------------------
\* Endpoints.

\* honest, unreachable, one block behind, finalized tag one block behind, on a
\* different block at the top, serving another chain, answering with wrong
\* balances, answering with logs that miss the oldest event.
Lies       == {"fork", "skewed", "pruned"}
Behaviours == Lies \cup {"honest", "down", "behind", "unfinalized", "elsewhere"}

Below(height)       == IF height = 0 THEN 0 ELSE height - 1
headOf(b, log)      == IF b = "behind" THEN Below(Len(log)) ELSE Len(log)
finalizedOf(b, log) == IF b \in {"behind", "unfinalized"} THEN Below(Len(log)) ELSE Len(log)

\* The hash an endpoint gives for a height: a fork differs at the top block.
hashAt(b, log, height) == IF b = "fork" /\ height = Len(log) THEN "fork" ELSE "main"

\* What a settled-quorum chain offers is its finalized block, else its head.
offered(b, log) == IF Mode = "settled-quorum" THEN finalizedOf(b, log) ELSE headOf(b, log)

NoPin == [height |-> 0, hash |-> "none"]

\* The lowest height any answering endpoint offers, with the hash of the first
\* endpoint in order that answers for it.
choosePin(log, behaviour) ==
  LET answering == {i \in DOMAIN Endpoints : behaviour[i] # "down"}
      heights   == {offered(behaviour[i], log) : i \in answering}
      height    == CHOOSE h \in heights : \A k \in heights : h <= k
      first     == CHOOSE i \in answering : \A j \in answering : i <= j
  IN  IF answering = {} THEN NoPin
      ELSE [height |-> height, hash |-> hashAt(behaviour[first], log, height)]

\* identity, finality and fingerprint of one endpoint at the pin.
probeDeployment(b, log, pin) ==
  /\ b \notin {"down", "elsewhere"}
  /\ hashAt(b, log, pin.height) = pin.hash
  /\ finalizedOf(b, log) >= pin.height
  /\ finalityBasisStands(Mode, pin.height)

\* The balances asked of each chain, up to what the endpoint adds to them.
homeQueries(prefix, skew) ==
  [D |-> transferredBalance(prefix) + skew, escrow |-> escrowBalance(prefix),
   settings |-> SettingsResult(prefix)]
remoteQueries(prefix, skew) == [S |-> totalSupply(prefix) + skew]

\* One endpoint's whole reading at the pin, or why it is refused.
readChain(side, b, log, pin) ==
  LET prefix == Prefix(log, pin.height)
      seen   == IF b = "pruned" /\ prefix # <<>> THEN Tail(prefix) ELSE prefix
      skew   == IF b = "skewed" THEN 1 ELSE 0
  IN  IF Len(seen) > MaxLogs THEN [ok |-> FALSE, bounded |-> TRUE]
      ELSE [ok |-> TRUE, bounded |-> FALSE,
            value |-> [pin |-> pin, log |-> seen, first |-> pin.height - Len(seen),
                       calls |-> IF side = "home" THEN homeQueries(prefix, skew)
                                                  ELSE remoteQueries(prefix, skew)]]

\* Byte-identical or nothing: there is no majority.
agreeOnReadings(readings) ==
  IF Cardinality({r.value : r \in readings}) > 1 THEN "divergent"
  ELSE IF Cardinality(readings) < Required THEN "insufficient"
  ELSE "agreed"

Refusal(reason) == [ok |-> FALSE, reason |-> reason]

\* The failure domains among some of the endpoints of a configuration.
unitsOf(endpoints, ids) ==
  LET eligible == Q!Keep(endpoints, {e \in ToSet(endpoints) : e.id \in ids})
  IN  Q!collapsedIndependenceGroups(eligible, Q!correlateEndpoints(eligible))

unitsAmong == [ids \in SUBSET DOMAIN Endpoints |-> unitsOf(Endpoints, ids)]

\* The failure domains whose endpoints pass the probes at the pin.
eligibleUnits(log, behaviour, pin) ==
  unitsAmong[{i \in DOMAIN Endpoints : probeDeployment(behaviour[i], log, pin)}]

\* One reading per eligible failure domain, from the first endpoint of the domain that
\* gives one; read: what each endpoint returns.
readingsOf(units, read) ==
  LET Answers(u) == {i \in DOMAIN u : read[u[i].id].ok}
      first(u)   == u[CHOOSE i \in Answers(u) : \A j \in Answers(u) : i <= j]
  IN  {[witness |-> first(u), value |-> read[first(u).id].value]
         : u \in {x \in ToSet(units) : Answers(x) # {}}}

\* An endpoint had more logs than the bound, before any other of its domain answered.
exceeded(units, read) ==
  \E u \in ToSet(units) : \E i \in DOMAIN u :
    read[u[i].id].bounded /\ \A j \in 1..i : ~read[u[j].id].ok

collectSide(pin, readings, bounded) ==
  LET agreed == agreeOnReadings(readings)
  IN  IF pin = NoPin THEN Refusal("no-pin")
      ELSE IF agreed # "agreed"
        THEN Refusal(IF bounded THEN "log-bound-exceeded"
                     ELSE IF agreed = "divergent" THEN "witness-divergence"
                     ELSE "insufficient-independent-witnesses")
      ELSE LET any == (CHOOSE r \in readings : TRUE).value
           IN  [ok |-> TRUE, witnesses |-> {r.witness : r \in readings},
                pin |-> any.pin, log |-> any.log, first |-> any.first, calls |-> any.calls]
---------------------------------------------------------------------------
\* Decoding.

decodeLog(log) ==
  CASE log.name = "tokensSent"               -> decodeTokensSent(log)
    [] log.name = "tokensRouted"             -> decodeTokensRouted(log)
    [] log.name = "tokensAndCallSent"        -> decodeTokensAndCall(log)
    [] log.name = "remoteRegistered"         -> decodeRemoteRegistered(log)
    [] log.name = "receiveCrossChainMessage" -> decodeReceiveCrossChainMessage(log)
    [] OTHER                                 -> decodeOutcome(log)

FactNamed(log, fields) == {[name |-> log.name, fields |-> fields]}

\* A delivery of the route, with its payload.  The payload of another application's
\* delivery is never decoded.
deliveries(side, log, received) ==
  LET payload == decodeTransferrerMessage(received.message)
  IN  IF received.origin # ContractOf[Others(side)] \/ received.destination # ContractOf[side]
        THEN Decoded({})
      ELSE IF payload.ok
        THEN Decoded(FactNamed(log, [messageId |-> received.messageId, payload |-> payload.fields]))
        ELSE Undecodable

decodedFact(side, log) ==
  LET decoded == decodeLog(log)
  IN  IF ~decoded.ok THEN Undecodable
      ELSE IF log.name = "receiveCrossChainMessage" THEN deliveries(side, log, decoded.fields)
      ELSE Decoded(FactNamed(log, decoded.fields))

\* The facts of a block, for every block there can be: decoding is a function of the logs.
PossibleEvents ==
  {Event(kind, m, amount, delivers) :
     kind \in {"sent", "executed", "failed"}, m \in Outbound \cup Inbound,
     amount \in {Amount[m] : m \in Outbound \cup Inbound}
                  \cup {Amount[m] + 1 : m \in Outbound}, delivers \in BOOLEAN}
    \cup {Plain(kind) : kind \in {"registered", "untracked", "minted", "drained"} \cup Uninterpreted}
    \cup {Event(kind, NoMessage, 0, TRUE) : kind \in Strange \cup {"called"}}

factsOf ==
  [side \in Sides |-> [e \in PossibleEvents |-> {decodedFact(side, log) : log \in LogsOf(side, e)}]]

\* Every log of a reading decodes, and so does the one result that is a struct.
decodable(s) ==
  /\ \A side \in Sides : \A i \in DOMAIN s[side].log :
       \A f \in factsOf[side][s[side].log[i]] : f.ok
  /\ decodeRemoteSettingsResult(s.home.calls.settings).ok

\* The two readings with the facts of each block in the place of its logs.
decodedSides(s) ==
  [side \in Sides |->
    [s[side] EXCEPT !.log = [i \in DOMAIN @ |-> UNION {f.fields : f \in factsOf[side][@[i]]}]]]
---------------------------------------------------------------------------
\* What one reading says about a message.

\* The facts of that name, by block.
Named(side, name) == {i \in DOMAIN side.log : \E f \in side.log[i] : f.name = name}
FieldsAt(side, name, i) == (CHOOSE f \in side.log[i] : f.name = name).fields

FactsOf(side, name, m) == {i \in Named(side, name) : FieldsAt(side, name, i).messageId = m}
DeliveriesOf(side, m)  == FactsOf(side, "receiveCrossChainMessage", m)
PayloadAt(side, i)     == FieldsAt(side, "receiveCrossChainMessage", i).payload

\* The sends of m towards the contract on the other side.
SendsOf(d, s, m) ==
  {i \in FactsOf(s[d.src], "tokensSent", m) :
     LET sent == FieldsAt(s[d.src], "tokensSent", i)
     IN  sent.chain = ChainOf[d.dst] /\ sent.transferrer = ContractOf[d.dst]}
AmountSent(d, s, i) == FieldsAt(s[d.src], "tokensSent", i).amount

heightOf(side, i) == side.first + i

\* The coordinate of a log, and so of its digest.
Fact(chain, side, i) ==
  FactAt(chain, heightOf(side, i), IF heightOf(side, i) = side.pin.height THEN side.pin.hash ELSE "main")

\* One direction: src is where the transfer is accounted first.
Directed(direction) ==
  IF direction = "home-to-remote"
    THEN [messages |-> Outbound \cup {NoMessage}, src |-> "home", dst |-> "remote"]
    ELSE [messages |-> Inbound, src |-> "remote", dst |-> "home"]

\* Delivered and executed inside the destination cut.
Credited(d, s, m) == DeliveriesOf(s[d.dst], m) # {} /\ FactsOf(s[d.dst], "messageExecuted", m) # {}

\* A slip: the cut is taken for closed.
openEdgesUnseen(d, s) == {}

\* Credited inside the cut, caused outside it: no effect to judge, an open edge.
openEdges(d, s) ==
  {m \in d.messages : Credited(d, s, m) /\ SendsOf(d, s, m) = {}}

effectsOf(d, s) ==
  {LET sent      == SendsOf(d, s, m)
       delivered == DeliveriesOf(s[d.dst], m)
       amount    == PayloadAt(s[d.dst], CHOOSE i \in delivered : TRUE).amount
   IN  [key |-> m, remote |-> "remote", amount |-> amount,
        uniqueSource |-> Cardinality(sent) = 1,
        routeMatches |-> Cardinality(sent) = 1 /\ \A i \in sent : AmountSent(d, s, i) = amount,
        duplicate    |-> Cardinality(FactsOf(s[d.dst], "messageExecuted", m)) > 1
                           \/ Cardinality(delivered) > 1,
        sourceFact   |-> IF Cardinality(sent) = 1
                           THEN Fact(d.src, s[d.src], CHOOSE i \in sent : TRUE) ELSE Absent]
   : m \in {x \in d.messages : Credited(d, s, x) /\ SendsOf(d, s, x) # {}}}

\* Sent inside the source cut, not credited inside the destination cut.
InFlight(d, s) ==
  {m \in d.messages : SendsOf(d, s, m) # {} /\ ~Credited(d, s, m)}

pendingIn(direction, s) ==
  LET d == Directed(direction)
  IN  {LET i == CHOOSE x \in SendsOf(d, s, m) : TRUE
       IN  [key |-> m, direction |-> direction, remote |-> "remote",
            amount |-> AmountSent(d, s, i),
            age |-> s[d.src].pin.height - heightOf(s[d.src], i)] : m \in InFlight(d, s)}

\* The evidence record of a message: what was seen of it, and its state.
traceOf(d, s, m) ==
  LET executed == FactsOf(s[d.dst], "messageExecuted", m)
      failed   == FactsOf(s[d.dst], "messageExecutionFailed", m)
      credited == Credited(d, s, m)
      src      == {Fact(d.src, s[d.src], i) : i \in SendsOf(d, s, m)}
      dst(F)   == {Fact(d.dst, s[d.dst], i) : i \in F}
  IN  [msg   |-> m,
       state |-> IF credited THEN "EXECUTED_SUCCESS"
                 ELSE IF failed # {} THEN "EXECUTED_FAILED"
                 ELSE IF DeliveriesOf(s[d.dst], m) # {} THEN "DELIVERED"
                 ELSE "SOURCE_ACCOUNTED",
       facts |-> src \cup dst(failed) \cup dst(DeliveriesOf(s[d.dst], m))
                   \cup (IF credited THEN dst(executed) ELSE {})]

Directions == {"home-to-remote", "remote-to-home"}

assessDirection(direction, s) ==
  LET d == Directed(direction)
  IN  [pending |-> pendingIn(direction, s), effects |-> effectsOf(d, s), open |-> openEdges(d, s),
       traces |-> {traceOf(d, s, m) : m \in {x \in d.messages : Credited(d, s, x)} \cup InFlight(d, s)}]

\* Routed or send-and-call traffic, a delivery that is no single-hop send, a send to
\* another chain: the whole route is uninterpretable.
unsupportedTraffic(s) ==
  \/ \E name \in {"tokensRouted", "tokensAndCallSent"} : \E i \in Named(s.home, name) :
       LET f == FieldsAt(s.home, name, i)
       IN  f.chain = ChainOf.remote /\ f.transferrer = ContractOf.remote
  \/ Named(s.remote, "tokensAndCallSent") # {}
  \/ \E i \in Named(s.remote, "tokensSent") :
       FieldsAt(s.remote, "tokensSent", i).chain # ChainOf.home
  \/ \E side \in Sides : \E i \in Named(s[side], "receiveCrossChainMessage") :
       PayloadAt(s[side], i).type # "SINGLE_HOP_SEND"

assessRoute(s) ==
  LET both == {assessDirection(d, s) : d \in Directions}
  IN  [pending     |-> UNION {a.pending : a \in both},
       effects     |-> UNION {a.effects : a \in both},
       open        |-> UNION {a.open : a \in both},
       traces      |-> UNION {a.traces : a \in both},
       unsupported |-> unsupportedTraffic(s)]
---------------------------------------------------------------------------
\* Assembly of the proof input and of the bundle, s being the two agreed sides and
\* route what assessRoute makes of them.

PinOf(chain, side) == [chain |-> chain, height |-> side.pin.height, hash |-> side.pin.hash]

\* Registrations of the approved remote, and the remotes nobody approved.
IsApproved(s, i) == FieldsAt(s.home, "remoteRegistered", i).transferrer = ContractOf.remote
Registrations(s)  == {i \in Named(s.home, "remoteRegistered") : IsApproved(s, i)}
UnknownRemotes(s) ==
  {FieldsAt(s.home, "remoteRegistered", i).transferrer :
     i \in {j \in Named(s.home, "remoteRegistered") : ~IsApproved(s, j)}}

\* Registered, collateralised, and every account of the scale the same one: what the
\* manifest's decimals derive, the home's settings, and the registration.
scaleEstablished(s, expected) ==
  LET settings == decodeRemoteSettingsResult(s.home.calls.settings).fields
      derived  == deriveTokenMultiplierValues(HomeDecimals, expected)
  IN  /\ settings.registered /\ settings.collateralNeeded = 0
      /\ derived.ok
      /\ derived.tokenMultiplier = settings.tokenMultiplier
      /\ derived.multiplyOnRemote = settings.multiplyOnRemote
      /\ \E i \in Registrations(s) :
           /\ \A j \in Registrations(s) : i <= j
           /\ FieldsAt(s.home, "remoteRegistered", i).decimals = expected

remoteObservation(s, route, expected) ==
  [remote |-> "remote", D |-> s.home.calls.D, S |-> s.remote.calls.S,
   multiplier |-> decodeRemoteSettingsResult(s.home.calls.settings).fields.tokenMultiplier,
   multiplyOnRemote |-> decodeRemoteSettingsResult(s.home.calls.settings).fields.multiplyOnRemote,
   established |-> scaleEstablished(s, expected), remoteDecimals |-> expected,
   homePin |-> PinOf("home", s.home), remotePin |-> PinOf("remote", s.remote),
   fingerprint |-> TRUE, canonical |-> TRUE,
   singleHop |-> ~route.unsupported, imbalance |-> 0]

\* ages: wall clock minus the pin's timestamp, per side; negative is not fresh.
isFresh(ages) == \A side \in Sides : ages[side] \in 0..MaxAge

proofInput(s, route, ages, expected) ==
  LET counts == {Cardinality(s[side].witnesses) : side \in Sides}
  IN  [deployment |-> "deployment", family |-> "canonical-erc20",
       manifestHash |-> "manifest", policyHash |-> "policy",
       sourceLock |-> "pinned-commit", adapter |-> "adapter",
       census    |-> IF Registrations(s) # {} /\ UnknownRemotes(s) = {} THEN "complete" ELSE "partial",
       untracked |-> UnknownRemotes(s),
       cut       |-> IF route.open # {} THEN "open" ELSE "closed",
       fresh     |-> isFresh(ages),
       witnesses |-> CHOOSE n \in counts : \A k \in counts : n <= k,
       required  |-> Required,
       remotes   |-> {remoteObservation(s, route, expected)},
       pending   |-> route.pending, effects |-> route.effects,
       escrow    |-> s.home.calls.escrow, homePin |-> PinOf("home", s.home),
       ageLimit  |-> AgeLimit]

votesOf(chain, side, hash) ==
  {[id |-> e.id, trustDomain |-> e.trustDomain, providerGroup |-> e.providerGroup,
    chain |-> chain, hash |-> hash] : e \in side.witnesses}

\* Every log a trace or the census used.
usedFacts(s, route) ==
  (UNION {t.facts : t \in route.traces})
    \cup {Fact("home", s.home, i) : i \in Registrations(s)}

\* A slip: the canonicality of the blocks above the pin is asked for.
historyOfAbove(s, route) ==
  {[chain |-> f.chain, height |-> f.height, hash |-> f.hash,
    votes |-> votesOf(f.chain, s[f.chain], f.hash)]
     : f \in {g \in usedFacts(s, route) : g.height > s[g.chain].pin.height}}

\* Blocks of used facts below the pin of their chain, with the witnesses' votes.
historyOf(s, route) ==
  {[chain |-> f.chain, height |-> f.height, hash |-> f.hash,
    votes |-> votesOf(f.chain, s[f.chain], f.hash)]
     : f \in {g \in usedFacts(s, route) : g.height < s[g.chain].pin.height}}

\* A call that returns an amount, and the one that returns an address.
stateCall(path, chain, target, s, amount) ==
  [path |-> path, chain |-> chain, target |-> target, holder |-> "tokenHome",
   height |-> s[chain].pin.height, hash |-> s[chain].pin.hash,
   amount |-> amount, address |-> IF path = "tokenAddress" THEN "token" ELSE "none"]

\* in: the proof input; replayed: what the rule makes of it.
bundleCore(s, route, in, replayed) ==
  [deployment |-> in.deployment, manifestHash |-> in.manifestHash, policyHash |-> in.policyHash,
   sourceLock |-> in.sourceLock, adapter |-> in.adapter,
   fingerprints |-> {[chain |-> "home", address |-> "tokenHome", recognised |-> TRUE],
                     [chain |-> "remote", address |-> "remote", recognised |-> TRUE]},
   chains |-> {[chain |-> side, height |-> s[side].pin.height, hash |-> s[side].pin.hash,
                basis |-> Mode] : side \in Sides},
   votes |-> UNION {votesOf(side, s[side], s[side].pin.hash) : side \in Sides},
   independent |-> in.witnesses, required |-> Required,
   facts |-> usedFacts(s, route), history |-> historyOf(s, route),
   calls |-> {stateCall("tokenAddress", "home", "tokenHome", s, 0),
              stateCall("escrow", "home", "token", s, in.escrow),
              stateCall("transferredBalance", "home", "tokenHome", s, s.home.calls.D),
              stateCall("remoteTotalSupply", "remote", "remote", s, s.remote.calls.S)},
   census |-> in.census, registered |-> {"remote"},
   messages |-> route.traces,
   evaluation |-> replayed.evaluation, verdict |-> replayed.verdict,
   fresh |-> in.fresh, lifetime |-> 1, missing |-> {}, contradictory |-> {}, input |-> in]

unknown(reasons) == [status |-> "unknown", reasons |-> reasons]

\* The collector holds itself to the verifier anyone else will run.
upheld(bundle, found) ==
  IF found = {} THEN [status |-> "evidence", bundle |-> bundle] ELSE unknown(found)

---------------------------------------------------------------------------
\* The state machine.

Pending == [status |-> "pending"]

Init ==
  /\ RouteInit
  /\ phase = "home"
  /\ reading = [side \in Sides |-> Refusal("unread")]
  /\ outvoted = FALSE
  /\ result = Pending

\* Both chains go on until the second pin is read; afterwards nothing is read, and
\* after a refused home nothing that is read matters.
ChainStep ==
  /\ phase = "home" \/ (phase = "remote" /\ reading.home.ok)
  /\ RouteNext
  /\ UNCHANGED <<phase, reading, outvoted, result>>

BehaviourChoices ==
  {b \in [DOMAIN Endpoints -> Behaviours] :
     Cardinality({i \in DOMAIN Endpoints : b[i] # "honest"}) <= MaxFaulty}

\* The failure domains the collector counts that have an endpoint that lies.
LyingDomains(units, behaviour) ==
  {unit \in ToSet(units) : \E e \in ToSet(unit) : behaviour[e.id] \in Lies}

\* As in Assemble, a value is computed once and bound.
CollectSide(side) ==
  /\ phase = side
  /\ \E behaviour \in BehaviourChoices :
       \E pin \in {choosePin(LogOf(side), behaviour)} :
       \E units \in {eligibleUnits(LogOf(side), behaviour, pin)} :
       \E read \in {[i \in DOMAIN Endpoints |-> readChain(side, behaviour[i], LogOf(side), pin)]} :
       \E readings \in {readingsOf(units, read)} :
         /\ reading' = [reading EXCEPT ![side] = collectSide(pin, readings, exceeded(units, read))]
         /\ outvoted' = (outvoted \/ Cardinality(LyingDomains(units, behaviour)) >= Required)
  /\ phase' = IF side = "home" THEN "remote" ELSE "assemble"
  /\ UNCHANGED <<chains, result>>

\* How old the two pins may be, and the remote's decimals as the manifest has them.
Circumstances ==
  LET fresh == [side \in Sides |-> MaxAge]
  IN  {[ages |-> ages, expected |-> RemoteDecimals] :
         ages \in {fresh, [fresh EXCEPT !.home = -1], [fresh EXCEPT !.remote = MaxAge + 1]}}
        \cup {[ages |-> fresh, expected |-> RemoteDecimals + 1]}

\* assemble, one value after the other: each is computed once and bound.
AssembleDecoded(sides) ==
  \E s \in {sides}, c \in Circumstances :
  \E route \in {assessRoute(s)} :
  \E in \in {proofInput(s, route, c.ages, c.expected)} :
  \E replayed \in {replayProof(in)} :
  \E bundle \in {buildBundle(bundleCore(s, route, in, replayed))} :
  \E checks \in {Checks(bundle)} :
    result' = upheld(bundle, findings(checks))

\* Any side without an agreed reading makes the whole collection unknown.
Assemble ==
  /\ phase = "assemble"
  /\ LET refused == {side \in Sides : ~reading[side].ok}
     IN  \/ /\ refused # {}
            /\ result' = unknown({reading[side].reason : side \in refused})
         \/ /\ refused = {} /\ ~decodable(reading)
            /\ result' = unknown({"undecodable-observation"})
         \/ /\ refused = {} /\ decodable(reading)
            /\ AssembleDecoded(decodedSides(reading))
  /\ phase' = "done"
  /\ UNCHANGED <<chains, reading, outvoted>>

Next ==
  \/ ChainStep
  \/ \E side \in Sides : CollectSide(side)
  \/ Assemble

Spec == Init /\ [][Next]_vars
---------------------------------------------------------------------------
\* Properties.

Emitted == result.status = "evidence"
Status  == result.bundle.core.verdict.protocolStatus

\* The truth at the pins.
At(side) == Prefix(LogOf(side), reading[side].pin.height)
\* The manifest's decimals are the ones the remote registered with.
ManifestAgrees == \A r \in result.bundle.core.input.remotes : r.remoteDecimals = RemoteDecimals

\* No remote nobody approved, and nothing but single-hop sends.
Interpretable ==
  /\ ~Has(At("home"), "untracked", NoMessage)
  /\ \A kind \in Uninterpreted : ~Has(At("home"), kind, NoMessage)
  /\ ~Has(At("remote"), "called", NoMessage)
Sound    == phase = "done" /\ ~outvoted /\ \A side \in Sides : reading[side].ok

\* Everything executed in one prefix was sent in the other.
ClosedCut ==
  /\ \A m \in Outbound : Has(At("remote"), "executed", m) => Has(At("home"), "sent", m)
  /\ \A m \in Inbound  : Has(At("home"), "executed", m) => Has(At("remote"), "sent", m)

\* No skew between the two pins, no lag of one witness and no lie told by fewer
\* failure domains than required makes a healthy bridge look broken: CRITICAL
\* or WARN is only said of histories that contain a fault, however the logs are laid
\* out and whatever decimals the manifest claims (collect.ts 420-498, model.ts 139-236,
\* events.ts 144-376).
NoPhantomBreach ==
  Sound /\ Emitted /\ Status \in {"CRITICAL", "WARN"} => Faulty(At("home"), At("remote"))

\* OK is said only when every remote unit is accounted for at the two pins: nothing was
\* minted, executed twice or executed for another amount; the supply is no more than the
\* home's obligation; the escrow covers that obligation, so that what was ever drained
\* from it is no more than the dust of the sends; and no remote is registered that
\* nobody approved (gate-a.ts 153-266, gate-b.ts 99-165, collect.ts 639-652).
OkIsSound ==
  Sound /\ Emitted /\ Status = "OK" =>
    /\ ~Forged(At("home"), At("remote"))
    /\ ClosedCut
    /\ escrowBalance(At("home")) >= transferredBalance(At("home")) * Multiplier
    /\ totalSupply(At("remote")) <= transferredBalance(At("home"))
    /\ Interpretable
    /\ ManifestAgrees

\* A supply above the home's obligation is CRITICAL whenever the cut is closed,
\* the remote is registered and the route can be interpreted, whatever is in flight
\* at that moment: an unauthorised mint cannot hide behind traffic the other way.
ExcessIsCritical ==
  Sound /\ Emitted =>
    LET excess == totalSupply(At("remote")) > transferredBalance(At("home"))
    IN  excess /\ ClosedCut /\ Has(At("home"), "registered", NoMessage)
               /\ Interpretable /\ ManifestAgrees => Status = "CRITICAL"

\* What two agreed readings show is thrown away as unverifiable only when it is
\* stale, when no message was ever seen, or when the route itself carried a payload of
\* an unknown version: another application's payload never stops a collection, and the
\* bundle the collector assembles passes every other check of the verifier
\* (collect.ts 389-411, 493-498, 940-948).
EvidenceStands ==
  phase = "done" /\ (\A side \in Sides : reading[side].ok) /\ ~Emitted =>
    \/ result.reasons \subseteq {"freshness", "collections"}
    \/ /\ result.reasons = {"undecodable-observation"}
       /\ Has(At("remote"), "unknown", NoMessage)

\* Two endpoints fail together when they share a trust domain or a provider group; and
\* when they are one endpoint under two names.
Shares(e, f)   == e.trustDomain = f.trustDomain \/ e.providerGroup = f.providerGroup
Sharing(among) == {p \in among \X among : Shares(p[1], p[2])}
Joint(among)   == {p \in among \X among : Shares(p[1], p[2]) \/ Q!conclusive(p[1], p[2])}

\* A chain of related ones leads from e to f: what holds e and all that is related to
\* what it holds, holds f.
Linked(among, related, e, f) ==
  \A C \in SUBSET among :
    e \in C /\ (\A x \in C, y \in among : <<x, y>> \in related => y \in C) => f \in C

\* Every configuration of as many endpoints, up to the names: which of them are of one
\* trust domain, of one provider group, of one credential.
Labels == {name \in [DOMAIN Endpoints -> DOMAIN Endpoints] : \A i \in DOMAIN Endpoints : name[i] <= i}
Configured(domains, providers, secrets) ==
  [i \in DOMAIN Endpoints |-> [Endpoints[i] EXCEPT !.trustDomain = domains[i],
                                                   !.providerGroup = providers[i],
                                                   !.secretRef = secrets[i]]]

\* Of the endpoints that pass the probes (ids), however they are linked and whichever of
\* them give a reading, no two witnesses of a reading are linked.
ReadersCountOnce ==
  \A domains, providers, secrets \in Labels, ids \in SUBSET DOMAIN Endpoints :
  \A endpoints \in {Configured(domains, providers, secrets)} :
  \A units \in {unitsOf(endpoints, ids)}, giving \in SUBSET ids :
    LET read  == [i \in DOMAIN Endpoints |-> [ok |-> i \in giving, value |-> i]]
        among == {endpoints[i] : i \in ids}
        witnesses == {r.witness : r \in readingsOf(units, read)}
    IN  \A e, f \in witnesses : e # f => ~Linked(among, Joint(among), e, f)

\* The same of a quorum of heads (quorum.ts 168-316), whoever answers, lags, forks or is
\* on another chain; and one hash is agreed on, nobody being outvoted.
Answers ==
  LET Of(chain, head, hash) == [blockchainId |-> chain, head |-> head, hash |-> hash]
  IN  {Of("chain", head, hash) : head \in {4, 5}, hash \in {"a", "b"}}
        \cup {Of("chain", 0, "a"), Of("chain", 5, Q!NoAnswer), Of(Q!NoAnswer, 5, "a")}

ThisChain ==
  [blockchainId |-> "chain", evmChainId |-> "evm", networkId |-> "net", genesis |-> "genesis"]
HeadPolicy == [maxAge |-> 0, maxLag |-> 1, minIndependent |-> Required]

Observation(e, answer) ==
  [id |-> e.id, trustDomain |-> e.trustDomain, providerGroup |-> e.providerGroup,
   blockchainId |-> answer.blockchainId, evmChainId |-> "evm", networkId |-> "net",
   genesis |-> "genesis", observedAt |-> 0, head |-> answer.head, hash |-> answer.hash]

\* What a quorum of these observations promises.
Agreement(quorum, observations) ==
  LET answered == {o \in Q!notLagging(Q!admissible(observations, ThisChain, HeadPolicy, 0), HeadPolicy) :
                     o.hash # Q!NoAnswer}
  IN  /\ Cardinality(quorum.agreeing) >= Required
      /\ \A e, f \in quorum.agreeing : e # f => ~Linked(answered, Sharing(answered), e, f)
      /\ \A e \in quorum.agreeing : e.hash = quorum.hash /\ e.head >= quorum.height

QuorumCountsOnce ==
  \A domains, providers \in Labels, answer \in [DOMAIN Endpoints -> Answers] :
  \A endpoints \in {Configured(domains, providers, domains)} :
  \A observations \in {{Observation(endpoints[i], answer[i]) : i \in DOMAIN Endpoints}} :
  \A quorum \in {Q!evaluateQuorum(observations, ThisChain, HeadPolicy, 0)} :
    quorum.outcome = "agreed" => Agreement(quorum, observations)

\* The witnesses of an agreed reading fail independently: "a linked failure domain
\* counts as one witness, never two" (docs/SECURITY.md 129), a chain of links included, as
\* far as it runs through endpoints that answered: the code does not know the others
\* (collect.ts 318-333).  The correlated endpoints are merged before they are counted, by
\* the collector and by the quorum rule (collect.ts 293-364, independence.ts 32-94,
\* quorum.ts 93-111).
LinkedCountsOnce ==
  /\ Init => ReadersCountOnce /\ QuorumCountsOnce
  /\ \A side \in Sides : reading[side].ok =>
       \A e, f \in reading[side].witnesses : e # f => ~Shares(e, f)
=============================================================================
