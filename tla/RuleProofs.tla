----------------------------- MODULE RuleProofs -----------------------------
(***************************************************************************)
(* What the rule engine says, for every number of remotes, every balance    *)
(* and every set of messages in flight.  The runs check the engine on       *)
(* readings of one small route; here an input is any record with the fields *)
(* the rules read, and only the balances are known to be integers.          *)
(***************************************************************************)
EXTENDS NativeRule, FiniteSetTheorems, NaturalsInduction, WellFoundedInduction, TLAPS

Rpc == INSTANCE RpcQuorum

---------------------------------------------------------------------------
\* Gate A answers only inputs with no missing part and no unsupported shape.
LEMMA GateAAnswers ==
  ASSUME NEW in, evaluateGateA(in).outcome \in {"pass", "fail"}
  PROVE  unsupportedReasons(in) = {} /\ missingInputReasons(in) = {}
BY DEF evaluateGateA, Refused

---------------------------------------------------------------------------
\* A remote whose supply exceeds the home's obligation to it is CRITICAL, whatever
\* is in flight, at whatever age, on however many other remotes: no set of pending
\* messages explains it away (gate-a.ts 153-266, engine.ts 166-239).
THEOREM ExcessIsAlwaysCritical ==
  ASSUME NEW in,
         unsupportedReasons(in) = {}, missingInputReasons(in) = {},
         \A r \in in.remotes : inRange(r.D) /\ inRange(r.S) /\ inRange(r.multiplier),
         NEW r \in in.remotes, r.S > r.D
  PROVE  evaluateCanonicalErc20(in).verdict = "CRITICAL"
<1> DEFINE perRemote == {reconcileRemote(x, in) : x \in in.remotes}
           a == evaluateGateA(in)
<1>1. \E p \in perRemote : p.delta < 0
  <2>1. r.D \in Int /\ r.S \in Int
    BY MaxUintAssumption DEF inRange
  <2>2. reconcileRemote(r, in).delta = r.D - r.S
    BY DEF reconcileRemote
  <2>3. reconcileRemote(r, in) \in perRemote
    OBVIOUS
  <2> QED BY <2>1, <2>2, <2>3
<1>2. ~ \E x \in in.remotes : ~ \A v \in {x.D, x.S, x.multiplier} : inRange(v)
  OBVIOUS
<1>3. a.outcome = "fail" /\ a.critical = TRUE
  BY <1>1, <1>2 DEF evaluateGateA
<1>4. combine(a, evaluateGateB(in, a.outcome = "pass")) = "FAIL"
  BY <1>3 DEF combine
<1> QED BY <1>3, <1>4 DEF evaluateCanonicalErc20, verdictFor

\* OK is earned: it is only said when every shape is supported and no input is missing,
\* no effect is doubted, every remote's supply and what is in flight add up to the
\* obligation exactly, no unapproved remote is registered, and the escrow covers the
\* rounded-up liability (gate-a.ts 153-266, gate-b.ts 95-165, engine.ts 166-179).
THEOREM OkIsEarned ==
  ASSUME NEW in, evaluateCanonicalErc20(in).verdict = "OK"
  PROVE  /\ unsupportedReasons(in) = {} /\ missingInputReasons(in) = {}
         /\ effectReasons(in) = {}
         /\ \A r \in in.remotes :
              r.D - r.S = pendingOf(in, r, "home-to-remote") + pendingOf(in, r, "remote-to-home")
         /\ in.untracked = {} /\ in.census = "complete"
         /\ in.escrow - MapThenSumSet(LAMBDA r : homeUnits(r).ceil, in.remotes) >= 0
<1> DEFINE perRemote == {reconcileRemote(x, in) : x \in in.remotes}
           a == evaluateGateA(in)
           b == evaluateGateB(in, a.outcome = "pass")
<1>1. combine(a, b) = "PASS"
  <2>1. verdictFor(combine(a, b), a.critical) = "OK"
    BY DEF evaluateCanonicalErc20
  <2>2. combine(a, b) \in {"UNSUPPORTED", "UNKNOWN", "FAIL", "PASS"}
    BY DEF combine
  <2>3. CASE combine(a, b) = "FAIL"
    BY <2>1, <2>3 DEF verdictFor
  <2>4. CASE combine(a, b) \in {"UNSUPPORTED", "UNKNOWN"}
    BY <2>1, <2>4 DEF verdictFor
  <2> QED BY <2>2, <2>3, <2>4
<1>2. /\ a.outcome \notin {"unsupported", "unknown", "fail"}
      /\ b.outcome \notin {"unknown", "fail"}
  BY <1>1 DEF combine
<1>3. a.outcome = "pass"
  BY <1>2 DEF evaluateGateA, Refused
<1>4. unsupportedReasons(in) = {} /\ missingInputReasons(in) = {}
  BY <1>3, GateAAnswers
<1>5. effectReasons(in) = {} /\ ~ \E p \in perRemote : ~p.reconciled
  BY <1>3 DEF evaluateGateA, Refused
<1>6. ASSUME NEW r \in in.remotes
      PROVE  r.D - r.S = pendingOf(in, r, "home-to-remote") + pendingOf(in, r, "remote-to-home")
  <2>1. reconcileRemote(r, in) \in perRemote
    OBVIOUS
  <2>2. reconcileRemote(r, in).reconciled
    BY <1>5, <2>1
  <2> QED BY <2>2 DEF reconcileRemote
<1>7. b.outcome = "pass"
  BY <1>2 DEF evaluateGateB, GateB
<1>8. /\ in.untracked = {} /\ in.census = "complete"
      /\ in.escrow - MapThenSumSet(LAMBDA r : homeUnits(r).ceil, in.remotes) >= 0
  BY <1>3, <1>7 DEF evaluateGateB, GateB
<1> QED BY <1>4, <1>5, <1>6, <1>8

---------------------------------------------------------------------------
\* Scaling a remote's balance to home units never understates the liability and never
\* overstates it by more than one unit: the escrow that covers the sum of the ceilings
\* covers every remote unit (gate-b.ts 65-93).
THEOREM LiabilityCovers ==
  ASSUME NEW amount \in Nat, NEW multiplier \in Nat,
         toHomeUnits(amount, multiplier, TRUE).ok
  PROVE  LET units == toHomeUnits(amount, multiplier, TRUE)
         IN  /\ amount <= units.ceil * multiplier
             /\ units.floor * multiplier <= amount
             /\ units.ceil - units.floor \in {0, 1}
<1>1. multiplier > 0
  BY DEF toHomeUnits, ScaleFailure
<1> DEFINE q == amount \div multiplier
           r == amount % multiplier
<1>2. q \in Nat /\ r \in 0..(multiplier - 1) /\ amount = multiplier * q + r
  BY <1>1, SMT
<1>3. /\ toHomeUnits(amount, multiplier, TRUE).floor = q
      /\ toHomeUnits(amount, multiplier, TRUE).ceil = q + (IF r = 0 THEN 0 ELSE 1)
  BY <1>1, <1>2 DEF toHomeUnits, ScaleFailure
<1> DEFINE floor == toHomeUnits(amount, multiplier, TRUE).floor
           ceil  == toHomeUnits(amount, multiplier, TRUE).ceil
<1> HIDE DEF q, r, floor, ceil
<1>4. (q + 1) * multiplier = q * multiplier + multiplier /\ multiplier * q = q * multiplier
  BY <1>2
<1>5. q * multiplier \in Int
  BY <1>2
<1>6. amount <= ceil * multiplier /\ floor * multiplier <= amount /\ ceil - floor \in {0, 1}
  <2>1. CASE r = 0
    <3>1. floor = q /\ ceil = q + 0
      BY <1>3, <2>1 DEF floor, ceil
    <3>2. q + 0 = q
      BY <1>2
    <3> QED BY <1>2, <1>4, <1>5, <2>1, <3>1, <3>2
  <2>2. CASE r # 0
    <3>1. floor = q /\ ceil = q + 1
      BY <1>2, <1>3, <2>2 DEF floor, ceil
    <3>2. ceil * multiplier = q * multiplier + multiplier /\ ceil - floor = 1
      BY <1>2, <1>4, <3>1
    <3> QED BY <1>2, <1>4, <1>5, <2>2, <3>1, <3>2
  <2> QED BY <2>1, <2>2
<1> QED BY <1>6 DEF floor, ceil

---------------------------------------------------------------------------
\* Aggregation.

\* A proven breach survives whatever else is aggregated with it: more rules, missing
\* evaluations, expired answers, faults or degraded data never turn it into anything
\* weaker (verdict.ts 95-171).
THEOREM BreachSurvives ==
  ASSUME NEW before, NEW after, before.contributions \subseteq after.contributions,
         aggregate(before).protocolStatus = "CRITICAL"
  PROVE  aggregate(after).protocolStatus = "CRITICAL"
<1>1. criticalRules(before.contributions) # {}
  BY DEF aggregate
<1>2. criticalRules(after.contributions) # {}
  BY <1>1 DEF criticalRules
<1> QED BY <1>2 DEF aggregate

\* A deployment is only OK when every rule that was asked for was answered and none
\* fails, nothing is missing, expired or faulty, and the data and the coverage are
\* complete (verdict.ts 107-171).
THEOREM OkIsComplete ==
  ASSUME NEW in, aggregate(in).protocolStatus = "OK",
         \A c \in in.contributions : c.critical \in BOOLEAN /\ c.required \in BOOLEAN
  PROVE  /\ \A c \in in.contributions :
              /\ ~c.critical /\ c.result # "FAIL"
              /\ c.required => c.result \notin {"UNKNOWN", "UNSUPPORTED"}
         /\ in.missing = {} /\ in.faults = {} /\ ~in.previousOkExpired
         /\ in.dataStatus = "COMPLETE" /\ in.coverage = "COMPLETE"
<1>1. /\ criticalRules(in.contributions) = {}
      /\ ~hasBlockingUnknown(in)
      /\ ~ \E c \in in.contributions : c.result = "FAIL" /\ ~c.critical
  BY DEF aggregate
<1>2. \A c \in in.contributions : ~c.critical
  BY <1>1 DEF criticalRules
<1>3. \A c \in in.contributions : c.required => c.result \notin {"UNKNOWN", "UNSUPPORTED"}
  <2>1. unknownRules(in.contributions) = {}
    BY <1>1 DEF hasBlockingUnknown
  <2> QED BY <2>1 DEF unknownRules
<1> QED BY <1>1, <1>2, <1>3 DEF hasBlockingUnknown

\* Exit code 0 and the green light differ in one thing only: a green deployment is one
\* that exits with 0 under a claim the rule engine supports (verdict.ts 95-171, 173-186;
\* domain exit-codes).
THEOREM GreenExitsZero ==
  ASSUME NEW in, in.dataStatus \in {"COMPLETE", "STALE", "DIVERGENT", "PARTIAL"}
  PROVE  LET v == aggregate(in)
         IN  isOverallGreen(v) <=> /\ exitCodeFor(v) = 0
                                   /\ v.claimMode \notin {"UNSUPPORTED", "INDETERMINATE"}
<1> DEFINE v == aggregate(in)
<1>1. v.protocolStatus \in {"OK", "CRITICAL", "UNKNOWN", "WARN"}
  BY DEF aggregate
<1>2. v.protocolStatus = "OK" => v.dataStatus = "COMPLETE" /\ v.coverage = "COMPLETE"
  BY DEF aggregate, hasBlockingUnknown
<1>3. exitCodeFor(v) = 0 <=> v.protocolStatus = "OK"
  BY <1>1 DEF exitCodeFor
<1> QED BY <1>2, <1>3 DEF isOverallGreen

---------------------------------------------------------------------------
\* Configuration drift.

\* Drift of a control that can change the money stays CRITICAL whatever else is observed,
\* the set of controls is then never said to be established, and a remote that was only
\* discovered is a candidate and confirms nothing (drift.ts 100-131).
THEOREM DriftStands ==
  ASSUME NEW before, NEW after, before \subseteq after,
         \A o \in after : o.control \in DRIFT_CONTROLS /\ o.status \in DriftStatuses,
         NEW found \in after, found.status = classifyDiscoveredRemote(FALSE)
  PROVE  /\ assessDrift(before).critical =>
              assessDrift(after).critical /\ ~assessDrift(after).allRequiredEstablished
         /\ found \in assessDrift(after).candidates
         /\ found \notin assessDrift(after).confirmed
<1>1. ASSUME assessDrift(before).critical
      PROVE  assessDrift(after).critical /\ ~assessDrift(after).allRequiredEstablished
  <2>1. PICK o \in before : o.required /\ o.status = "drift" /\ o.control \in CRITICAL_CONTROLS
    BY <1>1 DEF assessDrift
  <2>2. o \in {x \in {y \in after : y.required} : x.status = "drift"}
    BY <2>1
  <2> QED BY <2>1, <2>2 DEF assessDrift
<1>2. found.status = "candidate"
  BY DEF classifyDiscoveredRemote
<1> QED BY <1>1, <1>2 DEF assessDrift

---------------------------------------------------------------------------
\* Native tokens.

\* "sufficient" is never said of a supply that can grow unseen: it needs every
\* component observed, remints counted, a complete minter census without a surprise,
\* and an upper bound the coverage holds (native.ts 158-300).
THEOREM SufficientIsBounded ==
  ASSUME NEW in, assessNative(in).assessment = "sufficient",
         in.census.unauthorisedMint \in BOOLEAN
  PROVE  /\ Absent \notin NativeComponents(in) /\ in.remintIncluded
         /\ censusComplete(in.census)
         /\ in.census.unexpected = {} /\ ~in.census.unauthorisedMint
         /\ created(in) - burned(in) <= in.coverage
<1>1. assessMinterCensus(in.census).established
  BY DEF assessNative
<1>2. /\ censusComplete(in.census)
      /\ in.census.unexpected = {} /\ ~in.census.unauthorisedMint
  BY <1>1 DEF assessMinterCensus
<1>3. /\ Absent \notin NativeComponents(in) /\ in.remintIncluded
      /\ created(in) - burned(in) <= in.coverage
  BY DEF assessNative
<1> QED BY <1>2, <1>3

---------------------------------------------------------------------------
(* The quorum the readings rest on, and one retried request *)

LEMMA SameCardinality == \A S : Rpc!Cardinality(S) = Cardinality(S)
BY DEF Rpc!Cardinality, Cardinality

\* There is no majority rule: a quorum agrees only when every admissible witness
\* within the lag that answered reported the one hash, and nobody is outvoted
\* (quorum.ts 168-316).
THEOREM NobodyIsOutvoted ==
  ASSUME NEW observations, IsFiniteSet(observations), NEW expected, NEW policy, NEW now,
         Rpc!evaluateQuorum(observations, expected, policy, now).outcome = "agreed",
         NEW o \in Rpc!notLagging(Rpc!admissible(observations, expected, policy, now), policy),
         o.hash # Rpc!NoAnswer
  PROVE  o.hash = Rpc!evaluateQuorum(observations, expected, policy, now).hash
<1> DEFINE kept     == Rpc!notLagging(Rpc!admissible(observations, expected, policy, now), policy)
           withHash == {x \in kept : x.hash # Rpc!NoAnswer}
           hashes   == {x.hash : x \in withHash}
           quorum   == Rpc!evaluateQuorum(observations, expected, policy, now)
<1>1. kept # {} /\ o \in withHash /\ o.hash \in hashes
  OBVIOUS
<1>2. IsFiniteSet(hashes)
  <2>1. withHash \subseteq observations
    BY DEF Rpc!notLagging, Rpc!admissible
  <2>2. IsFiniteSet(withHash)
    BY <2>1, FS_Subset
  <2> DEFINE hashOf == [x \in withHash |-> x.hash]
  <2>3. hashOf \in Surjection(withHash, hashes)
    BY DEF Surjection
  <2> HIDE DEF withHash, hashes, hashOf
  <2> QED BY <2>2, <2>3, FS_Surjection
<1>3. ~(Cardinality(hashes) > 1) /\ quorum.hash = CHOOSE h \in hashes : TRUE
  BY <1>1, SameCardinality DEF Rpc!evaluateQuorum, Rpc!Quorum
<1>4. Cardinality(hashes) = 1
  <2> HIDE DEF hashes
  <2>1. Cardinality(hashes) \in Nat /\ Cardinality(hashes) # 0
    BY <1>1, <1>2, FS_CardinalityType, FS_EmptySet
  <2> QED BY <1>3, <2>1
<1>5. PICK h : hashes = {h}
  BY <1>2, <1>4, FS_Singleton
<1> QED BY <1>1, <1>3, <1>5

\* A pin contradicts nobody: no admissible witness within the lag that answered holds
\* another hash at the pinned height, the pin rests on a finality that was probed, and
\* it is usable for exactly its freshness (pinned.ts 31-162, quorum.ts 318-348).
THEOREM PinContradictsNobody ==
  ASSUME NEW observations, IsFiniteSet(observations), NEW expected, NEW policy, NEW now,
         NEW capability, NEW observedAt \in Nat, NEW freshness \in Nat, NEW later \in Nat,
         Rpc!buildPinnedContext(Rpc!evaluateQuorum(observations, expected, policy, now),
                            capability, observedAt, freshness).ok,
         NEW o \in Rpc!notLagging(Rpc!admissible(observations, expected, policy, now), policy),
         o.hash # Rpc!NoAnswer
  PROVE  LET pin == Rpc!buildPinnedContext(Rpc!evaluateQuorum(observations, expected, policy, now),
                                       capability, observedAt, freshness)
         IN  /\ ~Rpc!integrityConflict([height |-> pin.height, hash |-> pin.hash],
                                   [height |-> pin.height, hash |-> o.hash])
             /\ capability.evidence \in {"probed-finality-tag", "probed-accepted-only"}
             /\ Rpc!isExpired(pin, later) <=> later - observedAt > freshness
<1> DEFINE quorum == Rpc!evaluateQuorum(observations, expected, policy, now)
           pin    == Rpc!buildPinnedContext(quorum, capability, observedAt, freshness)
<1>0. pin.ok
  OBVIOUS
<1>1. quorum.outcome = "agreed" /\ Rpc!decideFinalityBasis(capability) # "none"
  <2> HIDE DEF quorum
  <2> QED BY <1>0 DEF Rpc!buildPinnedContext
<1>2. pin.hash = quorum.hash /\ pin.expiresAt = observedAt + freshness
  <2> HIDE DEF quorum
  <2> QED BY <1>1 DEF Rpc!buildPinnedContext
<1>3. o.hash = quorum.hash
  BY <1>1, NobodyIsOutvoted
<1>4. capability.evidence \in {"probed-finality-tag", "probed-accepted-only"}
  BY <1>1 DEF Rpc!decideFinalityBasis
<1>5. ~Rpc!integrityConflict([height |-> pin.height, hash |-> pin.hash],
                         [height |-> pin.height, hash |-> o.hash])
  <2> HIDE DEF pin, quorum
  <2> QED BY <1>2, <1>3 DEF Rpc!integrityConflict
<1>6. Rpc!isExpired(pin, later) <=> later - observedAt > freshness
  <2> HIDE DEF pin, quorum
  <2> QED BY <1>2 DEF Rpc!isExpired
<1> QED BY <1>4, <1>5, <1>6

---------------------------------------------------------------------------
\* Every non-empty set of naturals has a least member.
LEMMA LeastOfSome ==
  ASSUME NEW S \in SUBSET Nat, S # {}
  PROVE  \E least \in S : \A n \in S : least <= n
<1>1. IsWellFoundedOn(OpToRel(<, Nat), Nat)
  BY NatLessThanWellFounded
<1>2. PICK least \in S : \A n \in S : <<n, least>> \notin OpToRel(<, Nat)
  BY <1>1, WFMin
<1>3. \A n \in S : ~ (n < least)
  BY <1>2 DEF OpToRel
<1> QED BY <1>3

\* Only a transient fault is met again: a request is tried at most once more than
\* maxRetries allows retries, and every attempt before the last one met a fault the
\* same request may outlive - a permanent one is never retried (transport.ts 144-209,
\* errors.ts 37-45).
THEOREM PermanentIsNotRetried ==
  ASSUME NEW answers, NEW maxRetries \in Nat, NEW backoff
  PROVE  LET n == Rpc!sendChecked(answers, maxRetries, backoff).attempts
         IN  /\ n \in 1..(maxRetries + 1)
             /\ \A i \in 1..(n - 1) : answers[i] \in Rpc!TRANSIENT_FAULTS \cup {"thrown"}
             /\ n <= maxRetries => Rpc!ends(answers[n])
<1> DEFINE ending == {i \in 1..(maxRetries + 1) : Rpc!ends(answers[i])}
           n == Rpc!attemptsMade(answers, maxRetries)
<1> HIDE DEF n
<1>0. Rpc!sendChecked(answers, maxRetries, backoff).attempts = n
  BY DEF Rpc!sendChecked, n
<1>1. CASE ending = {}
  <2>1. n = maxRetries + 1 /\ \A i \in 1..(maxRetries + 1) : ~Rpc!ends(answers[i])
    BY <1>1 DEF Rpc!attemptsMade, n
  <2>2. \A i \in 1..(n - 1) : ~Rpc!ends(answers[i])
    BY <2>1
  <2> QED BY <1>0, <2>1, <2>2 DEF Rpc!ends
<1>2. CASE ending # {}
  <2>1. \E i \in ending : \A j \in ending : i <= j
    <3>1. ending \in SUBSET Nat
      OBVIOUS
    <3> HIDE DEF ending
    <3> QED BY <1>2, <3>1, LeastOfSome
  <2>2. n = CHOOSE i \in ending : \A j \in ending : i <= j
    BY <1>2 DEF Rpc!attemptsMade, n
  <2>3. n \in ending /\ \A j \in ending : n <= j
    BY <2>1, <2>2
  <2>4. \A i \in 1..(n - 1) : ~Rpc!ends(answers[i])
    BY <2>3
  <2> QED BY <1>0, <2>3, <2>4 DEF Rpc!ends
<1> QED BY <1>1, <1>2

\* Every status an endpoint refuses with is classified as a fault that may be met again,
\* a client error included, although the classifier is documented as "Anything
\* unrecognised is not transient" (errors.ts 37-45, 122-129).
THEOREM EveryStatusIsTransient ==
  ASSUME NEW status \in Nat
  PROVE  Rpc!faultForStatus(status) \in Rpc!TRANSIENT_FAULTS /\ ~Rpc!ends(Rpc!faultForStatus(status))
BY DEF Rpc!ends, Rpc!faultForStatus, Rpc!TRANSIENT_FAULTS
=============================================================================
