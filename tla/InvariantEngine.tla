-------------------------- MODULE InvariantEngine --------------------------
(***************************************************************************)
(* The pure rule engine of packages/invariant-core: the canonical ERC20    *)
(* rule (gate A, gate B, their combination), the native upper-bound rule,  *)
(* configuration drift, and the aggregation of rule results into one       *)
(* verdict with its CLI exit code.                                         *)
(*                                                                         *)
(* Everything here is an operator: the engine has no clock, no network and *)
(* no state.  A proof input is a record; a list whose order the engine     *)
(* ignores is a set; a (chain, address) pair that names a remote is one    *)
(* value, its field "remote".  A balance that was not observed is Absent.  *)
(* A reason code is its middle part ("A01" for                             *)
(* ACC-A01-EXCESS-REMOTE-REPRESENTATION).  Numbers keep the bound the code *)
(* gives them: MaxUint stands for 2^256 - 1, and crossing it is reported,  *)
(* never wrapped.                                                          *)
(***************************************************************************)
EXTENDS Integers, FiniteSets, FiniteSetsExt

CONSTANTS
  Absent,    \* an observation that was not made (null)
  MaxUint    \* the largest uint256

ASSUME MaxUintAssumption == MaxUint \in Nat \ {0}

ASSUME AbsentIsNoNumber == Absent \notin Int

When(condition, reason) == IF condition THEN {reason} ELSE {}

inRange(v) == v \in 0..MaxUint

---------------------------------------------------------------------------
\* Gate A: every remote's supply against the home's obligation to it.

\* Input-contract failures.  Every one of them is UNKNOWN, never an exception.
missingInputReasons(in) ==
  When(Absent \in {in.manifestHash, in.policyHash}, "I01")
    \cup When(Absent \in {in.sourceLock, in.adapter}, "I02")
    \cup When(in.census # "complete", "I03")
    \cup When(in.untracked # {}, "B02")
    \cup When(in.cut # "closed", "I05")
    \cup When(~in.fresh, "I06")
    \cup When(in.witnesses < in.required, "I04")
    \cup When(in.remotes = {}, "I07")
    \cup UNION { When(Absent \in {r.D, r.S}, "I07")
                   \cup When(Absent \in {r.homePin, r.remotePin}, "I04")
                   \cup When(~r.established, "I08") : r \in in.remotes }

\* Shapes the engine refuses to interpret.
unsupportedReasons(in) ==
  When(in.family # "canonical-erc20", "U01")
    \cup UNION { When(~r.fingerprint, "U02")
                   \cup When(~r.canonical, "U03")
                   \cup When(~r.singleHop, "U04")
                   \cup When(r.imbalance # 0, "U01") : r \in in.remotes }

pendingOf(in, r, direction) ==
  MapThenSumSet(LAMBDA p : p.amount,
                {p \in in.pending : p.remote = r.remote /\ p.direction = direction})

\* A slip: what was burned on the remote and not yet released is taken off the supply.
reconcileRemoteNetted(r, in) ==
  LET h2r == pendingOf(in, r, "home-to-remote")
      r2h == pendingOf(in, r, "remote-to-home")
  IN  [remote |-> r.remote, delta |-> r.D + r2h - r.S, h2r |-> h2r, r2h |-> r2h,
       reconciled |-> r.D - r.S = h2r + r2h]

\* D - S against what is in flight.  Exact: no tolerance.
reconcileRemote(r, in) ==
  LET h2r == pendingOf(in, r, "home-to-remote")
      r2h == pendingOf(in, r, "remote-to-home")
  IN  [remote |-> r.remote, delta |-> r.D - r.S, h2r |-> h2r, r2h |-> r2h,
       reconciled |-> r.D - r.S = h2r + r2h]

\* Each of these is a proven breach on its own.
effectReasons(in) ==
  UNION { When(e.duplicate, "A03")
            \cup When(~e.uniqueSource \/ e.sourceFact = Absent, "A04")
            \cup When(~e.routeMatches, "A05") : e \in in.effects }

overAge(in) == {p \in in.pending : p.age > in.ageLimit}

Refused(outcome, reasons) ==
  [outcome |-> outcome, reasons |-> reasons, critical |-> FALSE, perRemote |-> {}]

\* Precedence is fail-closed: shapes and gaps are answered before arithmetic,
\* a proven effect before the aggregate, and D > S that pending does not explain
\* is UNKNOWN, never a finding.  Age colours only the reasons.
evaluateGateA(in) ==
  LET perRemote  == {reconcileRemote(r, in) : r \in in.remotes}
      outOfRange == \E r \in in.remotes : ~ \A v \in {r.D, r.S, r.multiplier} : inRange(v)
      Answer(outcome, reasons) ==
        [outcome |-> outcome, reasons |-> reasons \cup When(overAge(in) # {}, "L01"),
         critical |-> outcome = "fail", perRemote |-> perRemote]
  IN  IF unsupportedReasons(in) # {} THEN Refused("unsupported", unsupportedReasons(in))
      ELSE IF missingInputReasons(in) # {} THEN Refused("unknown", missingInputReasons(in))
      ELSE IF outOfRange THEN Refused("unknown", {"A06"})
      ELSE IF effectReasons(in) # {} THEN Answer("fail", effectReasons(in))
      ELSE IF \E p \in perRemote : p.delta < 0 THEN Answer("fail", {"A01"})
      ELSE IF \E p \in perRemote : ~p.reconciled THEN Answer("unknown", {"A02"})
      ELSE Answer("pass", {"A00"})

---------------------------------------------------------------------------
\* Gate B: escrow against the conservative liability, in home units.

ScaleFailure(reason) == [ok |-> FALSE, reason |-> reason, floor |-> 0, ceil |-> 0]

\* Solidity reverts on overflow and on division by zero, and so does this.
toHomeUnits(amount, multiplier, multiplyOnRemote) ==
  LET Scaled(floor, ceil) == [ok |-> TRUE, reason |-> "", floor |-> floor, ceil |-> ceil]
  IN  IF amount < 0 \/ multiplier < 0 THEN ScaleFailure("negative")
      ELSE IF ~multiplyOnRemote THEN
             IF amount * multiplier > MaxUint THEN ScaleFailure("overflow")
             ELSE Scaled(amount * multiplier, amount * multiplier)
      ELSE IF multiplier = 0 THEN ScaleFailure("division-by-zero")
      ELSE Scaled(amount \div multiplier,
                  (amount \div multiplier) + (IF amount % multiplier = 0 THEN 0 ELSE 1))

homeUnits(r) == toHomeUnits(r.D, r.multiplier, r.multiplyOnRemote)

GateB(outcome, reason, floorLiability, liability, surplus) ==
  [outcome |-> outcome, reasons |-> {reason}, floor |-> floorLiability,
   ceil |-> liability, surplus |-> surplus]

\* A lower bound, not an equality: surplus and dust are normal.
evaluateGateB(in, gateAPassed) ==
  LET floorSum == MapThenSumSet(LAMBDA r : homeUnits(r).floor, in.remotes)
      ceilSum  == MapThenSumSet(LAMBDA r : homeUnits(r).ceil, in.remotes)
      Unknown(reason) == GateB("unknown", reason, 0, 0, 0)
  IN  IF ~gateAPassed THEN Unknown("B03")
      ELSE IF in.untracked # {} THEN Unknown("B02")
      ELSE IF in.census # "complete" THEN Unknown("I03")
      ELSE IF Absent \in {in.escrow, in.homePin} THEN Unknown("I07")
      ELSE IF \E r \in in.remotes : r.D = Absent THEN Unknown("I07")
      ELSE IF \E r \in in.remotes : ~homeUnits(r).ok THEN Unknown("A06")
      ELSE LET surplus == in.escrow - ceilSum
           IN  IF surplus >= 0 THEN GateB("pass", "B00", floorSum, ceilSum, surplus)
                               ELSE GateB("fail", "B01", floorSum, ceilSum, surplus)
---------------------------------------------------------------------------
\* The rule's answer.

\* A slip: gate B is heard only when gate A is in doubt.
combineGateAFirst(a, b) ==
  CASE a.outcome = "unsupported" -> "UNSUPPORTED"
    [] a.outcome = "unknown"     -> "UNKNOWN"
    [] a.outcome = "fail"        -> "FAIL"
    [] a.outcome = "pass"        -> "PASS"

combine(a, b) ==
  IF a.outcome = "unsupported" THEN "UNSUPPORTED"
  ELSE IF a.outcome = "unknown" THEN "UNKNOWN"
  ELSE IF a.outcome = "fail" \/ b.outcome = "fail" THEN "FAIL"
  ELSE IF b.outcome = "unknown" THEN "UNKNOWN"
  ELSE "PASS"

\* Only PASS is ever OK; only a proven breach is CRITICAL.
verdictFor(result, critical) ==
  CASE result = "PASS" -> "OK"
    [] result = "FAIL" -> IF critical THEN "CRITICAL" ELSE "WARN"
    [] result \in {"UNKNOWN", "UNSUPPORTED"} -> "UNKNOWN"

\* Only gate A can be critical, and gate B speaks only once gate A has passed.
evaluateCanonicalErc20(in) ==
  LET a == evaluateGateA(in)
      b == evaluateGateB(in, a.outcome = "pass")
  IN  [result   |-> combine(a, b),
       critical |-> a.critical,
       verdict  |-> verdictFor(combine(a, b), a.critical),
       reasons  |-> a.reasons \cup (IF a.outcome = "pass" THEN b.reasons ELSE {}),
       overAge  |-> Cardinality(overAge(in)),
       gateA    |-> a,
       gateB    |-> b]

---------------------------------------------------------------------------
\* Aggregation of rule contributions into one verdict.

CLAIM_MODES == <<"EXACT", "CAUSAL_EXACT", "SUFFICIENT_UPPER_BOUND", "INDETERMINATE", "UNSUPPORTED">>

CLAIM_RANK(mode) == CHOOSE i \in DOMAIN CLAIM_MODES : CLAIM_MODES[i] = mode

\* An aggregate is only as strong as its softest member, and of none it is nothing.
weakestClaim(modes) ==
  IF modes = {} THEN "UNSUPPORTED"
  ELSE CHOOSE m \in modes : \A n \in modes : CLAIM_RANK(n) <= CLAIM_RANK(m)

criticalRules(contributions) == {c.rule : c \in {x \in contributions : x.critical}}

unknownRules(contributions) ==
  {c.rule : c \in {x \in contributions : x.required /\ x.result \in {"UNKNOWN", "UNSUPPORTED"}}}

hasBlockingUnknown(in) ==
  \/ unknownRules(in.contributions) # {}
  \/ in.missing # {}
  \/ in.previousOkExpired
  \/ in.faults # {}
  \/ in.dataStatus # "COMPLETE"
  \/ in.coverage # "COMPLETE"

\* A proven breach, else a required unknown, else a deviation, else OK.
aggregate(in) ==
  [protocolStatus |->
     IF criticalRules(in.contributions) # {} THEN "CRITICAL"
     ELSE IF hasBlockingUnknown(in) THEN "UNKNOWN"
     ELSE IF \E c \in in.contributions : c.result = "FAIL" /\ ~c.critical THEN "WARN"
     ELSE "OK",
   dataStatus      |-> in.dataStatus,
   claimMode       |-> weakestClaim({c.claimMode : c \in in.contributions}),
   coverage        |-> in.coverage,
   reasonCodes     |-> UNION {c.reasons : c \in in.contributions}
                         \cup When(in.missing # {}, "M01")
                         \cup When(in.previousOkExpired, "M02")
                         \cup When(in.faults # {}, "M03")
                         \cup When(in.dataStatus = "STALE", "I06")
                         \cup When(in.dataStatus = "DIVERGENT", "M04"),
   criticalRuleIds |-> criticalRules(in.contributions),
   unknownRuleIds  |-> unknownRules(in.contributions)]

\* Only an overall OK is zero.
exitCodeFor(v) ==
  CASE v.protocolStatus = "OK"       -> 0
    [] v.protocolStatus = "CRITICAL" -> 2
    [] v.protocolStatus = "UNKNOWN"  -> 3
    [] v.protocolStatus = "WARN"     -> 4

isOverallGreen(v) ==
  /\ v.protocolStatus = "OK"
  /\ v.dataStatus = "COMPLETE"
  /\ v.coverage = "COMPLETE"
  /\ v.claimMode \notin {"UNSUPPORTED", "INDETERMINATE"}
=============================================================================
