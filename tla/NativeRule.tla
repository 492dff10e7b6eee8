----------------------------- MODULE NativeRule -----------------------------
(***************************************************************************)
(* The two other rules of packages/invariant-core: the native-token        *)
(* remote, for which only a reported UPPER bound of the supply exists, and *)
(* drift of the observed configuration from the approved baseline.         *)
(***************************************************************************)
EXTENDS InvariantEngine

---------------------------------------------------------------------------
\* The native minter census.  Reading one address's role says nothing about
\* who else can mint, so all parts are needed before exclusivity is claimed.

CensusParts == {"roster", "genesis", "activation", "history", "candidates"}

\* census: the parts that were established, the epochs covered and expected,
\* the unexpected role holders and whether an unauthorised mint was seen.
censusComplete(census) ==
  census.parts = CensusParts /\ census.covered >= census.expected

assessMinterCensus(census) ==
  LET critical == census.unexpected # {} \/ census.unauthorisedMint
  IN  [established |-> censusComplete(census) /\ ~critical,
       critical    |-> critical,
       reasons     |-> When(census.unexpected # {}, "N01")
                         \cup When(census.unauthorisedMint, "N02")
                         \cup When(~censusComplete(census), "N03")]

---------------------------------------------------------------------------
\* The reported upper bound U = minted + initial imbalance - burned, against
\* the eligible home coverage A.

NativeComponents(in) == {in.minted, in.imbalance, in.burnedFees, in.burnedTransfer}

created(in) == in.minted + in.imbalance
burned(in)  == in.burnedFees + in.burnedTransfer

\* There is no branch that claims an exact supply, and none that is red from
\* the upper bound alone: an unknown fee burn may already have lowered it.
assessNative(in) ==
  LET minter == assessMinterCensus(in.census)
      fees   == When(in.duplicateReport, "N04")
      U      == created(in) - burned(in)
      Result(assessment, critical, bound, reasons) ==
        [assessment |-> assessment, critical |-> critical, bound |-> bound,
         exclusive |-> minter.established, reasons |-> minter.reasons \cup reasons]
      Unknown(bound, reasons) == Result("unknown", minter.critical, bound, reasons)
  IN  IF ~in.fingerprint THEN Unknown(Absent, {"U02"})
      ELSE IF Absent \in NativeComponents(in) THEN Unknown(Absent, {"I07"})
      ELSE IF ~in.fresh THEN Unknown(Absent, {"I06"})
      ELSE IF ~in.remintIncluded THEN Unknown(Absent, fees \cup {"N05"})
      ELSE IF created(in) > MaxUint THEN Unknown(Absent, fees \cup {"A06"})
      ELSE IF in.coverage = Absent THEN Unknown(U, fees \cup {"I07"})
      ELSE IF ~minter.established
             THEN Result(IF minter.critical THEN "indeterminate" ELSE "unknown",
                         minter.critical, U, fees)
      ELSE IF U <= in.coverage THEN Result("sufficient", FALSE, U, fees \cup {"ACC-N00"})
      ELSE IF in.lowerBound # Absent /\ in.lowerBound > in.coverage
             THEN Result("indeterminate", TRUE, U, fees \cup {"ACC-N02"})
      ELSE Result("indeterminate", FALSE, U, fees \cup {"ACC-N01"})

---------------------------------------------------------------------------
\* Configuration drift.

\* The controls whose drift changes who can mint, what the money is, or which
\* contract the other side is talking to.
CRITICAL_CONTROLS ==
  {"proxy-implementation-slot", "proxy-beacon-slot", "proxy-admin-slot",
   "implementation-code-hash", "contract-address", "contract-linkage", "chain-identity",
   "chain-genesis", "token-decimals", "token-scaling", "minter-allowlist",
   "admin-upgrade-authority"}

DRIFT_CONTROLS == CRITICAL_CONTROLS \cup
  {"runtime-vs-manifest", "contract-role", "registrar-allowlist", "teleporter-registry",
   "teleporter-messenger", "teleporter-family", "teleporter-version",
   "registered-remote-census"}

DriftStatuses     == {"match", "drift", "candidate", "unknown"}

\* A discovered remote is a candidate, never an approved baseline entry.
classifyDiscoveredRemote(approvedInManifest) ==
  IF approvedInManifest THEN "match" ELSE "candidate"

\* observations: [control, status, required] records, one per control.
assessDrift(observations) ==
  LET required   == {o \in observations : o.required}
      confirmed  == {o \in required : o.status = "drift"}
      unresolved == {o \in required : o.status = "unknown"}
      candidates == {o \in observations : o.status = "candidate"}
  IN  [confirmed  |-> confirmed,
       unresolved |-> unresolved,
       candidates |-> candidates,
       reasons    |-> When(confirmed # {}, "D01") \cup When(candidates # {}, "D02")
                        \cup When(unresolved # {}, "D03"),
       critical   |-> \E o \in confirmed : o.control \in CRITICAL_CONTROLS,
       allRequiredEstablished |-> confirmed \cup unresolved = {}]
=============================================================================
