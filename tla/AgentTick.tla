----------------------------- MODULE AgentTick -----------------------------
(***************************************************************************)
(* One agent process (apps/agent): what a job does between the scheduler    *)
(* that starts it and the tables it leaves behind - replay every lane,      *)
(* judge freshness, record, raise, collect economic evidence when due,      *)
(* mirror it, raise again - and what the health endpoints say meanwhile.    *)
(* It is composed with HostedPlane: the mirror is a request to that API.   *)
(*                                                                         *)
(* Replay of one lane is one step here (Replay.tla opens it up) and raising *)
(* an alert adds it to a set (AlertOutbox.tla opens that up).  The process  *)
(* may be killed between any two steps, and a step may throw.              *)
(***************************************************************************)
EXTENDS HostedPlane

CONSTANTS
  Lanes,             \* sequence of lanes, in the order of the watch plan
  AcceptedLanes,     \* lanes with an accepted-quorum finality basis
  Activation,        \* when ACP-194 takes that basis away
  MaxAge,            \* evidence.maxAgeSeconds
  ExpiresAfter,      \* evidence.expiresAfterSeconds
  EconomicInterval,
  AgentToken, AgentDeployment,
  MaxJobs, MaxThrows, MaxCrashes   \* bounds

VARIABLES
  breach,        \* the truth: the bridge is broken
  sharingLevel,  \* the agent's configuration
  schema,        \* whether the newest migration is the one the agent wants
  completeness,  \* projection_replay_completeness and the checkpoint, per lane
  stored,        \* evaluations
  raised,        \* alerts raised
  pc, memory, job,
  jobs, throws, crashes

truth    == <<breach, sharingLevel>>
localDb  == <<schema, completeness, stored, raised>>
spent    == <<jobs, throws, crashes>>
agentVars == <<truth, localDb, pc, memory, job, spent>>
vars     == <<hostVars, agentVars>>

LaneSet == ToSet(Lanes)

\* A lane's stored completeness, and a bundle of the collector.
LaneRow == [verdict : {"OK", "UNKNOWN"}, lastSuccess : Nat \cup {None}, checkpoint : BOOLEAN]
BundleRow == [level : Levels, deployment : {AgentDeployment}, digest : Nat, status : {"OK", "CRITICAL"},
              observed : Nat, expires : Nat, verifies : BOOLEAN, payload : Levels]

\* The home chain is always a lane (buildWatchPlan), and None is no value of the others.
ASSUME AgentAssumption ==
  /\ Lanes \in Seq(LaneSet) /\ Lanes # <<>>
  /\ MaxAge \in Nat /\ ExpiresAfter \in Nat
  /\ None \notin Nat /\ None \notin LaneRow /\ None \notin BundleRow

Rank(v) == CASE v = "OK" -> 0 [] v = "WARN" -> 1 [] v = "UNKNOWN" -> 2 [] v = "CRITICAL" -> 3

\* Of nothing it is UNKNOWN; every judgement of the agent is a required one.
combineVerdicts(S) ==
  IF S = {} THEN "UNKNOWN" ELSE CHOOSE v \in S : \A w \in S : Rank(w) <= Rank(v)

---------------------------------------------------------------------------
\* Freshness and health.

\* observed is None for an agent that never saw a complete pass; an observation
\* from the future is as bad as an expired one.
applyFreshness(verdict, observed, at) ==
  LET skewed  == observed # None /\ observed > at
      expired == observed = None \/ skewed \/ at - observed > ExpiresAfter
      stale   == observed = None \/ skewed \/ at - observed > MaxAge
  IN  [verdict |-> IF stale /\ verdict # "CRITICAL" THEN "UNKNOWN" ELSE verdict,
       stale |-> stale, reportable |-> ~stale \/ ~expired]

\* Lanes whose basis no longer stands at a time.
supersededLanes(at) == IF at >= Activation THEN AcceptedLanes ELSE {}

\* What /readyz lists; ready is nothing to list.
evaluateHealth(m, at) ==
  (IF m.database THEN {} ELSE {"DATABASE_UNREACHABLE"})
    \cup (IF m.schema THEN {} ELSE {"SCHEMA_OUTDATED"})
    \cup (IF m.healthSuccess = None THEN {"DEPLOYMENT_NEVER_EVALUATED"}
          ELSE (IF at - m.healthSuccess \in 0..MaxAge THEN {} ELSE {"DEPLOYMENT_EVALUATION_STALE"})
                 \cup (IF m.verdict = "UNKNOWN" THEN {"DEPLOYMENT_VERDICT_UNKNOWN"} ELSE {}))

Ready == pc # "down" /\ evaluateHealth(memory, now) = {}

---------------------------------------------------------------------------
\* The process.

\* What a process knows before it has read or done anything.
NoMemory ==
  [previous |-> "NONE", lastSuccess |-> None,
   healthSuccess |-> None, verdict |-> None, failures |-> 0,
   database |-> FALSE, schema |-> FALSE, alertingDegraded |-> FALSE, hostedIngestDegraded |-> FALSE,
   economicLastRun |-> None, economicPrevious |-> "NONE", mirrored |-> None]

NoJob == [at |-> None, reports |-> <<>>, observation |-> None, evaluation |-> None, bundle |-> None]

\* A slip: the lane that succeeded last speaks for all.
oldestSuccessLatest(successes) ==
  IF None \in successes THEN None ELSE CHOOSE t \in successes : \A u \in successes : u <= t

oldestSuccess(successes) ==
  IF None \in successes THEN None ELSE CHOOSE t \in successes : \A u \in successes : t <= u

\* The last persisted judgement, if every lane has one.
hydrated ==
  LET Row(l)    == completeness[l]
      verdict   == combineVerdicts({Row(l).verdict : l \in LaneSet})
      last      == oldestSuccess({Row(l).lastSuccess : l \in LaneSet})
      found     == [NoMemory EXCEPT !.database = TRUE, !.schema = TRUE]
  IN  IF ~schema THEN NoMemory
      ELSE IF \E l \in LaneSet : Row(l) = None THEN found
      ELSE [found EXCEPT !.previous = verdict, !.verdict = verdict,
                         !.lastSuccess = last, !.healthSuccess = last]

startAgent ==
  /\ pc = "down" /\ pc' = "idle" /\ memory' = hydrated /\ job' = NoJob
  /\ UNCHANGED <<hostVars, truth, localDb, spent>>

StartJob ==
  /\ pc = "idle" /\ jobs < MaxJobs /\ jobs' = jobs + 1
  /\ pc' = "lanes" /\ job' = [NoJob EXCEPT !.at = now]
  /\ UNCHANGED <<hostVars, truth, localDb, memory, throws, crashes>>

\* One lane of runDeploymentTick: a complete pass has a checkpoint at the head,
\* any other leaves it and the time of the last success where they were.
ReplayLane(complete) ==
  LET lane == Lanes[Len(job.reports) + 1]
      prior == completeness[lane]
      row == [verdict |-> IF complete THEN "OK" ELSE "UNKNOWN",
              lastSuccess |-> IF complete THEN job.at ELSE IF prior = None THEN None ELSE prior.lastSuccess,
              checkpoint |-> complete \/ (prior # None /\ prior.checkpoint)]
  IN  /\ pc = "lanes"
      /\ completeness' = [completeness EXCEPT ![lane] = row]
      /\ job' = [job EXCEPT !.reports = Append(@, [lane |-> lane, complete |-> complete,
                                  verdict |-> row.verdict, checkpoint |-> row.checkpoint])]
      /\ pc' = IF Len(job'.reports) = Len(Lanes) THEN "record" ELSE "lanes"
      /\ UNCHANGED <<hostVars, truth, schema, stored, raised, memory, spent>>

rawVerdict ==
  combineVerdicts({r.verdict : r \in ToSet(job.reports)}
                    \cup {"UNKNOWN" : l \in supersededLanes(job.at)})

allComplete == \A r \in ToSet(job.reports) : r.complete

\* An evaluation is known by what went into it: no clock and no counter, so a
\* repeated judgement is the same row.  Its verdict event is appended later.
EvaluationInput(subject, digest, verdict) ==
  [subject |-> subject, digest |-> digest, payload |-> digest, verdict |-> verdict, event |-> FALSE]
evaluationIdempotencyKey(row) == [subject |-> row.subject, digest |-> row.digest]
RowsUnder(key) == {r \in stored : evaluationIdempotencyKey(r) = key}

\* Inserts, or finds the same judgement there; another payload under the same key throws.
putEvaluation(row) ==
  LET existing == RowsUnder(evaluationIdempotencyKey(row))
  IN  /\ \A r \in existing : r.payload = row.payload
      /\ stored' = IF existing = {} THEN stored \cup {row} ELSE stored

\* A statement of its own, after the one that stored the evaluation: a process that dies in
\* between leaves an evaluation without its event until it is judged again.
appendVerdictEvent ==
  /\ pc \in {"event", "economicEvent"}
  /\ stored' = (stored \ RowsUnder(job.evaluation))
                 \cup {[r EXCEPT !.event = TRUE] : r \in RowsUnder(job.evaluation)}
  /\ pc' = IF pc = "event" THEN "raise" ELSE "mirror"
  /\ UNCHANGED <<hostVars, truth, schema, completeness, raised, memory, job, spent>>

\* The evaluation is durable before an alert names it.  Without any checkpoint
\* there is no block to pin it to and none is written.
recordEvaluation ==
  LET success == IF allComplete THEN job.at ELSE memory.lastSuccess
      fresh   == applyFreshness(rawVerdict, success, job.at)
      observation == [verdict |-> fresh.verdict, stale |-> fresh.stale, reportable |-> fresh.reportable,
                      reports |-> {<<r.lane, r.checkpoint, r.complete>> : r \in ToSet(job.reports)}]
      pinned  == \E l \in LaneSet : completeness[l] # None /\ completeness[l].checkpoint
      row     == EvaluationInput("replay-completeness",
                   <<observation.verdict, observation.stale, observation.reportable, observation.reports>>,
                   fresh.verdict)
  IN  /\ pc = "record"
      /\ memory' = [memory EXCEPT !.lastSuccess = success]
      /\ IF pinned THEN putEvaluation(row) ELSE UNCHANGED stored
      /\ job' = [job EXCEPT !.observation = observation,
                            !.evaluation = IF pinned THEN evaluationIdempotencyKey(row) ELSE None]
      /\ pc' = IF pinned THEN "event" ELSE "raise"
      /\ UNCHANGED <<hostVars, truth, schema, completeness, raised, spent>>

Alert(rule, evaluation, from, to) == [rule |-> rule, evaluation |-> evaluation, from |-> from, to |-> to]

\* The end of evaluate: the alert, then what the health endpoints will say.
RaiseReplay ==
  /\ pc = "raise"
  /\ raised' = raised \cup {Alert("replay-completeness", job.evaluation,
                                  memory.previous, job.observation.verdict)}
  /\ memory' = [memory EXCEPT !.previous = job.observation.verdict, !.verdict = job.observation.verdict,
                              !.failures = 0, !.database = TRUE, !.schema = TRUE,
                              !.healthSuccess = IF memory.lastSuccess # None THEN memory.lastSuccess ELSE @]
  /\ pc' = "gate"
  /\ UNCHANGED <<hostVars, truth, schema, completeness, stored, job, spent>>

---------------------------------------------------------------------------
\* Economic evidence.

\* The interval counts from the start of the last attempt, whatever it gave.
Due == memory.economicLastRun = None \/ now - memory.economicLastRun >= EconomicInterval

collectEconomic ==
  /\ pc = "gate"
  /\ pc' = IF Due THEN "collect" ELSE "drain"
  /\ memory' = IF Due THEN [memory EXCEPT !.economicLastRun = now] ELSE memory
  /\ UNCHANGED <<hostVars, truth, localDb, job, spent>>

\* What the collector gives (Collector.tla opens it up): a bundle that says what
\* is so, or only reasons.
Bundle(verdict) ==
  [level |-> sharingLevel, deployment |-> AgentDeployment, digest |-> jobs, status |-> verdict,
   observed |-> now, expires |-> now + ExpiresAfter, verifies |-> TRUE, payload |-> sharingLevel]

collectConfigured(found) ==
  /\ pc = "collect"
  /\ job' = [job EXCEPT !.evaluation = None,
                        !.bundle = IF found THEN Bundle(IF breach THEN "CRITICAL" ELSE "OK") ELSE None]
  /\ pc' = IF found THEN "store" ELSE "raiseEconomic"
  /\ UNCHANGED <<hostVars, truth, localDb, memory, spent>>

EconomicRow(bundle) == EvaluationInput("economic", <<bundle.digest>>, bundle.status)

StoreEconomic ==
  /\ pc = "store"
  /\ putEvaluation(EconomicRow(job.bundle))
  /\ job' = [job EXCEPT !.evaluation = evaluationIdempotencyKey(EconomicRow(job.bundle))]
  /\ pc' = "economicEvent"
  /\ UNCHANGED <<hostVars, truth, schema, completeness, raised, memory, spent>>

---------------------------------------------------------------------------
\* The mirror: one POST, its answer awaited up to a timeout.  The request may
\* never arrive, and one that was given up on is still handled.

\* No clock and no counter in the key: the same evidence is the same submission.
ingestIdempotencyKey(bundle) == <<bundle.deployment, bundle.digest, bundle.level>>

Post == <<"agent", job.bundle.digest>>

ingest(arrives) ==
  LET ask == [kind |-> "ingest", token |-> AgentToken, key |-> ingestIdempotencyKey(job.bundle),
              body |-> job.bundle]
      sends == sharingLevel # "local-only" /\ arrives /\ Post \notin DOMAIN requests
  IN  /\ pc = "mirror" /\ pc' = "await"
      /\ requests' = IF sends
           THEN [id \in DOMAIN requests \cup {Post} |->
                   IF id = Post THEN NewRequest(ask) ELSE requests[id]]
           ELSE requests
      /\ UNCHANGED <<now, revoked, grants, tables, rates, limits, truth, localDb, memory, job, spent>>

\* A slip: a conflict is read as a duplicate.
ingestOutcomeLenient(status) ==
  CASE status \in {200, 409} -> "duplicate" [] status \in {201, 202} -> "sent"
    [] status \in {401, 403} -> "unauthorized" [] OTHER -> "unreachable"

ingestOutcome(status) ==
  CASE status = 200 -> "duplicate" [] status \in {201, 202} -> "sent"
    [] status \in {401, 403} -> "unauthorized" [] status = 409 -> "conflict" [] OTHER -> "unreachable"

mirrorEnds(outcome) ==
  /\ pc = "await" /\ pc' = "raiseEconomic"
  /\ memory' = [memory EXCEPT
       !.mirrored = [outcome |-> outcome, digest |-> job.bundle.digest],
       !.hostedIngestDegraded = outcome \in {"unauthorized", "conflict", "unreachable"}]
  /\ UNCHANGED <<hostVars, truth, localDb, job, spent>>

mirrorAnswered ==
  /\ pc = "await" /\ sharingLevel # "local-only" /\ Post \in DOMAIN requests /\ requests[Post].pc = "answered"
  /\ mirrorEnds(ingestOutcome(requests[Post].status))

mirrorTimesOut == sharingLevel # "local-only" /\ mirrorEnds("unreachable")

mirrorDisabled == sharingLevel = "local-only" /\ mirrorEnds("disabled")

\* A slip: evidence that could not be mirrored is not raised.
RaiseEconomicIfMirrored ==
  LET verdict == IF job.bundle = None THEN "UNKNOWN" ELSE job.bundle.status
  IN  /\ pc = "raiseEconomic"
      /\ raised' = IF memory.hostedIngestDegraded THEN raised
                   ELSE raised \cup {Alert("economic", job.evaluation, memory.economicPrevious, verdict)}
      /\ memory' = [memory EXCEPT !.economicPrevious = verdict]
      /\ pc' = "drain"
      /\ UNCHANGED <<hostVars, truth, schema, completeness, stored, job, spent>>

\* Whatever the mirror said.
RaiseEconomic ==
  LET verdict == IF job.bundle = None THEN "UNKNOWN" ELSE job.bundle.status
  IN  /\ pc = "raiseEconomic"
      /\ raised' = raised \cup {Alert("economic", job.evaluation, memory.economicPrevious, verdict)}
      /\ memory' = [memory EXCEPT !.economicPrevious = verdict]
      /\ pc' = "drain"
      /\ UNCHANGED <<hostVars, truth, schema, completeness, stored, job, spent>>

drain ==
  /\ pc = "drain" /\ pc' = "idle" /\ job' = NoJob
  /\ \E degraded \in BOOLEAN : memory' = [memory EXCEPT !.alertingDegraded = degraded]
  /\ UNCHANGED <<hostVars, truth, localDb, spent>>

---------------------------------------------------------------------------
\* Faults and the world.

Evaluating == pc \in {"lanes", "record", "event", "raise"}

\* A statement fails or the job is aborted.  A throw in evaluate asks the
\* database whether it is there, and leaves the last verdict and success alone.
JobThrows(databaseAnswers) ==
  /\ pc \notin {"down", "idle"} /\ throws < MaxThrows /\ throws' = throws + 1
  /\ memory' = IF Evaluating THEN [memory EXCEPT !.database = databaseAnswers, !.failures = @ + 1]
               ELSE memory
  /\ pc' = "idle" /\ job' = NoJob
  /\ UNCHANGED <<hostVars, truth, localDb, jobs, crashes>>

Crash ==
  /\ pc # "down" /\ crashes < MaxCrashes /\ crashes' = crashes + 1
  /\ pc' = "down" /\ memory' = NoMemory /\ job' = NoJob
  /\ UNCHANGED <<hostVars, truth, localDb, jobs, throws>>

Breach ==
  /\ ~breach /\ breach' = TRUE
  /\ UNCHANGED <<hostVars, sharingLevel, localDb, pc, memory, job, spent>>

\* An operator runs the migrations the agent was built with.
Migrate ==
  /\ ~schema /\ schema' = TRUE
  /\ UNCHANGED <<hostVars, truth, completeness, stored, raised, pc, memory, job, spent>>

AgentInit(migrated, budget) ==
  /\ breach = FALSE /\ sharingLevel = budget.level /\ schema = migrated
  /\ completeness = [l \in LaneSet |-> None] /\ stored = {} /\ raised = {}
  /\ pc = "down" /\ memory = NoMemory /\ job = NoJob
  /\ jobs = budget.jobs /\ throws = budget.throws /\ crashes = budget.crashes

AgentNext ==
  \/ startAgent \/ StartJob
  \/ \E complete \in BOOLEAN : ReplayLane(complete)
  \/ recordEvaluation \/ appendVerdictEvent \/ RaiseReplay
  \/ collectEconomic \/ \E found \in BOOLEAN : collectConfigured(found)
  \/ StoreEconomic
  \/ \E arrives \in BOOLEAN : ingest(arrives)
  \/ mirrorAnswered \/ mirrorTimesOut \/ mirrorDisabled
  \/ RaiseEconomic \/ drain
  \/ \E answers \in BOOLEAN : JobThrows(answers)
  \/ Crash \/ Breach \/ Migrate

---------------------------------------------------------------------------
\* Properties.

\* A ready agent has seen every lane complete within the policy's age, by this
\* clock: after a restart (hydrate), a failed job, and an incomplete lane of
\* several.  (apps/agent health.ts, daemon.ts)
ReadyIsHonest ==
  Ready => \A l \in LaneSet : /\ completeness[l] # None /\ completeness[l].lastSuccess # None
                              /\ now - completeness[l].lastSuccess \in 0..MaxAge

\* An alert that names an evaluation names one the database has, with its verdict
\* event and the verdict the alert announces, and a breach that was recorded is raised
\* by the job that recorded it whatever became of its mirror.
\* (runtime.ts, daemon.ts collectEconomic, evaluations.ts)
AlertsStand ==
  /\ \A a \in raised : a.evaluation # None =>
       \E r \in RowsUnder(a.evaluation) : r.event /\ r.verdict = a.to
  /\ pc = "drain" /\ job.bundle # None =>
       \E a \in raised : /\ a.evaluation = evaluationIdempotencyKey(EconomicRow(job.bundle))
                         /\ a.to = job.bundle.status

\* When the agent takes its evidence for mirrored, the hosted plane has it under
\* the deployment's tenant.  (ingest.ts, hosted-evidence.ts)
MirrorHonest ==
  memory.mirrored # None /\ memory.mirrored.outcome \in {"sent", "duplicate"} =>
    \E e \in evaluations : /\ e.digest = memory.mirrored.digest
                           /\ e.deployment = AgentDeployment /\ e.tenant = Tokens[AgentToken].tenant
=============================================================================
