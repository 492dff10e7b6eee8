# Formal models of ictt-sentinel

ictt-sentinel watches Avalanche Interchain Token Transfer (ICTT) deployments. It replays
the logs of every chain of a deployment through several RPC providers, keeps what it
reads in a PostgreSQL fact ledger, judges the economic and completeness invariants, and
pages somebody when one of them breaks. This directory holds TLA+ models of that
program, the TLC configurations that check them on small instances, and proofs checked
by TLAPS of theorems that hold for every value of the constants.

`PROJECT.json` says which lines of the source each definition stands for, which parts of
the system are modelled, what each run checks, which hazards each property is for, and
where the code and its own documentation part.

## 1. The system

### Parts, their state and their operations

| part | state it keeps | operations | what makes it correct |
|---|---|---|---|
| replay engine (`packages/replay`) | the locals of a pass: head, queue of ranges, attempts, reasons | plan, fetch, split, retry, agree, ingest, assess | a green lane is complete; no height is skipped; a pass ends |
| fact ledger and replay tables (`packages/storage-postgres`) | `chain_blocks`, `raw_logs`, `replay_checkpoints`, `replay_ranges`, `projection_replay_completeness`, `webhook_hints`, incidents | `ingestBatch`, `upsertRangeStatus`, `upsertCompleteness`, `enqueueHint`, `markHintsConsumed` | append-only, one accepted hash per height, facts and checkpoint move together |
| alert lifecycle and delivery (`packages/alerts`, `apps/agent/src/alerting.ts`, `alert-store.ts`) | `alert_outbox`, `alert_deliveries`; the previous verdict of a process | fold, raise, lease, dispatch, settle, acknowledge | a worsening pages, nobody is paged twice, a recovery ends what it can reach and is announced; nothing reads as sent that was not |
| agent scheduler (`apps/agent/src/scheduler.ts`) | queue, pending keys, lanes, jobs in flight, draining | submit, pump, execute with timeout and retry, shutdown | one writer per deployment, bounded work, a shutdown that returns |
| agent runtime and daemon (`runtime.ts`, `daemon.ts`, `main.ts`) | previous verdicts, last completeness, freshness | tick of a deployment, hydrate, collect economic verdict, drain | the verdict of a tick is never better than what its lanes support |
| log source and RPC reader (`log-source.ts`, `rpc.ts`) | none durable | group the endpoints by operator, fetch a range from every witness, agree on a head | an answer is evidence only if it is complete, and one operator is one witness |
| RPC quorum (`packages/rpc-quorum`) | none | admissibility, common height, agreement, independence | one operator behind two names is one voice |
| message state machine (`packages/state-machine`) | none | derive, aggregate, closed cut | the result does not depend on the order of facts |
| message and transition projections (`census.ts`, `message-projection.ts`, `transition-store.ts`, `projection.ts`) | message, transition and total tables | project, rebuild | one economic effect per message |
| invariant engine (`packages/invariant-core`) | none | gate A, gate B, aggregate, drift | UNKNOWN is never rounded to OK |
| collector (`packages/collector`) | none | probe, choose a pin, read each chain through every independent endpoint, decode, assess, assemble a bundle | a healthy bridge is never accused and a broken one never cleared, whatever one failure domain does |
| evidence (`packages/evidence`) | bundles | build, replay the rule, verify | what verifies was judged from what it carries, and honest evidence verifies |
| hosted API (`apps/api`) and its tables | evaluations, remembered answers, nonces, tokens, grants, hints, audit | ingest, webhook, acknowledge, status, pages of verdicts, bundles | every request takes effect once, and an answer is true |
| mirror (`ingest.ts`, `identity.ts`) | none durable | send with retry | local verdicts never depend on it |
| migrations and client | `schema_migrations` | run under an advisory lock | each migration once |
| command line (`apps/cli`) | the evidence directory: bundles, two checkpoints, a candidate manifest | collect, check, replay, discover, doctor, export, verify | exit code 0 is earned; a file is there whole or not at all; a census claims what was scanned |
| ICTT adapters, configuration, domain types | none, or documents | decoding, scaling, the rules that relate a manifest and a policy | nothing is guessed from a malformed log |
| console, test kit | none | presentation, fixtures | |

### How they interact

```
interval --> Scheduler.submit/pump --> job of a deployment
                                         1. evaluate: runReplay on every lane --> Postgres
                                            judge, record the evaluation, raise the alert
                                         2. collect the economic verdict, raise its alert
                                         3. drain the alert outbox --> targets
webhook --> hosted API --> webhook_hints --> the next pass of the lane (order only)
agent   --> mirror     --> hosted API       (after the local verdict, never before)
human   --> acknowledge                 --> alert_outbox
```

One process runs at most one job per deployment, but the database is shared: two
processes overlap in a rolling restart, and each part below the job is written for that
case (an advisory lock and a monotone checkpoint in the ledger, an advisory lock per
incident and `for update skip locked` in the outbox).

### What is hard about it

* *Interleaving.* Every `await` on the database is a point where another process may run.
* *Staleness.* A range is read from providers at one time and stored at another; a leased
  row is settled from the copy that was leased.
* *Atomicity and crashes.* Ingest and checkpoint are one transaction; the status of the
  range, the completeness row and the alert are others. A process may die between any two.
* *Providers.* They refuse, truncate, prune, disagree, change their answer and see
  different heads.
* *Retry and bounds.* Attempts, splits, queue, concurrency, delivery budget.
* *Two chains.* The home is read before the remote and both go on meanwhile.
* *Files.* A crash or a loss of power falls between two system calls.
* *Liveness.* A lane must catch up, a pass must end, an outbox must empty, a slot must
  come back, a shutdown must return.

The list, line by line, is under `hazards` in `PROJECT.json`.

## 2. The modules

### Replay: `ReplayRanges`, `Replay`, `LaneLedger`

`ReplayRanges` has the pure functions of `plan.ts`, `range.ts`, `reasons.ts` and
`completeness.ts`: planning and splitting ranges, the sweep that finds gaps, the range a
recovery asks for, the reasons an answer may be refused for and which of them are
retried or split, and the verdict lattice `assessCompleteness`.

`Replay` is a lane, that is a (deployment, chain) pair, replayed by any set of `Worker`s.
`runReplay` (`engine.ts`) becomes one action per await; `pc[w]` names the await that is
pending:

| action | code |
|---|---|
| `ReadHints`, `Plan`, `ReadPrior` | hints, checkpoint and agreed head, ranges to do, last success |
| `Shift` | the head of the work loop |
| `FetchFails`, `GroupsAnswer` | fetch from every group; retry, split or give up; `agree` |
| `RecordIncident`, `MarkBlocked` | the incident and the row of an abandoned range, and the `break` |
| `IngestCommit`, `IngestConflict`, `RecordIntegrityIncident` | the transaction of `ingestBatch` and its unique-violation handler |
| `MarkComplete` | `upsertRangeStatus('complete')` |
| `Assess`, `UpsertCompleteness`, `ConsumeHints` | the end of the pass |
| `Crash` | the process dies or an await throws, anywhere |
| `EnqueueHint`, `Tick` | the webhook and the clock |

Tables are sets of rows keyed as their primary and unique keys say. Two variables are
history, read by properties only: `said` (which group vouched for which block) and
`ingested` (which ranges were committed).

`LaneLedger` is the abstract promise: a ledger that only grows, where a range becomes
history together with its checkpoint in one step, only on the word of a quorum. `Replay`
implements it (`LedgerRefined`), with the tables mapped to themselves and `Quorum` to the
sets of at least `Required` groups.

What is abstracted: a block is its height and hash, logs are content of their block, a
digest is the content it is computed from. `classifyObservation` is reduced to the set
of reasons (`FetchFailures`) for which it may refuse an answer. Observations, remote
candidates and the orphaning of blocks are not modelled; `admitHint` has no caller in
production code.

### Alerts: `AlertOutbox`

One rule of one deployment, folded, delivered and acknowledged by any set of `Agent`
processes over one `alert_outbox`. `Economic` chooses which of the agent's two rules it
is: they differ in when they are raised, in what `hydrate` restores at start-up and in
how often their evidence is new. An incident is keyed by the first reason of a judgement
(`daemon.ts:409`), so what a rule may observe (`Observation`) says which incidents meet.
Economic (`Economics`): an OK and a coverage shortfall share `ACC_A00_RECONCILED`; a proven
breach names itself; a collection without a bundle is UNKNOWN under a reason of its own.
Replay (`Replayed`): an OK is `REPLAY_OK`, a blocked lane gives its reason.

| action | code |
|---|---|
| `Judge`, `NotDue` | the job reaches a verdict (durable before its alert for the replay rule), or its own interval has not elapsed |
| `RaiseAlert` | `raiseAlert`: the transaction under the advisory lock of the incident, with `foldAlert`, the insert or update of the row, the cancelling of what it closes |
| `Lease` | `leaseDueAlerts`, which counts the attempt |
| `Dispatch`, `Settle` | `dispatchAlert` to every target and `settleAlert` |
| `Acknowledge` | a human |
| `Abort`, `Crash` | the job is cut short; the process dies and is hydrated again |
| `BecomeDue` | a lease or a backoff runs out |

`queued` and `told` are history: what was queued for notification, and which target
accepted it. Lease and backoff instants are one flag per row, which is what lets a lease
run out in the middle of a delivery.

### Scheduler: `Scheduler`

`scheduler.ts` as `main.ts` drives it. JavaScript runs one callback at a time, so an
action is what happens between two awaits; the loop of `pump` is one action per
iteration, during which (`pumping`) nothing else runs. `execution[j]` is the state of the
promise chain of job `j`: attempt number, whether its deadline has fired, whether it
sleeps in a backoff. `Stubborn` names jobs whose runner never honours its signal.

### Messages: `MessageLifecycle`, `TransitionStore`, `TransitionLedger`, `MessageIntake`

`MessageLifecycle` is `packages/state-machine`. `agg[m]` is the set of facts of message `m`; `Fold`
is `reduceTransaction` for every message of a transaction, which refuses a part of a
transaction, a mixture of two, and a transaction that carries one `messageId` on two routes
(`reduceTransaction` picks inputs by `messageId` alone and `reduce` then throws). The model states
the facts a transaction adds, the first input of every new log; an `ASSUME` of `MCMessageIntake`
compares that with folding `reduce` over the inputs one by one. What is
said of a message is derived: `lifecycleState` takes the first line of `Precedence` that
applies, `deriveState` puts staleness and the duplicate credit on top,
`cutPermitsEvaluation` is `assessCut` for every cut.

`TransitionStore` is `writeTransitionBatch`, called by any set of connections (`Writer`), with
the foreign key of migration 0001 and the two unique indexes of 0005. `call[w]` is the
transaction of a connection, one action per statement:

| action | code |
|---|---|
| `Begin`, `Commit` | `sql.begin` and its return |
| `Insert`, `DoNothing` | a row is inserted, or is there already (`on conflict do nothing`) |
| `RefuseCredit` | a second credit of a message: `DuplicateEconomicEffectError` |
| `RefuseLog` | the foreign key of a log that was not ingested (`Ingest` is `insertLogs`) |
| `Lose`, `DeadlockVictim` | the connection is lost; the server breaks a cycle of waits |

A statement that meets a conflicting row of an open transaction waits for its end (`Waits`):
this and the deadlock detector are PostgreSQL's, modelled as far as the code relies on them.
`TransitionLedger` is the promise: a table that takes whole batches in one step, stores no
row twice and credits no message twice. `MessageIntake` composes the two packages on the
same facts, as `tests/integration/state-machine/transitions.test.ts` does. No production
code calls `writeTransitionBatch` or `deriveState` yet; the tests and the lab do.

What is abstracted: a message key is an id and a registry version, a raw fact the
transaction and place of its log; `transition_id` is a digest of the identity, so both unique
keys are one; attempt counters, envelopes and the lists kept for evidence are left out.

### The agent's reading of a range: `LogSource`

`log-source.ts`, `rpc.ts` and `classifyObservation` as operators. A transport is what fails
and what is answered; `readOne` takes the first endpoint of a witness whose exchange
succeeds, and what it returned is decoded afterwards, so a malformed answer is not retried.
`byWitness` groups endpoints by operator (`RpcQuorum`); `fetchRange`, `findLogIndexHole` and
`observe` give what `Replay` calls the answer of a group. `MCLogSource` is a chain of four
blocks, three endpoints of two witnesses, and ten lies each of them may tell.

### Independence and quorum: `RpcQuorum`

`packages/rpc-quorum`. `joinItem` is one step of the scan of `independenceGroups`, which
merges every component the next endpoint touches; `collapsedIndependenceGroups` folds
endpoints that are one under two names first. `evaluateQuorum` goes through identity, age,
lag and the common height. `buildPinnedContext`, `missingAssurance` and `sendChecked` are
the pin, the assurance gate and the retry loop. The collector, the log source and the
doctor call the independence rule; `evaluateQuorum`, the pin and the retry loop are the
library's own and no production code calls them yet.

### The rules: `InvariantEngine`, `NativeRule`

`packages/invariant-core`: gate A (the supply of every remote against the home's obligation
to it, with what is in flight), gate B (the escrow against the liability, in home units),
their combination, the aggregation of rules into a verdict, the native-token rule with the
minter census, and drift. A balance that was not observed is `Absent`; numbers keep the
bound of the code, with `MaxUint` for 2^256 - 1.

### Collecting: `IcttRoute`, `Adapters`, `Evidence`, `Collector`

`IcttRoute` is the world: one TokenHome and one canonical ERC20 remote. It is no code of
the repository; it is what `src/` assumes of the contracts, and the truth a verdict is
compared with. A chain is the sequence of its events, one per block; a balance at a height
is a sum over a prefix. A history may hold one fault (`minted`, `drained`, a duplicate or a
wrong credit) and one thing the rules do not interpret.

`Adapters` is the decoding: data is a sequence of words and a length, and a decoder returns
the fields or nothing. `Collector` turns the events of the route into logs and decodes them
back with it.

`Collector` is `collectConfigured`, with one action for the reading of each chain
(`CollectSide`) and one for the assembly (`Assemble`); `ChainStep` interleaves the chains
with them. Within a reading each endpoint has a behaviour of its own: honest, down, behind,
on a fork, on another chain, lying about balances, or missing logs. `choosePin`,
`probeDeployment`, `readChain`, `agreeOnReadings` and `collectSide` follow the calls of the
code, `assessRoute` is `model.ts`, `AssembleDecoded` builds the bundle and puts it to the verifier's `Checks`.

`Evidence` is the bundle, the replay of the rule over it, and `verifyBundle` as a set of
`Checks`, each of which relates two parts of the bundle. A digest is the value it stands for.

### The agent and the hosted plane: `AgentTick`, `HostedPlane`

`HostedPlane` is `apps/api` over its tables. A request is a record that moves through the
awaits of its handler:

| actions | code |
|---|---|
| `authorize`, `checkIngest`, `checkHint` | token, scope, tenant, rate limit, schema, signature, window |
| `readStatus`, `readVerdicts`, `fullBundle`, `acknowledgeTenantAlert` | the reads and the acknowledgement; a client follows the cursors page by page |
| `ingestHostedEvaluation`, `ingestRefused`, `ingestAnswered`, `ingestAuditFails` | the transaction under the lock of the key, and the answer with its audit row |
| `claimNonce`, `enqueueHint`, `enqueueFails` | a signed hint, in two statements |
| `RevokeToken`, `SetSharing`, `Tick` | the operator and the clock |

`AgentTick` is one agent process in front of it: hydration, the lanes of a job, the
combined verdict, freshness, the evaluation and its verdict event, the alert, the
economic collection when it is due, the mirror, and the second alert. `ReplayLane` is one step here
(`Replay` opens it up) and raising adds to a set (`AlertOutbox` opens that up). It may throw
or crash between any two steps. `Ready` is what `/readyz` says at any moment.

### The command line: `AtomicWrite`, `Config`, `Cli`

`AtomicWrite` is the directory as processes see it, the directory as the disk has it, and
the writer's temporary file; a file is its content, whether all of it is there and whether it
was synced, and `losePower` keeps what was synced and any of the entries that were not, part of
an unsynced file included. `Config` is the rules across fields of the manifest and the policy. In `Cli` an
invocation reads everything and decides in one step (`Invoke`), and then writes its files
one system call at a time (`WriteStep`), fails (`WriteFails`), is killed (`Kill`) or loses
power (`PowerLoss`); the next invocation finds what the last one left. A write that fails exits with
an internal error, or as an invalid configuration when the directory is what is wrong.

### Projection: `Projection`

`message-projection.ts`: a decoded observation becomes an input of the state machine, keyed
by the messenger and registry version of the source chain whichever side saw it.
`MCMessageIntake` builds its transactions with it.

### Slips

Some definitions are preceded by one that differs from them the way a plausible bug
would (a dropped guard, an off-by-one, a forgotten reset; a comment marks each as a
slip). No specification uses them. For every property of every passing run
`PROJECT.json` names the slip which, put in place of the real definition, makes TLC find
that property violated: it shows the property is able to fail.

## 3. The runs

`MCReplay`, `MCAlertOutbox`, `MCScheduler`, `MCMessageIntake`, `MCCollector`, `MCHosted` and
`MCCli` give the constants their values.

### Runs that pass

| run | instance | what it shows |
|---|---|---|
| `ReplayRace` | 2 workers, 2 groups, 2 hashes, heads up to 2, ranges up to 2 | two passes race while providers change their minds between them: one hash per height, nothing listed as complete that is not stored, and every step is a step of `LaneLedger` (append-only, quorum-backed, facts and checkpoint in one step). `RangesExact` is evaluated once, before the first step: over every set of ranges and every window of 4 heights plan and split partition what they are given, the gaps are exactly what is not covered and recovering them closes the window; and over every failure and lie of three endpoints a range that is agreed on is the chain's own when one witness is honest |
| `ReplayLive` | 1 worker, heads up to 3, ranges up to 2, truncations that split ranges, a hint at 3, 1 crash, a clock | whatever await the pass dies at and whatever order the hint gives its ranges, a green row covers its window and is fresh; unhinted, the checkpoint skips nothing; a pass always ends; and an undisturbed lane catches up and stays green |
| `AlertEconomic` | economic rule, 1 process that may restart, 3 judgements out of 4 verdicts under 3 reasons | a breach has an open incident; a judgement worse than the last one has an incident that paged; an OK closes what its reason can reach, cancels what was pending of it and announces it; every notification is sent, abandoned or superseded in the end |
| `AlertRace` | replay rule, 2 processes, 2 targets, 2 judgements, a job cut short | two processes raise and drain one outbox with leases that run out under a delivery: what reads as sent was told, nobody is paged twice for one severity, an acknowledgement mutes |
| `Sched` | 3 deployments, 5 jobs, 2 slots, a queue of 2, 2 attempts, one runner that never settles | exact lanes, a clean close; every other job gives its slot back, every queued job gets its turn, the shutdown returns |
| `MessageIntake` | 2 connections, 2 messages and one id on two routes, 6 transactions and a part of one, in every order and again, lost connections | one credit per message; a batch is stored whole or not at all (`TransitionLedger`); the facts of a message do not depend on order; a late fact never makes an answer better; a cut that permits an evaluation hides no cause; no wait is for ever (deadlock is checked) |
| `Assess` | one transfer each way, up to 4 blocks per chain, 3 endpoints of 2 failure domains, one of them misbehaving, every fault kind | neither skew of the pins, nor lag, nor a lie of fewer domains than required makes a healthy bridge look broken; OK is said of sound histories only; a supply above the obligation is CRITICAL whatever is in flight; honest evidence verifies; and the witnesses of a reading fail independently. `LinkedCountsOnce` also asks, once, before the first step: over every way three endpoints can share trust domains, provider groups and credentials (one that links the other two included), every subset that passes its probe or gives a reading, and every answer to a question for the head, no two witnesses are linked through endpoints that answered |
| `Hosted` | nine workloads over 2 tenants: an agent alone with restarts, one that mirrors, concurrent ingests, a walk during ingests, hints, refused bodies, reads with a narrow token, another tenant's reads | an accepted ingest is stored as it was sent and for good; a walk misses nothing and repeats nothing; a hint is taken once; a ready agent is up to date on every lane; an alert names a stored evaluation; what is taken for mirrored is there |
| `Commands` | two runs of 37 command lines, 5 manifests, 9 networks, 6 bundles, 3 endpoints that may hide, fork or move, one crash or loss of power | no half-written file; exit code 0 of a configured judgement was earned, over as many resumed runs as it took; a discovery's checkpoint, report and complete candidate claim exactly the blocks that were scanned, and the pin only when it was reached |

### Runs that end in a counterexample

Each checks a property that the code's own documentation promises; `findings` in
`PROJECT.json` quotes both. Two of them hold in another setting: `CatchesUp` while no crash
comes between, `BreachOpen` of the economic rule.

| run | what the trace shows |
|---|---|
| `ReplayCrashGap` (`CatchesUp`, with a crash) | a crash between the ingest transaction and `upsertRangeStatus` leaves a range below the checkpoint that is never listed as complete and never planned again: the lane reports a gap for ever |
| `AlertSecondBreach` (`BreachPages`, for the replay rule) | an OK of the replay rule has its own reason and therefore its own incident key, so it does not close the breach; the next breach folds into the one left open and pages nobody. A proven economic breach (`ACC_A01` and its like) does the same: `AlertEconomic` with `SPECIFICATION Spec` and `PROPERTIES BreachPages` gives the trace |
| `AlertCrashLosesPage` (`BreachOpen`, for the replay rule) | a crash between storing a verdict and raising it loses the page: the stored verdict is restored as one already seen |

### Where a passing run stops, and why

These settings are left out of the passing runs because the code does not keep the
property there. Changing the named constant in the run's `.cfg` gives the trace.

* `NoHole` once a hint was consumed (`NoHoleUnhinted` excludes it): a hinted high range commits and moves the checkpoint,
  then a lower one is abandoned (`engine.ts:183`); the next pass resumes above it. The
  completeness row still reports the gap: `OKSound` holds with hints.
* `RecoveryCloses` with two processes: `settleAlert`
  (`alert-store.ts:298`) writes status and attempts from the copy that was leased, so a late
  failed delivery turns a cancelled row back to pending.
* Breaches that an OK cannot reach. `RecoveryCloses` speaks of the incidents whose reason an OK
  can bear. Of the economic rule that is a coverage shortfall; a CRITICAL stays open after the
  OK, and so does whatever the replay rule raises, although an incident is said to close with
  a new OK (`docs/INCIDENT_RUNBOOK.md:78`). What comes of it is `AlertSecondBreach`.
* Breaches that do not page. `WorsePages` promises that an incident has paged by the time its
  rule worsens. It pages once, however often it worsens (`lifecycle.ts:112`); what folds
  into an incident left open pages nobody; and a judgement that is no worse than the last
  one under another reason, a WARN after an UNKNOWN, opens no incident.
* `CatchesUp` after the clock outruns the TTL: a lane with no new block to replay has no new
  success, and goes stale although nothing is wrong with it.
* Listed ranges with two workers: `upsertRangeStatus` (`engine.ts:221`) overwrites
  unconditionally, so the `blocked` of a slower worker may replace the `complete` of a range
  that was ingested. `CompleteIsIngested` is the direction that does hold.
* The integrity incident (`FileIncident`): `ingestBatch` files it for the first block of the
  batch, whichever one conflicted (`ledger.ts:259`), so the hash it quotes may be missing or
  equal to the observed one. No property relies on it.
* A row leased by a drain that is aborted keeps a counted attempt with no delivery record
  (`alerting.ts:225`). No property promises the contrary.

* A bridging endpoint that is down. Independence is computed over the endpoints that passed
  their probe (`collect.ts:318-333`), so two endpoints that only a third one links become two
  witnesses when the third is down, although "a linked failure domain counts as one witness,
  never two" (`docs/SECURITY.md:129`). `LinkedCountsOnce` therefore asks for links through
  endpoints that answered. With `among == ToSet(endpoints)` in `ReadersCountOnce`, which is
  what the document says, `Assess` ends in a counterexample in its first state.
* The error of a refused batch. `writeTransitionBatch` names the message of the first row
  whichever row was refused (`transition-store.ts:91`), and says of it that it "already has a
  credited economic effect" (`transition-store.ts:36`). `MessageIntake` with
  `INVARIANT RefusalNamesCredited` gives the trace.
* The marks of the projection: `projectSourceAccounting` (`message-projection.ts:160`) marks
  `source-accounted` as carrying an effect. Rows written with that mark would occupy the
  one-effect index before the execution arrives; the integration test marks them anew
  (`withEffect`), and so does `toRow`.
* A refused batch stores nothing, so the fact of a second credit is not kept, where the
  migration says that "Both facts must be stored, so the breach is visible"
  (`migrations/0005_message_transition_vocabulary.sql:47`). `deriveState`, which is given the
  facts, does report it.
* `OrderFree` holds while every reading of a log decodes to the same input. The first reading
  wins in `reduce`, so a log that is later read as `orphaned` or `unsupported` keeps its first
  kind.
* `NoPhantomShortfall` asks for observed causes only: `assessCut` accepts a send without its
  accounting, and compares heights without the hash a cut carries (`watermark.ts:51`).

* `IngestHonest` is about what is accepted. An ingest may be answered with a failure although
  it was stored, when its audit row fails after the commit (`server.ts:508-519`); a replayed
  key is answered with the status of the first time, 201; the sharing level is read outside
  the transaction, so a withdrawal falls between; and evidence first sent as metadata and
  then in full is a conflict.
* `HintOnce` is about what is taken. A failed enqueue leaves the nonce spent, and the retry is
  refused as a replay (`server.ts:600-629`).
* `ReadyIsHonest` is about freshness. A process restarted after the activation of ACP-194 may
  be ready on a superseded lane until its first tick, and a successful evaluation sets
  `schemaCurrent` without asking (`daemon.ts`).
* `AlertsStand` is about what was raised. A process that dies between an evaluation and its
  verdict event leaves the first without the second; the key is then taken, so no later run
  adds it.
* `RangesExact` asks for one honest witness. A witness whose answering endpoint is behind
  returns a short page that nothing in the page refutes, so two such witnesses agree on it;
  the logs of a page may come from one endpoint and its blocks from another; and no check
  says that a log lies in the range. `+` in a name of a provider group can make two groups
  share a key.
* `errors.ts:122` says that an unrecognised HTTP status "is not transient"; every status is
  (`EveryStatusIsTransient`).
* `GreenMeansAll` and `DiscoveryExact` say nothing of other codes: `evidence verify` of a
  missing file exits with 6 where `check` exits with 5; conflicting registrations are refused
  after the checkpoint has moved past them; a candidate with decimals other than the approved
  ones still calls its census complete (`discovery.ts:243-271`); a range with more registrations than `maxFacts` never advances; a JSON
  file and its HTML are two atomic writes; temporary files of a killed run stay.

### Bounds, and why they are enough

* `Replay`: `MaxHead` 2 or 3, `Width` 2. Three heights are what two chunks, a split and a hint
  out of order need. Two hashes are one disagreement; two groups with `Required = 2` let
  either break the quorum. Two workers give every overlap of two passes; the locals of a
  third would add nothing the tables tell apart. `MaxCrashes = 1`: what a second crash finds
  is a state that one crash and a completed pass reach as well. `MaxClock` 1 with
  `FreshnessTtl` 0 makes a row stale. `RetryBudget` 1 or 2: a last attempt, and one before it.
* `AlertOutbox`: `MaxTicks` 2 to 4 judgements: breach, change, recovery and breach again.
  `MaxAttempts` 2: a retry and an abandonment. `BatchSize` 1, or 2 in `AlertRace`: a drain of
  several rows. One reason stands for all the codes of a proven breach and one for all of a
  failed collection: each is an incident of its own that no OK can close.
  `MaxAborts` and `MaxCrashes` at most 1. `dash` takes WARN and worse, `oncall` only UNKNOWN
  and worse.
* `Scheduler`: two slots, one of them occupied for ever, leave one that two deployments
  compete for, each with two jobs behind its lane; three jobs can wait, so a queue of 2 is
  full. Two attempts give one backoff.
* `MessageIntake`: two connections are what a race and a deadlock need; two batches that
  credit the same two messages in opposite order deadlock them. A third credit of one
  message meets the index as the second does. Facts lie at two heights of two chains and
  cuts at two heights or none, so every fact is inside one cut and outside another; two
  evaluation times lie on either side of `StaleAfter`. The kinds are those the projection
  produces and one unsupported shape; no projection produces `execution-retried`, `orphaned`
  or `send-retry`. Some facts carry a block timestamp, as the type allows; no projection sets
  one yet, so that `STALE` is out of its reach.
* `Assess`: one transfer each way are what netting needs; a fault, an odd event, a failed first
  execution and dust are free, at most one fault and one odd event in a history. `Required`
  is 2, and with three endpoints of two domains every lie of one domain is outvoted or
  refuses the reading; histories in which `Required` of the failure domains the collector
  counts hold an endpoint that lies are kept out of the properties by `outvoted`. `MaxAge` and `AgeLimit` 1 make a bundle stale and a message
  over age. Four blocks hold a registration, a transfer, its return and a fault.
* `RangesExact`: four heights give every overlap of two ranges and a hole on either side;
  the chain of `MCLogSource` has two blocks of three logs each in the range, which a hole in
  the middle and a short page need.
* `Hosted`: a behaviour is one workload, because the workloads share no row; each has the two
  to five requests that conflict. Three seconds pass: expiry, a rate window and a hint window.
  Pages of two records make a walk over three and more. One failed statement, one operator
  act, one throw and one crash; a second one meets a state that the first, or a completed
  request, leaves too.
* `Commands`: two runs, because what the first leaves is what the second resumes from;
  `MaxClock` 1 lets a bundle expire between them. Up to two facts or blocks are walked per
  run.
* Symmetry is used in `ReplayRace` only, over sets whose members are compared and nothing
  else.

`CHECK_DEADLOCK FALSE` stands where the program may really stop: the alert runs, whose
judgements are bounded, and `Assess`, `Hosted` and `Commands`, whose work ends.
A scheduler always has an interval that fires, a lane always has a next pass.

### Fairness

* `Replay`: weak fairness of the next await of a running pass, because every read has a
  transport timeout. `LiveSpec`, for catching up only, adds that the daemon starts passes
  (`ReadHints`), and, strongly, that providers report the highest head and answer alike
  again and again: without such providers no lane can catch up. It does not oblige a pass
  to be free of failures before or after.
* `AlertOutbox`: weak fairness of a running job's next await, of the interval that starts
  the next job, and of time (a row becomes due). No delivery is obliged to succeed.
* `Scheduler`: weak fairness of the loop of `pump`; strong fairness of timers and of
  settled promises (`Callback`), because a callback that is ready is in a FIFO queue of the
  event loop and runs however often the other callbacks do. A runner is obliged to settle
  only once its signal is aborted, and one in `Stubborn` not even then.

* `MessageIntake`: strong fairness of the next statement of each call, because PostgreSQL
  wakes who waits for a transaction when it ends, and weak fairness of the deadlock detector.
  No connection is obliged to be lost, none to begin a call.
* `Assess`, `Hosted` and `Commands` check safety only and assume no fairness.

## 4. The proofs

All theorems are of the specification with arbitrary constants under the named
assumptions (`ReplayAssumption`, `NoneAssumption`, `SchedulerAssumption`, `StoreAssumption`,
`LifecycleAssumption`, `MaxUintAssumption`, `OutboxAssumption`, `PageAssumption`, `AgentAssumption`, `CliAssumption`,
and those of `Collector` below), which TLC evaluates in the runs of their modules. A theorem that needs more of the constants says so in its statement.

### Replay

`ReplayProofs`, `TypeCorrect`: `TypeOK` is inductive on its own. The work is in `Plan` and in
the split of `FetchFails`: the chunks of a plan and the halves of a split satisfy
`replay_ranges_bounds_ck`. `TypeOK` alone does not give one hash per height, because the
batch of a worker is read long before it is stored. The inductive invariant `LedgerInv` adds
that an agreed batch awaiting its ingest is vouched for, has one hash per height, lies in its
range and holds both ends. From it follow `OneHashPerHeight`, `QuorumTheorem`,
`CheckpointTheorem`, `CompleteTheorem`, the action properties `CheckpointNeverBack` and
`EvidenceKept`, and `Refinement`: the initial states map to `LedgerInit` and each step to
`Attest`, `Commit` or a stutter.

`GreenIsSound`: a green row covers its window, with crashes, races and
hints. The argument does not use the checkpoint: the row is written from the committed
ranges, committed ranges were ingested, `ingested` only grows, and the sweep for gaps finds
every uncovered height. `CheckpointSkipsNothing`: without hints, `NoHoleUnhinted`. The
invariant says of every worker that its pending ranges, with the one in its hands, continue
what is covered without a break (`Contiguous`), and that the one in its hands is the lowest
of them (`Lowest`). The hypothesis `HintHeights = {}` is what makes a queue sorted by height.

`ArithmeticIsExact` is the half of `RangesExact` that is about ranges, for chains of any height
where the run has four blocks. A plan and a split are closed forms (`PlanPartitions`,
`SplitPartitions`). For the gaps the definitions of `ReplayRanges` say where one opens and the
cursor says where it begins: `GapsTell` (a height lies in a gap if and only if no range covers
it), `GapsApart` and `GapsClose` follow from what the cursor is (`CursorIs`). That the loop of
`findRangeGaps` returns that set is an induction along its sorted ranges, by a least
counterexample (`SweepReaches`): after each range the cursor is one past what was swept, and
what was pushed is exactly what the definitions call gaps among the ranges seen
(`SweepOneMore`). Of two ranges with one start the code's sort may put either first; the first
one opens the gap and the second finds the cursor past it, which is why the result does not
depend on the order.

### Scheduler and message tables

`SchedulerProofs`: the inductive invariant is `TypeInv /\ LaneInv /\ StopInv`. `LaneInv` ties
`lanes` to the jobs in flight and bounds it; `StopInv` says that a shutdown leaves an empty
queue and that what is in flight is what it waits for. `StepCases` reduces a step to three
shapes (a job starts, a job ends, neither), and the invariants are proved on the shapes.
Theorems: `TypeCorrect`, `SingleWriterHolds`, `LanesExactHolds`, `ConcurrencyHolds`,
`CleanCloseHolds`, `NothingStarts`.

`MessageProofs`, the table: `OneEffect` is not inductive, because a commit adds rows that no
committed row speaks about. The invariant `IndInv` adds `NoClash`, that no two conflicting rows
are held in any transactions, committed or open, and `Done`, that the rows a call has passed
are stored or its own. `Insert` keeps the first because it waits for the holders of what it
conflicts with; `Commit` needs both to be a `Write` of the ledger. Every other step
leaves the table alone. Theorems: `StoreTypes`, `OneEffectHolds`, `StoreImplementsLedger`.
`IntakeImplementsStore` maps the connections of `MessageIntake`, which also fold what they write,
to those of the store, so that `IntakeCreditsOnce` has both for the composition. Its hypothesis
`RowsAreBatches` says that `Batch` contains what the transactions are written as.

`MessageProofs`, the state machine:

| theorem | property | argument |
|---|---|---|
| `OrderIsFree` | `OrderFree` | the property is inductive (`FoldStep`): a fold adds an input for every new log of the message (`ReduceTakesAll`, which needs the least index of a log, `LeastIndex`) and nothing else (`ReduceAdds`). It rests on what an adapter asserts: a transaction handed over as complete is all of it (`WholeTransactions`), and a log is one input of its message (`OneInputPerLog`). TLC evaluates both for the transactions of `MCMessageIntake` |
| `LateFactsFailClosed` | `FailClosed` | facts only grow (`FactsGrow`), so credits do (`CreditsGrow`, from the cardinality of a subset); `StateMeans` says what each lifecycle state implies of the facts, line by line of `Precedence`, and `VerdictCloses` compares two sets of facts. No hypothesis: it holds when an adapter breaks its word, too |
| `NoShortfallFromReading` | `NoPhantomShortfall` | not a matter of steps: what `lifecycleState` calls healthy has an executed fact inside the cut (`StateMeans`), and `openEdges` is false only when all the causes of one are inside too. It holds of any facts |

### Rules and quorum

`RuleProofs` proves of the rule engine what TLC can only sample, for any number of remotes and
any balances within `MaxUint`: `ExcessIsAlwaysCritical` (no pending message explains an excess
away), `OkIsEarned` (both gates and every remote), `LiabilityCovers` (rounding never asks for
less than the liability), `BreachSurvives` and `OkIsComplete` (aggregation), `GreenExitsZero`,
`DriftStands` and `SufficientIsBounded` (the native rule and drift are proved and not run). The
argument is by cases over the definitions; the inputs are arbitrary records.

Of the quorum rule, which `Assess` evaluates for three endpoints, it proves for any number: `NobodyIsOutvoted` turns "the number of hashes is not above one" into "every
witness that answered reported this one", from the cardinality of an image of a finite
set. `PinContradictsNobody` follows. `PermanentIsNotRetried` needs the least index at which
the loop ends (`LeastOfSome`, by well-foundedness of the naturals). `EveryStatusIsTransient` is a
case distinction.

### The collection

`CollectorProofs` is about `Collector` for any amounts and decimals, any number of messages,
any histories of the two chains, any endpoints and any interleaving. Its assumptions are
`RouteAssumption` (amounts are positive, message ids numbers, one set for each direction),
`EncodingAssumption` (the contracts' addresses are words, and the scale of the token, a power of
ten, is a positive number: what the prover is not told of `^`), `EndpointsAssumption`
(an endpoint's id is its place, and two failure domains at least are required),
`ActivationAssumption`, and `AbsentIsNoNumber` and `AbsentIsNoReading`: a reading that is missing
is none of the values that can be read.

| theorem | property | hypothesis |
|---|---|---|
| `CollectionInvariant` | the inductive invariant `CInv` | none |
| `BreachIsReal` | `NoPhantomBreach` | none |
| `OkIsReal` | `OkIsSound` | none |
| `ExcessIsSaid` | `ExcessIsCritical` | `Representable`: a word of 256 bits holds the supply and the obligation at the pins and the multiplier |
| `EvidenceIsUpheld` | `EvidenceStands` | none |
| `LinkedIsOnce` | `LinkedCountsOnce` | none |

`Representable` is where the property ends and not where the prover does: `evaluateGateA` answers
UNKNOWN to a balance beyond `MaxUint` (`gate-a.ts` 106-107), and no contract can return one.
`LinkedIsOnce` is about every configuration of every number of endpoints; the links it means are
those through endpoints that answered, because the code knows no others (section 3).

`CInv` says three things, and none of the properties follows from less. The histories are ordered:
a message is sent once and not executed before, what comes back was there, and the obligation never
falls below zero (`RouteInv`, one lemma per group of steps of the route). What was read is true: the
log and the balances of an agreed side are those of the chain at its pin, which lies within the
chain, unless as many domains as required lied. Whoever lied, the log is at least what the chain
holds from some block on to the pin, the balances are off by no more than a liar adds (`Roughly`),
and no two of the witnesses share a trust domain or a provider group (`CollectedSide`;
`GroupsSeparate` and `UnitsAre` say what the independence scan returns, by induction over its
running value, and `OnlyOne` why no majority is needed). What was concluded is what the rule makes
of the two sides that were read. A chain that goes on after its pin was read leaves all of this
alone (`PrefixStays`).

From there the argument is not about steps but about one conclusion, along the code:

* *Decoding* (`SentDecodes` to `DeliveryTold`). Every log the contracts write decodes to its fields,
  word by word, and every other log to nothing; so a decoded side says what happened up to its pin and
  nothing else (`Shown`, `SideReads`).
* *Messages* (`MessageReads` to `EffectsTell`). What `assessRoute` makes of the decoded sides: sends,
  executions, what is in flight, what is an effect, what the cut leaves open.
* *The ledger* (`SumOf` to `EscrowCovers`). Balances are sums over the blocks of a history. They are
  exchanged for sums over the messages (`SumExchanged`, `ByMessage`), each of which adds to the supply
  what it takes from the obligation, or is in flight, or was forged (`MovesAre`, `LedgerHolds`). So
  without a fault the supply never exceeds the obligation (`NoExcess`), and without anything in flight
  or forged they are equal (`AllAccounted`). The sum over the set of pending messages which the
  rule computes is the same sum (`PendingSums`).
* *The rule* (`InputIs` to `OkIsFound`). The input the collector assembles, gate A and gate B on it,
  the aggregated verdict, and the bundle that carries it; `ExcessIsAlwaysCritical` and `OkIsEarned` are
  cited from `RuleProofs`.
* *The verifier* (`AgreedReading` to `EvidenceIsFound`). This part needs no honest quorum: a decoded side
  is `Fair` when it says what happened from some block on, and all that the verifier asks holds of what
  is assembled from two such sides. A cited fact lies at the pin or below it (`CitedFacts`), so it is in
  a pinned block or in the history; the votes of a block are as many as the witnesses and fail
  independently (`VotesStandApart`); the cause of an effect is one send and is cited
  (`EffectsAreCaused`). `Verified` puts the checks together, of which only `freshness` and `collections` may
  fail, and `Undecoded` says which payload it takes for a reading not to be decoded.
* *Independence* (`WitnessesApart` to `LinkedFound`). Each endpoint is placed in exactly one of the
  domains the scan returns, and two related ones in the same; so a domain is closed under the
  links, and a chain of them never leads out of it. The collector reads through one endpoint of
  each domain. `independentWitnesses` takes one observation of each, and `evaluateQuorum` agrees
  only when what is left after it dropped the lagging and the outvoted is still as many as required
  (`AgreedApart`).

Sums are recursive functions (`SumOf`). What they are equal to is proved without an induction
theorem: the least index at which a claim fails is not there (`LeastOfSome`).

A drain smaller than the dust of earlier sends leaves the escrow above the liability, so `OkIsSound`
says of the escrow that it covers what is owed, and of forged units that there are none.

### The agent and the hosted plane

`HostedProofs` is about `SystemSpec(asks, rows, level, migrated, budget)`: the agent and the
hosted plane together, for any requests of clients, any evidence already in the table, any
sharing level and any budget of faults. Its initial condition states what every deployment
gives: `ClientAsks` (a client's request is not one of the agent's own posts) and
`EvidenceTable` (the unique key of the evaluations table holds of what is in it already).

| theorem | property | argument |
|---|---|---|
| `IngestIsHonest`, `HintsOnce`, `RecordsAreKept` | `IngestHonest`, `HintOnce`, `RecordsStand` | `HostInv`: what a request that is past its checks has established of the tables; each handler is one lemma, and a request never touches another's record. `ingestHostedEvaluation` locks by key and stores by digest, so the unique key (`EvidenceTable`) is what keeps two keys for one digest apart |
| `WalksAreComplete` | `WalkComplete` | `WalkInv`, with `TimelineInit`: clients send dated evidence and well-formed questions. What was there when the walk began is seen or below the cursor, what was seen is not below it (`UpToCursor`). `PageStep` is the one step that is not a stutter of this; it rests on `Places`, by which the number of newer rows numbers the timeline, from an injection of a finite set into as many places. Rows that arrive only make more of what is below (`UpToCursorGrows`) |
| `ReadyMeansFresh` | `ReadyIsHonest` | `ReadyInv`: every lane was complete no earlier than `healthSuccess`, also when that came out of the tables (`hydrate`), and the reports of a running pass are true of the lanes they name |
| `AlertsStandOnEvidence` | `AlertsStand` | `AlertInv`: at every await of a job, the evaluation it is about to name is on record with the verdict it will be named for. The digest of a replay judgement carries its verdict, an economic one its job; both are needed, because the key does not hold the verdict |
| `MirroredIsThere` | `MirrorHonest` | `PostsOK`: the agent's posts carry the bundle they are named after; `HostInv` says what an accepted post left behind |

### Alerts

`AlertProofs` is about `AlertOutbox` for any agents, targets, observations, crashes and aborts.
Some promises hold only of what the agent's two rules really observe, and the theorems say so:

* `EvidenceIsNew`: an observation has a digest of its own every time (the content hash of an economic
  bundle), or a reason that names its verdict (`reasons[0]`, or `REPLAY_` and the verdict, of the
  replay rule, and the reasons under which an economic collection is unavailable). Both rules do.
* `OneAgent`: one process; `OneOk`: an OK bears one reason (`REPLAY_OK`, or `ACC_A00_RECONCILED`),
  whatever breaches bear; `NotHydrated`: the economic rule, or a process that does not die.

| theorem | property | hypotheses |
|---|---|---|
| `OutboxTypes` | `TypeOK` | none |
| `SentIsTold` | `SentMeansTold` | `EvidenceIsNew` |
| `NobodyIsPagedTwice` | `PagedOnce` | `EvidenceIsNew`, and one process or a rule whose every reason names its verdict |
| `AcknowledgedStaysMuted` | `AckMutes` | the same |
| `BreachHasIncident` | `BreachOpen` | `EvidenceIsNew`, `OneAgent`, `NotHydrated` |
| `RecoveryClosesIncident` | `RecoveryCloses` | and `OneOk`: of two reasons an OK may bear, it would close one |
| `WorseningPages` | `WorsePages` | `EvidenceIsNew` |

No hypothesis is for the prover's convenience. Without `EvidenceIsNew`, `SentMeansTold` fails: a
closed row whose digest comes back is rewritten with a note that other targets skip. With
two processes the economic `PagedOnce` fails: the older of two judgements may be written last.
A hydrated rule loses a breach in the crash between its evaluation and its alert, which is
what the run `AlertCrashLosesPage` shows. The runs `AlertRace` and `AlertEconomic` satisfy the
hypotheses of the theorems about the properties they check.

The invariant of any number of processes, `OutboxInv`, ties the three places a row is in: the
table, the copies in the hands of deliveries (`CopiesOK`: a copy names a row that is still
there, with a note the same targets skip), and the history. A row's note may be rewritten under
a delivery, and `Alike` is what survives that. For one process `TurnInv` adds that the
newest open row of an incident is its worst (`NewestIsWorst`): `foldAlert` compares with the newest
only, and this makes that comparison one with all of them. `EconomicInv` adds that nothing
closed is leased, so that no late settlement makes a closed breach pending again.

### The command line

`CliProofs` is about any command lines, documents, bundles and networks; `CliAssumption` says what
the decoders give (counts are naturals, blocks integers, a digest stands for one document). An
invocation decides in one step what it comes to, so most of the work is `RunOK`: whatever
command line is given, what it would write may be there and the code it would give is earned,
by one lemma per command. The invariant `CliInv` says the same of what waits:

* `FilesOK`: every file, in the directory and on the disk, is whole and synced, and holds what its
  name promises: a replay checkpoint only facts that were gone through, a discovery checkpoint the
  registrations of the blocks below its cursor, a discovery report what is registered as far as it
  was scanned, a candidate a census complete only to a block that was reached, anything else a
  bundle. What a power loss may leave behind is one of the two, so it promises the same.
* `JobOK`: what an invocation has still to write, and the code it will give, hold up against the facts
  gone through so far, which only grow.
* `ExitsOK`: so does every code that was given.

`FilesAreWhole` and `GreenIsEarned` (`NoTornFile`, `GreenMeansAll`) follow without more. A resumed
replay is green only because its checkpoint is of its own bundle (`ReplayWalks`), whatever runs,
crashes and other bundles came between. `DiscoveryIsExact` (`DiscoveryExact`) has one hypothesis,
`OneIsHonest`, which is what a quorum of witnesses is for: when as many failure domains as a reviewed
pair asks for serve a range, one endpoint among them does not hide a registration. From it
`AgreesOnTruth` concludes that an agreed range is the chain's. The networks of `MCCli` satisfy
it, those included in which the endpoints of one domain hide.

### What is only model-checked

`QuorumTheorem`, `CheckpointTheorem`, `CheckpointNeverBack`, `EvidenceKept` and `ConcurrencyHolds` are
not properties of a run of their own: the first four are parts of what `LedgerRefined`
checks, the last follows from `LanesExact` and the guard of the pump.

* Every liveness property (`PassEnds`, `CatchesUpUndisturbed`, `QueuedStarts`, `SlotsReleased`,
  `ShutdownReturns`, `OutboxDrains`): fairness and `ENABLED` are out of this prover's reach.
* The half of `RangesExact` that is about the log source (`SourceExact`): it enumerates every
  failure and lie of three fixed endpoints over one chain, a data set and not a claim about
  every one; its grouping of endpoints is a fold.

## 5. Not modelled

* Canonical encoding, hashing, YAML and schema parsing, redaction, HTML, logs and metrics:
  sequential conversions. A digest is the value it stands for, a document what it decodes to.
* `persistRemoteCandidates`, `admitHint`, the orphaning of blocks, the sweeps of nonces and keys,
  `claimIdempotency`, the fingerprint, linkage, registry and discovery helpers of the adapters,
  `exactReplayCapability` and the baseline comparison: no production code calls them.
* The rebuild of totals (`storage-postgres/src/projection.ts`), which reads its aggregate outside
  its transaction, and the census: their inputs are tables that no production code fills yet.
* The migration runner, the client and `bootstrap`: they run before the system starts. Their
  transactions and advisory locks are the atomicity of the actions that use them.
* In `Collector`: several remotes, the collateral phase of a registration, pins handed in by the
  caller. In `Cli`: an interrupt, which ends the process as `Kill` does. In `IcttRoute`: multi-hop
  traffic beyond its presence. In `Evidence`: the native bundle.
* In `LogSource`: the limits on body size and depth are one failure of the exchange.
* The console, the test kit, the lab and the infrastructure.

What would be worth adding next: two remotes in `Collector`; and the rebuild of totals once
something writes transitions in production.
