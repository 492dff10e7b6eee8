---------------------------- MODULE AlertOutbox ----------------------------
(***************************************************************************)
(* The alert outbox: the fold of packages/alerts/src/lifecycle.ts inside   *)
(* the locked transaction of packages/storage-postgres/src/alert-store.ts, *)
(* and the job of apps/agent/src/main.ts that judges a deployment, raises  *)
(* the judgement and drains what is due (apps/agent/src/alerting.ts).      *)
(*                                                                         *)
(* One rule of one deployment is modelled.  Economic chooses which: the    *)
(* replay-completeness rule of runtime.ts, raised by every job and         *)
(* hydrated from the stored verdict at start-up, or the economic rule of   *)
(* daemon.ts, raised at its own interval and not hydrated.  Several agent  *)
(* processes share the outbox ("two processes racing during a rolling      *)
(* restart", alert-store.ts).  Every transaction is one step; a crash      *)
(* forgets a process and nothing else.                                     *)
(*                                                                         *)
(* Abstractions: a hash is the tuple it is computed from, so a dedup key   *)
(* is (reason, from, to, digest) and an incident is a reason.  The lease   *)
(* and backoff instants are one flag: a row that is not due becomes due at *)
(* some later moment.  A row that is due may be leased in any order.  A    *)
(* rejected and a failed delivery are both "failed".  Occurrence counts,   *)
(* payload wording and rows of another build are left out.                 *)
(***************************************************************************)
EXTENDS Integers, FiniteSets

CONSTANTS
  None,          \* no value
  Agent,         \* agent processes sharing the database
  Economic,      \* TRUE: collectEconomic raises the rule; FALSE: runDeploymentTick
  Observation,   \* what a judgement may find: [verdict, reason, digest]; the digest None
                 \* stands for a bundle's content hash, new on every judgement
  Target,        \* alert targets
  MinSeverity,   \* the threshold of each target
  MaxAttempts,   \* maxJobAttempts
  BatchSize,     \* batchSize
  MaxTicks,      \* bound: judgements made
  MaxAborts,     \* bound: jobs cut short
  MaxCrashes     \* bound: processes that die (and start again)

Verdict == {"OK", "WARN", "UNKNOWN", "CRITICAL"}
States == {"first_seen", "repeated", "escalated", "acknowledged", "recovered"}
OutboxStatus == {"pending", "sent", "abandoned", "cancelled"}

Reason == { o.reason : o \in Observation }
Digest == 1..MaxTicks \cup { o.digest : o \in Observation }
Key == [reason : Reason, from : Verdict \cup {"NONE"}, to : Verdict, digest : Digest]
Note == [state : States, severity : Verdict]

\* An alert is the part of a row the fold of lifecycle.ts reads and decides.
Alert == [state : States, verdict : Verdict, acked : BOOLEAN, recovered : BOOLEAN]
Row == [key : Key, status : OutboxStatus, attempts : Nat, state : States, verdict : Verdict,
        acked : BOOLEAN, recovered : BOOLEAN, at : 1..MaxTicks, due : BOOLEAN, note : Note]

\* A judgement to be raised, the copy of a row that a process works on, and what its
\* targets made of it.
Signal == [verdict : Verdict, reason : Reason, at : 1..MaxTicks, digest : Digest]
Leased == [key : Key, attempts : Nat, note : Note]
Report == [row : Leased, reports : [Target -> {"skipped", "delivered", "failed"}]]

ASSUME OutboxAssumption ==
  /\ Economic \in BOOLEAN
  /\ \A o \in Observation : o.verdict \in Verdict
  /\ MinSeverity \in [Target -> Verdict]
  /\ MaxAttempts \in Nat /\ BatchSize \in Nat \ {0}
  /\ MaxTicks \in Nat /\ MaxAborts \in Nat /\ MaxCrashes \in Nat
  /\ None \notin Verdict /\ None \notin Alert /\ None \notin Row /\ None \notin Signal

VARIABLES
  outbox,      \* alert_outbox: a set of rows, one per dedup key
  deliveries,  \* alert_deliveries: a set of [key, target, attempt, delivered]
  evaluated,   \* the stored verdict a new process is hydrated from
  ticks,       \* judgements made so far: the clock of last_seen_at
  aborts, crashes,
  (* the local state of every process *)
  pc, previous, signal, batch, report,
  (* history, read by properties only *)
  queued,      \* the dedup keys a notification was queued for
  told         \* <<key, target>>: what a target accepted

tables == <<outbox, deliveries, evaluated>>
bounds == <<ticks, aborts, crashes>>
locals == <<pc, previous, signal, batch, report>>
history == <<queued, told>>
vars == <<tables, bounds, locals, history>>

----------------------------------------------------------------------------
(* dedup.ts *)

SEVERITY == [NONE |-> -1, OK |-> 0, WARN |-> 1, UNKNOWN |-> 2, CRITICAL |-> 3]

isEscalation(from, to) == SEVERITY[to] > SEVERITY[from]

isRecovery(from, to) == from # "NONE" /\ SEVERITY[to] < SEVERITY[from] /\ to = "OK"

----------------------------------------------------------------------------
(* lifecycle.ts *)

open(to) == [state |-> "first_seen", verdict |-> to, acked |-> FALSE, recovered |-> FALSE]

\* A slip: the next scan undoes the mute.
observeUnmutes(before, to) ==
  LET worse == isEscalation(before.verdict, to) IN
  [before EXCEPT !.state = IF worse \/ before.state = "acknowledged" THEN "escalated"
                           ELSE IF before.state = "first_seen" THEN "repeated" ELSE before.state,
                 !.verdict = IF worse THEN to ELSE before.verdict]

\* A slip: a worsening does not raise the severity of the incident.
observeKeepsVerdict(before, to) ==
  [before EXCEPT !.state = IF isEscalation(before.verdict, to) THEN "escalated"
                           ELSE IF before.state = "first_seen" THEN "repeated" ELSE before.state]

\* A repeat never rewinds an escalation, and an acknowledgement survives it.
observe(before, to) ==
  LET worse == isEscalation(before.verdict, to) IN
  [before EXCEPT !.state = IF worse THEN "escalated"
                           ELSE IF before.state = "first_seen" THEN "repeated" ELSE before.state,
                 !.verdict = IF worse THEN to ELSE before.verdict]

recover(before) ==
  [before EXCEPT !.state = "recovered", !.verdict = "OK", !.recovered = TRUE]

fold(before, to) ==
  IF before = None THEN open(to)
  ELSE IF isRecovery(before.verdict, to) THEN recover(before)
  ELSE observe(before, to)

\* Slips: every repeat pages; a worsening is not worth a page.
shouldNotifyRepeats(before, after) == after.state # "acknowledged"
shouldNotifyNoEscalation(before, after) ==
  /\ after.state # "acknowledged"
  /\ IF before = None THEN after.state = "first_seen"
     ELSE after.state = "recovered" /\ before.state # "recovered"

shouldNotify(before, after) ==
  /\ after.state # "acknowledged"
  /\ IF before = None THEN after.state = "first_seen"
     ELSE \/ after.state = "recovered" /\ before.state # "recovered"
          \/ after.state = "escalated" /\ before.state # "escalated"

----------------------------------------------------------------------------
(* State *)

alertOf(row) == [state |-> row.state, verdict |-> row.verdict,
                 acked |-> row.acked, recovered |-> row.recovered]

Open(reason) == { r \in outbox : r.key.reason = reason /\ r.state # "recovered" }

\* order by last_seen_at desc
Newest(rows) == { r \in rows : \A q \in rows : q.at <= r.at }

keyOf(a) == [reason |-> signal[a].reason, from |-> previous[a],
             to |-> signal[a].verdict, digest |-> signal[a].digest]

Init ==
  /\ outbox = {} /\ deliveries = {} /\ evaluated = None
  /\ ticks = 0 /\ aborts = 0 /\ crashes = 0
  /\ pc = [a \in Agent |-> "idle"]
  /\ previous = [a \in Agent |-> "NONE"]
  /\ signal = [a \in Agent |-> None]
  /\ batch = [a \in Agent |-> {}]
  /\ report = [a \in Agent |-> None]
  /\ queued = {} /\ told = {}

----------------------------------------------------------------------------
(* The job: judge, raise, drain *)

\* runDeploymentTick up to recordEvaluation, or collectConfigured and putEvaluation:
\* the judgement is durable before its alert refers to it.
Judge(a) ==
  /\ pc[a] = "idle"
  /\ ticks < MaxTicks
  /\ ticks' = ticks + 1
  /\ \E o \in Observation :
       /\ signal' = [signal EXCEPT ![a] =
            [verdict |-> o.verdict, reason |-> o.reason, at |-> ticks + 1,
             digest |-> IF o.digest = None THEN ticks + 1 ELSE o.digest]]
       /\ evaluated' = o.verdict
  /\ pc' = [pc EXCEPT ![a] = "raise"]
  /\ UNCHANGED <<outbox, deliveries, aborts, crashes, previous, batch, report, history>>

\* collectEconomic returns null until its interval has elapsed; the job drains all
\* the same.
NotDue(a) ==
  /\ Economic
  /\ pc[a] = "idle"
  /\ pc' = [pc EXCEPT ![a] = "drain"]
  /\ UNCHANGED <<tables, bounds, previous, signal, batch, report, history>>

\* The judgement is raised: the next one is a transition from this one.
Raised(a) ==
  /\ previous' = [previous EXCEPT ![a] = signal[a].verdict]
  /\ signal' = [signal EXCEPT ![a] = None]
  /\ pc' = [pc EXCEPT ![a] = "drain"]
  /\ UNCHANGED <<deliveries, evaluated, bounds, batch, report, told>>

\* closeIncident: every open row recovers, and a pending one is cancelled.
closed(rows, reason) ==
  { IF r.key.reason = reason /\ r.state # "recovered"
    THEN [r EXCEPT !.state = "recovered", !.recovered = TRUE,
                   !.status = IF r.status = "pending" THEN "cancelled" ELSE r.status]
    ELSE r : r \in rows }

\* The row of this dedup key: one that nobody is to be paged about is stored, not queued.
rowFor(a, existing, after, notify) ==
  [key |-> keyOf(a),
   status |-> IF notify THEN "pending" ELSE IF existing = None THEN "sent" ELSE existing.status,
   attempts |-> IF existing = None THEN 0 ELSE existing.attempts,
   state |-> after.state, verdict |-> after.verdict,
   acked |-> after.acked, recovered |-> after.recovered,
   at |-> signal[a].at, due |-> TRUE,
   note |-> [state |-> after.state, severity |-> after.verdict]]

\* What the fold decided is written: rows, and whether somebody is to be told.
Written(a, existing, before, rows) ==
  LET after  == fold(before, signal[a].verdict)
      notify == shouldNotify(before, after)
  IN  /\ outbox' = rows \cup {rowFor(a, existing, after, notify)}
      /\ queued' = IF notify THEN queued \cup {keyOf(a)} ELSE queued

Closes(a, before) == before # None /\ isRecovery(before.verdict, signal[a].verdict)

others(rows, key) == { r \in rows : r.key # key }

\* A slip: a recovery announces itself and closes nothing.
WriteForgetsToClose(a, existing, before) ==
  Written(a, existing, before, others(outbox, keyOf(a)))

\* The incident is closed first, then the row of this dedup key is upserted.
Write(a, existing, before) ==
  Written(a, existing, before,
          others(IF Closes(a, before) THEN closed(outbox, signal[a].reason) ELSE outbox,
                 keyOf(a)))

\* The same dedup key again: its own row is folded, closed or not.
RaiseAgain(a) ==
  /\ pc[a] = "raise"
  /\ \E row \in outbox : row.key = keyOf(a) /\ Write(a, row, alertOf(row))
  /\ Raised(a)

\* A new key of an open incident: the newest open row is folded into a new one.
RaiseInIncident(a) ==
  /\ pc[a] = "raise"
  /\ \A row \in outbox : row.key # keyOf(a)
  /\ \E newest \in Newest(Open(signal[a].reason)) : Write(a, None, alertOf(newest))
  /\ Raised(a)

\* No open incident: only a worsening opens one.
RaiseFirst(a) ==
  /\ pc[a] = "raise"
  /\ \A row \in outbox : row.key # keyOf(a)
  /\ Open(signal[a].reason) = {}
  /\ isEscalation(previous[a], signal[a].verdict)
  /\ Write(a, None, None)
  /\ Raised(a)

\* Nothing to record.
RaiseNothing(a) ==
  /\ pc[a] = "raise"
  /\ \A row \in outbox : row.key # keyOf(a)
  /\ Open(signal[a].reason) = {}
  /\ ~ isEscalation(previous[a], signal[a].verdict)
  /\ Raised(a)
  /\ UNCHANGED <<outbox, queued>>

RaiseAlert(a) == RaiseAgain(a) \/ RaiseInIncident(a) \/ RaiseFirst(a) \/ RaiseNothing(a)

----------------------------------------------------------------------------
(* drainOutbox *)

\* A slip: the attempt is counted at success time only.
leasedUncounted(r) == [r EXCEPT !.due = FALSE]

\* The attempt is counted and the row pushed past the lease, at lease time.
leased(r) == [r EXCEPT !.attempts = r.attempts + 1, !.due = FALSE]

\* leaseDueAlerts
Lease(a) ==
  /\ pc[a] = "drain"
  /\ LET pending == { r \in outbox : r.status = "pending" /\ r.due } IN
     \E take \in SUBSET pending :
       /\ take = pending \/ Cardinality(take) = BatchSize
       /\ Cardinality(take) <= BatchSize
       /\ outbox' = (outbox \ take) \cup { leased(r) : r \in take }
       /\ batch' = [batch EXCEPT ![a] = { [key |-> r.key, attempts |-> leased(r).attempts,
                                            note |-> r.note] : r \in take }]
       /\ pc' = [pc EXCEPT ![a] = IF take = {} THEN "idle" ELSE "deliver"]
  /\ UNCHANGED <<deliveries, evaluated, bounds, previous, signal, report, history>>

\* deliver's first check: a recovery is never filtered by severity.
skips(target, note) ==
  note.state # "recovered" /\ SEVERITY[note.severity] < SEVERITY[MinSeverity[target]]

\* dispatch: one attempt at every target, and a failure is a report, never an exception.
Dispatch(a) ==
  /\ pc[a] = "deliver"
  /\ \E row \in batch[a], reports \in [Target -> {"skipped", "delivered", "failed"}] :
       /\ \A t \in Target : reports[t] = "skipped" <=> skips(t, row.note)
       /\ report' = [report EXCEPT ![a] = [row |-> row, reports |-> reports]]
       /\ told' = told \cup { <<row.key, t>> : t \in { u \in Target : reports[u] = "delivered" } }
  /\ pc' = [pc EXCEPT ![a] = "settle"]
  /\ UNCHANGED <<tables, bounds, previous, signal, batch, queued>>

\* A slip: an exhausted row reads as sent.
settledAsSent(attempts, reports) ==
  IF \E t \in Target : reports[t] = "delivered" THEN "sent"
  ELSE IF attempts < MaxAttempts THEN "pending" ELSE "sent"

settled(attempts, reports) ==
  IF \E t \in Target : reports[t] = "delivered" THEN "sent"
  ELSE IF Target # {} /\ \A t \in Target : reports[t] = "skipped" THEN "sent"
  ELSE IF attempts < MaxAttempts THEN "pending" ELSE "abandoned"

\* A skipped target produced no attempt, so it produces no delivery record.
recorded(row, reports) ==
  { [key |-> row.key, target |-> t, attempt |-> row.attempts,
     delivered |-> reports[t] = "delivered"] : t \in { u \in Target : reports[u] # "skipped" } }

\* settleAlert: the records of this attempt, once each, and the row's new status,
\* attempts and due instant, whatever the row has become since it was leased.
Settle(a) ==
  /\ pc[a] = "settle"
  /\ LET row == report[a].row
         reports == report[a].reports
     IN  /\ deliveries' = deliveries \cup
              { d \in recorded(row, reports) :
                  \A e \in deliveries : <<e.key, e.target, e.attempt>> # <<d.key, d.target, d.attempt>> }
         /\ outbox' = { IF r.key = row.key
                        THEN [r EXCEPT !.status = settled(row.attempts, reports),
                                       !.attempts = row.attempts, !.due = FALSE]
                        ELSE r : r \in outbox }
         /\ batch' = [batch EXCEPT ![a] = @ \ {row}]
         /\ pc' = [pc EXCEPT ![a] = IF batch[a] = {row} THEN "idle" ELSE "deliver"]
  /\ report' = [report EXCEPT ![a] = None]
  /\ UNCHANGED <<evaluated, bounds, previous, signal, history>>

\* The job timed out, the agent is shutting down or a statement failed: the loop breaks
\* between two rows, or an await of the job throws.  The scheduler starts the next job.
Abort(a) ==
  /\ aborts < MaxAborts
  /\ pc[a] # "idle"
  /\ aborts' = aborts + 1
  /\ signal' = [signal EXCEPT ![a] = None]
  /\ batch' = [batch EXCEPT ![a] = {}]
  /\ report' = [report EXCEPT ![a] = None]
  /\ pc' = [pc EXCEPT ![a] = "idle"]
  /\ UNCHANGED <<tables, ticks, crashes, previous, history>>

----------------------------------------------------------------------------
(* The environment *)

\* The lease or the backoff of a pending row runs out.
BecomeDue(r) ==
  /\ r.status = "pending" /\ ~ r.due
  /\ outbox' = (outbox \ {r}) \cup {[r EXCEPT !.due = TRUE]}
  /\ UNCHANGED <<deliveries, evaluated, bounds, locals, history>>

\* acknowledgeTenantAlert: every open row of the incident; a recovered one is left alone.
Acknowledge(reason) ==
  /\ \E r \in Open(reason) : r.state # "acknowledged"
  /\ outbox' = { IF r \in Open(reason)
                 THEN [r EXCEPT !.state = "acknowledged", !.acked = TRUE] ELSE r : r \in outbox }
  /\ UNCHANGED <<deliveries, evaluated, bounds, locals, history>>

\* A process dies and starts again.  hydrate restores the verdict of the replay rule
\* from the stored completeness; the economic rule starts from NONE.
Crash(a) ==
  /\ crashes < MaxCrashes
  /\ crashes' = crashes + 1
  /\ pc' = [pc EXCEPT ![a] = "idle"]
  /\ previous' = [previous EXCEPT ![a] =
       IF Economic \/ evaluated = None THEN "NONE" ELSE evaluated]
  /\ signal' = [signal EXCEPT ![a] = None]
  /\ batch' = [batch EXCEPT ![a] = {}]
  /\ report' = [report EXCEPT ![a] = None]
  /\ UNCHANGED <<tables, ticks, aborts, history>>

----------------------------------------------------------------------------
\* The next await of a running job.
Step(a) == RaiseAlert(a) \/ Lease(a) \/ Dispatch(a) \/ Settle(a)

Next ==
  \/ \E a \in Agent : Judge(a) \/ NotDue(a) \/ Step(a) \/ Abort(a) \/ Crash(a)
  \/ \E r \in outbox : BecomeDue(r)
  \/ \E reason \in Reason : Acknowledge(reason)

Spec == Init /\ [][Next]_vars

\* The scheduler starts the next job of a deployment at every tick of its interval,
\* a job's next await settles, and time passes.
FairSpec ==
  /\ Spec
  /\ \A a \in Agent : WF_vars(Step(a)) /\ WF_vars(NotDue(a))
  /\ WF_vars(\E r \in outbox : BecomeDue(r))

----------------------------------------------------------------------------
(* Properties *)

\* Every row and every local is of its declared type, and the table is keyed by its
\* dedup key (alert_outbox.dedup_key is UNIQUE).
TypeOK ==
  /\ outbox \subseteq Row
  /\ \A r, q \in outbox : r.key = q.key => r = q
  /\ \A d \in deliveries : d.key \in Key /\ d.target \in Target /\ d.attempt \in Nat
  /\ evaluated \in Verdict \cup {None}
  /\ ticks \in 0..MaxTicks /\ aborts \in 0..MaxAborts /\ crashes \in 0..MaxCrashes
  /\ pc \in [Agent -> {"idle", "raise", "drain", "deliver", "settle"}]
  /\ previous \in [Agent -> Verdict \cup {"NONE"}]
  /\ signal \in [Agent -> Signal \cup {None}]
  /\ batch \in [Agent -> SUBSET Leased]
  /\ report \in [Agent -> Report \cup {None}]
  /\ \A a \in Agent : /\ pc[a] = "raise" => signal[a] \in Signal
                      /\ pc[a] = "settle" => report[a] \in Report /\ report[a].row \in batch[a]
                      /\ pc[a] \in {"deliver", "settle"} <=> batch[a] # {}
  /\ queued \subseteq Key /\ told \subseteq Key \X Target

\* A row reads as sent only when some target accepted its notification, or no target
\* wanted it: "an operator looking at the outbox can always tell 'we told you' from
\* 'we tried and could not'" (alerting.ts:212-215).
SentMeansTold ==
  \A r \in outbox :
    (r.status = "sent" /\ r.key \in queued) =>
      \/ \E t \in Target : <<r.key, t>> \in told
      \/ Target # {} /\ \A t \in Target : skips(t, r.note)

\* While an incident is open nobody is paged twice for one severity, whatever is
\* observed again and however often the process restarts (alert-store.ts:6-10).
PagedOnce ==
  \A r, q \in outbox :
    ( /\ r.key # q.key /\ r.key.reason = q.key.reason
      /\ r.state # "recovered" /\ q.state # "recovered"
      /\ r.key \in queued /\ q.key \in queued ) => r.verdict # q.verdict

\* A breach that was judged and raised has an open incident behind it ("a crash can
\* leave an unpaged evaluation for the next outbox pass", runtime.ts:231-233).
BreachOpen ==
  \A a \in Agent :
    (pc[a] = "drain" /\ previous[a] \notin {"NONE", "OK"}) =>
      \E r \in outbox : r.state # "recovered" /\ r.verdict # "OK"

\* The reasons an OK may bear: the incidents that a recovery can reach (daemon.ts:409).
OkReason == { o.reason : o \in { p \in Observation : p.verdict = "OK" } }

\* Once a judgement of OK is raised no breach of its incident stays open: "recovery closes
\* every open row of the incident". A breach of another reason has an incident of its own,
\* which the OK leaves alone. A closed breach is never waiting for delivery (migration
\* 0008: "never leased"), and a recovery notification was queued after it, "so the person
\* who was paged learns it ended" (alerting.ts:95-96).
RecoveryCloses ==
  /\ \A a \in Agent :
       (pc[a] # "raise" /\ previous[a] = "OK") =>
         \A r \in outbox :
           r.key.reason \in OkReason /\ r.state # "recovered" => r.verdict = "OK"
  /\ \A r \in outbox :
       (r.state = "recovered" /\ r.key.to # "OK") =>
         /\ r.status # "pending"
         /\ \E q \in outbox : /\ q.key.reason = r.key.reason /\ q.key.to = "OK"
                              /\ q.at > r.at /\ q.key \in queued

Worsens(a) ==
  /\ pc[a] = "raise" /\ pc'[a] = "drain"
  /\ signal[a].verdict # "OK" /\ isEscalation(previous[a], signal[a].verdict)

IncidentPages(reason) ==
  \E r \in outbox' : /\ r.key.reason = reason /\ r.key \in queued'
                     /\ r.state # "recovered" /\ r.verdict # "OK"

\* A worsening is never swallowed: once a judgement worse than the last one is raised, its
\* incident is open and somebody was queued to be paged about a breach of it, now or while
\* it was open (lifecycle.ts:104-114).  An incident pages once however often it worsens.
WorsePages == [][ \A a \in Agent : Worsens(a) => IncidentPages(signal[a].reason) ]_vars

\* A genuine change pages: a breach that follows an OK and rests on evidence never seen
\* before queues a notification (runtime.ts:82-84).
BreachPages ==
  [][ \A a \in Agent :
        ( /\ pc[a] = "raise" /\ pc'[a] = "drain"
          /\ previous[a] = "OK" /\ signal[a].verdict # "OK"
          /\ \A r \in outbox : r.key.digest # signal[a].digest )
        => queued' # queued ]_vars

\* An acknowledged incident stays muted: it pages again only for a recovery or for
\* something worse than all of it (lifecycle.ts:72-73).
AckMutes ==
  [][ \A k \in queued' \ queued :
        ( /\ Open(k.reason) # {}
          /\ \A r \in Open(k.reason) : r.state = "acknowledged" )
        => \/ k.to = "OK"
           \/ \A r \in Open(k.reason) : isEscalation(r.verdict, k.to) ]_vars

\* Whatever fails, dies or is cut short, the outbox empties: every notification is
\* sent, abandoned or superseded in the end (alerting.ts:209-215).
OutboxDrains == <>[](\A r \in outbox : r.status # "pending")
=============================================================================
