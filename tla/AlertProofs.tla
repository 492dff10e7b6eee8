---------------------------- MODULE AlertProofs ----------------------------
(***************************************************************************)
(* What the alert outbox promises, for every number of agent processes,    *)
(* targets, judgements, crashes and aborts: what a sent row means, that     *)
(* nobody is paged twice, that a worsening pages, that a breach stays open  *)
(* until its recovery and that a recovery closes it.                       *)
(***************************************************************************)
EXTENDS AlertOutbox, TLAPS

\* A reason under which only one verdict is ever observed.
Steady(reason) ==
  \A o, p \in Observation : o.reason = reason /\ p.reason = reason => o.verdict = p.verdict

\* What the two rules observe: evidence with a digest of its own every time
\* (collectEconomic), or a reason that names its verdict (runDeploymentTick, and the
\* economic evidence that could not be collected).
EvidenceIsNew == \A o \in Observation : o.digest = None \/ Steady(o.reason)

OneAgent == \A a, b \in Agent : a = b

\* An OK bears one reason: REPLAY_OK of the replay rule, ACC_A00_RECONCILED of the economic.
OneOk == \A o, p \in Observation : o.verdict = "OK" /\ p.verdict = "OK" => o.reason = p.reason

---------------------------------------------------------------------------
(* The inductive invariant of any number of agents *)

Judged(reason, verdict) == \E o \in Observation : o.reason = reason /\ o.verdict = verdict

\* Two notes that the same targets skip.
Alike(m, n) == m.severity = n.severity /\ (m.state = "recovered" <=> n.state = "recovered")

\* A row of a steady reason never recovers; a row of any other is raised once.
RowOK(r) ==
  /\ Judged(r.key.reason, r.key.to) /\ r.at <= ticks
  /\ r.note.severity = r.verdict
  /\ r.key.to = "OK" => r.verdict = "OK"
  /\ Steady(r.key.reason) => r.verdict = r.key.to /\ r.state # "recovered" /\ r.note.state # "recovered"
  /\ ~ Steady(r.key.reason) => r.key.digest = r.at

\* A judgement is raised under a time of its own.
SignalOK(a) ==
  /\ Judged(signal[a].reason, signal[a].verdict) /\ signal[a].at <= ticks
  /\ ~ Steady(signal[a].reason) => signal[a].digest = signal[a].at
  /\ \A r \in outbox : r.at # signal[a].at
  /\ \A b \in Agent : pc[b] = "raise" /\ signal[b].at = signal[a].at => a = b

\* A process works on a copy of a row that is still there, and reports what it did.
CopiesOK ==
  /\ \A a \in Agent : \A b \in batch[a] : \E r \in outbox : r.key = b.key /\ Alike(b.note, r.note)
  /\ \A a \in Agent : pc[a] = "settle" =>
       \A t \in Target :
         /\ report[a].reports[t] = "skipped" <=> skips(t, report[a].row.note)
         /\ report[a].reports[t] = "delivered" => <<report[a].row.key, t>> \in told

QueuedHere == \A k \in queued : \E r \in outbox : r.key = k

\* Under a steady reason somebody is paged once and for all.
OnePage == \A k, l \in queued : k.reason = l.reason /\ Steady(k.reason) => k = l

OutboxInv ==
  /\ TypeOK
  /\ \A r \in outbox : RowOK(r)
  /\ \A a \in Agent : pc[a] = "raise" => SignalOK(a)
  /\ CopiesOK /\ QueuedHere /\ OnePage
  /\ SentMeansTold

---------------------------------------------------------------------------
(* The inductive invariant of one agent *)

\* The newest open row of an incident is its worst.
NewestIsWorst ==
  \A r, q \in outbox :
    /\ r.key.reason = q.key.reason /\ r.state # "recovered" /\ q.state # "recovered"
    /\ r.at <= q.at
    => SEVERITY[r.verdict] <= SEVERITY[q.verdict]

\* What is raised was judged last.
InTurn == \A a \in Agent : pc[a] = "raise" => signal[a].at = ticks

TurnInv == OutboxInv /\ NewestIsWorst /\ InTurn

\* The last raised judgement has its incident.
BreachStays ==
  \A a \in Agent : previous[a] \notin {"NONE", "OK"} =>
    \E r \in outbox : r.state # "recovered" /\ r.verdict # "OK"

\* Nothing that was closed is leased, and a process has nothing leased while it raises.
LeasedOpen ==
  \A a \in Agent : \A b \in batch[a] : \A r \in outbox :
    r.key = b.key /\ r.state = "recovered" => r.key.to = "OK"

ClosedRowsRest ==
  \A r \in outbox : (r.state = "recovered" /\ r.key.to # "OK") =>
    /\ r.status # "pending"
    /\ \E q \in outbox : /\ q.key.reason = r.key.reason /\ q.key.to = "OK"
                         /\ q.at > r.at /\ q.key \in queued

OkStands == \A a \in Agent : previous[a] = "OK" =>
  \A r \in outbox : r.key.reason \in OkReason /\ r.state # "recovered" => r.verdict = "OK"

EconomicInv == TurnInv /\ PagedOnce /\ LeasedOpen /\ ClosedRowsRest /\ OkStands

---------------------------------------------------------------------------
(* The fold *)

LEMMA Severities ==
  /\ SEVERITY["NONE"] = -1 /\ SEVERITY["OK"] = 0 /\ SEVERITY["WARN"] = 1
  /\ SEVERITY["UNKNOWN"] = 2 /\ SEVERITY["CRITICAL"] = 3
  /\ \A v \in Verdict : SEVERITY[v] \in 0..3 /\ (SEVERITY[v] = 0 <=> v = "OK")
  /\ \A v, w \in Verdict : SEVERITY[v] = SEVERITY[w] => v = w
BY DEF SEVERITY, Verdict

LEMMA AlertOfRow ==
  ASSUME NEW r \in Row
  PROVE  /\ alertOf(r) \in Alert /\ alertOf(r) # None
         /\ alertOf(r).state = r.state /\ alertOf(r).verdict = r.verdict
         /\ alertOf(r).acked = r.acked /\ alertOf(r).recovered = r.recovered
<1>1. /\ alertOf(r) \in Alert
      /\ alertOf(r).state = r.state /\ alertOf(r).verdict = r.verdict
      /\ alertOf(r).acked = r.acked /\ alertOf(r).recovered = r.recovered
  BY DEF alertOf, Alert, Row
<1> QED BY <1>1, OutboxAssumption

\* What the fold makes of an alert: it recovers exactly when an OK meets something
\* worse, its verdict never improves otherwise, and a page is a recovery or a worsening.
LEMMA FoldFacts ==
  ASSUME NEW before \in Alert, NEW to \in Verdict
  PROVE  LET after == fold(before, to) IN
         /\ after \in Alert
         /\ isRecovery(before.verdict, to) <=> to = "OK" /\ before.verdict # "OK"
         /\ isRecovery(before.verdict, to) => /\ after.state = "recovered" /\ after.verdict = "OK"
                                              /\ before.state # "recovered" => shouldNotify(before, after)
         /\ ~ isRecovery(before.verdict, to) =>
              /\ SEVERITY[before.verdict] <= SEVERITY[after.verdict]
              /\ SEVERITY[to] <= SEVERITY[after.verdict]
              /\ after.verdict \in {before.verdict, to}
              /\ before.state # "recovered" => after.state # "recovered"
              /\ (before.state # "recovered" /\ shouldNotify(before, after)) =>
                   SEVERITY[before.verdict] < SEVERITY[to] /\ after.verdict = to
         /\ before.verdict = to => /\ after.verdict = to /\ ~ isRecovery(before.verdict, to)
                                   /\ ~ shouldNotify(before, after)
                                   /\ after.state = "recovered" <=> before.state = "recovered"
         /\ to = "OK" => after.verdict = "OK"
<1> DEFINE after == fold(before, to)
           worse == isEscalation(before.verdict, to)
<1>1. before # None /\ before.verdict \in Verdict /\ before.state \in States
  BY OutboxAssumption DEF Alert
<1>2. isRecovery(before.verdict, to) <=> to = "OK" /\ before.verdict # "OK"
  BY <1>1, Severities DEF isRecovery, Verdict
<1>3. CASE isRecovery(before.verdict, to)
  <2>1. after = [before EXCEPT !.state = "recovered", !.verdict = "OK", !.recovered = TRUE]
    BY <1>1, <1>3 DEF fold, recover
  <2>2. after \in Alert /\ after.state = "recovered" /\ after.verdict = "OK"
    BY <2>1 DEF Alert, States, Verdict
  <2> HIDE DEF after
  <2> QED BY <1>1, <1>2, <1>3, <2>2 DEF shouldNotify, after
<1>4. CASE ~ isRecovery(before.verdict, to)
  <2> DEFINE state == IF worse THEN "escalated"
                      ELSE IF before.state = "first_seen" THEN "repeated" ELSE before.state
             verdict == IF worse THEN to ELSE before.verdict
  <2>1. after = [before EXCEPT !.state = state, !.verdict = verdict]
    BY <1>1, <1>4 DEF fold, observe
  <2>2. state \in States /\ verdict \in Verdict
    BY <1>1 DEF States
  <2>3. after \in Alert /\ after.state = state /\ after.verdict = verdict
    <3> HIDE DEF state, verdict
    <3> QED BY <2>1, <2>2 DEF Alert
  <2> HIDE DEF after
  <2>4. worse <=> SEVERITY[to] > SEVERITY[before.verdict]
    BY DEF isEscalation
  <2>5. SEVERITY[to] \in Int /\ SEVERITY[before.verdict] \in Int
    BY <1>1, Severities
  <2>6. shouldNotify(before, after) <=>
          \/ after.state = "recovered" /\ before.state # "recovered"
          \/ after.state = "escalated" /\ before.state # "escalated"
    BY <1>1 DEF shouldNotify
  <2>7. CASE worse
    BY <1>1, <1>2, <1>4, <2>3, <2>4, <2>5, <2>6, <2>7 DEF after
  <2>8. CASE ~ worse
    BY <1>1, <1>2, <1>4, <2>3, <2>4, <2>5, <2>6, <2>8 DEF after
  <2> QED BY <2>7, <2>8
<1> QED BY <1>3, <1>4

LEMMA OpenFacts ==
  ASSUME NEW to \in Verdict
  PROVE  /\ fold(None, to) \in Alert /\ fold(None, to).verdict = to
         /\ fold(None, to).state = "first_seen" /\ shouldNotify(None, fold(None, to))
BY DEF fold, open, Alert, States, shouldNotify

---------------------------------------------------------------------------
(* What a step makes of a row *)

\* The row of a key that nobody's hands were on.
SameRow(r, q) ==
  /\ q.key = r.key /\ q.verdict = r.verdict /\ q.at = r.at /\ q.note = r.note /\ q.attempts \in Nat

LEMMA LeasedRow ==
  ASSUME NEW r \in Row
  PROVE  /\ leased(r) \in Row /\ SameRow(r, leased(r))
         /\ leased(r).state = r.state /\ leased(r).status = r.status
         /\ leased(r).attempts = r.attempts + 1
<1>1. r.attempts + 1 \in Nat
  BY DEF Row
<1> QED BY <1>1 DEF leased, Row, SameRow

LEMMA DueRow ==
  ASSUME NEW r \in Row
  PROVE  LET q == [r EXCEPT !.due = TRUE] IN
         q \in Row /\ SameRow(r, q) /\ q.state = r.state /\ q.status = r.status
BY DEF Row, SameRow

LEMMA AcknowledgedRow ==
  ASSUME NEW r \in Row
  PROVE  LET q == [r EXCEPT !.state = "acknowledged", !.acked = TRUE] IN
         q \in Row /\ SameRow(r, q) /\ q.state = "acknowledged" /\ q.status = r.status
BY DEF Row, SameRow, States

LEMMA ClosedRow ==
  ASSUME NEW r \in Row, NEW status \in OutboxStatus
  PROVE  LET q == [r EXCEPT !.state = "recovered", !.recovered = TRUE, !.status = status] IN
         q \in Row /\ SameRow(r, q) /\ q.state = "recovered" /\ q.status = status
BY DEF Row, SameRow, States

\* What closing an incident makes of a row.
ClosedTo(r, q, reason) ==
  /\ SameRow(r, q)
  /\ IF r.key.reason = reason /\ r.state # "recovered"
     THEN q.state = "recovered" /\ q.status = IF r.status = "pending" THEN "cancelled" ELSE r.status
     ELSE q.state = r.state /\ q.status = r.status

CloseRow(r, reason) ==
  IF r.key.reason = reason /\ r.state # "recovered"
  THEN [r EXCEPT !.state = "recovered", !.recovered = TRUE,
                 !.status = IF r.status = "pending" THEN "cancelled" ELSE r.status]
  ELSE r

LEMMA ClosedRows ==
  ASSUME NEW reason
  PROVE  /\ \A rows : closed(rows, reason) = {CloseRow(r, reason) : r \in rows}
         /\ \A r \in Row : CloseRow(r, reason) \in Row /\ ClosedTo(r, CloseRow(r, reason), reason)
<1>1. \A rows : closed(rows, reason) = {CloseRow(r, reason) : r \in rows}
  BY DEF closed, CloseRow
<1>2. ASSUME NEW r \in Row
      PROVE  CloseRow(r, reason) \in Row /\ ClosedTo(r, CloseRow(r, reason), reason)
  <2> DEFINE status == IF r.status = "pending" THEN "cancelled" ELSE r.status
  <2>1. status \in OutboxStatus
    BY DEF Row, OutboxStatus
  <2> HIDE DEF status
  <2>2. CASE r.key.reason = reason /\ r.state # "recovered"
    <3> DEFINE q == [r EXCEPT !.state = "recovered", !.recovered = TRUE, !.status = status]
    <3>1. CloseRow(r, reason) = q
      BY <2>2 DEF CloseRow, status
    <3>2. q \in Row /\ SameRow(r, q) /\ q.state = "recovered" /\ q.status = status
      BY <2>1, ClosedRow
    <3> HIDE DEF q
    <3> QED BY <2>2, <3>1, <3>2 DEF ClosedTo, status
  <2>3. CASE ~ (r.key.reason = reason /\ r.state # "recovered")
    <3>1. CloseRow(r, reason) = r
      BY <2>3 DEF CloseRow
    <3>2. SameRow(r, r)
      BY DEF SameRow, Row
    <3> QED BY <2>3, <3>1, <3>2 DEF ClosedTo
  <2> QED BY <2>2, <2>3
<1> QED BY <1>1, <1>2

---------------------------------------------------------------------------
(* Types *)

LEMMA RaiseStart ==
  ASSUME TypeOK, NEW a \in Agent, pc[a] = "raise"
  PROVE  /\ signal[a] \in Signal /\ signal[a].verdict \in Verdict /\ batch[a] = {}
         /\ keyOf(a) \in Key /\ keyOf(a).reason = signal[a].reason /\ keyOf(a).to = signal[a].verdict
         /\ keyOf(a).from = previous[a] /\ keyOf(a).digest = signal[a].digest
<1>1. signal[a] \in Signal /\ batch[a] = {} /\ previous[a] \in Verdict \cup {"NONE"}
  BY DEF TypeOK
<1> QED BY <1>1 DEF keyOf, Key, Signal

\* The row that is written says what the fold decided.
NewRow(a, new, after, status) ==
  /\ new \in Row /\ new.key = keyOf(a) /\ new.at = signal[a].at
  /\ new.state = after.state /\ new.verdict = after.verdict /\ new.status = status
  /\ new.note.state = after.state /\ new.note.severity = after.verdict

LEMMA RowForFacts ==
  ASSUME TypeOK, NEW a \in Agent, pc[a] = "raise",
         NEW existing, existing = None \/ existing \in Row, NEW after \in Alert, NEW notify \in BOOLEAN
  PROVE  NewRow(a, rowFor(a, existing, after, notify), after,
                IF notify THEN "pending" ELSE IF existing = None THEN "sent" ELSE existing.status)
<1> DEFINE status == IF notify THEN "pending" ELSE IF existing = None THEN "sent" ELSE existing.status
           attempts == IF existing = None THEN 0 ELSE existing.attempts
<1>1. status \in OutboxStatus /\ attempts \in Nat
  BY DEF OutboxStatus, Row
<1>2. keyOf(a) \in Key /\ signal[a].at \in 1..MaxTicks
  BY RaiseStart DEF Signal
<1>3. rowFor(a, existing, after, notify) =
        [key |-> keyOf(a), status |-> status, attempts |-> attempts, state |-> after.state,
         verdict |-> after.verdict, acked |-> after.acked, recovered |-> after.recovered,
         at |-> signal[a].at, due |-> TRUE,
         note |-> [state |-> after.state, severity |-> after.verdict]]
  BY DEF rowFor
<1> HIDE DEF status, attempts
<1>4. NewRow(a, rowFor(a, existing, after, notify), after, status)
  BY <1>1, <1>2, <1>3 DEF NewRow, Row, Alert, Note
<1> QED BY <1>4 DEF status

\* What a write does to the rows: the others stand or are closed, and one is new.
LEMMA WriteFacts ==
  ASSUME TypeOK, NEW a \in Agent, pc[a] = "raise",
         NEW existing, existing = None \/ existing \in Row, NEW before,
         before = None \/ before \in Alert, Write(a, existing, before)
  PROVE  LET after == fold(before, signal[a].verdict)
             notify == shouldNotify(before, after)
             kept == {r \in outbox : r.key # keyOf(a)}
         IN  \E new :
               /\ NewRow(a, new, after, IF notify THEN "pending"
                                        ELSE IF existing = None THEN "sent" ELSE existing.status)
               /\ outbox' = {new} \cup (IF Closes(a, before)
                              THEN {CloseRow(r, signal[a].reason) : r \in kept} ELSE kept)
               /\ queued' = IF notify THEN queued \cup {keyOf(a)} ELSE queued
<1> DEFINE after == fold(before, signal[a].verdict)
           notify == shouldNotify(before, after)
           kept == {r \in outbox : r.key # keyOf(a)}
           new == rowFor(a, existing, after, notify)
           reason == signal[a].reason
           status == IF notify THEN "pending" ELSE IF existing = None THEN "sent" ELSE existing.status
<1>1. outbox \subseteq Row /\ signal[a].verdict \in Verdict
  BY RaiseStart DEF TypeOK
<1>2. after \in Alert /\ notify \in BOOLEAN
  <2>1. after \in Alert
    BY <1>1, OpenFacts, FoldFacts
  <2> QED BY <2>1 DEF shouldNotify
<1>3. NewRow(a, new, after, status)
  <2> HIDE DEF after, notify
  <2> QED BY <1>2, RowForFacts
<1>4. /\ outbox' = others(IF Closes(a, before) THEN closed(outbox, reason) ELSE outbox, keyOf(a)) \cup {new}
      /\ queued' = IF notify THEN queued \cup {keyOf(a)} ELSE queued
  BY DEF Write, Written
<1>5. others(outbox, keyOf(a)) = kept
  BY DEF others
<1>6. others(closed(outbox, reason), keyOf(a)) = {CloseRow(r, reason) : r \in kept}
  <2>1. closed(outbox, reason) = {CloseRow(r, reason) : r \in outbox}
    BY ClosedRows
  <2>2. \A r \in outbox : CloseRow(r, reason).key = r.key
    BY <1>1, ClosedRows DEF ClosedTo, SameRow
  <2> QED BY <2>1, <2>2 DEF others
<1> HIDE DEF new, kept, after, notify, status
<1>7. outbox' = {new} \cup (IF Closes(a, before) THEN {CloseRow(r, reason) : r \in kept} ELSE kept)
  BY <1>4, <1>5, <1>6
<1> QED BY <1>3, <1>4, <1>7 DEF after, notify, kept, status

---------------------------------------------------------------------------
(* The rows of a step *)

Keyed(rows) == rows \subseteq Row /\ \A r, q \in rows : r.key = q.key => r = q

\* A row that stands through a step, whatever its attempts, its due flag and its status.
Stands(r, q) ==
  /\ SameRow(r, q) /\ q.state \in {r.state, "acknowledged"}
  /\ q.state = "recovered" <=> r.state = "recovered"

RowsStand ==
  /\ Keyed(outbox')
  /\ \A q \in outbox' : \E r \in outbox : Stands(r, q)
  /\ \A r \in outbox : \E q \in outbox' : Stands(r, q)

StatusStands == \A q \in outbox' : \E r \in outbox : Stands(r, q) /\ q.status = r.status

LEMMA StandsItself ==
  ASSUME NEW r \in Row
  PROVE  Stands(r, r)
BY DEF Stands, SameRow, Row

LEMMA UntouchedRows ==
  ASSUME TypeOK, UNCHANGED outbox
  PROVE  RowsStand /\ StatusStands
BY StandsItself DEF TypeOK, Keyed, RowsStand, StatusStands

\* An update of rows in place.
LEMMA MappedRows ==
  ASSUME TypeOK, NEW g, outbox' = {g[r] : r \in outbox},
         \A r \in outbox : g[r] \in Row /\ Stands(r, g[r])
  PROVE  /\ RowsStand
         /\ (\A r \in outbox : g[r].status = r.status) => StatusStands
<1>1. Keyed(outbox')
  <2>1. \A r \in outbox : g[r] \in Row /\ g[r].key = r.key
    BY DEF Stands, SameRow
  <2> QED BY <2>1 DEF Keyed, TypeOK
<1> QED BY <1>1 DEF RowsStand, StatusStands

LEMMA AcknowledgeRows ==
  ASSUME TypeOK, NEW reason, Acknowledge(reason)
  PROVE  RowsStand /\ StatusStands
<1> DEFINE Ack(r) == IF r \in Open(reason)
                     THEN [r EXCEPT !.state = "acknowledged", !.acked = TRUE] ELSE r
           g == [r \in outbox |-> Ack(r)]
<1>1. outbox' = {Ack(r) : r \in outbox}
  BY DEF Acknowledge
<1>2. ASSUME NEW r \in outbox
      PROVE  Ack(r) \in Row /\ Stands(r, Ack(r)) /\ Ack(r).status = r.status
  <2>1. r \in Row
    BY DEF TypeOK
  <2>2. CASE r \in Open(reason)
    <3>1. r.state # "recovered"
      BY <2>2 DEF Open
    <3> DEFINE q == [r EXCEPT !.state = "acknowledged", !.acked = TRUE]
    <3>2. q \in Row /\ SameRow(r, q) /\ q.state = "acknowledged" /\ q.status = r.status
      BY <2>1, AcknowledgedRow
    <3>3. Ack(r) = q
      BY <2>2
    <3> HIDE DEF q, Ack
    <3> QED BY <3>1, <3>2, <3>3 DEF Stands
  <2>3. CASE r \notin Open(reason)
    BY <2>1, <2>3, StandsItself
  <2> QED BY <2>2, <2>3
<1> HIDE DEF Ack
<1>3. outbox' = {g[r] : r \in outbox} /\ \A r \in outbox : g[r] = Ack(r)
  BY <1>1
<1> HIDE DEF g
<1> QED BY <1>2, <1>3, MappedRows

LEMMA DueRows ==
  ASSUME TypeOK, NEW row \in outbox, BecomeDue(row)
  PROVE  RowsStand /\ StatusStands
<1> DEFINE due == [row EXCEPT !.due = TRUE]
           g == [r \in outbox |-> IF r = row THEN due ELSE r]
<1>1. outbox' = (outbox \ {row}) \cup {due} /\ row \in Row /\ \A r \in outbox : r \in Row
  BY DEF BecomeDue, TypeOK
<1>2. due \in Row /\ SameRow(row, due) /\ due.state = row.state /\ due.status = row.status
  BY <1>1, DueRow
<1> HIDE DEF due
<1>3. outbox' = {g[r] : r \in outbox}
  BY <1>1
<1>4. \A r \in outbox : g[r] \in Row /\ Stands(r, g[r]) /\ g[r].status = r.status
  BY <1>1, <1>2, StandsItself DEF Stands
<1> HIDE DEF g
<1> QED BY <1>3, <1>4, MappedRows

LEMMA LeaseRows ==
  ASSUME TypeOK, NEW take \in SUBSET outbox,
         outbox' = (outbox \ take) \cup {leased(r) : r \in take}
  PROVE  RowsStand /\ StatusStands
<1> DEFINE g == [r \in outbox |-> IF r \in take THEN leased(r) ELSE r]
<1>1. outbox' = {g[r] : r \in outbox} /\ \A r \in outbox : r \in Row
  BY DEF TypeOK
<1>2. \A r \in outbox : g[r] \in Row /\ Stands(r, g[r]) /\ g[r].status = r.status
  BY <1>1, LeasedRow, StandsItself DEF Stands
<1> HIDE DEF g
<1> QED BY <1>1, <1>2, MappedRows

\* What settling a copy of a row makes of it.
SettledTo(r, copy, reports) ==
  IF r.key = copy.key
  THEN [r EXCEPT !.status = settled(copy.attempts, reports), !.attempts = copy.attempts, !.due = FALSE]
  ELSE r

LEMMA SettleStatus ==
  \A attempts, reports : settled(attempts, reports) \in OutboxStatus
BY DEF settled, OutboxStatus

LEMMA SettledFacts ==
  ASSUME NEW r \in Row, NEW copy \in Leased, NEW reports
  PROVE  LET q == SettledTo(r, copy, reports) IN
         /\ q \in Row /\ Stands(r, q)
         /\ q.status = IF r.key = copy.key THEN settled(copy.attempts, reports) ELSE r.status
<1>1. PICK status : status = settled(copy.attempts, reports)
  OBVIOUS
<1>2. status \in OutboxStatus /\ copy.attempts \in Nat
  BY <1>1, SettleStatus DEF Leased
<1> DEFINE q == [r EXCEPT !.status = status, !.attempts = copy.attempts, !.due = FALSE]
<1>3. q \in Row /\ SameRow(r, q) /\ q.state = r.state /\ q.status = status
  BY <1>2 DEF Row, SameRow
<1>4. r.key = copy.key => SettledTo(r, copy, reports) = q
  BY <1>1 DEF SettledTo
<1>5. r.key # copy.key => SettledTo(r, copy, reports) = r
  BY DEF SettledTo
<1> HIDE DEF q
<1> QED BY <1>1, <1>3, <1>4, <1>5, StandsItself DEF Stands

LEMMA SettleRows ==
  ASSUME TypeOK, NEW copy \in Leased, NEW reports,
         outbox' = {SettledTo(r, copy, reports) : r \in outbox}
  PROVE  /\ RowsStand
         /\ \A q \in outbox' : \E r \in outbox : Stands(r, q) /\
              q.status = IF r.key = copy.key THEN settled(copy.attempts, reports) ELSE r.status
<1> DEFINE g == [r \in outbox |-> SettledTo(r, copy, reports)]
<1>1. \A r \in outbox :
        /\ g[r] \in Row /\ Stands(r, g[r])
        /\ g[r].status = IF r.key = copy.key THEN settled(copy.attempts, reports) ELSE r.status
  BY SettledFacts DEF TypeOK
<1>2. outbox' = {g[r] : r \in outbox}
  OBVIOUS
<1> HIDE DEF g
<1>3. RowsStand
  BY <1>1, <1>2, MappedRows
<1> QED BY <1>1, <1>2, <1>3

\* What a write makes of the row of another key.
Follows(a, closes, r, q) ==
  /\ r.key # keyOf(a) /\ SameRow(r, q)
  /\ IF closes THEN ClosedTo(r, q, signal[a].reason) ELSE q = r

RowsWritten(a, new, closes) ==
  /\ Keyed(outbox') /\ new \in outbox'
  /\ \A q \in outbox' : q = new \/ \E r \in outbox : Follows(a, closes, r, q)
  /\ \A r \in outbox : r.key # keyOf(a) => \E q \in outbox' : Follows(a, closes, r, q)

StatusWritten(existing, notify) ==
  IF notify THEN "pending" ELSE IF existing = None THEN "sent" ELSE existing.status

LEMMA WrittenRows ==
  ASSUME TypeOK, NEW a \in Agent, pc[a] = "raise",
         NEW existing, existing = None \/ existing \in Row, NEW before,
         before = None \/ before \in Alert, Write(a, existing, before)
  PROVE  \E new, after, notify :
           /\ after = fold(before, signal[a].verdict) /\ notify = shouldNotify(before, after)
           /\ NewRow(a, new, after, StatusWritten(existing, notify))
           /\ RowsWritten(a, new, Closes(a, before))
           /\ queued' = IF notify THEN queued \cup {keyOf(a)} ELSE queued
<1>1. PICK after : after = fold(before, signal[a].verdict)
  OBVIOUS
<1>2. PICK notify : notify = shouldNotify(before, after)
  OBVIOUS
<1>3. PICK kept : kept = {r \in outbox : r.key # keyOf(a)}
  OBVIOUS
<1>4. PICK closes : closes = Closes(a, before)
  OBVIOUS
<1>5. PICK reason : reason = signal[a].reason
  OBVIOUS
<1>6. PICK new : /\ NewRow(a, new, after, StatusWritten(existing, notify))
                 /\ outbox' = {new} \cup (IF closes THEN {CloseRow(r, reason) : r \in kept} ELSE kept)
                 /\ queued' = IF notify THEN queued \cup {keyOf(a)} ELSE queued
  BY WriteFacts, <1>1, <1>2, <1>3, <1>4, <1>5 DEF StatusWritten
<1>7. outbox \subseteq Row /\ kept \subseteq outbox /\ \A r \in kept : r \in Row /\ r.key # keyOf(a)
  BY <1>3 DEF TypeOK
<1>8. new \in Row /\ new.key = keyOf(a) /\ new \in outbox'
  BY <1>6 DEF NewRow
<1>9. CASE closes
  <2>1. \A r \in kept : CloseRow(r, reason) \in Row /\ ClosedTo(r, CloseRow(r, reason), reason)
                        /\ SameRow(r, CloseRow(r, reason)) /\ CloseRow(r, reason).key = r.key
    BY <1>7, ClosedRows DEF ClosedTo, SameRow
  <2>2. outbox' = {new} \cup {CloseRow(r, reason) : r \in kept}
    BY <1>6, <1>9
  <2>3. Keyed(outbox')
    BY <1>3, <1>7, <1>8, <2>1, <2>2 DEF Keyed, TypeOK
  <2>4. \A r \in kept : Follows(a, closes, r, CloseRow(r, reason))
    BY <1>5, <1>7, <1>9, <2>1 DEF Follows
  <2>5. RowsWritten(a, new, closes)
    BY <1>3, <1>7, <1>8, <2>2, <2>3, <2>4 DEF RowsWritten
  <2> QED BY <1>1, <1>2, <1>4, <1>6, <2>5
<1>10. CASE ~ closes
  <2>1. outbox' = {new} \cup kept
    BY <1>6, <1>10
  <2>2. Keyed(outbox')
    BY <1>3, <1>7, <1>8, <2>1 DEF Keyed, TypeOK
  <2>3. \A r \in kept : Follows(a, closes, r, r)
    BY <1>7, <1>10, StandsItself DEF Follows, Stands
  <2>4. RowsWritten(a, new, closes)
    BY <1>3, <1>7, <1>8, <2>1, <2>2, <2>3 DEF RowsWritten
  <2> QED BY <1>1, <1>2, <1>4, <1>6, <2>4
<1> QED BY <1>9, <1>10

---------------------------------------------------------------------------
(* Types *)

\* What is typed besides the rows.
LocalsTyped ==
  /\ \A d \in deliveries : d.key \in Key /\ d.target \in Target /\ d.attempt \in Nat
  /\ evaluated \in Verdict \cup {None}
  /\ ticks \in 0..MaxTicks /\ aborts \in 0..MaxAborts /\ crashes \in 0..MaxCrashes
  /\ pc \in [Agent -> {"idle", "raise", "drain", "deliver", "settle"}]
  /\ previous \in [Agent -> Verdict \cup {"NONE"}]
  /\ signal \in [Agent -> Signal \cup {None}]
  /\ batch \in [Agent -> SUBSET Leased]
  /\ report \in [Agent -> Report \cup {None}]
  /\ \A a \in Agent : /\ pc[a] = "raise" => signal[a] \in Signal
                      /\ pc[a] = "settle" => report[a] \in Report /\ report[a].row \in batch[a]
                      /\ pc[a] \in {"deliver", "settle"} <=> batch[a] # {}
  /\ queued \subseteq Key /\ told \subseteq Key \X Target

LEMMA Typed == TypeOK <=> Keyed(outbox) /\ LocalsTyped
BY DEF TypeOK, Keyed, LocalsTyped

LEMMA TypedNext ==
  ASSUME Keyed(outbox'), LocalsTyped'
  PROVE  TypeOK'
BY DEF TypeOK, Keyed, LocalsTyped

LEMMA InitTyped == Init => TypeOK
<1> SUFFICES ASSUME Init PROVE TypeOK
  OBVIOUS
<1>1. LocalsTyped
  BY OutboxAssumption DEF Init, LocalsTyped
<1> QED BY <1>1, Typed DEF Init, Keyed

LEMMA JudgeTyped ==
  ASSUME TypeOK, NEW a \in Agent, Judge(a)
  PROVE  TypeOK'
<1>1. PICK o \in Observation :
        signal' = [signal EXCEPT ![a] =
          [verdict |-> o.verdict, reason |-> o.reason, at |-> ticks + 1,
           digest |-> IF o.digest = None THEN ticks + 1 ELSE o.digest]]
        /\ evaluated' = o.verdict
  BY DEF Judge
<1>2. PICK s : s = [verdict |-> o.verdict, reason |-> o.reason, at |-> ticks + 1,
                    digest |-> IF o.digest = None THEN ticks + 1 ELSE o.digest]
  OBVIOUS
<1>3. ticks + 1 \in 1..MaxTicks /\ o.verdict \in Verdict /\ o.reason \in Reason
      /\ o.digest \in Digest /\ ticks + 1 \in Digest
  BY OutboxAssumption DEF TypeOK, Judge, Reason, Digest
<1>4. s \in Signal
  <2>1. (IF o.digest = None THEN ticks + 1 ELSE o.digest) \in Digest
    BY <1>3
  <2> QED BY <1>2, <1>3, <2>1 DEF Signal
<1>5. LocalsTyped'
  <2>1. signal' = [signal EXCEPT ![a] = s] /\ ticks' = ticks + 1 /\ evaluated' = o.verdict
    BY <1>1, <1>2 DEF Judge
  <2> QED BY <1>3, <1>4, <2>1, OutboxAssumption DEF TypeOK, LocalsTyped, Judge, bounds, history
<1> QED BY <1>5, TypedNext DEF TypeOK, Keyed, Judge

LEMMA NotDueTyped ==
  ASSUME TypeOK, NEW a \in Agent, NotDue(a)
  PROVE  TypeOK'
<1>1. LocalsTyped'
  BY DEF TypeOK, LocalsTyped, NotDue, tables, bounds, history
<1> QED BY <1>1, TypedNext DEF TypeOK, Keyed, NotDue, tables

\* Whatever is written, the judgement is behind the process.
LEMMA RaisedTyped ==
  ASSUME TypeOK, NEW a \in Agent, pc[a] = "raise", Raised(a), queued' \subseteq Key
  PROVE  LocalsTyped'
<1>1. signal[a].verdict \in Verdict
  BY RaiseStart
<1> QED BY <1>1 DEF TypeOK, LocalsTyped, Raised, bounds

LEMMA WriteTyped ==
  ASSUME TypeOK, NEW a \in Agent, pc[a] = "raise",
         NEW existing, existing = None \/ existing \in Row, NEW before,
         before = None \/ before \in Alert, Write(a, existing, before)
  PROVE  Keyed(outbox') /\ queued' \subseteq Key
<1>1. PICK new, after, notify :
         /\ RowsWritten(a, new, Closes(a, before))
         /\ queued' = IF notify THEN queued \cup {keyOf(a)} ELSE queued
  BY WrittenRows
<1> QED BY <1>1, RaiseStart DEF RowsWritten, TypeOK

LEMMA RaiseTyped ==
  ASSUME TypeOK, NEW a \in Agent, RaiseAlert(a)
  PROVE  TypeOK'
<1>1. pc[a] = "raise" /\ Raised(a)
  BY DEF RaiseAlert, RaiseAgain, RaiseInIncident, RaiseFirst, RaiseNothing
<1>2. Keyed(outbox') /\ queued' \subseteq Key
  <2>1. CASE RaiseAgain(a)
    <3>1. PICK row \in outbox : Write(a, row, alertOf(row))
      BY <2>1 DEF RaiseAgain
    <3>2. row \in Row /\ alertOf(row) \in Alert
      BY AlertOfRow DEF TypeOK
    <3> QED BY <1>1, <3>1, <3>2, WriteTyped
  <2>2. CASE RaiseInIncident(a)
    <3>1. PICK newest \in Newest(Open(signal[a].reason)) : Write(a, None, alertOf(newest))
      BY <2>2 DEF RaiseInIncident
    <3>2. newest \in Row /\ alertOf(newest) \in Alert
      BY AlertOfRow DEF TypeOK, Newest, Open
    <3> QED BY <1>1, <3>1, <3>2, WriteTyped
  <2>3. CASE RaiseFirst(a)
    BY <1>1, <2>3, WriteTyped DEF RaiseFirst
  <2>4. CASE RaiseNothing(a)
    BY <2>4 DEF RaiseNothing, TypeOK, Keyed
  <2> QED BY <2>1, <2>2, <2>3, <2>4 DEF RaiseAlert
<1> QED BY <1>1, <1>2, RaisedTyped, TypedNext

LEMMA LeaseTyped ==
  ASSUME TypeOK, NEW a \in Agent, Lease(a)
  PROVE  /\ TypeOK' /\ RowsStand /\ StatusStands
         /\ \E take \in SUBSET outbox :
              batch' = [batch EXCEPT ![a] = {[key |-> r.key, attempts |-> leased(r).attempts,
                                              note |-> r.note] : r \in take}]
<1> DEFINE Copy(r) == [key |-> r.key, attempts |-> leased(r).attempts, note |-> r.note]
<1>1. PICK take \in SUBSET outbox :
        /\ outbox' = (outbox \ take) \cup {leased(r) : r \in take}
        /\ batch' = [batch EXCEPT ![a] = {Copy(r) : r \in take}]
        /\ pc' = [pc EXCEPT ![a] = IF take = {} THEN "idle" ELSE "deliver"]
  BY DEF Lease
<1>2. RowsStand /\ StatusStands
  BY <1>1, LeaseRows
<1>3. \A r \in take : Copy(r) \in Leased
  <2> TAKE r \in take
  <2>1. r \in Row
    BY DEF TypeOK
  <2>2. leased(r).attempts \in Nat
    BY <2>1, LeasedRow DEF Row
  <2> QED BY <2>1, <2>2 DEF Leased, Row
<1>4. PICK copies : copies = {Copy(r) : r \in take}
  OBVIOUS
<1>5. copies \in SUBSET Leased /\ (copies = {} <=> take = {}) /\ batch' = [batch EXCEPT ![a] = copies]
  BY <1>1, <1>3, <1>4
<1>6. LocalsTyped'
  BY <1>1, <1>5 DEF TypeOK, LocalsTyped, Lease, bounds, history
<1> QED BY <1>1, <1>2, <1>6, TypedNext DEF RowsStand

LEMMA DispatchTyped ==
  ASSUME TypeOK, NEW a \in Agent, Dispatch(a)
  PROVE  TypeOK'
<1>1. PICK row \in batch[a], reports \in [Target -> {"skipped", "delivered", "failed"}] :
        /\ report' = [report EXCEPT ![a] = [row |-> row, reports |-> reports]]
        /\ told' = told \cup {<<row.key, t>> : t \in {u \in Target : reports[u] = "delivered"}}
  BY DEF Dispatch
<1>2. row \in Leased
  BY DEF TypeOK
<1>3. PICK done : done = [row |-> row, reports |-> reports]
  OBVIOUS
<1>4. done \in Report /\ done.row = row
  BY <1>2, <1>3 DEF Report
<1>5. report' = [report EXCEPT ![a] = done]
  BY <1>1, <1>3
<1>6. told' \subseteq Key \X Target
  BY <1>1, <1>2 DEF TypeOK, Leased
<1>7. LocalsTyped'
  BY <1>4, <1>5, <1>6 DEF TypeOK, LocalsTyped, Dispatch, tables, bounds
<1> QED BY <1>7, TypedNext DEF TypeOK, Keyed, Dispatch, tables

LEMMA SettleTyped ==
  ASSUME TypeOK, NEW a \in Agent, Settle(a)
  PROVE  /\ TypeOK' /\ RowsStand
         /\ report[a].row \in batch[a] /\ report[a].row \in Leased
         /\ \A q \in outbox' : \E r \in outbox : Stands(r, q) /\
              q.status = IF r.key = report[a].row.key
                         THEN settled(report[a].row.attempts, report[a].reports) ELSE r.status
<1>1. pc[a] = "settle" /\ report[a] \in Report /\ report[a].row \in batch[a]
  BY DEF TypeOK, Settle
<1>2. PICK row \in Leased : row = report[a].row
  BY <1>1 DEF Report
<1>3. PICK reports \in [Target -> {"skipped", "delivered", "failed"}] : reports = report[a].reports
  BY <1>1 DEF Report
<1>4. /\ outbox' = {SettledTo(r, row, reports) : r \in outbox}
      /\ deliveries' = deliveries \cup {d \in recorded(row, reports) :
            \A e \in deliveries : <<e.key, e.target, e.attempt>> # <<d.key, d.target, d.attempt>>}
      /\ batch' = [batch EXCEPT ![a] = batch[a] \ {row}]
      /\ pc' = [pc EXCEPT ![a] = IF batch[a] = {row} THEN "idle" ELSE "deliver"]
  BY <1>2, <1>3 DEF Settle, SettledTo
<1>5. RowsStand /\ \A q \in outbox' : \E r \in outbox : Stands(r, q) /\
         q.status = IF r.key = row.key THEN settled(row.attempts, reports) ELSE r.status
  BY <1>4, SettleRows
<1>6. \A d \in recorded(row, reports) : d.key \in Key /\ d.target \in Target /\ d.attempt \in Nat
  BY DEF recorded, Leased
<1>7. PICK left : left = batch[a] \ {row}
  OBVIOUS
<1>8. left \in SUBSET Leased /\ (left = {} <=> batch[a] = {row}) /\ batch' = [batch EXCEPT ![a] = left]
  BY <1>1, <1>2, <1>4, <1>7 DEF TypeOK
<1>9. /\ \A d \in deliveries' : d.key \in Key /\ d.target \in Target /\ d.attempt \in Nat
      /\ report' = [report EXCEPT ![a] = None]
  BY <1>4, <1>6 DEF TypeOK, Settle
<1>10. pc' = [pc EXCEPT ![a] = IF left = {} THEN "idle" ELSE "deliver"]
  BY <1>4, <1>8
<1>11. UNCHANGED <<evaluated, ticks, aborts, crashes, previous, signal, queued, told>>
  BY DEF Settle, bounds, history
<1>12. /\ pc' \in [Agent -> {"idle", "raise", "drain", "deliver", "settle"}]
       /\ batch' \in [Agent -> SUBSET Leased] /\ report' \in [Agent -> Report \cup {None}]
  BY <1>8, <1>9, <1>10 DEF TypeOK
<1>13. ASSUME NEW b \in Agent
       PROVE  /\ pc'[b] = "raise" => signal'[b] \in Signal
              /\ pc'[b] = "settle" => report'[b] \in Report /\ report'[b].row \in batch'[b]
              /\ pc'[b] \in {"deliver", "settle"} <=> batch'[b] # {}
  <2>1. CASE b = a
    <3>1. batch'[b] = left /\ pc'[b] = (IF left = {} THEN "idle" ELSE "deliver")
      BY <1>8, <1>10, <2>1 DEF TypeOK
    <3> QED BY <3>1
  <2>2. CASE b # a
    <3>1. batch'[b] = batch[b] /\ pc'[b] = pc[b] /\ report'[b] = report[b]
      BY <1>8, <1>9, <1>10, <2>2 DEF TypeOK
    <3> QED BY <1>11, <3>1 DEF TypeOK
  <2> QED BY <2>1, <2>2
<1>14. LocalsTyped'
  BY <1>9, <1>11, <1>12, <1>13 DEF TypeOK, LocalsTyped
<1> QED BY <1>1, <1>2, <1>3, <1>5, <1>14, TypedNext DEF RowsStand

LEMMA AbortTyped ==
  ASSUME TypeOK, NEW a \in Agent, Abort(a)
  PROVE  TypeOK'
<1>1. LocalsTyped'
  BY OutboxAssumption DEF TypeOK, LocalsTyped, Abort, tables, history
<1> QED BY <1>1, TypedNext DEF TypeOK, Keyed, Abort, tables

LEMMA CrashTyped ==
  ASSUME TypeOK, NEW a \in Agent, Crash(a)
  PROVE  TypeOK'
<1>1. LocalsTyped'
  BY OutboxAssumption DEF TypeOK, LocalsTyped, Crash, tables, history
<1> QED BY <1>1, TypedNext DEF TypeOK, Keyed, Crash, tables

LEMMA EnvironmentTyped ==
  ASSUME TypeOK, UNCHANGED <<deliveries, evaluated, bounds, locals, history>>, RowsStand
  PROVE  TypeOK'
<1>1. LocalsTyped'
  BY DEF TypeOK, LocalsTyped, bounds, locals, history
<1> QED BY <1>1, TypedNext DEF RowsStand

LEMMA StepTyped == TypeOK /\ [Next]_vars => TypeOK'
<1> SUFFICES ASSUME TypeOK, [Next]_vars PROVE TypeOK'
  OBVIOUS
<1>1. CASE \E a \in Agent : Judge(a) \/ NotDue(a) \/ Step(a) \/ Abort(a) \/ Crash(a)
  BY <1>1, JudgeTyped, NotDueTyped, RaiseTyped, LeaseTyped, DispatchTyped, SettleTyped, AbortTyped,
     CrashTyped DEF Step
<1>2. CASE \E r \in outbox : BecomeDue(r)
  BY <1>2, DueRows, EnvironmentTyped DEF BecomeDue
<1>3. CASE \E reason \in Reason : Acknowledge(reason)
  BY <1>3, AcknowledgeRows, EnvironmentTyped DEF Acknowledge
<1>4. CASE UNCHANGED vars
  BY <1>4 DEF vars, tables, bounds, locals, history, TypeOK
<1> QED BY <1>1, <1>2, <1>3, <1>4 DEF Next

\* Every row and every local keeps its declared type, and the table its key
\* (alert_outbox.dedup_key is UNIQUE), through every step, crash and restart.
THEOREM OutboxTypes == Spec => []TypeOK
<1>1. Init => TypeOK
  BY InitTyped
<1>2. TypeOK /\ [Next]_vars => TypeOK'
  BY StepTyped
<1> QED BY <1>1, <1>2, PTL DEF Spec

---------------------------------------------------------------------------
(* What is raised *)

\* The same key twice: only a steady reason repeats its digest, so nothing is decided anew.
LEMMA RaisedAgain ==
  ASSUME OutboxInv, NEW a \in Agent, RaiseAgain(a)
  PROVE  \E row, new :
           /\ row \in outbox /\ row.key = keyOf(a) /\ new.key = keyOf(a) /\ Steady(signal[a].reason)
           /\ new.verdict = row.verdict /\ new.at = signal[a].at /\ new.status = row.status
           /\ row.state # "recovered" /\ new.state # "recovered" /\ Alike(row.note, new.note)
           /\ RowOK(row) /\ RowOK(new) /\ RowsWritten(a, new, FALSE) /\ queued' = queued
<1>1. TypeOK /\ pc[a] = "raise" /\ SignalOK(a)
  BY DEF OutboxInv, RaiseAgain
<1>2. PICK row \in outbox : row.key = keyOf(a) /\ Write(a, row, alertOf(row))
  BY DEF RaiseAgain
<1>3. row \in Row /\ RowOK(row)
  BY <1>1 DEF TypeOK, OutboxInv
<1>4. PICK before \in Alert : before = alertOf(row)
  BY <1>3, AlertOfRow
<1>5. before.verdict = row.verdict /\ before.state = row.state
  BY <1>3, <1>4, AlertOfRow
<1>6. /\ signal[a].verdict \in Verdict /\ keyOf(a).reason = signal[a].reason
      /\ keyOf(a).to = signal[a].verdict /\ keyOf(a).digest = signal[a].digest
  BY <1>1, RaiseStart
<1>7. Steady(signal[a].reason)
  BY <1>1, <1>2, <1>3, <1>6 DEF RowOK, SignalOK
<1>8. row.verdict = signal[a].verdict /\ row.state # "recovered" /\ row.note.state # "recovered"
      /\ row.note.severity = row.verdict
  BY <1>2, <1>3, <1>6, <1>7 DEF RowOK
<1>9. PICK after \in Alert : after = fold(before, signal[a].verdict)
  BY <1>6, FoldFacts
<1>10. /\ after.verdict = row.verdict /\ after.state # "recovered"
       /\ ~ isRecovery(before.verdict, signal[a].verdict) /\ ~ shouldNotify(before, after)
  BY <1>5, <1>6, <1>8, <1>9, FoldFacts
<1>11. ~ Closes(a, before)
  BY <1>10 DEF Closes
<1>12. PICK new, notify :
         /\ notify = shouldNotify(before, after)
         /\ NewRow(a, new, after, StatusWritten(row, notify))
         /\ RowsWritten(a, new, Closes(a, before))
         /\ queued' = IF notify THEN queued \cup {keyOf(a)} ELSE queued
  BY <1>1, <1>2, <1>3, <1>4, <1>9, WrittenRows
<1>13. ~ notify /\ queued' = queued /\ Closes(a, before) = FALSE
  BY <1>10, <1>11, <1>12 DEF Closes
<1>14. new.status = row.status
  BY <1>3, <1>12, <1>13, OutboxAssumption DEF NewRow, StatusWritten
<1>15. /\ new.key = keyOf(a) /\ new.at = signal[a].at /\ new.verdict = row.verdict
       /\ new.state # "recovered" /\ new.note.state # "recovered" /\ new.note.severity = row.verdict
  BY <1>10, <1>12 DEF NewRow
<1>16. RowOK(new)
  BY <1>1, <1>2, <1>3, <1>6, <1>7, <1>15 DEF RowOK, SignalOK
<1>17. RowsWritten(a, new, FALSE)
  BY <1>12, <1>13
<1> QED BY <1>2, <1>3, <1>7, <1>8, <1>13, <1>14, <1>15, <1>16, <1>17 DEF Alike

\* A new key: the row follows from the newest open row of the incident, or opens one.
LEMMA RaisedNew ==
  ASSUME OutboxInv, NEW a \in Agent, RaiseInIncident(a) \/ RaiseFirst(a)
  PROVE  \E new, before, after, notify :
           /\ \/ before = None /\ Open(signal[a].reason) = {}
              \/ \E newest \in Newest(Open(signal[a].reason)) : before = alertOf(newest)
           /\ before = None \/ before \in Alert
           /\ after \in Alert /\ after = fold(before, signal[a].verdict)
           /\ notify = shouldNotify(before, after)
           /\ NewRow(a, new, after, IF notify THEN "pending" ELSE "sent")
           /\ RowsWritten(a, new, Closes(a, before))
           /\ queued' = IF notify THEN queued \cup {keyOf(a)} ELSE queued
           /\ \A row \in outbox : row.key # keyOf(a)
           /\ RowOK(new)
           /\ Steady(signal[a].reason) => ~ Closes(a, before) /\ (before # None => ~ notify)
<1>1. /\ TypeOK /\ pc[a] = "raise" /\ SignalOK(a) /\ \A r \in outbox : RowOK(r)
      /\ \A row \in outbox : row.key # keyOf(a)
  BY DEF OutboxInv, RaiseInIncident, RaiseFirst
<1>2. PICK before :
        /\ Write(a, None, before)
        /\ \/ before = None /\ Open(signal[a].reason) = {}
           \/ \E newest \in Newest(Open(signal[a].reason)) : before = alertOf(newest)
  BY DEF RaiseInIncident, RaiseFirst
<1>3. \A r \in Newest(Open(signal[a].reason)) :
        r \in outbox /\ r \in Row /\ r.key.reason = signal[a].reason /\ r.state # "recovered" /\ alertOf(r) \in Alert
        /\ alertOf(r) # None /\ alertOf(r).verdict = r.verdict /\ alertOf(r).state = r.state
  BY <1>1, AlertOfRow DEF Newest, Open, TypeOK
<1>4. before = None \/ before \in Alert
  BY <1>2, <1>3
<1>5. /\ signal[a].verdict \in Verdict /\ keyOf(a).reason = signal[a].reason
      /\ keyOf(a).to = signal[a].verdict /\ keyOf(a).digest = signal[a].digest
  BY <1>1, RaiseStart
<1>6. PICK after \in Alert : after = fold(before, signal[a].verdict)
  BY <1>4, <1>5, FoldFacts, OpenFacts
<1>7. PICK new, notify :
        /\ notify = shouldNotify(before, after)
        /\ NewRow(a, new, after, StatusWritten(None, notify))
        /\ RowsWritten(a, new, Closes(a, before))
        /\ queued' = IF notify THEN queued \cup {keyOf(a)} ELSE queued
  BY <1>1, <1>2, <1>4, <1>6, WrittenRows
<1>8. NewRow(a, new, after, IF notify THEN "pending" ELSE "sent")
  BY <1>7 DEF StatusWritten
<1>9. before = None => after.verdict = signal[a].verdict /\ after.state = "first_seen"
  BY <1>5, <1>6, OpenFacts
<1>10. Steady(signal[a].reason) =>
         /\ after.verdict = signal[a].verdict /\ after.state # "recovered"
         /\ ~ Closes(a, before) /\ (before # None => ~ notify)
  <2>1. SUFFICES ASSUME Steady(signal[a].reason), before # None
                 PROVE  /\ after.verdict = signal[a].verdict /\ after.state # "recovered"
                        /\ ~ notify /\ ~ Closes(a, before)
    BY <1>9 DEF Closes
  <2>2. PICK newest \in Newest(Open(signal[a].reason)) : before = alertOf(newest)
    BY <1>2, <2>1
  <2>3. newest.verdict = newest.key.to /\ Judged(newest.key.reason, newest.key.to)
    BY <1>1, <1>3, <2>1 DEF RowOK
  <2>4. newest.verdict = signal[a].verdict
    BY <1>1, <1>3, <2>1, <2>3 DEF SignalOK, Judged, Steady
  <2>5. before \in Alert /\ before.verdict = signal[a].verdict /\ before.state # "recovered"
    BY <1>3, <2>2, <2>4
  <2> QED BY <1>5, <1>6, <1>7, <2>5, FoldFacts DEF Closes
<1>11. signal[a].verdict = "OK" => after.verdict = "OK"
  BY <1>4, <1>5, <1>6, <1>9, FoldFacts
<1>12. /\ new.key = keyOf(a) /\ new.at = signal[a].at /\ new.verdict = after.verdict
       /\ new.state = after.state /\ new.note.state = after.state /\ new.note.severity = after.verdict
  BY <1>8 DEF NewRow
<1>13. RowOK(new)
  BY <1>1, <1>5, <1>10, <1>11, <1>12 DEF RowOK, SignalOK
<1> QED BY <1>1, <1>2, <1>4, <1>6, <1>7, <1>8, <1>10, <1>13

---------------------------------------------------------------------------
(* The inductive invariant of any number of agents, step by step *)

HasRow(copy, rows) == \E r \in rows : r.key = copy.key /\ Alike(copy.note, r.note)

CopiesHere == \A a \in Agent : \A b \in batch[a] : HasRow(b, outbox)

Reported(a) ==
  \A t \in Target :
    /\ report[a].reports[t] = "skipped" <=> skips(t, report[a].row.note)
    /\ report[a].reports[t] = "delivered" => <<report[a].row.key, t>> \in told

ReportsTrue == \A a \in Agent : pc[a] = "settle" => Reported(a)

LEMMA CopiesSplit == CopiesOK <=> CopiesHere /\ ReportsTrue
BY DEF CopiesOK, CopiesHere, HasRow, ReportsTrue, Reported

LEMMA AlikeSkips ==
  ASSUME NEW m, NEW n, Alike(m, n), NEW t
  PROVE  skips(t, m) <=> skips(t, n)
BY DEF Alike, skips

\* A step that raises nothing and judges nothing.
Rests ==
  /\ RowsStand /\ ticks' = ticks /\ queued' = queued /\ told \subseteq told'
  /\ \A a \in Agent : pc'[a] = "raise" => pc[a] = "raise" /\ signal'[a] = signal[a]

LEMMA RowStaysOK ==
  ASSUME TypeOK, NEW r \in Row, NEW q, Stands(r, q), RowOK(r), ticks' \in Nat, ticks' >= ticks
  PROVE  RowOK(q)'
<1>1. r.at \in Nat /\ ticks \in Nat
  BY DEF TypeOK, Row
<1> QED BY <1>1 DEF RowOK, Stands, SameRow

LEMMA RestsKeeps ==
  ASSUME OutboxInv, Rests
  PROVE  /\ (\A r \in outbox : RowOK(r))'
         /\ (\A a \in Agent : pc[a] = "raise" => SignalOK(a))'
         /\ QueuedHere' /\ OnePage' /\ (StatusStands => SentMeansTold')
         /\ \A b : HasRow(b, outbox) => HasRow(b, outbox')
<1>1. TypeOK /\ RowsStand /\ ticks' = ticks /\ queued' = queued /\ ticks \in Nat
      /\ \A r \in outbox : r \in Row /\ RowOK(r)
  BY DEF OutboxInv, Rests, TypeOK
<1>2. (\A r \in outbox : RowOK(r))'
  <2>1. \A q \in outbox' : RowOK(q)'
    BY <1>1, RowStaysOK DEF RowsStand
  <2> QED BY <2>1
<1>3. (\A a \in Agent : pc[a] = "raise" => SignalOK(a))'
  <2> SUFFICES ASSUME NEW a \in Agent, pc'[a] = "raise"
               PROVE  SignalOK(a)'
    OBVIOUS
  <2>1. pc[a] = "raise" /\ signal'[a] = signal[a] /\ SignalOK(a)
    BY DEF OutboxInv, Rests
  <2>2. \A q \in outbox' : q.at # signal'[a].at
    BY <1>1, <2>1 DEF RowsStand, Stands, SameRow, SignalOK
  <2>3. \A b \in Agent : pc'[b] = "raise" /\ signal'[b].at = signal'[a].at => a = b
    BY <2>1 DEF Rests, SignalOK
  <2> QED BY <1>1, <2>1, <2>2, <2>3 DEF SignalOK
<1>4. QueuedHere' /\ OnePage'
  BY <1>1 DEF OutboxInv, QueuedHere, OnePage, RowsStand, Stands, SameRow
<1>5. StatusStands => SentMeansTold'
  <2> SUFFICES ASSUME StatusStands, NEW q \in outbox', q.status = "sent", q.key \in queued'
               PROVE  \/ \E t \in Target : <<q.key, t>> \in told'
                      \/ Target # {} /\ \A t \in Target : skips(t, q.note)
    BY DEF SentMeansTold
  <2>1. PICK r \in outbox : Stands(r, q) /\ r.status = "sent"
    BY DEF StatusStands
  <2>2. r.key = q.key /\ r.note = q.note
    BY <2>1 DEF Stands, SameRow
  <2> QED BY <1>1, <2>1, <2>2 DEF OutboxInv, SentMeansTold, Rests
<1>6. \A b : HasRow(b, outbox) => HasRow(b, outbox')
  BY <1>1 DEF HasRow, RowsStand, Stands, SameRow
<1> QED BY <1>2, <1>3, <1>4, <1>5, <1>6

\* The copies and the reports of a step that leases and reports nothing.
LEMMA CopiesRest ==
  ASSUME CopiesOK, \A b : HasRow(b, outbox) => HasRow(b, outbox'), told \subseteq told',
         \A a \in Agent : batch'[a] \subseteq batch[a],
         \A a \in Agent : pc'[a] = "settle" => pc[a] = "settle" /\ report'[a] = report[a]
  PROVE  CopiesOK'
<1>1. CopiesHere /\ ReportsTrue
  BY CopiesSplit
<1>2. CopiesHere'
  <2>1. \A a \in Agent : \A b \in batch'[a] : HasRow(b, outbox')
    BY <1>1 DEF CopiesHere
  <2> QED BY <2>1 DEF CopiesHere, HasRow
<1>3. ReportsTrue'
  BY <1>1 DEF ReportsTrue, Reported
<1> QED BY <1>2, <1>3, CopiesSplit DEF CopiesOK, CopiesHere, HasRow, ReportsTrue, Reported

LEMMA CopiesNext ==
  ASSUME CopiesHere', ReportsTrue'
  PROVE  CopiesOK'
BY DEF CopiesOK, CopiesHere, HasRow, ReportsTrue, Reported

LEMMA RestInv ==
  ASSUME OutboxInv, TypeOK', Rests, StatusStands, \A a \in Agent : batch'[a] \subseteq batch[a],
         \A a \in Agent : pc'[a] = "settle" => pc[a] = "settle" /\ report'[a] = report[a]
  PROVE  OutboxInv'
<1>1. CopiesOK /\ told \subseteq told' /\ \A b : HasRow(b, outbox) => HasRow(b, outbox')
  BY RestsKeeps DEF OutboxInv, Rests
<1>2. CopiesOK'
  BY <1>1, CopiesRest
<1> QED BY <1>2, RestsKeeps DEF OutboxInv

LEMMA JudgeInv ==
  ASSUME EvidenceIsNew, OutboxInv, NEW a \in Agent, Judge(a)
  PROVE  OutboxInv'
<1>1. TypeOK /\ TypeOK' /\ RowsStand /\ StatusStands /\ outbox' = outbox /\ queued' = queued /\ told' = told
  BY JudgeTyped, UntouchedRows DEF OutboxInv, Judge, history
<1>2. PICK o \in Observation :
        signal' = [signal EXCEPT ![a] =
          [verdict |-> o.verdict, reason |-> o.reason, at |-> ticks + 1,
           digest |-> IF o.digest = None THEN ticks + 1 ELSE o.digest]]
  BY DEF Judge
<1>3. /\ ticks \in Nat /\ ticks' = ticks + 1 /\ pc[a] = "idle" /\ pc' = [pc EXCEPT ![a] = "raise"]
      /\ batch' = batch /\ report' = report /\ pc'[a] = "raise"
      /\ \A b \in Agent : b # a => pc'[b] = pc[b]
  BY <1>1 DEF Judge, TypeOK
<1>4. /\ signal'[a].verdict = o.verdict /\ signal'[a].reason = o.reason /\ signal'[a].at = ticks + 1
      /\ signal'[a].digest = IF o.digest = None THEN ticks + 1 ELSE o.digest
      /\ \A b \in Agent : b # a => signal'[b] = signal[b]
  BY <1>1, <1>2 DEF TypeOK
<1>5. \A r \in outbox : r \in Row /\ RowOK(r) /\ RowOK(r)'
  BY <1>1, <1>3, RowStaysOK, StandsItself DEF OutboxInv, TypeOK
<1>6. \A b \in Agent : b # a /\ pc'[b] = "raise" => pc[b] = "raise" /\ SignalOK(b) /\ signal[b].at \in Nat
  BY <1>1, <1>3 DEF OutboxInv, TypeOK, Signal
<1>7. \A b \in Agent : pc'[b] = "raise" => SignalOK(b)'
  <2> SUFFICES ASSUME NEW b \in Agent, pc'[b] = "raise"
               PROVE  SignalOK(b)'
    OBVIOUS
  <2>1. \A r \in outbox : r.at \in Nat /\ r.at <= ticks
    BY <1>5 DEF RowOK, Row
  <2>2. \A c \in Agent : pc'[c] = "raise" /\ signal'[c].at = signal'[b].at => b = c
    <3> SUFFICES ASSUME NEW c \in Agent, pc'[c] = "raise", signal'[c].at = signal'[b].at, b # c
                 PROVE  FALSE
      OBVIOUS
    <3>1. b # a => signal[b].at <= ticks /\ signal'[b] = signal[b] /\ signal[b].at \in Nat
      BY <1>4, <1>6 DEF SignalOK
    <3>2. c # a => signal[c].at <= ticks /\ signal'[c] = signal[c] /\ signal[c].at \in Nat
      BY <1>4, <1>6 DEF SignalOK
    <3>3. b # a \/ c # a
      OBVIOUS
    <3>4. b # a /\ c # a => FALSE
      BY <1>6, <3>1, <3>2 DEF SignalOK
    <3> QED BY <1>3, <1>4, <3>1, <3>2, <3>3, <3>4
  <2>3. CASE b = a
    <3>1. Judged(signal'[b].reason, signal'[b].verdict)
      BY <1>4, <2>3 DEF Judged
    <3>2. ~ Steady(signal'[b].reason) => signal'[b].digest = signal'[b].at
      BY <1>4, <2>3 DEF EvidenceIsNew
    <3> QED BY <1>1, <1>3, <1>4, <2>1, <2>2, <2>3, <3>1, <3>2 DEF SignalOK
  <2>4. CASE b # a
    BY <1>1, <1>3, <1>4, <1>6, <2>1, <2>2, <2>4 DEF SignalOK
  <2> QED BY <2>3, <2>4
<1>8. CopiesOK'
  BY <1>1, <1>3, CopiesRest DEF OutboxInv
<1>9. QueuedHere' /\ OnePage' /\ SentMeansTold'
  BY <1>1 DEF OutboxInv, QueuedHere, OnePage, SentMeansTold
<1>10. (\A r \in outbox : RowOK(r))'
  BY <1>1, <1>5
<1> QED BY <1>1, <1>7, <1>8, <1>9, <1>10 DEF OutboxInv

LEMMA NotDueInv ==
  ASSUME OutboxInv, NEW a \in Agent, NotDue(a)
  PROVE  OutboxInv'
<1>1. TypeOK' /\ RowsStand /\ StatusStands
  BY NotDueTyped, UntouchedRows DEF OutboxInv, NotDue, tables
<1>2. Rests
  BY <1>1 DEF Rests, NotDue, bounds, history, OutboxInv, TypeOK
<1>3. \A b \in Agent : /\ batch'[b] \subseteq batch[b]
                       /\ pc'[b] = "settle" => pc[b] = "settle" /\ report'[b] = report[b]
  BY DEF NotDue, OutboxInv, TypeOK
<1> QED BY <1>1, <1>2, <1>3, RestInv

LEMMA LeaseInv ==
  ASSUME OutboxInv, NEW a \in Agent, Lease(a)
  PROVE  OutboxInv'
<1>1. PICK take \in SUBSET outbox :
        batch' = [batch EXCEPT ![a] = {[key |-> r.key, attempts |-> leased(r).attempts,
                                        note |-> r.note] : r \in take}]
  BY LeaseTyped DEF OutboxInv
<1>2. TypeOK /\ TypeOK' /\ RowsStand /\ StatusStands
  BY LeaseTyped DEF OutboxInv
<1>3. Rests
  BY <1>2 DEF Rests, Lease, bounds, history, TypeOK
<1>4. CopiesHere'
  <2>1. ASSUME NEW b \in Agent, NEW c \in batch'[b] PROVE HasRow(c, outbox)
    <3>1. CASE b = a
      <4>1. PICK r \in take : c = [key |-> r.key, attempts |-> leased(r).attempts, note |-> r.note]
        BY <1>1, <1>2, <3>1 DEF TypeOK
      <4> QED BY <4>1 DEF HasRow, Alike
    <3>2. CASE b # a
      <4>1. c \in batch[b]
        BY <1>1, <1>2, <3>2 DEF TypeOK
      <4> QED BY <4>1, CopiesSplit DEF OutboxInv, CopiesHere
    <3> QED BY <3>1, <3>2
  <2> QED BY <1>3, <2>1, RestsKeeps DEF CopiesHere, HasRow
<1>5. ReportsTrue'
  BY <1>2, CopiesSplit DEF OutboxInv, ReportsTrue, Reported, Lease, TypeOK, history
<1> QED BY <1>2, <1>3, <1>4, <1>5, RestsKeeps, CopiesNext DEF OutboxInv

LEMMA DispatchInv ==
  ASSUME OutboxInv, NEW a \in Agent, Dispatch(a)
  PROVE  OutboxInv'
<1>1. PICK row \in batch[a], reports \in [Target -> {"skipped", "delivered", "failed"}] :
        /\ \A t \in Target : reports[t] = "skipped" <=> skips(t, row.note)
        /\ report' = [report EXCEPT ![a] = [row |-> row, reports |-> reports]]
        /\ told' = told \cup {<<row.key, t>> : t \in {u \in Target : reports[u] = "delivered"}}
  BY DEF Dispatch
<1>2. TypeOK /\ TypeOK' /\ RowsStand /\ StatusStands /\ outbox' = outbox /\ batch' = batch
  BY DispatchTyped, UntouchedRows DEF OutboxInv, Dispatch, tables
<1>3. Rests
  BY <1>1, <1>2 DEF Rests, Dispatch, bounds, TypeOK
<1>4. CopiesHere'
  BY <1>2, CopiesSplit DEF OutboxInv, CopiesHere, HasRow
<1>5. ReportsTrue'
  <2> SUFFICES ASSUME NEW b \in Agent, pc'[b] = "settle"
               PROVE  Reported(b)'
    BY DEF ReportsTrue
  <2>1. CASE b = a
    <3>1. report'[a].row = row /\ report'[a].reports = reports
      BY <1>1, <1>2 DEF TypeOK
    <3> QED BY <1>1, <2>1, <3>1 DEF Reported
  <2>2. CASE b # a
    <3>1. report'[b] = report[b] /\ Reported(b)
      BY <1>1, <1>2, <2>2, CopiesSplit DEF TypeOK, OutboxInv, ReportsTrue, Dispatch
    <3> QED BY <1>1, <3>1 DEF Reported
  <2> QED BY <2>1, <2>2
<1> QED BY <1>2, <1>3, <1>4, <1>5, RestsKeeps, CopiesNext DEF OutboxInv

LEMMA SettleInv ==
  ASSUME OutboxInv, NEW a \in Agent, Settle(a)
  PROVE  OutboxInv'
<1>1. /\ TypeOK /\ TypeOK' /\ RowsStand /\ pc[a] = "settle"
      /\ report[a].row \in batch[a] /\ report[a].row \in Leased
      /\ \A q \in outbox' : \E r \in outbox : Stands(r, q) /\
           q.status = IF r.key = report[a].row.key
                      THEN settled(report[a].row.attempts, report[a].reports) ELSE r.status
  BY SettleTyped DEF OutboxInv, Settle
<1>2. Rests
  BY <1>1 DEF Rests, Settle, bounds, history, TypeOK
<1>3. CopiesOK'
  <2>1. \A b \in Agent : /\ batch'[b] \subseteq batch[b]
                         /\ pc'[b] = "settle" => pc[b] = "settle" /\ report'[b] = report[b]
    BY <1>1, ZenonT(30) DEF Settle, TypeOK
  <2> QED BY <1>2, <2>1, RestsKeeps, CopiesRest DEF OutboxInv, Rests
<1>4. SentMeansTold'
  <2> SUFFICES ASSUME NEW q \in outbox', q.status = "sent", q.key \in queued'
               PROVE  \/ \E t \in Target : <<q.key, t>> \in told'
                      \/ Target # {} /\ \A t \in Target : skips(t, q.note)
    BY DEF SentMeansTold
  <2>1. PICK r \in outbox : Stands(r, q) /\
           q.status = IF r.key = report[a].row.key
                      THEN settled(report[a].row.attempts, report[a].reports) ELSE r.status
    BY <1>1
  <2>2. r.key = q.key /\ r.note = q.note /\ queued' = queued /\ told \subseteq told'
    BY <1>2, <2>1 DEF Stands, SameRow, Rests
  <2>3. CASE r.key # report[a].row.key
    BY <2>1, <2>2, <2>3 DEF OutboxInv, SentMeansTold
  <2>4. CASE r.key = report[a].row.key
    <3>1. HasRow(report[a].row, outbox) /\ Reported(a)
      BY <1>1, CopiesSplit DEF OutboxInv, CopiesHere, ReportsTrue
    <3>2. Alike(report[a].row.note, r.note)
      BY <1>1, <2>4, <3>1 DEF HasRow, TypeOK
    <3>3. \/ \E t \in Target : report[a].reports[t] = "delivered"
          \/ Target # {} /\ \A t \in Target : report[a].reports[t] = "skipped"
      BY <2>1, <2>4 DEF settled
    <3> QED BY <2>2, <2>4, <3>1, <3>2, <3>3, AlikeSkips DEF Reported
  <2> QED BY <2>3, <2>4
<1> QED BY <1>1, <1>2, <1>3, <1>4, RestsKeeps DEF OutboxInv

LEMMA AbortInv ==
  ASSUME OutboxInv, NEW a \in Agent, Abort(a) \/ Crash(a)
  PROVE  OutboxInv'
<1>1. TypeOK /\ TypeOK' /\ RowsStand /\ StatusStands
  BY AbortTyped, CrashTyped, UntouchedRows DEF OutboxInv, Abort, Crash, tables
<1>2. Rests
  BY <1>1 DEF Rests, Abort, Crash, history, TypeOK
<1>3. \A b \in Agent : /\ batch'[b] \subseteq batch[b]
                       /\ pc'[b] = "settle" => pc[b] = "settle" /\ report'[b] = report[b]
  BY <1>1 DEF Abort, Crash, TypeOK
<1> QED BY <1>1, <1>2, <1>3, RestInv

LEMMA EnvironmentInv ==
  ASSUME OutboxInv, UNCHANGED <<deliveries, evaluated, bounds, locals, history>>, RowsStand, StatusStands
  PROVE  OutboxInv'
<1>1. TypeOK' /\ RowsStand /\ StatusStands
  BY EnvironmentTyped DEF OutboxInv
<1>2. Rests
  BY <1>1 DEF Rests, bounds, locals, history
<1> QED BY <1>1, <1>2, RestInv DEF locals

\* A row lands: the rows of other keys stand or are closed with their incident.
LEMMA RowLands ==
  ASSUME OutboxInv, NEW a \in Agent, pc[a] = "raise", Raised(a), TypeOK',
         NEW new, NEW closes \in BOOLEAN, RowsWritten(a, new, closes),
         new.key = keyOf(a), new.at = signal[a].at, RowOK(new),
         closes => ~ Steady(signal[a].reason),
         queued \subseteq queued', queued' \subseteq queued \cup {keyOf(a)},
         \A r \in outbox : r.key = keyOf(a) => Alike(r.note, new.note),
         \A k \in queued' \ queued : Steady(k.reason) => \A l \in queued : l.reason # k.reason,
         new.status = "sent" /\ new.key \in queued' =>
           \/ \E t \in Target : <<new.key, t>> \in told
           \/ Target # {} /\ \A t \in Target : skips(t, new.note)
  PROVE  OutboxInv'
<1>1. /\ TypeOK /\ ticks' = ticks /\ told' = told /\ batch' = batch /\ report' = report
      /\ signal' = [signal EXCEPT ![a] = None] /\ pc' = [pc EXCEPT ![a] = "drain"]
  BY DEF OutboxInv, Raised, bounds
<1>2. \A r \in outbox : r \in Row /\ RowOK(r)
  BY <1>1 DEF OutboxInv, TypeOK
<1>3. \A q \in outbox' : q = new \/ \E r \in outbox : Follows(a, closes, r, q)
  BY DEF RowsWritten
<1>4. \A r \in outbox : r.key # keyOf(a) => \E q \in outbox' : SameRow(r, q)
  BY DEF RowsWritten, Follows
<1>5. \A q \in outbox' : RowOK(q)'
  <2> SUFFICES ASSUME NEW r \in outbox, NEW q, Follows(a, closes, r, q)
               PROVE  RowOK(q)'
    BY <1>1, <1>3 DEF RowOK
  <2>1. r \in Row /\ RowOK(r) /\ SameRow(r, q)
    BY <1>2 DEF Follows
  <2>2. Steady(r.key.reason) => q.state # "recovered"
    BY <2>1 DEF Follows, ClosedTo, RowOK
  <2> QED BY <1>1, <2>1, <2>2 DEF RowOK, SameRow
<1>6. \A b \in Agent : pc'[b] = "raise" => b # a /\ pc[b] = "raise" /\ SignalOK(b) /\ signal'[b] = signal[b]
  BY <1>1 DEF OutboxInv, TypeOK
<1>7. \A b \in Agent : pc'[b] = "raise" => SignalOK(b)'
  <2> SUFFICES ASSUME NEW b \in Agent, pc'[b] = "raise"
               PROVE  SignalOK(b)'
    OBVIOUS
  <2>1. new.at # signal[b].at
    BY <1>6 DEF SignalOK
  <2>2. \A q \in outbox' : q.at # signal[b].at
    BY <1>3, <1>6, <2>1 DEF Follows, SameRow, SignalOK
  <2> QED BY <1>1, <1>6, <2>2 DEF SignalOK
<1>8. CopiesHere'
  <2> SUFFICES ASSUME NEW b \in Agent, NEW c \in batch[b]
               PROVE  HasRow(c, outbox')
    BY <1>1 DEF CopiesHere, HasRow
  <2>1. PICK r \in outbox : r.key = c.key /\ Alike(c.note, r.note)
    BY CopiesSplit DEF OutboxInv, CopiesHere, HasRow
  <2>2. CASE r.key = keyOf(a)
    BY <2>1, <2>2 DEF HasRow, Alike, RowsWritten
  <2>3. CASE r.key # keyOf(a)
    BY <1>4, <2>1, <2>3 DEF HasRow, SameRow
  <2> QED BY <2>2, <2>3
<1>9. ReportsTrue'
  BY <1>1, CopiesSplit DEF OutboxInv, ReportsTrue, Reported, TypeOK
<1>10. QueuedHere'
  BY <1>4 DEF OutboxInv, QueuedHere, SameRow, RowsWritten
<1>11. OnePage'
  BY DEF OutboxInv, OnePage
<1>12. SentMeansTold'
  <2> SUFFICES ASSUME NEW q \in outbox', q.status = "sent", q.key \in queued', q # new
               PROVE  \/ \E t \in Target : <<q.key, t>> \in told
                      \/ Target # {} /\ \A t \in Target : skips(t, q.note)
    BY <1>1 DEF SentMeansTold
  <2>1. PICK r \in outbox : Follows(a, closes, r, q)
    BY <1>3
  <2>2. r.key = q.key /\ r.note = q.note /\ r.key # keyOf(a) /\ r.status = "sent"
    BY <2>1 DEF Follows, SameRow, ClosedTo
  <2> QED BY <2>2 DEF OutboxInv, SentMeansTold
<1> QED BY <1>5, <1>7, <1>8, <1>9, <1>10, <1>11, <1>12, CopiesNext DEF OutboxInv

LEMMA RaiseInv ==
  ASSUME OutboxInv, NEW a \in Agent, RaiseAlert(a)
  PROVE  OutboxInv'
<1>1. TypeOK /\ TypeOK' /\ pc[a] = "raise" /\ Raised(a) /\ keyOf(a).reason = signal[a].reason
  BY RaiseTyped, RaiseStart
     DEF OutboxInv, RaiseAlert, RaiseAgain, RaiseInIncident, RaiseFirst, RaiseNothing
<1>2. CASE RaiseAgain(a)
  <2>1. PICK row, new :
           /\ row \in outbox /\ row.key = keyOf(a) /\ new.key = keyOf(a)
           /\ new.at = signal[a].at /\ new.status = row.status
           /\ Alike(row.note, new.note) /\ RowOK(new) /\ RowsWritten(a, new, FALSE) /\ queued' = queued
    BY <1>2, RaisedAgain
  <2>2. \A r \in outbox : r.key = keyOf(a) => r = row
    BY <1>1, <2>1 DEF TypeOK
  <2>3. new.status = "sent" /\ new.key \in queued' =>
           \/ \E t \in Target : <<new.key, t>> \in told
           \/ Target # {} /\ \A t \in Target : skips(t, new.note)
    BY <2>1, AlikeSkips DEF OutboxInv, SentMeansTold
  <2> QED BY <1>1, <2>1, <2>2, <2>3, RowLands
<1>3. CASE RaiseInIncident(a) \/ RaiseFirst(a)
  <2>1. PICK new, before, after, notify :
           /\ before = None => Open(signal[a].reason) = {}
           /\ notify = shouldNotify(before, after)
           /\ NewRow(a, new, after, IF notify THEN "pending" ELSE "sent")
           /\ RowsWritten(a, new, Closes(a, before))
           /\ queued' = IF notify THEN queued \cup {keyOf(a)} ELSE queued
           /\ \A row \in outbox : row.key # keyOf(a)
           /\ RowOK(new)
           /\ Steady(signal[a].reason) => ~ Closes(a, before) /\ (before # None => ~ notify)
    <3>1. \A r \in Newest(Open(signal[a].reason)) : alertOf(r) # None
      BY <1>1, AlertOfRow DEF Newest, Open, TypeOK
    <3> QED BY <1>3, <3>1, RaisedNew
  <2>2. new.key = keyOf(a) /\ new.at = signal[a].at /\ new.status = IF notify THEN "pending" ELSE "sent"
    BY <2>1 DEF NewRow
  <2>3. \A k \in queued' \ queued : Steady(k.reason) => \A l \in queued : l.reason # k.reason
    <3> SUFFICES ASSUME notify, Steady(signal[a].reason), NEW l \in queued, l.reason = signal[a].reason
                 PROVE  FALSE
      BY <1>1, <2>1
    <3>1. Open(signal[a].reason) = {}
      BY <2>1
    <3>2. PICK r \in outbox : r.key = l /\ RowOK(r)
      BY DEF OutboxInv, QueuedHere
    <3>3. r.state # "recovered"
      BY <3>2 DEF RowOK
    <3> QED BY <3>1, <3>2, <3>3 DEF Open
  <2>4. ~ (new.status = "sent" /\ new.key \in queued')
    BY <2>1, <2>2 DEF OutboxInv, QueuedHere
  <2>5. Closes(a, before) \in BOOLEAN
    BY DEF Closes, isRecovery
  <2> QED BY <1>1, <2>1, <2>2, <2>3, <2>4, <2>5, RowLands
<1>4. CASE RaiseNothing(a)
  <2>1. RowsStand /\ StatusStands
    BY <1>1, <1>4, UntouchedRows DEF RaiseNothing
  <2>2. Rests /\ batch' = batch
    BY <1>1, <1>4, <2>1 DEF Rests, RaiseNothing, Raised, bounds, TypeOK
  <2>3. \A b \in Agent : pc'[b] = "settle" => pc[b] = "settle" /\ report'[b] = report[b]
    BY <1>1 DEF Raised, TypeOK
  <2> QED BY <1>1, <2>1, <2>2, <2>3, RestInv
<1> QED BY <1>2, <1>3, <1>4 DEF RaiseAlert

LEMMA InitInv == Init => OutboxInv
<1> SUFFICES ASSUME Init PROVE OutboxInv
  OBVIOUS
<1> QED BY InitTyped DEF Init, OutboxInv, CopiesOK, QueuedHere, OnePage, SentMeansTold

LEMMA StepInv == EvidenceIsNew /\ OutboxInv /\ [Next]_vars => OutboxInv'
<1> SUFFICES ASSUME EvidenceIsNew, OutboxInv, [Next]_vars PROVE OutboxInv'
  OBVIOUS
<1>1. CASE \E a \in Agent : Judge(a) \/ NotDue(a) \/ Step(a) \/ Abort(a) \/ Crash(a)
  BY <1>1, JudgeInv, NotDueInv, RaiseInv, LeaseInv, DispatchInv, SettleInv, AbortInv DEF Step
<1>2. CASE \E r \in outbox : BecomeDue(r)
  BY <1>2, DueRows, EnvironmentInv DEF BecomeDue, OutboxInv
<1>3. CASE \E reason \in Reason : Acknowledge(reason)
  BY <1>3, AcknowledgeRows, EnvironmentInv DEF Acknowledge, OutboxInv
<1>4. CASE UNCHANGED vars
  <2>1. RowsStand /\ StatusStands
    BY <1>4, UntouchedRows DEF OutboxInv, vars, tables
  <2> QED BY <1>4, <2>1, EnvironmentInv DEF vars, tables
<1> QED BY <1>1, <1>2, <1>3, <1>4 DEF Next

\* A row reads as sent only when some target accepted its notification or every target
\* filtered it out, whatever died, raced or was cut short between the delivery and its
\* settlement (drainOutbox, settleAlert), when every judgement rests on evidence of its own
\* or on a reason that names its verdict.
THEOREM SentIsTold == EvidenceIsNew /\ Spec => []SentMeansTold
<1> SUFFICES ASSUME EvidenceIsNew PROVE Spec => []SentMeansTold
  OBVIOUS
<1>1. OutboxInv => SentMeansTold
  BY DEF OutboxInv
<1>2. OutboxInv /\ [Next]_vars => OutboxInv'
  BY StepInv
<1> QED BY <1>1, <1>2, InitInv, PTL DEF Spec

---------------------------------------------------------------------------
(* One agent *)

SteadyHere == \A o \in Observation : Steady(o.reason)

\* Every other step leaves the rows where they are in their incidents.
LEMMA RaisesOrStands ==
  ASSUME TypeOK, [Next]_vars
  PROVE  \/ \E a \in Agent : RaiseAlert(a)
         \/ /\ RowsStand /\ queued' = queued
            /\ \/ \E a \in Agent : Judge(a)
               \/ /\ ticks' = ticks
                  /\ \A a \in Agent : pc'[a] = "raise" => pc[a] = "raise" /\ signal'[a] = signal[a]
<1>1. CASE \E a \in Agent : RaiseAlert(a)
  BY <1>1
<1>2. CASE \E a \in Agent : Judge(a)
  BY <1>2, UntouchedRows DEF Judge, history
<1>3. CASE \E a \in Agent : NotDue(a)
  BY <1>3, UntouchedRows DEF NotDue, TypeOK, tables, bounds, history
<1>4. CASE \E a \in Agent : Lease(a)
  <2>1. PICK a \in Agent : Lease(a)
    BY <1>4
  <2>2. RowsStand /\ queued' = queued /\ ticks' = ticks /\ signal' = signal
    BY <2>1, LeaseTyped DEF Lease, bounds, history
  <2>3. PICK next \in {"idle", "deliver"} : pc' = [pc EXCEPT ![a] = next]
    BY <2>1 DEF Lease
  <2> QED BY <2>2, <2>3 DEF TypeOK
<1>5. CASE \E a \in Agent : Dispatch(a)
  BY <1>5, UntouchedRows DEF Dispatch, TypeOK, tables, bounds
<1>6. CASE \E a \in Agent : Settle(a)
  BY <1>6, SettleTyped, ZenonT(30) DEF Settle, TypeOK, bounds, history
<1>7. CASE \E a \in Agent : Abort(a) \/ Crash(a)
  BY <1>7, UntouchedRows DEF Abort, Crash, TypeOK, tables, history
<1>8. CASE \E r \in outbox : BecomeDue(r)
  BY <1>8, DueRows DEF BecomeDue, bounds, locals, history
<1>9. CASE \E reason \in Reason : Acknowledge(reason)
  BY <1>9, AcknowledgeRows DEF Acknowledge, bounds, locals, history
<1>10. CASE UNCHANGED vars
  BY <1>10, UntouchedRows DEF vars, tables, bounds, locals, history
<1> QED BY <1>1, <1>2, <1>3, <1>4, <1>5, <1>6, <1>7, <1>8, <1>9, <1>10 DEF Next, Step

LEMMA StandingTurn ==
  ASSUME NewestIsWorst, PagedOnce, RowsStand, queued' = queued
  PROVE  NewestIsWorst' /\ PagedOnce'
<1>1. \A q \in outbox' : \E r \in outbox :
        /\ q.key = r.key /\ q.verdict = r.verdict /\ q.at = r.at
        /\ q.state = "recovered" <=> r.state = "recovered"
  BY DEF RowsStand, Stands, SameRow
<1>2. NewestIsWorst'
  BY <1>1 DEF NewestIsWorst
<1>3. PagedOnce'
  BY <1>1 DEF PagedOnce
<1> QED BY <1>2, <1>3

\* Rows of a steady reason all say the same.
LEMMA SteadyRows ==
  ASSUME NEW r, NEW q, RowOK(r), RowOK(q), r.key.reason = q.key.reason, Steady(r.key.reason)
  PROVE  r.verdict = q.verdict
BY DEF RowOK, Steady, Judged

LEMMA OpenOnce ==
  ASSUME OutboxInv, NEW a \in Agent, pc[a] = "raise", NEW newest \in Newest(Open(signal[a].reason))
  PROVE  newest \in outbox /\ newest \in Row /\ newest.key.reason = signal[a].reason
         /\ newest.state # "recovered" /\ \A r \in Open(signal[a].reason) : r.at <= newest.at
BY DEF Newest, Open, OutboxInv, TypeOK

\* What the new row of an open incident is worth against the rows it follows.
LEMMA NewRowWorst ==
  ASSUME TurnInv, NEW a \in Agent, pc[a] = "raise", NEW before, NEW after,
         \/ before = None /\ Open(signal[a].reason) = {}
         \/ \E newest \in Newest(Open(signal[a].reason)) : before = alertOf(newest),
         after = fold(before, signal[a].verdict)
  PROVE  /\ after.state # "recovered" => \A r \in Open(signal[a].reason) :
              SEVERITY[r.verdict] <= SEVERITY[after.verdict]
         /\ shouldNotify(before, after) => \A r \in Open(signal[a].reason) :
              \/ Closes(a, before) /\ signal[a].verdict = "OK"
              \/ /\ SEVERITY[r.verdict] < SEVERITY[signal[a].verdict]
                 /\ after.verdict = signal[a].verdict /\ ~ Closes(a, before)
<1>1. CASE Open(signal[a].reason) = {}
  BY <1>1
<1>2. CASE \E newest \in Newest(Open(signal[a].reason)) : before = alertOf(newest)
  <2>1. PICK newest \in Newest(Open(signal[a].reason)) : before = alertOf(newest)
    BY <1>2
  <2>2. newest \in outbox /\ newest \in Row /\ newest.key.reason = signal[a].reason
         /\ newest.state # "recovered" /\ \A r \in Open(signal[a].reason) : r.at <= newest.at
    BY OpenOnce DEF TurnInv
  <2>3. before \in Alert /\ before # None /\ before.verdict = newest.verdict /\ before.state # "recovered"
    BY <2>1, <2>2, AlertOfRow
  <2>4. signal[a].verdict \in Verdict
    BY RaiseStart DEF TurnInv, OutboxInv
  <2>5. after \in Alert
    BY <2>3, <2>4, FoldFacts
  <2>6. \A r \in Open(signal[a].reason) :
          /\ SEVERITY[r.verdict] <= SEVERITY[newest.verdict]
          /\ SEVERITY[r.verdict] \in Int /\ SEVERITY[newest.verdict] \in Int
    <3> TAKE r \in Open(signal[a].reason)
    <3>1. r \in outbox /\ r.key.reason = signal[a].reason /\ r.state # "recovered" /\ r.at <= newest.at
      BY <2>2 DEF Open
    <3>2. SEVERITY[r.verdict] <= SEVERITY[newest.verdict]
      BY <2>2, <3>1 DEF TurnInv, NewestIsWorst
    <3>3. r \in Row
      BY <3>1 DEF TurnInv, OutboxInv, TypeOK
    <3>4. r.verdict \in Verdict /\ newest.verdict \in Verdict
      BY <2>2, <3>3 DEF Row
    <3> QED BY <3>2, <3>4, Severities
  <2>7. CASE isRecovery(before.verdict, signal[a].verdict)
    <3>1. after.state = "recovered" /\ signal[a].verdict = "OK" /\ Closes(a, before)
      BY <2>3, <2>4, <2>7, FoldFacts DEF Closes
    <3> QED BY <3>1
  <2>8. CASE ~ isRecovery(before.verdict, signal[a].verdict)
    <3>1. /\ SEVERITY[before.verdict] <= SEVERITY[after.verdict]
          /\ shouldNotify(before, after) => SEVERITY[before.verdict] < SEVERITY[signal[a].verdict]
                                            /\ after.verdict = signal[a].verdict
      BY <2>3, <2>4, <2>8, FoldFacts
    <3>2. SEVERITY[after.verdict] \in Int /\ SEVERITY[signal[a].verdict] \in Int /\ ~ Closes(a, before)
      BY <2>4, <2>5, <2>8, Severities DEF Alert, Closes
    <3> QED BY <2>3, <2>6, <3>1, <3>2
  <2> QED BY <2>7, <2>8
<1> QED BY <1>1, <1>2

LEMMA RaiseTurn ==
  ASSUME OneAgent, TurnInv, PagedOnce, NEW a \in Agent, RaiseAlert(a)
  PROVE  NewestIsWorst' /\ PagedOnce'
<1>1. /\ TypeOK /\ pc[a] = "raise" /\ keyOf(a).reason = signal[a].reason /\ keyOf(a) \in Key
      /\ \A r \in outbox : r \in Row /\ RowOK(r)
      /\ SignalOK(a) /\ signal[a].at = ticks /\ QueuedHere
  BY RaiseStart DEF TurnInv, OutboxInv, TypeOK, InTurn, RaiseAlert, RaiseAgain, RaiseInIncident,
                    RaiseFirst, RaiseNothing
<1>2. \A r \in outbox : r.at \in Int /\ r.at < signal[a].at /\ signal[a].at \in Int
  BY <1>1, RaiseStart DEF RowOK, SignalOK, Row, TypeOK, Signal
<1>3. CASE RaiseAgain(a)
  <2>1. PICK row, new :
           /\ row \in outbox /\ row.key = keyOf(a) /\ new.key = keyOf(a) /\ Steady(signal[a].reason)
           /\ new.verdict = row.verdict /\ RowOK(row) /\ row.state # "recovered"
           /\ RowsWritten(a, new, FALSE) /\ queued' = queued
    BY <1>3, RaisedAgain DEF TurnInv
  <2>2. \A q \in outbox' : q = new \/ q \in outbox
    BY <2>1 DEF RowsWritten, Follows
  <2>3. row.verdict \in Verdict
    BY <1>1, <2>1 DEF Row
  <2>4. \A q \in outbox' : q.key.reason = signal[a].reason => q.verdict = row.verdict
    BY <1>1, <2>1, <2>2, SteadyRows
  <2>5. NewestIsWorst'
    <3> SUFFICES ASSUME NEW r \in outbox', NEW q \in outbox', r.key.reason = q.key.reason,
                        r.state # "recovered", q.state # "recovered", r.at <= q.at
                 PROVE  SEVERITY[r.verdict] <= SEVERITY[q.verdict]
      BY DEF NewestIsWorst
    <3>1. CASE r \in outbox /\ q \in outbox
      BY <3>1 DEF TurnInv, NewestIsWorst
    <3>2. CASE r.key.reason = signal[a].reason
      <4>1. r.verdict = row.verdict /\ q.verdict = row.verdict
        BY <2>4, <3>2
      <4> QED BY <2>3, <4>1, Severities
    <3> QED BY <1>1, <2>1, <2>2, <3>1, <3>2
  <2>6. PagedOnce'
    <3>1. \A r \in outbox' : r.state # "recovered" =>
            \E s \in outbox : s.key = r.key /\ s.verdict = r.verdict /\ s.state # "recovered"
      BY <2>1, <2>2
    <3> QED BY <2>1, <3>1 DEF PagedOnce
  <2> QED BY <2>5, <2>6
<1>4. CASE RaiseInIncident(a) \/ RaiseFirst(a)
  <2>1. PICK new, before, after, notify :
           /\ \/ before = None /\ Open(signal[a].reason) = {}
              \/ \E newest \in Newest(Open(signal[a].reason)) : before = alertOf(newest)
           /\ after = fold(before, signal[a].verdict)
           /\ notify = shouldNotify(before, after)
           /\ NewRow(a, new, after, IF notify THEN "pending" ELSE "sent")
           /\ RowsWritten(a, new, Closes(a, before))
           /\ queued' = IF notify THEN queued \cup {keyOf(a)} ELSE queued
           /\ \A row \in outbox : row.key # keyOf(a)
    BY <1>4, RaisedNew DEF TurnInv
  <2>2. /\ new.key = keyOf(a) /\ new.at = signal[a].at /\ new.state = after.state
        /\ new.verdict = after.verdict /\ new.verdict \in Verdict
    BY <2>1 DEF NewRow, Row
  <2>3. \A q \in outbox' : q = new \/ \E r \in outbox : Follows(a, Closes(a, before), r, q)
    BY <2>1 DEF RowsWritten
  <2>4. \A q \in outbox' : q.state # "recovered" /\ q # new =>
          q \in outbox \/ /\ q.key.reason # signal[a].reason
                          /\ \E r \in outbox : /\ r.key = q.key /\ r.verdict = q.verdict
                                               /\ r.at = q.at /\ r.state # "recovered"
    BY <2>3 DEF Follows, SameRow, ClosedTo
  <2>5. \A q \in outbox' : q.state # "recovered" /\ q # new =>
          \E r \in outbox : /\ r.key = q.key /\ r.verdict = q.verdict
                            /\ r.at = q.at /\ r.state # "recovered"
    BY <2>4
  <2>6. \A q \in outbox' : /\ q.state # "recovered" /\ q # new /\ q.key.reason = signal[a].reason
                           => q \in Open(signal[a].reason) /\ q \in outbox
    BY <2>4 DEF Open
  <2>7. /\ after.state # "recovered" => \A r \in Open(signal[a].reason) :
             SEVERITY[r.verdict] <= SEVERITY[after.verdict]
        /\ notify => \A r \in Open(signal[a].reason) :
             \/ Closes(a, before) /\ signal[a].verdict = "OK"
             \/ /\ SEVERITY[r.verdict] < SEVERITY[signal[a].verdict]
                /\ after.verdict = signal[a].verdict /\ ~ Closes(a, before)
    BY <1>1, <2>1, NewRowWorst
  <2>8. NewestIsWorst'
    <3> SUFFICES ASSUME NEW r \in outbox', NEW q \in outbox', r.key.reason = q.key.reason,
                        r.state # "recovered", q.state # "recovered", r.at <= q.at
                 PROVE  SEVERITY[r.verdict] <= SEVERITY[q.verdict]
      BY DEF NewestIsWorst
    <3>1. CASE r # new /\ q # new
      BY <2>5, <3>1 DEF TurnInv, NewestIsWorst
    <3>2. CASE r = new /\ q = new
      BY <2>2, <3>2, Severities
    <3>3. CASE r # new /\ q = new
      BY <1>1, <2>2, <2>6, <2>7, <3>3
    <3>4. CASE r = new /\ q # new
      <4>1. q \in outbox
        BY <1>1, <2>2, <2>6, <3>4
      <4> QED BY <1>2, <2>2, <3>4, <4>1
    <3> QED BY <3>1, <3>2, <3>3, <3>4
  <2>9. ASSUME NEW q \in outbox', q.state # "recovered", q # new, q.key.reason = new.key.reason,
               q.key \in queued', new.key \in queued', new.state # "recovered"
        PROVE  q.verdict # new.verdict
    <3>1. q \in Open(signal[a].reason) /\ q \in outbox
      BY <1>1, <2>2, <2>6, <2>9
    <3>2. notify
      BY <1>1, <2>1, <2>2, <2>9 DEF QueuedHere
    <3>3. CASE SEVERITY[q.verdict] < SEVERITY[signal[a].verdict] /\ after.verdict = signal[a].verdict
      <4>1. q.verdict \in Verdict
        BY <1>1, <3>1 DEF Row
      <4> QED BY <2>2, <3>3, <4>1, Severities
    <3>4. CASE Closes(a, before)
      <4>1. PICK r \in outbox : Follows(a, Closes(a, before), r, q)
        BY <2>3, <2>9
      <4>2. q.state = "recovered"
        BY <1>1, <2>2, <2>9, <3>4, <4>1 DEF Follows, ClosedTo, SameRow
      <4> QED BY <2>9, <4>2
    <3> QED BY <2>7, <3>1, <3>2, <3>3, <3>4
  <2>10. PagedOnce'
    <3> SUFFICES ASSUME NEW r \in outbox', NEW q \in outbox', r.key # q.key,
                        r.key.reason = q.key.reason, r.state # "recovered", q.state # "recovered",
                        r.key \in queued', q.key \in queued'
                 PROVE  r.verdict # q.verdict
      BY DEF PagedOnce
    <3>1. CASE r # new /\ q # new
      <4>1. PICK r1 \in outbox : r1.key = r.key /\ r1.verdict = r.verdict /\ r1.state # "recovered"
        BY <2>5, <3>1
      <4>2. PICK q1 \in outbox : q1.key = q.key /\ q1.verdict = q.verdict /\ q1.state # "recovered"
        BY <2>5, <3>1
      <4>3. r1.key \in queued /\ q1.key \in queued
        BY <2>1, <4>1, <4>2
      <4> QED BY <4>1, <4>2, <4>3 DEF PagedOnce
    <3>2. CASE q = new
      BY <2>9, <3>2
    <3>3. CASE r = new
      BY <2>9, <3>3
    <3> QED BY <3>1, <3>2, <3>3
  <2> QED BY <2>8, <2>10
<1>5. CASE RaiseNothing(a)
  <2>1. outbox' = outbox /\ queued' = queued
    BY <1>5 DEF RaiseNothing
  <2> QED BY <1>1, <2>1, UntouchedRows, StandingTurn DEF TurnInv
<1> QED BY <1>3, <1>4, <1>5 DEF RaiseAlert

LEMMA TurnStep ==
  ASSUME EvidenceIsNew, OneAgent, TurnInv, PagedOnce, [Next]_vars
  PROVE  TurnInv' /\ PagedOnce'
<1>1. OutboxInv' /\ TypeOK
  BY StepInv DEF TurnInv, OutboxInv
<1>2. CASE \E a \in Agent : RaiseAlert(a)
  <2>1. PICK a \in Agent : RaiseAlert(a)
    BY <1>2
  <2>2. \A b \in Agent : b = a /\ pc'[b] = "drain"
    BY <1>1, <2>1 DEF OneAgent, RaiseAlert, RaiseAgain, RaiseInIncident, RaiseFirst, RaiseNothing,
                      Raised, TypeOK
  <2> QED BY <1>1, <2>1, <2>2, RaiseTurn DEF TurnInv, InTurn
<1>3. CASE RowsStand /\ queued' = queued /\ \E a \in Agent : Judge(a)
  <2>1. PICK a \in Agent : Judge(a)
    BY <1>3
  <2>2. \A b \in Agent : b = a /\ signal'[b].at = ticks'
    <3>1. PICK s : s.at = ticks + 1 /\ signal' = [signal EXCEPT ![a] = s]
      BY <2>1 DEF Judge
    <3> QED BY <1>1, <2>1, <3>1 DEF OneAgent, Judge, TypeOK
  <2> QED BY <1>1, <1>3, <2>2, StandingTurn DEF TurnInv, InTurn
<1>4. CASE /\ RowsStand /\ queued' = queued /\ ticks' = ticks
           /\ \A a \in Agent : pc'[a] = "raise" => pc[a] = "raise" /\ signal'[a] = signal[a]
  BY <1>1, <1>4, StandingTurn DEF TurnInv, InTurn
<1> QED BY <1>1, <1>2, <1>3, <1>4, RaisesOrStands

LEMMA TurnInit == Init => TurnInv /\ PagedOnce
BY InitInv DEF Init, TurnInv, NewestIsWorst, InTurn, PagedOnce

\* While an incident is open nobody is paged twice for one severity, whatever is observed
\* again and however often the process dies (alert-store.ts:6-10): with any number of
\* processes when every reason names its verdict (the replay rule), and with one process
\* whatever a reason may come to mean (the economic rule).
THEOREM NobodyIsPagedTwice == EvidenceIsNew /\ (OneAgent \/ SteadyHere) /\ Spec => []PagedOnce
<1>1. ASSUME EvidenceIsNew, OneAgent
      PROVE  Spec => []PagedOnce
  <2>1. TurnInv /\ PagedOnce /\ [Next]_vars => (TurnInv /\ PagedOnce)'
    BY <1>1, TurnStep
  <2> QED BY <2>1, TurnInit, PTL DEF Spec
<1>2. ASSUME EvidenceIsNew, SteadyHere
      PROVE  Spec => []PagedOnce
  <2>1. OutboxInv => PagedOnce
    <3> SUFFICES ASSUME OutboxInv, NEW r \in outbox, r.key \in queued PROVE Steady(r.key.reason)
      BY DEF PagedOnce, OutboxInv, OnePage
    <3> QED BY <1>2 DEF OutboxInv, TypeOK, Key, Reason, SteadyHere
  <2>2. OutboxInv /\ [Next]_vars => OutboxInv'
    BY <1>2, StepInv
  <2> QED BY <2>1, <2>2, InitInv, PTL DEF Spec
<1> QED BY <1>1, <1>2

\* An acknowledged incident stays muted: it pages again only for a recovery or for
\* something worse than all of it (lifecycle.ts:72-73), under the same conditions.
THEOREM AcknowledgedStaysMuted == EvidenceIsNew /\ (OneAgent \/ SteadyHere) /\ Spec => AckMutes
<1> DEFINE Muted == \A k \in queued' \ queued :
              ( /\ Open(k.reason) # {}
                /\ \A r \in Open(k.reason) : r.state = "acknowledged" )
              => \/ k.to = "OK"
                 \/ \A r \in Open(k.reason) : isEscalation(r.verdict, k.to)
<1>1. ASSUME OutboxInv, OneAgent => TurnInv, OneAgent \/ SteadyHere, [Next]_vars
      PROVE  Muted
  <2> SUFFICES ASSUME NEW k \in queued' \ queued, Open(k.reason) # {}
               PROVE  k.to = "OK" \/ \A r \in Open(k.reason) : isEscalation(r.verdict, k.to)
    OBVIOUS
  <2>1. PICK a \in Agent : RaiseAlert(a)
    BY <1>1, RaisesOrStands DEF OutboxInv
  <2>2. RaiseInIncident(a) \/ RaiseFirst(a)
    <3>1. RaiseAgain(a) => queued' = queued
      BY <1>1, RaisedAgain
    <3>2. RaiseNothing(a) => queued' = queued
      BY DEF RaiseNothing
    <3> QED BY <2>1, <3>1, <3>2 DEF RaiseAlert
  <2>3. pc[a] = "raise" /\ keyOf(a).reason = signal[a].reason /\ keyOf(a).to = signal[a].verdict
    BY <1>1, <2>2, RaiseStart DEF OutboxInv, RaiseInIncident, RaiseFirst
  <2>4. PICK before, after, notify :
           /\ \/ before = None /\ Open(signal[a].reason) = {}
              \/ \E newest \in Newest(Open(signal[a].reason)) : before = alertOf(newest)
           /\ after = fold(before, signal[a].verdict)
           /\ notify = shouldNotify(before, after)
           /\ queued' = IF notify THEN queued \cup {keyOf(a)} ELSE queued
           /\ Steady(signal[a].reason) => (before # None => ~ notify)
    BY <1>1, <2>2, RaisedNew
  <2>5. k = keyOf(a) /\ notify /\ before # None /\ k.reason = signal[a].reason /\ k.to = signal[a].verdict
    <3>1. k = keyOf(a) /\ notify
      BY <2>4
    <3>2. \A r \in Newest(Open(signal[a].reason)) : alertOf(r) # None
      BY <1>1, AlertOfRow DEF Newest, Open, OutboxInv, TypeOK
    <3> QED BY <2>3, <2>4, <3>1, <3>2
  <2>6. ~ SteadyHere
    <3>1. signal[a].reason \in Reason
      BY <1>1, <2>3, RaiseStart DEF OutboxInv, Signal
    <3> QED BY <2>4, <2>5, <3>1 DEF SteadyHere, Reason
  <2>7. \A r \in Open(signal[a].reason) :
             \/ Closes(a, before) /\ signal[a].verdict = "OK"
             \/ SEVERITY[r.verdict] < SEVERITY[signal[a].verdict]
    BY <1>1, <2>3, <2>4, <2>5, <2>6, NewRowWorst
  <2>8. \A r \in Open(signal[a].reason) :
             SEVERITY[r.verdict] \in Int /\ SEVERITY[signal[a].verdict] \in Int
    BY <1>1, <2>3, RaiseStart, Severities DEF Open, OutboxInv, TypeOK, Row
  <2> QED BY <2>5, <2>7, <2>8 DEF isEscalation
<1> HIDE DEF Muted
<1>2. ASSUME EvidenceIsNew, OneAgent
      PROVE  Spec => [][Muted]_vars
  <2>1. TurnInv /\ PagedOnce /\ [Next]_vars => (TurnInv /\ PagedOnce)'
    BY <1>2, TurnStep
  <2>2. TurnInv /\ [Next]_vars => Muted
    BY <1>1, <1>2 DEF TurnInv
  <2> QED BY <2>1, <2>2, TurnInit, PTL DEF Spec
<1>3. ASSUME EvidenceIsNew, SteadyHere, ~ OneAgent
      PROVE  Spec => [][Muted]_vars
  <2>1. OutboxInv /\ [Next]_vars => OutboxInv'
    BY <1>3, StepInv
  <2>2. OutboxInv /\ [Next]_vars => Muted
    BY <1>1, <1>3
  <2> QED BY <2>1, <2>2, InitInv, PTL DEF Spec
<1> QED BY <1>2, <1>3 DEF Muted, AckMutes

---------------------------------------------------------------------------
(* A breach stays open, and its recovery closes it *)

\* The rule whose verdict a new process does not take on trust: the economic one, or
\* any rule of a process that never dies.
NotHydrated == Economic \/ MaxCrashes = 0

\* A step that raises nothing changes a process's verdict only by forgetting it.
LEMMA PreviousStands ==
  ASSUME NotHydrated, TypeOK, [Next]_vars, ~ \E a \in Agent : RaiseAlert(a)
  PROVE  \A a \in Agent : previous'[a] = previous[a] \/ previous'[a] = "NONE"
<1>1. CASE \E a \in Agent : Crash(a)
  <2>1. PICK a \in Agent : Crash(a)
    BY <1>1
  <2>2. Economic
    BY <2>1, OutboxAssumption DEF NotHydrated, Crash, TypeOK
  <2> QED BY <2>1, <2>2 DEF Crash, TypeOK
<1>2. CASE ~ \E a \in Agent : Crash(a)
  <2>1. UNCHANGED previous
    BY <1>2 DEF Next, Step, Judge, NotDue, Lease, Dispatch, Settle, Abort, BecomeDue, Acknowledge,
                locals, vars
  <2> QED BY <2>1
<1> QED BY <1>1, <1>2

LEMMA BreachStep ==
  ASSUME NotHydrated, OneAgent, OutboxInv, BreachStays, [Next]_vars
  PROVE  BreachStays'
<1>1. TypeOK
  BY DEF OutboxInv
<1>2. CASE ~ \E a \in Agent : RaiseAlert(a)
  <2>1. RowsStand /\ \A a \in Agent : previous'[a] = previous[a] \/ previous'[a] = "NONE"
    BY <1>1, <1>2, RaisesOrStands, PreviousStands
  <2> QED BY <2>1 DEF BreachStays, RowsStand, Stands, SameRow
<1>3. CASE \E a \in Agent : RaiseAlert(a)
  <2>1. PICK a \in Agent : RaiseAlert(a)
    BY <1>3
  <2>2. /\ pc[a] = "raise" /\ signal[a].verdict \in Verdict /\ keyOf(a).to = signal[a].verdict
        /\ previous' = [previous EXCEPT ![a] = signal[a].verdict]
    BY <1>1, <2>1, RaiseStart
       DEF RaiseAlert, RaiseAgain, RaiseInIncident, RaiseFirst, RaiseNothing, Raised
  <2>3. \A b \in Agent : b = a /\ previous'[b] = signal[a].verdict
    BY <1>1, <2>2 DEF OneAgent, TypeOK
  <2> SUFFICES ASSUME signal[a].verdict # "OK"
               PROVE  \E r \in outbox' : r.state # "recovered" /\ r.verdict # "OK"
    BY <2>3 DEF BreachStays
  <2>4. CASE RaiseAgain(a)
    <3>1. PICK row, new :
             /\ row \in outbox /\ row.key = keyOf(a) /\ Steady(signal[a].reason) /\ new.key = keyOf(a)
             /\ new.state # "recovered" /\ RowOK(new) /\ RowsWritten(a, new, FALSE)
      BY <2>4, RaisedAgain
    <3>2. new.verdict = signal[a].verdict
      BY <1>1, <2>2, <3>1, RaiseStart DEF RowOK
    <3> QED BY <3>1, <3>2 DEF RowsWritten
  <2>5. CASE RaiseInIncident(a) \/ RaiseFirst(a)
    <3>1. PICK new, before, after, notify :
             /\ \/ before = None
                \/ \E newest \in Newest(Open(signal[a].reason)) : before = alertOf(newest)
             /\ after = fold(before, signal[a].verdict)
             /\ NewRow(a, new, after, IF notify THEN "pending" ELSE "sent")
             /\ RowsWritten(a, new, Closes(a, before))
      BY <2>5, RaisedNew
    <3>2. after.state # "recovered" /\ after.verdict # "OK"
      <4>1. CASE before = None
        BY <2>2, <3>1, <4>1, OpenFacts
      <4>2. CASE \E newest \in Newest(Open(signal[a].reason)) : before = alertOf(newest)
        <5>1. PICK newest \in Newest(Open(signal[a].reason)) : before = alertOf(newest)
          BY <4>2
        <5>2. before \in Alert /\ before.state # "recovered"
          BY <2>2, <5>1, OpenOnce, AlertOfRow
        <5>3. /\ after \in Alert /\ after.state # "recovered"
              /\ SEVERITY[signal[a].verdict] <= SEVERITY[after.verdict]
          BY <2>2, <3>1, <5>2, FoldFacts
        <5>4. after.verdict \in Verdict
          BY <5>3 DEF Alert
        <5> QED BY <2>2, <5>3, <5>4, Severities
      <4> QED BY <3>1, <4>1, <4>2
    <3> QED BY <3>1, <3>2 DEF NewRow, RowsWritten
  <2>6. CASE RaiseNothing(a)
    <3>1. previous[a] \in Verdict \cup {"NONE"} /\ outbox' = outbox
          /\ ~ isEscalation(previous[a], signal[a].verdict)
      BY <1>1, <2>6 DEF RaiseNothing, TypeOK
    <3>2. previous[a] \notin {"NONE", "OK"}
      BY <2>2, <3>1, Severities DEF isEscalation
    <3> QED BY <3>1, <3>2 DEF BreachStays
  <2> QED BY <2>1, <2>4, <2>5, <2>6 DEF RaiseAlert
<1> QED BY <1>2, <1>3

\* A breach that was judged and raised has an open incident behind it, whatever job was
\* cut short since ("a crash can leave an unpaged evaluation for the next outbox pass",
\* runtime.ts:231-233): for one process, and for the rule that is not hydrated.
THEOREM BreachHasIncident == EvidenceIsNew /\ OneAgent /\ NotHydrated /\ Spec => []BreachOpen
<1> SUFFICES ASSUME EvidenceIsNew, OneAgent, NotHydrated PROVE Spec => []BreachOpen
  OBVIOUS
<1>1. OutboxInv /\ BreachStays /\ [Next]_vars => (OutboxInv /\ BreachStays)'
  BY StepInv, BreachStep
<1>2. Init => OutboxInv /\ BreachStays
  BY InitInv DEF Init, BreachStays
<1>3. BreachStays => BreachOpen
  BY DEF BreachStays, BreachOpen
<1> QED BY <1>1, <1>2, <1>3, PTL DEF Spec

\* What a step that raises nothing does to closed rows and to what is leased.
LEMMA RestClosed ==
  ASSUME OutboxInv, ClosedRowsRest, LeasedOpen, [Next]_vars, ~ \E a \in Agent : RaiseAlert(a)
  PROVE  ClosedRowsRest' /\ LeasedOpen'
<1>1. TypeOK /\ RowsStand /\ queued' = queued
  BY RaisesOrStands DEF OutboxInv
<1>2. \/ StatusStands
      \/ \E a \in Agent : Settle(a)
  <2>1. CASE UNCHANGED outbox
    BY <1>1, <2>1, UntouchedRows
  <2>2. CASE \E a \in Agent : Lease(a)
    BY <1>1, <2>2, LeaseTyped
  <2>3. CASE (\E r \in outbox : BecomeDue(r)) \/ \E reason \in Reason : Acknowledge(reason)
    BY <1>1, <2>3, DueRows, AcknowledgeRows
  <2> QED BY <2>1, <2>2, <2>3 DEF Next, Step, Judge, NotDue, Dispatch, Abort, Crash, tables, vars
<1>3. \A q \in outbox' : q.state = "recovered" /\ q.key.to # "OK" => q.status # "pending"
  <2>1. CASE StatusStands
    BY <2>1 DEF StatusStands, Stands, SameRow, ClosedRowsRest
  <2>2. CASE \E a \in Agent : Settle(a)
    <3>1. PICK a \in Agent : Settle(a)
      BY <2>2
    <3> SUFFICES ASSUME NEW q \in outbox', q.state = "recovered", q.key.to # "OK"
                 PROVE  q.status # "pending"
      OBVIOUS
    <3>2. PICK r \in outbox : Stands(r, q) /\
             q.status = IF r.key = report[a].row.key
                        THEN settled(report[a].row.attempts, report[a].reports) ELSE r.status
      BY <1>1, <3>1, SettleTyped
    <3>3. r.key = q.key /\ r.state = "recovered"
      BY <3>2 DEF Stands, SameRow
    <3>4. r.key # report[a].row.key
      BY <1>1, <3>1, <3>3, SettleTyped DEF LeasedOpen
    <3> QED BY <3>2, <3>3, <3>4 DEF ClosedRowsRest
  <2> QED BY <1>2, <2>1, <2>2
<1>4. ClosedRowsRest'
  <2> SUFFICES ASSUME NEW r \in outbox', r.state = "recovered", r.key.to # "OK"
               PROVE  \E q \in outbox' : /\ q.key.reason = r.key.reason /\ q.key.to = "OK"
                                         /\ q.at > r.at /\ q.key \in queued'
    BY <1>3 DEF ClosedRowsRest
  <2>1. PICK s \in outbox : Stands(s, r)
    BY <1>1 DEF RowsStand
  <2>2. PICK p \in outbox : /\ p.key.reason = s.key.reason /\ p.key.to = "OK"
                            /\ p.at > s.at /\ p.key \in queued
    BY <2>1 DEF ClosedRowsRest, Stands, SameRow
  <2>3. PICK q \in outbox' : Stands(p, q)
    BY <1>1 DEF RowsStand
  <2> QED BY <1>1, <2>1, <2>2, <2>3 DEF Stands, SameRow
<1>5. LeasedOpen'
  <2> SUFFICES ASSUME NEW a \in Agent, NEW b \in batch'[a], NEW q \in outbox', q.key = b.key,
                      q.state = "recovered"
               PROVE  q.key.to = "OK"
    BY DEF LeasedOpen
  <2>1. PICK r \in outbox : Stands(r, q)
    BY <1>1 DEF RowsStand
  <2>2. r.key = q.key /\ r.state = "recovered"
    BY <2>1 DEF Stands, SameRow
  <2>3. CASE b \in batch[a]
    BY <2>2, <2>3 DEF LeasedOpen
  <2>4. CASE b \notin batch[a]
    <3>1. \E c \in Agent : Lease(c)
      <4>1. ASSUME NEW c \in Agent, Settle(c) PROVE batch'[a] \subseteq batch[a]
        BY <1>1, <4>1 DEF Settle, TypeOK
      <4>2. ASSUME NEW c \in Agent, Abort(c) \/ Crash(c) PROVE batch'[a] \subseteq batch[a]
        BY <1>1, <4>2 DEF Abort, Crash, TypeOK
      <4>3. ASSUME UNCHANGED batch PROVE batch'[a] \subseteq batch[a]
        BY <4>3
      <4> QED BY <2>4, <4>1, <4>2, <4>3
             DEF Next, Step, Judge, NotDue, Dispatch, BecomeDue, Acknowledge, locals, vars
    <3>2. PICK c \in Agent : Lease(c)
      BY <3>1
    <3>3. PICK take : /\ take \subseteq {x \in outbox : x.status = "pending" /\ x.due}
                      /\ batch' = [batch EXCEPT ![c] =
                           {[key |-> x.key, attempts |-> leased(x).attempts, note |-> x.note] : x \in take}]
      BY <3>2 DEF Lease
    <3>4. PICK x \in take : b = [key |-> x.key, attempts |-> leased(x).attempts, note |-> x.note]
      BY <1>1, <2>4, <3>3 DEF TypeOK
    <3>5. x \in outbox /\ x.status = "pending" /\ x.key = b.key
      BY <3>3, <3>4
    <3>6. x = r
      BY <1>1, <2>2, <3>5 DEF TypeOK
    <3> QED BY <2>2, <3>5, <3>6 DEF ClosedRowsRest
  <2> QED BY <2>3, <2>4
<1> QED BY <1>4, <1>5

LEMMA RaiseClosed ==
  ASSUME OneAgent, TurnInv, ClosedRowsRest, NEW a \in Agent, RaiseAlert(a)
  PROVE  ClosedRowsRest' /\ LeasedOpen'
<1>1. /\ TypeOK /\ OutboxInv /\ pc[a] = "raise" /\ batch' = batch /\ batch[a] = {}
      /\ keyOf(a).reason = signal[a].reason /\ keyOf(a).to = signal[a].verdict
      /\ signal[a].verdict \in Verdict
      /\ \A r \in outbox : r \in Row
  BY RaiseStart DEF TurnInv, OutboxInv, TypeOK, RaiseAlert, RaiseAgain, RaiseInIncident,
                    RaiseFirst, RaiseNothing, Raised
<1>2. \A r \in outbox : r.at \in Int /\ r.at < signal[a].at
  <2>1. signal[a].at = ticks /\ SignalOK(a)
    BY <1>1 DEF TurnInv, InTurn, OutboxInv
  <2> QED BY <1>1, <2>1 DEF OutboxInv, RowOK, SignalOK, Row, TypeOK
<1>3. LeasedOpen'
  <2>1. \A b \in Agent : batch'[b] = {}
    BY <1>1 DEF OneAgent
  <2> QED BY <2>1 DEF LeasedOpen
<1>4. CASE RaiseAgain(a)
  <2>1. PICK row, new :
           /\ row \in outbox /\ row.key = keyOf(a) /\ new.key = keyOf(a) /\ new.at = signal[a].at
           /\ new.state # "recovered" /\ RowsWritten(a, new, FALSE) /\ queued' = queued
    BY <1>1, <1>4, RaisedAgain
  <2>2. \A q \in outbox' : q = new \/ q \in outbox
    BY <2>1 DEF RowsWritten, Follows
  <2>3. \A r \in outbox : r.key # keyOf(a) => r \in outbox'
    BY <2>1 DEF RowsWritten, Follows
  <2>4. \A r \in outbox : r.key = keyOf(a) => r = row
    BY <1>1, <2>1 DEF TypeOK
  <2>5. ASSUME NEW r \in outbox', r.state = "recovered", r.key.to # "OK"
        PROVE  /\ r.status # "pending"
               /\ \E q \in outbox' : /\ q.key.reason = r.key.reason /\ q.key.to = "OK"
                                     /\ q.at > r.at /\ q.key \in queued'
    <3>1. r \in outbox
      BY <2>1, <2>2, <2>5
    <3>2. r.status # "pending"
      BY <2>5, <3>1 DEF ClosedRowsRest
    <3>3. PICK p \in outbox : /\ p.key.reason = r.key.reason /\ p.key.to = "OK"
                              /\ p.at > r.at /\ p.key \in queued
      BY <2>5, <3>1 DEF ClosedRowsRest
    <3>4. CASE p.key = keyOf(a)
      <4>1. new.at > r.at /\ new \in outbox' /\ new.key = p.key
        BY <1>2, <2>1, <3>1, <3>4 DEF RowsWritten
      <4> QED BY <2>1, <3>2, <3>3, <4>1
    <3>5. CASE p.key # keyOf(a)
      BY <2>1, <2>3, <3>2, <3>3, <3>5
    <3> QED BY <3>4, <3>5
  <2> QED BY <1>3, <2>5 DEF ClosedRowsRest
<1>5. CASE RaiseInIncident(a) \/ RaiseFirst(a)
  <2>1. PICK new, before, after, notify :
           /\ \/ before = None /\ Open(signal[a].reason) = {}
              \/ \E newest \in Newest(Open(signal[a].reason)) : before = alertOf(newest)
           /\ after = fold(before, signal[a].verdict)
           /\ notify = shouldNotify(before, after)
           /\ NewRow(a, new, after, IF notify THEN "pending" ELSE "sent")
           /\ RowsWritten(a, new, Closes(a, before))
           /\ queued' = IF notify THEN queued \cup {keyOf(a)} ELSE queued
           /\ \A row \in outbox : row.key # keyOf(a)
    BY <1>1, <1>5, RaisedNew
  <2>2. new.key = keyOf(a) /\ new.at = signal[a].at /\ new.state = after.state /\ new \in outbox'
    BY <2>1 DEF NewRow, RowsWritten
  <2>3. /\ Closes(a, before) => signal[a].verdict = "OK" /\ keyOf(a) \in queued'
        /\ ~ Closes(a, before) => after.state # "recovered"
    <3>1. CASE before = None
      BY <1>1, <2>1, <3>1, OpenFacts DEF Closes
    <3>2. CASE \E newest \in Newest(Open(signal[a].reason)) : before = alertOf(newest)
      <4>1. PICK newest \in Newest(Open(signal[a].reason)) : before = alertOf(newest)
        BY <3>2
      <4>2. before \in Alert /\ before # None /\ before.state # "recovered"
        BY <1>1, <4>1, OpenOnce, AlertOfRow
      <4> QED BY <1>1, <2>1, <4>2, FoldFacts DEF Closes
    <3> QED BY <2>1, <3>1, <3>2
  <2>4. \A q \in outbox' : q = new \/ \E r \in outbox : Follows(a, Closes(a, before), r, q)
    BY <2>1 DEF RowsWritten
  <2>5. \A r \in outbox : \E q \in outbox' : q.key = r.key /\ q.at = r.at
    BY <2>1 DEF RowsWritten, Follows, SameRow
  <2>6. ASSUME NEW q \in outbox', q.state = "recovered", q.key.to # "OK"
        PROVE  /\ q.status # "pending"
               /\ \E p \in outbox' : /\ p.key.reason = q.key.reason /\ p.key.to = "OK"
                                     /\ p.at > q.at /\ p.key \in queued'
    <3>1. q # new
      BY <1>1, <2>2, <2>3, <2>6
    <3>2. PICK r \in outbox : Follows(a, Closes(a, before), r, q)
      BY <2>4, <3>1
    <3>3. q.key = r.key /\ q.at = r.at
      BY <3>2 DEF Follows, SameRow
    <3>4. CASE r.state = "recovered"
      <4>1. q.status = r.status
        BY <3>2, <3>4 DEF Follows, ClosedTo
      <4>2. PICK s \in outbox : /\ s.key.reason = r.key.reason /\ s.key.to = "OK"
                                /\ s.at > r.at /\ s.key \in queued
        BY <2>6, <3>3, <3>4 DEF ClosedRowsRest
      <4>3. PICK p \in outbox' : p.key = s.key /\ p.at = s.at
        BY <2>5
      <4>4. s.key \in queued'
        BY <2>1, <4>2
      <4> QED BY <2>6, <3>3, <3>4, <4>1, <4>2, <4>3, <4>4 DEF ClosedRowsRest
    <3>5. CASE r.state # "recovered"
      <4>1. Closes(a, before) /\ r.key.reason = signal[a].reason /\ q.status # "pending"
        BY <2>6, <3>2, <3>5 DEF Follows, ClosedTo
      <4>2. new.at > q.at
        BY <1>2, <2>2, <3>3
      <4> QED BY <1>1, <2>2, <2>3, <3>3, <4>1, <4>2
    <3> QED BY <3>4, <3>5
  <2> QED BY <1>3, <2>6 DEF ClosedRowsRest
<1>6. CASE RaiseNothing(a)
  BY <1>3, <1>6 DEF RaiseNothing, ClosedRowsRest
<1> QED BY <1>1, <1>4, <1>5, <1>6 DEF RaiseAlert

\* An OK leaves no breach open in the incident that it recovers.
LEMMA OkStep ==
  ASSUME NotHydrated, OneAgent, OneOk, TurnInv, OkStands, [Next]_vars
  PROVE  OkStands'
<1>1. TypeOK /\ OutboxInv /\ \A r \in outbox : r \in Row /\ RowOK(r)
  BY DEF TurnInv, OutboxInv, TypeOK
<1>2. CASE ~ \E a \in Agent : RaiseAlert(a)
  <2>1. RowsStand /\ \A a \in Agent : previous'[a] = previous[a] \/ previous'[a] = "NONE"
    BY <1>1, <1>2, RaisesOrStands, PreviousStands
  <2> QED BY <2>1 DEF OkStands, RowsStand, Stands, SameRow
<1>3. CASE \E a \in Agent : RaiseAlert(a)
  <2>1. PICK a \in Agent : RaiseAlert(a)
    BY <1>3
  <2>2. /\ pc[a] = "raise" /\ signal[a].verdict \in Verdict /\ keyOf(a).to = signal[a].verdict
        /\ keyOf(a).reason = signal[a].reason /\ SignalOK(a)
        /\ previous' = [previous EXCEPT ![a] = signal[a].verdict]
    BY <1>1, <2>1, RaiseStart
       DEF OutboxInv, RaiseAlert, RaiseAgain, RaiseInIncident, RaiseFirst, RaiseNothing, Raised
  <2>3. \A b \in Agent : b = a /\ previous'[b] = signal[a].verdict
    BY <1>1, <2>2 DEF OneAgent, TypeOK
  <2> SUFFICES ASSUME signal[a].verdict = "OK", NEW q \in outbox', q.key.reason \in OkReason,
                      q.state # "recovered"
               PROVE  q.verdict = "OK"
    BY <2>3 DEF OkStands
  <2>4. q.key.reason = signal[a].reason
    <3>1. PICK o \in Observation : o.reason = signal[a].reason /\ o.verdict = "OK"
      BY <2>2 DEF SignalOK, Judged
    <3>2. PICK p \in Observation : p.reason = q.key.reason /\ p.verdict = "OK"
      BY DEF OkReason
    <3> QED BY <3>1, <3>2 DEF OneOk
  <2>5. CASE RaiseAgain(a)
    <3>1. PICK row, new :
             /\ row \in outbox /\ row.key = keyOf(a) /\ Steady(signal[a].reason) /\ new.verdict = row.verdict
             /\ RowOK(row) /\ RowsWritten(a, new, FALSE)
      BY <1>1, <2>5, RaisedAgain
    <3>2. row.verdict = "OK"
      BY <2>2, <3>1 DEF RowOK
    <3>3. q = new \/ q \in outbox
      BY <3>1 DEF RowsWritten, Follows
    <3>4. CASE q \in outbox
      <4>1. q.key.reason = row.key.reason /\ Steady(q.key.reason)
        BY <2>2, <2>4, <3>1, <3>4
      <4> QED BY <1>1, <3>1, <3>2, <3>4, <4>1, SteadyRows
    <3> QED BY <3>1, <3>2, <3>3, <3>4
  <2>6. CASE RaiseInIncident(a) \/ RaiseFirst(a)
    <3>1. PICK new, before, after, notify :
             /\ \/ before = None /\ Open(signal[a].reason) = {}
                \/ \E newest \in Newest(Open(signal[a].reason)) : before = alertOf(newest)
             /\ after = fold(before, signal[a].verdict)
             /\ NewRow(a, new, after, IF notify THEN "pending" ELSE "sent")
             /\ RowsWritten(a, new, Closes(a, before))
             /\ RowOK(new)
      BY <1>1, <2>6, RaisedNew
    <3>2. q # new => \E r \in outbox : Follows(a, Closes(a, before), r, q)
      BY <3>1 DEF RowsWritten
    <3>3. CASE q = new
      BY <2>2, <3>1, <3>3 DEF RowOK, NewRow
    <3>4. CASE q # new
      <4>1. PICK r \in outbox : Follows(a, Closes(a, before), r, q)
        BY <3>2, <3>4
      <4>2. ~ Closes(a, before) /\ q = r
        BY <2>4, <4>1 DEF Follows, ClosedTo, SameRow
      <4>3. q \in Open(signal[a].reason)
        BY <2>4, <4>2 DEF Open
      <4>4. PICK newest \in Newest(Open(signal[a].reason)) : before = alertOf(newest)
        BY <3>1, <4>3
      <4>5. /\ newest \in outbox /\ newest \in Row /\ newest.key.reason = signal[a].reason
            /\ newest.state # "recovered" /\ q.at <= newest.at
        BY <1>1, <2>2, <4>3, <4>4, OpenOnce
      <4>6. before \in Alert /\ before # None /\ before.verdict = newest.verdict
        BY <4>4, <4>5, AlertOfRow
      <4>7. newest.verdict = "OK"
        BY <2>2, <4>2, <4>6, FoldFacts DEF Closes
      <4>8. SEVERITY[q.verdict] <= SEVERITY[newest.verdict]
        BY <2>4, <4>2, <4>5 DEF TurnInv, NewestIsWorst
      <4>9. q.verdict \in Verdict
        BY <1>1, <4>2 DEF Row
      <4> QED BY <4>7, <4>8, <4>9, Severities
    <3> QED BY <3>3, <3>4
  <2>7. CASE RaiseNothing(a)
    BY <2>4, <2>7 DEF RaiseNothing, Open
  <2> QED BY <2>1, <2>5, <2>6, <2>7 DEF RaiseAlert
<1> QED BY <1>2, <1>3

LEMMA EconomicInit == Init => EconomicInv
BY TurnInit DEF Init, EconomicInv, ClosedRowsRest, LeasedOpen, OkStands

LEMMA EconomicStep ==
  ASSUME EvidenceIsNew, NotHydrated, OneAgent, OneOk, EconomicInv, [Next]_vars
  PROVE  EconomicInv'
<1>1. TurnInv' /\ PagedOnce' /\ OkStands'
  BY TurnStep, OkStep DEF EconomicInv
<1>2. ClosedRowsRest' /\ LeasedOpen'
  <2>1. CASE \E a \in Agent : RaiseAlert(a)
    BY <2>1, RaiseClosed DEF EconomicInv
  <2>2. CASE ~ \E a \in Agent : RaiseAlert(a)
    BY <2>2, RestClosed DEF EconomicInv, TurnInv
  <2> QED BY <2>1, <2>2
<1> QED BY <1>1, <1>2 DEF EconomicInv

\* Once a judgement of OK is raised no breach of its incident stays open ("recovery closes
\* every open row of the incident"), and a closed breach is never pending again, not even
\* when it is settled, and has its recovery queued after it: for one process that is not
\* hydrated, and one reason of an OK.  Breaches may have reasons of their own.
THEOREM RecoveryClosesIncident ==
  EvidenceIsNew /\ OneAgent /\ OneOk /\ NotHydrated /\ Spec => []RecoveryCloses
<1> SUFFICES ASSUME EvidenceIsNew, OneAgent, OneOk, NotHydrated PROVE Spec => []RecoveryCloses
  OBVIOUS
<1>1. EconomicInv /\ [Next]_vars => EconomicInv'
  BY EconomicStep
<1>2. EconomicInv => RecoveryCloses
  BY DEF EconomicInv, OkStands, ClosedRowsRest, RecoveryCloses
<1> QED BY <1>1, <1>2, EconomicInit, PTL DEF Spec

---------------------------------------------------------------------------
(* A worsening pages *)

\* What has escalated is no OK.
EscalatedIsWorse == \A r \in outbox : r.state = "escalated" => r.verdict # "OK"

LEMMA FoldEscalates ==
  ASSUME NEW before \in Alert, NEW to \in Verdict
  PROVE  LET after == fold(before, to) IN
         /\ after.state = "escalated" => after.verdict # "OK" \/ (before.state = "escalated" /\ before.verdict = "OK")
         /\ before.verdict = "OK" /\ to # "OK" /\ before.state # "escalated" => shouldNotify(before, after)
<1>1. before # None /\ before.verdict \in Verdict /\ before.state \in States
  BY OutboxAssumption DEF Alert
<1>2. CASE isRecovery(before.verdict, to)
  <2>1. fold(before, to).state = "recovered"
    BY <1>2, FoldFacts
  <2> QED BY <1>2, <2>1, FoldFacts
<1>3. CASE ~ isRecovery(before.verdict, to)
  <2> DEFINE worse == isEscalation(before.verdict, to)
  <2>1. PICK state : state = IF worse THEN "escalated"
                             ELSE IF before.state = "first_seen" THEN "repeated" ELSE before.state
    OBVIOUS
  <2>2. PICK verdict : verdict = IF worse THEN to ELSE before.verdict
    OBVIOUS
  <2>3. fold(before, to) = [before EXCEPT !.state = state, !.verdict = verdict]
    BY <1>1, <1>3, <2>1, <2>2 DEF fold, observe
  <2>4. fold(before, to).state = state /\ fold(before, to).verdict = verdict
    BY <2>3 DEF Alert
  <2>5. worse <=> SEVERITY[to] > SEVERITY[before.verdict]
    BY DEF isEscalation
  <2>6. worse => to # "OK"
    BY <1>1, <2>5, Severities
  <2>7. before.verdict = "OK" /\ to # "OK" => worse
    BY <2>5, Severities
  <2>8. PICK after : after = fold(before, to)
    OBVIOUS
  <2>9. after.state = "escalated" /\ before.state # "escalated" => shouldNotify(before, after)
    BY <1>1 DEF shouldNotify
  <2>10. after.state = state /\ after.verdict = verdict
    BY <2>4, <2>8
  <2>11. after.state = "escalated" =>
           after.verdict # "OK" \/ (before.state = "escalated" /\ before.verdict = "OK")
    <3> HIDE DEF worse
    <3>1. CASE worse
      BY <2>2, <2>6, <2>10, <3>1
    <3>2. CASE ~ worse
      BY <2>1, <2>2, <2>10, <3>2
    <3> QED BY <3>1, <3>2
  <2>12. before.verdict = "OK" /\ to # "OK" /\ before.state # "escalated" => shouldNotify(before, after)
    BY <2>1, <2>7, <2>9, <2>10
  <2> QED BY <2>8, <2>11, <2>12
<1> QED BY <1>2, <1>3

LEMMA EscalatedStep ==
  ASSUME OutboxInv, EscalatedIsWorse, [Next]_vars
  PROVE  EscalatedIsWorse'
<1>1. TypeOK
  BY DEF OutboxInv
<1>2. CASE ~ \E a \in Agent : RaiseAlert(a)
  BY <1>1, <1>2, RaisesOrStands DEF EscalatedIsWorse, RowsStand, Stands, SameRow
<1>3. CASE \E a \in Agent : RaiseAlert(a)
  <2>1. PICK a \in Agent : RaiseAlert(a)
    BY <1>3
  <2>2. pc[a] = "raise" /\ signal[a].verdict \in Verdict
    BY <1>1, <2>1, RaiseStart DEF RaiseAlert, RaiseAgain, RaiseInIncident, RaiseFirst, RaiseNothing
  <2> SUFFICES ASSUME ~ RaiseNothing(a)
               PROVE  EscalatedIsWorse'
    BY DEF RaiseNothing, EscalatedIsWorse
  <2>3. PICK new, before, after, closes, status :
           /\ before = None \/ (before \in Alert /\ \E row \in outbox : before = alertOf(row))
           /\ after = fold(before, signal[a].verdict)
           /\ NewRow(a, new, after, status) /\ RowsWritten(a, new, closes)
    <3>1. PICK existing, before :
             /\ existing = None \/ existing \in Row
             /\ before = None \/ (before \in Alert /\ \E row \in outbox : before = alertOf(row))
             /\ Write(a, existing, before)
      <4>1. \A row \in outbox : row \in Row /\ alertOf(row) \in Alert
        BY <1>1, AlertOfRow DEF TypeOK
      <4>2. CASE RaiseAgain(a)
        BY <4>1, <4>2 DEF RaiseAgain
      <4>3. CASE RaiseInIncident(a)
        BY <4>1, <4>3 DEF RaiseInIncident, Newest, Open
      <4>4. CASE RaiseFirst(a)
        <5>1. Write(a, None, None)
          BY <4>4 DEF RaiseFirst
        <5> QED BY <5>1, Zenon
      <4> QED BY <2>1, <4>2, <4>3, <4>4 DEF RaiseAlert
    <3> QED BY <1>1, <2>2, <3>1, WrittenRows
  <2>4. new.state = "escalated" => new.verdict # "OK"
    <3>1. CASE before = None
      BY <2>2, <2>3, <3>1, OpenFacts DEF NewRow
    <3>2. CASE before \in Alert /\ \E row \in outbox : before = alertOf(row)
      <4>1. before.state = "escalated" => before.verdict # "OK"
        BY <1>1, <3>2, AlertOfRow DEF EscalatedIsWorse, TypeOK
      <4> QED BY <2>2, <2>3, <3>2, <4>1, FoldEscalates DEF NewRow
    <3> QED BY <2>3, <3>1, <3>2
  <2>5. \A q \in outbox' : q = new \/ \E r \in outbox : Follows(a, closes, r, q)
    BY <2>3 DEF RowsWritten
  <2>6. \A r \in outbox : \A q : Follows(a, closes, r, q) =>
          q.verdict = r.verdict /\ (q.state = r.state \/ q.state = "recovered")
    BY DEF Follows, ClosedTo, SameRow
  <2> QED BY <2>4, <2>5, <2>6 DEF EscalatedIsWorse
<1> QED BY <1>2, <1>3

\* An open breach has a page behind it that is as open as itself.
IncidentPaged ==
  \A r \in outbox : r.state # "recovered" /\ r.verdict # "OK" =>
    \E q \in outbox : /\ q.key.reason = r.key.reason
                      /\ q.state # "recovered" /\ q.verdict # "OK" /\ q.key \in queued

LEMMA PagedStep ==
  ASSUME OutboxInv, EscalatedIsWorse, IncidentPaged, [Next]_vars
  PROVE  IncidentPaged'
<1>1. TypeOK
  BY DEF OutboxInv
<1>2. CASE ~ \E a \in Agent : RaiseAlert(a)
  <2>1. RowsStand /\ queued' = queued
    BY <1>1, <1>2, RaisesOrStands
  <2> QED BY <2>1 DEF IncidentPaged, RowsStand, Stands, SameRow
<1>3. CASE \E a \in Agent : RaiseAlert(a)
  <2>1. PICK a \in Agent : RaiseAlert(a)
    BY <1>3
  <2>2. /\ pc[a] = "raise" /\ signal[a].verdict \in Verdict
        /\ keyOf(a).reason = signal[a].reason /\ keyOf(a).to = signal[a].verdict
    BY <1>1, <2>1, RaiseStart DEF RaiseAlert, RaiseAgain, RaiseInIncident, RaiseFirst, RaiseNothing
  <2>3. CASE RaiseNothing(a)
    BY <2>3 DEF RaiseNothing, IncidentPaged
  <2>4. CASE RaiseAgain(a)
    <3>1. PICK row, new :
             /\ row \in outbox /\ row.key = keyOf(a) /\ new.key = keyOf(a) /\ new.verdict = row.verdict
             /\ row.state # "recovered" /\ new.state # "recovered"
             /\ RowsWritten(a, new, FALSE) /\ queued' = queued
      BY <2>4, RaisedAgain
    <3>2. \A p \in outbox' : p = new \/ p \in outbox
      BY <3>1 DEF RowsWritten, Follows
    <3>3. \A q \in outbox : q.key # keyOf(a) => q \in outbox'
      BY <3>1 DEF RowsWritten, Follows
    <3>4. \A q \in outbox : q.key = keyOf(a) => q = row
      BY <1>1, <3>1 DEF TypeOK
    <3>5. \A p \in outbox' : \E r \in outbox :
             /\ r.key = p.key /\ r.verdict = p.verdict
             /\ p.state # "recovered" => r.state # "recovered"
      BY <3>1, <3>2
    <3>6. \A q \in outbox : \E p \in outbox' :
             /\ p.key = q.key /\ p.verdict = q.verdict
             /\ q.state # "recovered" => p.state # "recovered"
      BY <3>1, <3>3, <3>4 DEF RowsWritten
    <3> SUFFICES ASSUME NEW p \in outbox', p.state # "recovered", p.verdict # "OK"
                 PROVE  \E q \in outbox' : /\ q.key.reason = p.key.reason
                                           /\ q.state # "recovered" /\ q.verdict # "OK" /\ q.key \in queued'
      BY DEF IncidentPaged
    <3>7. PICK r \in outbox : r.key = p.key /\ r.verdict # "OK" /\ r.state # "recovered"
      BY <3>5
    <3>8. PICK s \in outbox : /\ s.key.reason = r.key.reason
                              /\ s.state # "recovered" /\ s.verdict # "OK" /\ s.key \in queued
      BY <3>7 DEF IncidentPaged
    <3>9. PICK q \in outbox' : q.key = s.key /\ q.verdict = s.verdict /\ q.state # "recovered"
      BY <3>6, <3>8
    <3> QED BY <3>1, <3>7, <3>8, <3>9
  <2>5. CASE RaiseInIncident(a) \/ RaiseFirst(a)
    <3>1. PICK new, before, after, notify :
             /\ \/ before = None
                \/ \E newest \in Newest(Open(signal[a].reason)) : before = alertOf(newest)
             /\ after \in Alert /\ after = fold(before, signal[a].verdict)
             /\ notify = shouldNotify(before, after)
             /\ NewRow(a, new, after, IF notify THEN "pending" ELSE "sent")
             /\ RowsWritten(a, new, Closes(a, before))
             /\ queued' = IF notify THEN queued \cup {keyOf(a)} ELSE queued
             /\ \A row \in outbox : row.key # keyOf(a)
             /\ RowOK(new)
      BY <2>5, RaisedNew
    <3>2. /\ new \in outbox' /\ new.key = keyOf(a) /\ new.state = after.state
          /\ new.verdict = after.verdict
      BY <3>1 DEF NewRow, RowsWritten
    <3>3. signal[a].verdict = "OK" => new.verdict = "OK"
      BY <2>2, <3>1, <3>2 DEF RowOK
    <3>4. \A p \in outbox' : p = new \/ \E r \in outbox : Follows(a, Closes(a, before), r, p)
      BY <3>1 DEF RowsWritten
    <3>5. \A q \in outbox : \E p \in outbox' : Follows(a, Closes(a, before), q, p)
      BY <3>1 DEF RowsWritten
    <3>6. CASE Closes(a, before)
      <4>1. signal[a].verdict = "OK"
        BY <3>6 DEF Closes, isRecovery
      <4>2. ASSUME NEW r, NEW p, Follows(a, Closes(a, before), r, p)
            PROVE  /\ p.key = r.key /\ p.verdict = r.verdict
                   /\ IF r.key.reason = signal[a].reason THEN p.state = "recovered" ELSE p.state = r.state
        BY <3>6, <4>2 DEF Follows, ClosedTo, SameRow
      <4>3. ASSUME NEW p \in outbox', p.state # "recovered", p.verdict # "OK"
            PROVE  \E q \in outbox' : /\ q.key.reason = p.key.reason
                                      /\ q.state # "recovered" /\ q.verdict # "OK" /\ q.key \in queued'
        <5>1. PICK r \in outbox : Follows(a, Closes(a, before), r, p)
          BY <3>3, <3>4, <4>1, <4>3
        <5>2. /\ r.key = p.key /\ r.key.reason # signal[a].reason
              /\ r.state # "recovered" /\ r.verdict # "OK"
          BY <4>2, <4>3, <5>1
        <5>3. PICK s \in outbox : /\ s.key.reason = r.key.reason
                                  /\ s.state # "recovered" /\ s.verdict # "OK" /\ s.key \in queued
          BY <5>2 DEF IncidentPaged
        <5>4. PICK q \in outbox' : Follows(a, Closes(a, before), s, q)
          BY <3>5
        <5>5. q.key = s.key /\ q.state # "recovered" /\ q.verdict # "OK"
          BY <4>2, <5>2, <5>3, <5>4
        <5> QED BY <3>1, <5>2, <5>3, <5>5
      <4> QED BY <4>3 DEF IncidentPaged
    <3>7. CASE ~ Closes(a, before)
      <4>1. \A p \in outbox' : p = new \/ p \in outbox
        BY <3>4, <3>7 DEF Follows
      <4>2. \A q \in outbox : q \in outbox'
        BY <3>5, <3>7 DEF Follows
      <4>3. \A k \in queued : k \in queued'
        BY <3>1
      <4>4. ASSUME new.state # "recovered", new.verdict # "OK"
            PROVE  \E q \in outbox' : /\ q.key.reason = new.key.reason
                                      /\ q.state # "recovered" /\ q.verdict # "OK" /\ q.key \in queued'
        <5>1. CASE before = None
          <6>1. notify
            BY <2>2, <3>1, <5>1, OpenFacts
          <6> QED BY <3>1, <3>2, <4>4, <6>1
        <5>2. CASE \E newest \in Newest(Open(signal[a].reason)) : before = alertOf(newest)
          <6>1. PICK newest \in Newest(Open(signal[a].reason)) : before = alertOf(newest)
            BY <5>2
          <6>2. /\ newest \in outbox /\ newest \in Row /\ newest.state # "recovered"
                /\ newest.key.reason = signal[a].reason
            BY <2>2, <6>1, OpenOnce
          <6>3. before \in Alert /\ before.verdict = newest.verdict /\ before.state = newest.state
            BY <6>1, <6>2, AlertOfRow
          <6>4. CASE newest.verdict = "OK"
            <7>1. before.state # "escalated" /\ signal[a].verdict # "OK"
              BY <3>3, <4>4, <6>2, <6>3, <6>4 DEF EscalatedIsWorse
            <7>2. notify
              BY <2>2, <3>1, <6>3, <6>4, <7>1, FoldEscalates
            <7> QED BY <3>1, <3>2, <4>4, <7>2
          <6>5. CASE newest.verdict # "OK"
            <7>1. PICK q \in outbox : /\ q.key.reason = newest.key.reason
                                      /\ q.state # "recovered" /\ q.verdict # "OK" /\ q.key \in queued
              BY <6>2, <6>5 DEF IncidentPaged
            <7> QED BY <2>2, <3>2, <4>2, <4>3, <6>2, <7>1
          <6> QED BY <6>4, <6>5
        <5> QED BY <3>1, <5>1, <5>2
      <4> QED BY <4>1, <4>2, <4>3, <4>4 DEF IncidentPaged
    <3> QED BY <3>6, <3>7
  <2> QED BY <2>1, <2>3, <2>4, <2>5 DEF RaiseAlert
<1> QED BY <1>2, <1>3

\* A worsening is raised: its incident is open.
LEMMA WorseOpens ==
  ASSUME OutboxInv, NEW a \in Agent, RaiseAlert(a), signal[a].verdict # "OK",
         isEscalation(previous[a], signal[a].verdict)
  PROVE  \E r \in outbox' : /\ r.key.reason = signal[a].reason
                            /\ r.state # "recovered" /\ r.verdict # "OK"
<1>1. /\ TypeOK /\ pc[a] = "raise" /\ signal[a].verdict \in Verdict
      /\ keyOf(a).reason = signal[a].reason /\ keyOf(a).to = signal[a].verdict
  BY RaiseStart DEF OutboxInv, RaiseAlert, RaiseAgain, RaiseInIncident, RaiseFirst, RaiseNothing
<1>2. CASE RaiseAgain(a)
  <2>1. PICK row, new :
           /\ row \in outbox /\ row.key = keyOf(a) /\ Steady(signal[a].reason) /\ new.key = keyOf(a)
           /\ new.state # "recovered" /\ RowOK(new) /\ RowsWritten(a, new, FALSE)
    BY <1>2, RaisedAgain
  <2>2. new.verdict = signal[a].verdict
    BY <1>1, <2>1 DEF RowOK
  <2> QED BY <1>1, <2>1, <2>2 DEF RowsWritten
<1>3. CASE RaiseInIncident(a) \/ RaiseFirst(a)
  <2>1. PICK new, before, after, notify :
           /\ \/ before = None
              \/ \E newest \in Newest(Open(signal[a].reason)) : before = alertOf(newest)
           /\ after \in Alert /\ after = fold(before, signal[a].verdict)
           /\ NewRow(a, new, after, IF notify THEN "pending" ELSE "sent")
           /\ RowsWritten(a, new, Closes(a, before))
    BY <1>3, RaisedNew
  <2>2. after.state # "recovered" /\ after.verdict # "OK"
    <3>1. CASE before = None
      BY <1>1, <2>1, <3>1, OpenFacts
    <3>2. CASE \E newest \in Newest(Open(signal[a].reason)) : before = alertOf(newest)
      <4>1. PICK newest \in Newest(Open(signal[a].reason)) : before = alertOf(newest)
        BY <3>2
      <4>2. before \in Alert /\ before.state # "recovered"
        BY <1>1, <4>1, OpenOnce, AlertOfRow
      <4>3. after.state # "recovered" /\ SEVERITY[signal[a].verdict] <= SEVERITY[after.verdict]
        BY <1>1, <2>1, <4>2, FoldFacts
      <4>4. after.verdict \in Verdict
        BY <2>1 DEF Alert
      <4> QED BY <1>1, <4>3, <4>4, Severities
    <3> QED BY <2>1, <3>1, <3>2
  <2> QED BY <1>1, <2>1, <2>2 DEF NewRow, RowsWritten
<1>4. ~ RaiseNothing(a)
  BY DEF RaiseNothing
<1> QED BY <1>2, <1>3, <1>4 DEF RaiseAlert

\* A worsening is never swallowed: once a judgement worse than the last one is raised, its
\* incident is open and somebody was queued to be paged about a breach of it, now or while
\* it was open (lifecycle.ts:104-114): for any number of processes, whatever is hydrated,
\* and whatever reasons breaches and recoveries share.
THEOREM WorseningPages == EvidenceIsNew /\ Spec => WorsePages
<1> SUFFICES ASSUME EvidenceIsNew PROVE Spec => WorsePages
  OBVIOUS
<1> DEFINE Inv == OutboxInv /\ EscalatedIsWorse /\ IncidentPaged
           Pages == \A a \in Agent : Worsens(a) => IncidentPages(signal[a].reason)
<1>1. Inv /\ [Next]_vars => Inv'
  BY StepInv, EscalatedStep, PagedStep
<1>2. Init => Inv
  BY InitInv DEF Init, EscalatedIsWorse, IncidentPaged
<1>3. ASSUME Inv, [Next]_vars PROVE Pages
  <2> SUFFICES ASSUME NEW a \in Agent, Worsens(a) PROVE IncidentPages(signal[a].reason)
    OBVIOUS
  <2>1. /\ TypeOK /\ pc[a] = "raise" /\ pc'[a] = "drain"
        /\ signal[a].verdict # "OK" /\ isEscalation(previous[a], signal[a].verdict)
    BY <1>3 DEF OutboxInv, Worsens
  <2>2. RaiseAlert(a)
    <3>1. ASSUME NEW b \in Agent, Raised(b) PROVE b = a
      BY <2>1, <3>1 DEF Raised, TypeOK
    <3>2. ASSUME NEW b \in Agent, RaiseAlert(b) PROVE b = a
      BY <3>1, <3>2 DEF RaiseAlert, RaiseAgain, RaiseInIncident, RaiseFirst, RaiseNothing
    <3>3. ASSUME NEW b \in Agent, Judge(b) \/ NotDue(b) PROVE FALSE
      BY <2>1, <3>3 DEF Judge, NotDue, TypeOK
    <3>4. ASSUME NEW b \in Agent, Lease(b) \/ Dispatch(b) \/ Settle(b) PROVE FALSE
      BY <2>1, <3>4 DEF Lease, Dispatch, Settle, TypeOK
    <3>5. ASSUME NEW b \in Agent, Abort(b) \/ Crash(b) PROVE FALSE
      BY <2>1, <3>5 DEF Abort, Crash, TypeOK
    <3>6. UNCHANGED pc => FALSE
      BY <2>1
    <3> QED BY <1>3, <3>2, <3>3, <3>4, <3>5, <3>6
           DEF Next, Step, BecomeDue, Acknowledge, locals, vars
  <2>3. PICK r \in outbox' : /\ r.key.reason = signal[a].reason
                             /\ r.state # "recovered" /\ r.verdict # "OK"
    BY <1>3, <2>1, <2>2, WorseOpens
  <2>4. IncidentPaged'
    BY <1>3, PagedStep
  <2> QED BY <2>3, <2>4 DEF IncidentPaged, IncidentPages
<1> HIDE DEF Inv, Pages
<1>4. Inv /\ [Next]_vars => Pages
  BY <1>3
<1>5. Spec => [][Pages]_vars
  BY <1>1, <1>2, <1>4, PTL DEF Spec
<1> QED BY <1>5 DEF Pages, WorsePages
=============================================================================
