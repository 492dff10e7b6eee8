---------------------------- MODULE HostedProofs ----------------------------
(***************************************************************************)
(* The agent and the hosted plane, for every set of lanes, tokens and      *)
(* deployments, every request a client may send and every bound on faults: *)
(* what an answer says of the tables behind it, what the readiness probe   *)
(* says of the lanes, and what an alert or a mirrored record stands on.    *)
(***************************************************************************)
EXTENDS AgentTick, FiniteSetTheorems, NaturalsInduction, WellFoundedInduction, TLAPS

\* An ask is a record with a kind.
IsAsk(ask) == /\ ask = [f \in DOMAIN ask |-> ask[f]]
              /\ "kind" \in DOMAIN ask

\* The id under which the agent posts a digest.
PostId(n) == <<"agent", n>>

\* What clients ask: never under an id of the agent.
ClientAsks(asks) == \A id \in DOMAIN asks : IsAsk(asks[id]) /\ \A n \in Nat : id # PostId(n)

\* A table of evidence: one row per tenant, deployment and digest, each the row of
\* the payload it came from.
EvidenceTable(rows) ==
  /\ \A e \in rows : e = RowOf(e.tenant, e.payloadHash)
  /\ \A e, f \in rows :
       e.tenant = f.tenant /\ e.deployment = f.deployment /\ e.digest = f.digest => e = f

SystemInit(asks, rows, level, migrated, budget) ==
  /\ HostInit(asks, level, rows, budget) /\ ClientAsks(asks) /\ EvidenceTable(rows)
  /\ AgentInit(migrated, budget) /\ budget.level \in Levels /\ budget.jobs \in Nat
  /\ migrated \in BOOLEAN

SystemNext == (HostNext /\ UNCHANGED agentVars) \/ AgentNext

SystemSpec(asks, rows, level, migrated, budget) ==
  SystemInit(asks, rows, level, migrated, budget) /\ [][SystemNext]_vars

---------------------------------------------------------------------------
(* What a step does to a request *)

IsRequest(r) ==
  /\ r = [ask |-> r.ask, pc |-> r.pc, tenant |-> r.tenant, response |-> r.response,
          status |-> r.status, seen |-> r.seen, before |-> r.before]
  /\ IsAsk(r.ask)

RequestsOK ==
  /\ requests = [id \in DOMAIN requests |-> requests[id]]
  /\ \A id \in DOMAIN requests : IsRequest(requests[id])

\* Nobody else is touched.
OnlyThis(id) ==
  /\ DOMAIN requests' = DOMAIN requests
  /\ \A i \in DOMAIN requests : i # id => requests'[i] = requests[i]

Moved(id, to, status) ==
  /\ OnlyThis(id)
  /\ requests'[id].ask = requests[id].ask /\ requests'[id].tenant = requests[id].tenant
  /\ requests'[id].pc = to /\ requests'[id].status = status
  /\ requests'[id].seen = requests[id].seen /\ requests'[id].before = requests[id].before

LEMMA NewRequestOK ==
  ASSUME NEW ask, IsAsk(ask)
  PROVE  /\ IsRequest(NewRequest(ask))
         /\ NewRequest(ask).ask = ask /\ NewRequest(ask).pc = "new"
BY DEF NewRequest, IsRequest

LEMMA ReplyMoves ==
  ASSUME RequestsOK, NEW id \in DOMAIN requests, NEW status, NEW value, Reply(id, status, value)
  PROVE  RequestsOK' /\ Moved(id, "answered", status)
<1>1. IsRequest(requests[id])
  BY DEF RequestsOK
<1>2. requests' = [requests EXCEPT ![id] =
        [[[requests[id] EXCEPT !.pc = "answered"] EXCEPT !.status = status] EXCEPT !.response = value]]
  BY DEF Reply, RequestsOK
<1> QED BY <1>1, <1>2 DEF RequestsOK, IsRequest, Moved, OnlyThis

LEMMA GotoMoves ==
  ASSUME RequestsOK, NEW id \in DOMAIN requests, NEW to, Goto(id, to)
  PROVE  RequestsOK' /\ Moved(id, to, requests[id].status)
<1>1. IsRequest(requests[id])
  BY DEF RequestsOK
<1>2. requests' = [requests EXCEPT ![id] = [requests[id] EXCEPT !.pc = to]]
  BY DEF Goto, RequestsOK
<1> QED BY <1>1, <1>2 DEF RequestsOK, IsRequest, Moved, OnlyThis

---------------------------------------------------------------------------
(* The tables of the hosted plane *)

Accepted(r) ==
  r.ask.kind = "ingest" /\ (r.pc = "stored" \/ (r.pc = "answered" /\ r.status \in {200, 201}))

Authorized(r) == r.pc \in {"authorized", "permitted", "stored"} \/ Accepted(r)

Claims(r) == r.ask.kind = "hint" /\ (r.pc = "claimed" \/ (r.pc = "answered" /\ r.status = 202))

\* What an accepted ingest rests on, and a hint that was let through.
Backed(r) ==
  /\ Accepted(r) => /\ r.status \in {200, 201}
                    /\ \E i \in idempotency : /\ i.tenant = r.tenant /\ i.key = r.ask.key
                                              /\ i.payloadHash = r.ask.body
  /\ r.ask.kind = "ingest" =>
       /\ r.pc = "answered" => r.status # 202
       /\ Authorized(r) => r.tenant = Tokens[r.ask.token].tenant
  /\ Claims(r) => [tenant |-> r.ask.tenant, nonce |-> r.ask.nonce] \in nonces

\* A remembered answer is unique for its key and rests on a record.
RememberedOK ==
  /\ \A i \in idempotency : RowOf(i.tenant, i.payloadHash) \in evaluations /\ i.status \in {200, 201}
  /\ \A i, j \in idempotency : i.tenant = j.tenant /\ i.key = j.key => i = j

ClaimedOnce ==
  \A i, j \in DOMAIN requests :
    /\ Claims(requests[i]) /\ Claims(requests[j])
    /\ requests[i].ask.tenant = requests[j].ask.tenant /\ requests[i].ask.nonce = requests[j].ask.nonce
    => i = j

HostInv ==
  /\ RequestsOK
  /\ EvidenceTable(evaluations)
  /\ RememberedOK
  /\ \A id \in DOMAIN requests : Backed(requests[id])
  /\ ClaimedOnce

\* The inductive invariant says what the run checks.
LEMMA HostInvHonest == HostInv => IngestHonest /\ HintOnce
<1> SUFFICES ASSUME HostInv PROVE IngestHonest /\ HintOnce
  OBVIOUS
<1>1. \A id \in DOMAIN requests : Answered(id, "ingest", {200, 201}) => Accepted(requests[id])
  BY DEF Answered, kindOf, Accepted
<1>2. ASSUME NEW id \in DOMAIN requests, Answered(id, "ingest", {200, 201})
      PROVE  \E i \in idempotency : /\ i.tenant = requests[id].tenant
                                    /\ i.key = requests[id].ask.key
                                    /\ i.payloadHash = requests[id].ask.body
  <2>1. Accepted(requests[id])
    BY <1>1, <1>2
  <2>2. Backed(requests[id])
    BY DEF HostInv
  <2> QED BY <2>1, <2>2 DEF Backed
<1>5. ASSUME NEW id \in DOMAIN requests, Answered(id, "ingest", {200, 201})
      PROVE  RowOf(requests[id].tenant, requests[id].ask.body) \in evaluations
  BY <1>2, <1>5 DEF HostInv, RememberedOK
<1>3. ASSUME NEW i \in DOMAIN requests, NEW j \in DOMAIN requests,
             Answered(i, "ingest", {200, 201}), Answered(j, "ingest", {200, 201}),
             requests[i].tenant = requests[j].tenant, requests[i].ask.key = requests[j].ask.key
      PROVE  requests[i].ask.body = requests[j].ask.body
  <2>1. PICK x \in idempotency : /\ x.tenant = requests[i].tenant /\ x.key = requests[i].ask.key
                                 /\ x.payloadHash = requests[i].ask.body
    BY <1>2, <1>3
  <2>2. PICK y \in idempotency : /\ y.tenant = requests[j].tenant /\ y.key = requests[j].ask.key
                                 /\ y.payloadHash = requests[j].ask.body
    BY <1>2, <1>3
  <2> QED BY <1>3, <2>1, <2>2 DEF HostInv, RememberedOK
<1>4. HintOnce
  BY DEF HintOnce, Answered, kindOf, HostInv, ClaimedOnce, Claims
<1> QED BY <1>3, <1>4, <1>5 DEF IngestHonest, HostInv, EvidenceTable

\* A step that leaves every request but one alone, keeps the tables growing and keeps
\* the one backed, keeps the invariant.
LEMMA OneRequestSteps ==
  ASSUME HostInv, NEW id \in DOMAIN requests, RequestsOK', OnlyThis(id),
         EvidenceTable(evaluations)', RememberedOK',
         idempotency \subseteq idempotency', nonces \subseteq nonces',
         Backed(requests[id])',
         Claims(requests[id])' =>
           \/ Claims(requests[id]) /\ requests'[id].ask = requests[id].ask
           \/ [tenant |-> requests'[id].ask.tenant, nonce |-> requests'[id].ask.nonce] \notin nonces
  PROVE  HostInv'
<1>1. ASSUME NEW i \in DOMAIN requests, i # id
      PROVE  requests'[i] = requests[i] /\ Backed(requests[i])'
  BY <1>1 DEF OnlyThis, HostInv, Backed, Accepted, Authorized, Claims
<1>2. \A i \in DOMAIN requests' : Backed(requests[i])'
  BY <1>1 DEF OnlyThis
<1>3. ClaimedOnce'
  <2> SUFFICES ASSUME NEW i \in DOMAIN requests', NEW j \in DOMAIN requests', i # j,
                      Claims(requests[i])', Claims(requests[j])',
                      requests'[i].ask.tenant = requests'[j].ask.tenant,
                      requests'[i].ask.nonce = requests'[j].ask.nonce
               PROVE  FALSE
    BY DEF ClaimedOnce
  <2>1. i \in DOMAIN requests /\ j \in DOMAIN requests
    BY DEF OnlyThis
  <2>2. ASSUME NEW k \in DOMAIN requests, k # id, Claims(requests[k])'
        PROVE  /\ requests'[k] = requests[k] /\ Claims(requests[k])
               /\ [tenant |-> requests[k].ask.tenant, nonce |-> requests[k].ask.nonce] \in nonces
    <3>1. requests'[k] = requests[k]
      BY <1>1, <2>2
    <3>2. Claims(requests[k])
      BY <2>2, <3>1 DEF Claims
    <3>3. Backed(requests[k])
      BY DEF HostInv
    <3> QED BY <3>1, <3>2, <3>3 DEF Backed
  <2>3. CASE i # id /\ j # id
    BY <2>1, <2>2, <2>3 DEF HostInv, ClaimedOnce
  <2>4. CASE i = id
    <3>1. [tenant |-> requests'[id].ask.tenant, nonce |-> requests'[id].ask.nonce] \in nonces
      BY <2>1, <2>2, <2>4
    <3>2. Claims(requests[id]) /\ requests'[id].ask = requests[id].ask
      BY <3>1, <2>4
    <3> QED BY <2>1, <2>2, <2>4, <3>2 DEF HostInv, ClaimedOnce
  <2>5. CASE j = id
    <3>1. [tenant |-> requests'[id].ask.tenant, nonce |-> requests'[id].ask.nonce] \in nonces
      BY <2>1, <2>2, <2>5
    <3>2. Claims(requests[id]) /\ requests'[id].ask = requests[id].ask
      BY <3>1, <2>5
    <3> QED BY <2>1, <2>2, <2>5, <3>2 DEF HostInv, ClaimedOnce
  <2> QED BY <2>3, <2>4, <2>5
<1> QED BY <1>2, <1>3 DEF HostInv

\* A refusal, or a reply to something that is neither an ingest nor a hint.
LEMMA ReplySteps ==
  ASSUME HostInv, NEW id \in DOMAIN requests, NEW status, NEW value, Reply(id, status, value),
         requests[id].ask.kind \in {"ingest", "hint"} => status \notin {200, 201, 202},
         UNCHANGED <<evaluations, idempotency, nonces>>
  PROVE  HostInv'
<1>1. RequestsOK' /\ Moved(id, "answered", status)
  BY ReplyMoves DEF HostInv
<1>2. requests'[id].ask = requests[id].ask /\ requests'[id].pc = "answered" /\ requests'[id].status = status
  BY <1>1 DEF Moved
<1>3. ~ Accepted(requests[id])' /\ ~ Authorized(requests[id])' /\ ~ Claims(requests[id])'
  BY <1>2 DEF Accepted, Authorized, Claims
<1>4. Backed(requests[id])'
  BY <1>2, <1>3 DEF Backed
<1>5. EvidenceTable(evaluations)' /\ RememberedOK'
  BY DEF HostInv, RememberedOK, EvidenceTable
<1> QED BY <1>1, <1>3, <1>4, <1>5, OneRequestSteps DEF Moved

LEMMA AuthorizeSteps ==
  ASSUME HostInv, NEW id \in DOMAIN requests, authorize(id)
  PROVE  HostInv'
<1>1. /\ requests[id].pc = "new" /\ requests[id].ask.kind # "hint"
      /\ UNCHANGED <<evaluations, idempotency, nonces>>
  BY DEF authorize
<1>2. CASE \E status \in {401, 403, 429} : Refuse(id, status)
  BY <1>1, <1>2, ReplySteps DEF Refuse
<1>3. CASE requests' = [requests EXCEPT ![id].pc = "authorized",
                                       ![id].tenant = Tokens[requests[id].ask.token].tenant]
  <2>1. IsRequest(requests[id])
    BY DEF HostInv, RequestsOK
  <2>2. requests' = [requests EXCEPT ![id] =
          [[requests[id] EXCEPT !.pc = "authorized"]
             EXCEPT !.tenant = Tokens[requests[id].ask.token].tenant]]
    BY <1>3 DEF HostInv, RequestsOK
  <2>3. /\ RequestsOK' /\ OnlyThis(id)
        /\ requests'[id].ask = requests[id].ask /\ requests'[id].pc = "authorized"
        /\ requests'[id].tenant = Tokens[requests[id].ask.token].tenant
    BY <2>1, <2>2 DEF HostInv, RequestsOK, IsRequest, OnlyThis
  <2>4. ~ Accepted(requests[id])' /\ ~ Claims(requests[id])'
    BY <1>1, <2>3 DEF Accepted, Claims
  <2>5. Backed(requests[id])'
    BY <2>3, <2>4 DEF Backed
  <2>6. EvidenceTable(evaluations)' /\ RememberedOK'
    BY <1>1 DEF HostInv, RememberedOK, EvidenceTable
  <2> QED BY <1>1, <2>3, <2>4, <2>5, <2>6, OneRequestSteps
<1> QED BY <1>2, <1>3 DEF authorize

\* A walk that goes on asks again for what is below its cursor.
LEMMA AfterPageIsRequest ==
  ASSUME NEW r, IsRequest(r), r.ask.kind = "verdicts", NEW rows
  PROVE  LET z == afterPage(r, rows) IN
         /\ IsRequest(z) /\ z.ask.kind = "verdicts"
         /\ z.seen = r.seen \o [i \in DOMAIN rows |-> rows[i].digest]
         /\ z.before = IF r.ask.after = None
                       THEN {e.digest : e \in rowsOf(r.tenant, r.ask.deployment)} ELSE r.before
         /\ Len(rows) # PageSize => z.pc = "answered" /\ z.ask = r.ask
         /\ Len(rows) = PageSize => z.pc = "new" /\ z.ask = [r.ask EXCEPT !.after = Last(rows).digest]
<1> DEFINE z == afterPage(r, rows)
           s == r.seen \o [i \in DOMAIN rows |-> rows[i].digest]
           b == IF r.ask.after = None
                THEN {e.digest : e \in rowsOf(r.tenant, r.ask.deployment)} ELSE r.before
           w == [[r EXCEPT !.seen = s] EXCEPT !.before = b]
           again == [r.ask EXCEPT !.after = Last(rows).digest]
           turned == [[[w EXCEPT !.pc = "new"] EXCEPT !.status = None] EXCEPT !.ask = again]
           ended == [[w EXCEPT !.pc = "answered"] EXCEPT !.status = 200]
<1>1. walked(r, rows) = w
  BY DEF walked, IsRequest
<1>2. IsAsk(again) /\ again.kind = "verdicts"
  BY DEF IsRequest, IsAsk
<1> HIDE DEF s, b
<1>3. IsRequest(w) /\ w.ask = r.ask /\ w.seen = s /\ w.before = b
  <2> DEFINE v == [r EXCEPT !.seen = s]
             x == [v EXCEPT !.before = b]
  <2>1. IsRequest(v) /\ v.ask = r.ask /\ v.seen = s
    BY DEF IsRequest
  <2> HIDE DEF v
  <2>2. IsRequest(x) /\ x.ask = v.ask /\ x.seen = v.seen /\ x.before = b
    BY <2>1 DEF IsRequest
  <2>3. w = x
    BY DEF v
  <2> QED BY <2>1, <2>2, <2>3
<1> HIDE DEF w
<1>4. afterPage(r, rows) = IF Len(rows) = PageSize THEN turned ELSE ended
  <2>1. afterPage(r, rows) = IF Len(rows) = PageSize
          THEN [w EXCEPT !.pc = "new", !.status = None, !.ask.after = Last(rows).digest]
          ELSE [w EXCEPT !.pc = "answered", !.status = 200]
    BY <1>1, Zenon DEF afterPage
  <2>2. [w EXCEPT !.pc = "new", !.status = None, !.ask.after = Last(rows).digest] = turned
    BY <1>3 DEF IsRequest
  <2>3. [w EXCEPT !.pc = "answered", !.status = 200] = ended
    BY <1>3 DEF IsRequest
  <2> HIDE DEF turned, ended
  <2> QED BY <2>1, <2>2, <2>3
<1> HIDE DEF again
<1>5. IsRequest(turned) /\ turned.ask = again /\ turned.pc = "new" /\ turned.seen = s /\ turned.before = b
  <2> DEFINE x == [w EXCEPT !.pc = "new"]
             y == [x EXCEPT !.status = None]
             q == [y EXCEPT !.ask = again]
  <2>1. IsRequest(x) /\ x.pc = "new" /\ x.seen = s /\ x.before = b
    BY <1>3 DEF IsRequest
  <2> HIDE DEF x
  <2>2. IsRequest(y) /\ y.pc = "new" /\ y.seen = s /\ y.before = b
    BY <2>1 DEF IsRequest
  <2> HIDE DEF y
  <2>3. IsRequest(q) /\ q.ask = again /\ q.pc = "new" /\ q.seen = s /\ q.before = b
    BY <1>2, <2>2 DEF IsRequest
  <2> QED BY <2>3 DEF x, y
<1>6. IsRequest(ended) /\ ended.ask = r.ask /\ ended.pc = "answered" /\ ended.seen = s /\ ended.before = b
  <2> DEFINE x == [w EXCEPT !.pc = "answered"]
             q == [x EXCEPT !.status = 200]
  <2>1. IsRequest(x) /\ x.ask = r.ask /\ x.pc = "answered" /\ x.seen = s /\ x.before = b
    BY <1>3 DEF IsRequest
  <2> HIDE DEF x
  <2>2. IsRequest(q) /\ q.ask = r.ask /\ q.pc = "answered" /\ q.seen = s /\ q.before = b
    BY <2>1 DEF IsRequest
  <2> QED BY <2>2 DEF x
<1> HIDE DEF turned, ended
<1>7. /\ IsRequest(z) /\ z.ask.kind = "verdicts" /\ z.seen = s /\ z.before = b
      /\ Len(rows) # PageSize => z.pc = "answered" /\ z.ask = r.ask
      /\ Len(rows) = PageSize => z.pc = "new" /\ z.ask = again
  BY <1>2, <1>4, <1>5, <1>6
<1> QED BY <1>7 DEF s, b, again

LEMMA ReadVerdictsSteps ==
  ASSUME HostInv, NEW id \in DOMAIN requests, readVerdicts(id)
  PROVE  HostInv'
<1>1. requests[id].ask.kind = "verdicts" /\ UNCHANGED <<evaluations, idempotency, nonces>>
  BY DEF readVerdicts, At, kindOf
<1>2. CASE Refuse(id, 404)
  BY <1>1, <1>2, ReplySteps DEF Refuse
<1>3. CASE \E rows : requests' = [requests EXCEPT ![id] = afterPage(requests[id], rows)]
  <2>1. IsRequest(requests[id])
    BY DEF HostInv, RequestsOK
  <2>6. PICK rows : requests' = [requests EXCEPT ![id] = afterPage(requests[id], rows)]
    BY <1>3
  <2>7. IsRequest(afterPage(requests[id], rows)) /\ afterPage(requests[id], rows).ask.kind = "verdicts"
    <3> DEFINE z == afterPage(requests[id], rows)
    <3> HIDE DEF z
    <3>1. IsRequest(z) /\ z.ask.kind = "verdicts"
      BY <1>1, <2>1, AfterPageIsRequest DEF z
    <3> QED BY <3>1 DEF z
  <2>2. RequestsOK' /\ OnlyThis(id) /\ requests'[id].ask.kind = "verdicts"
    BY <2>6, <2>7 DEF HostInv, RequestsOK, OnlyThis
  <2>3. ~ Accepted(requests[id])' /\ ~ Claims(requests[id])'
    BY <2>2 DEF Accepted, Claims
  <2>4. Backed(requests[id])'
    BY <2>2, <2>3 DEF Backed
  <2>5. EvidenceTable(evaluations)' /\ RememberedOK'
    BY <1>1 DEF HostInv, RememberedOK, EvidenceTable
  <2> QED BY <1>1, <2>2, <2>3, <2>4, <2>5, OneRequestSteps
<1> QED BY <1>2, <1>3 DEF readVerdicts

\* The other reads and the acknowledgement answer at once.
LEMMA AnswerSteps ==
  ASSUME HostInv, NEW id \in DOMAIN requests,
         readStatus(id) \/ readHostedEvaluation(id) \/ acknowledgeTenantAlert(id)
  PROVE  HostInv'
<1>1. /\ requests[id].ask.kind \in {"status", "evidence", "acknowledge"}
      /\ UNCHANGED <<evaluations, idempotency, nonces>>
      /\ \E status, value : Reply(id, status, value)
  BY ZenonT(30) DEF readStatus, readHostedEvaluation, acknowledgeTenantAlert, At, kindOf, Refuse
<1> QED BY <1>1, ReplySteps

\* What is checked of a body, of a signature or of a nonce, and what fails, leaves the
\* tables alone.
LEMMA CheckSteps ==
  ASSUME HostInv, NEW id \in DOMAIN requests,
         checkIngest(id) \/ ingestRefused(id) \/ ingestAuditFails(id) \/ checkHint(id) \/ enqueueFails(id)
  PROVE  HostInv'
<1>1. UNCHANGED <<evaluations, idempotency, nonces>>
  BY DEF checkIngest, ingestRefused, ingestAuditFails, checkHint, enqueueFails, tables
<1>2. CASE \E status \in {400, 401, 404, 409, 429} : Refuse(id, status)
  BY <1>1, <1>2, ReplySteps DEF Refuse
<1>3. CASE checkIngest(id) /\ Goto(id, "permitted")
  <2>1. requests[id].ask.kind = "ingest" /\ requests[id].pc = "authorized"
    BY <1>3 DEF checkIngest, At, kindOf
  <2>2. RequestsOK' /\ Moved(id, "permitted", requests[id].status)
    BY <1>3, GotoMoves DEF HostInv
  <2>3. ~ Accepted(requests[id])' /\ ~ Claims(requests[id])'
    BY <2>2 DEF Moved, Accepted, Claims
  <2>4. requests[id].tenant = Tokens[requests[id].ask.token].tenant
    BY <2>1 DEF HostInv, Backed, Authorized
  <2>5. Backed(requests[id])'
    BY <2>2, <2>3, <2>4 DEF Moved, Backed
  <2>6. EvidenceTable(evaluations)' /\ RememberedOK'
    BY <1>1 DEF HostInv, RememberedOK, EvidenceTable
  <2> QED BY <1>1, <2>2, <2>3, <2>5, <2>6, OneRequestSteps DEF Moved
<1>4. CASE checkHint(id) /\ Goto(id, "signed")
  <2>1. requests[id].ask.kind = "hint"
    BY <1>4 DEF checkHint, At, kindOf
  <2>2. RequestsOK' /\ Moved(id, "signed", requests[id].status)
    BY <1>4, GotoMoves DEF HostInv
  <2>3. ~ Accepted(requests[id])' /\ ~ Claims(requests[id])'
    BY <2>2 DEF Moved, Accepted, Claims
  <2>4. Backed(requests[id])'
    BY <2>1, <2>2, <2>3 DEF Moved, Backed
  <2>5. EvidenceTable(evaluations)' /\ RememberedOK'
    BY <1>1 DEF HostInv, RememberedOK, EvidenceTable
  <2> QED BY <1>1, <2>2, <2>3, <2>4, <2>5, OneRequestSteps DEF Moved
<1> QED BY <1>2, <1>3, <1>4 DEF checkIngest, ingestRefused, ingestAuditFails, checkHint, enqueueFails

\* The answer of a stored ingest is the one the transaction decided.
LEMMA IngestAnsweredSteps ==
  ASSUME HostInv, NEW id \in DOMAIN requests, ingestAnswered(id)
  PROVE  HostInv'
<1>1. /\ requests[id].ask.kind = "ingest" /\ requests[id].pc = "stored"
      /\ UNCHANGED <<evaluations, idempotency, nonces>>
  BY DEF ingestAnswered, At, kindOf
<1>2. RequestsOK' /\ Moved(id, "answered", requests[id].status)
  BY ReplyMoves DEF HostInv, ingestAnswered
<1>3. Backed(requests[id]) /\ Accepted(requests[id]) /\ Authorized(requests[id])
  BY <1>1 DEF HostInv, Accepted, Authorized
<1>4. Backed(requests[id])'
  BY <1>1, <1>2, <1>3 DEF Moved, Backed, Accepted, Authorized, Claims
<1>5. ~ Claims(requests[id])'
  BY <1>1, <1>2 DEF Moved, Claims
<1>6. EvidenceTable(evaluations)' /\ RememberedOK'
  BY <1>1 DEF HostInv, RememberedOK, EvidenceTable
<1> QED BY <1>1, <1>2, <1>4, <1>5, <1>6, OneRequestSteps DEF Moved

\* A nonce nobody spent, spent by this request.
LEMMA ClaimNonceSteps ==
  ASSUME HostInv, NEW id \in DOMAIN requests, claimNonce(id)
  PROVE  HostInv'
<1> DEFINE ask == requests[id].ask
           nonce == [tenant |-> ask.tenant, nonce |-> ask.nonce]
<1>1. /\ ask.kind = "hint" /\ requests[id].pc = "signed"
      /\ UNCHANGED <<evaluations, idempotency>>
  BY DEF claimNonce, At, kindOf
<1>2. CASE nonceSpent(ask)
  <2>1. Refuse(id, 409) /\ UNCHANGED nonces
    BY <1>2 DEF claimNonce
  <2> QED BY <1>1, <2>1, ReplySteps DEF Refuse
<1>3. CASE ~ nonceSpent(ask)
  <2>1. Goto(id, "claimed") /\ nonces' = nonces \cup {nonce}
    BY <1>3 DEF claimNonce
  <2>2. RequestsOK' /\ Moved(id, "claimed", requests[id].status)
    BY <2>1, GotoMoves DEF HostInv
  <2>3. requests'[id].ask = ask /\ requests'[id].pc = "claimed"
    BY <2>2 DEF Moved
  <2>4. nonce \notin nonces
    BY <1>3 DEF nonceSpent
  <2>5. Backed(requests[id])'
    BY <1>1, <2>1, <2>3 DEF Backed, Accepted, Claims
  <2>6. EvidenceTable(evaluations)' /\ RememberedOK'
    BY <1>1 DEF HostInv, RememberedOK, EvidenceTable
  <2> QED BY <1>1, <2>1, <2>2, <2>3, <2>4, <2>5, <2>6, OneRequestSteps DEF Moved
<1> QED BY <1>2, <1>3

LEMMA EnqueueHintSteps ==
  ASSUME HostInv, NEW id \in DOMAIN requests, enqueueHint(id)
  PROVE  HostInv'
<1>1. /\ requests[id].ask.kind = "hint" /\ requests[id].pc = "claimed"
      /\ UNCHANGED <<evaluations, idempotency, nonces>>
  BY DEF enqueueHint, At, kindOf
<1>2. RequestsOK' /\ Moved(id, "answered", 202)
  BY ReplyMoves DEF HostInv, enqueueHint
<1>3. Claims(requests[id]) /\ Backed(requests[id])
  BY <1>1 DEF Claims, HostInv
<1>4. Backed(requests[id])'
  BY <1>1, <1>2, <1>3 DEF Moved, Backed, Accepted, Claims
<1>5. EvidenceTable(evaluations)' /\ RememberedOK'
  BY <1>1 DEF HostInv, RememberedOK, EvidenceTable
<1> QED BY <1>1, <1>2, <1>3, <1>4, <1>5, OneRequestSteps DEF Moved

\* A body that conflicts with nothing is the payload of the record that is there.
LEMMA NoConflict ==
  ASSUME HostInv, NEW tenant, NEW key, NEW body, ~ conflicts(tenant, key, body)
  PROVE  /\ \A p \in priorAnswers(tenant, key) : p.payloadHash = body
         /\ \A e \in existingRows(tenant, body) : e = RowOf(tenant, body)
<1>1. \A x \in priorAnswers(tenant, key) \cup existingRows(tenant, body) : x.payloadHash = body
  BY DEF conflicts
<1>2. \A e \in existingRows(tenant, body) : e \in evaluations /\ e.tenant = tenant
  BY DEF existingRows, rowsOf
<1>3. \A e \in evaluations : e = RowOf(e.tenant, e.payloadHash)
  BY DEF HostInv, EvidenceTable
<1> QED BY <1>1, <1>2, <1>3

\* The record is there afterwards, and the table still has one row per digest.
LEMMA InsertedTable ==
  ASSUME HostInv, NEW tenant, NEW key, NEW body, ~ conflicts(tenant, key, body)
  PROVE  /\ RowOf(tenant, body) \in inserted(tenant, body)
         /\ evaluations \subseteq inserted(tenant, body)
         /\ EvidenceTable(inserted(tenant, body))
<1> DEFINE row == RowOf(tenant, body)
<1>1. /\ row.tenant = tenant /\ row.deployment = body.deployment /\ row.digest = body.digest
      /\ row.payloadHash = body
  BY DEF RowOf
<1>2. row = RowOf(row.tenant, row.payloadHash)
  BY <1>1
<1> HIDE DEF row
<1>3. CASE existingRows(tenant, body) = {}
  <2>1. \A e \in evaluations : ~ (e.tenant = tenant /\ e.deployment = body.deployment /\ e.digest = body.digest)
    BY <1>3 DEF existingRows, rowsOf
  <2>2. inserted(tenant, body) = evaluations \cup {row}
    BY <1>3 DEF inserted, row
  <2>3. EvidenceTable(evaluations \cup {row})
    BY <1>1, <1>2, <2>1 DEF HostInv, EvidenceTable
  <2> QED BY <2>2, <2>3 DEF row
<1>4. CASE existingRows(tenant, body) # {}
  <2>1. inserted(tenant, body) = evaluations
    BY <1>4 DEF inserted
  <2>2. row \in evaluations
    BY <1>4, NoConflict DEF existingRows, rowsOf, row
  <2> QED BY <2>1, <2>2 DEF HostInv, row
<1> QED BY <1>3, <1>4

LEMMA IngestSteps ==
  ASSUME HostInv, NEW id \in DOMAIN requests, ingestHostedEvaluation(id)
  PROVE  HostInv' /\ evaluations \subseteq evaluations'
<1> DEFINE r == requests[id]
           tenant == r.tenant
           body == r.ask.body
           key == r.ask.key
           prior == priorAnswers(tenant, key)
           answer(code) == [tenant |-> tenant, key |-> key, payloadHash |-> body, status |-> code]
<1>1. /\ r.ask.kind = "ingest" /\ r.pc = "permitted" /\ ~ conflicts(tenant, key, body)
      /\ UNCHANGED nonces
  BY DEF ingestHostedEvaluation, At, kindOf
<1>2. /\ \A p \in prior : p.payloadHash = body /\ p.tenant = tenant /\ p.key = key /\ p \in idempotency
      /\ \A p \in prior : p.status \in {200, 201}
  BY <1>1, NoConflict DEF priorAnswers, HostInv, RememberedOK
<1>3. IsRequest(r) /\ r.tenant = Tokens[r.ask.token].tenant
  BY <1>1 DEF HostInv, RequestsOK, Backed, Authorized
<1>4. ASSUME NEW code, requests' = [requests EXCEPT ![id].pc = "stored", ![id].status = code]
      PROVE  RequestsOK' /\ Moved(id, "stored", code)
  <2>1. requests' = [requests EXCEPT ![id] = [[r EXCEPT !.pc = "stored"] EXCEPT !.status = code]]
    BY <1>4 DEF HostInv, RequestsOK
  <2> QED BY <1>3, <2>1 DEF HostInv, RequestsOK, IsRequest, Moved, OnlyThis
<1>5. ASSUME NEW code \in {200, 201}, Moved(id, "stored", code), RequestsOK',
             EvidenceTable(evaluations)', RememberedOK', idempotency \subseteq idempotency',
             \E i \in idempotency' : i.tenant = tenant /\ i.key = key /\ i.payloadHash = body
      PROVE  HostInv'
  <2>1. /\ requests'[id].ask = r.ask /\ requests'[id].tenant = tenant
        /\ requests'[id].pc = "stored" /\ requests'[id].status = code
    BY <1>5 DEF Moved
  <2>2. ~ Claims(requests[id])'
    BY <1>1, <2>1 DEF Claims
  <2>3. Backed(requests[id])'
    BY <1>1, <1>3, <1>5, <2>1, <2>2 DEF Backed
  <2> QED BY <1>1, <1>5, <2>2, <2>3, OneRequestSteps DEF Moved
<1>6. CASE prior # {}
  <2>1. PICK p \in prior : requests' = [requests EXCEPT ![id].pc = "stored", ![id].status = p.status]
    BY <1>6 DEF ingestHostedEvaluation
  <2>2. UNCHANGED <<evaluations, idempotency>>
    BY <1>6 DEF ingestHostedEvaluation
  <2>3. EvidenceTable(evaluations)' /\ RememberedOK'
    BY <2>2 DEF HostInv, RememberedOK, EvidenceTable
  <2>4. RequestsOK' /\ Moved(id, "stored", p.status)
    BY <1>4, <2>1
  <2>5. \E i \in idempotency' : i.tenant = tenant /\ i.key = key /\ i.payloadHash = body
    BY <1>2, <2>2
  <2>6. HostInv'
    BY <1>2, <1>5, <2>2, <2>3, <2>4, <2>5
  <2> QED BY <2>2, <2>6
<1>7. CASE prior = {}
  <2>1. PICK code \in {200, 201} :
          /\ evaluations' = inserted(tenant, body)
          /\ idempotency' = idempotency \cup {answer(code)}
          /\ requests' = [requests EXCEPT ![id].pc = "stored", ![id].status = code]
    BY <1>7 DEF ingestHostedEvaluation
  <2>2. /\ RowOf(tenant, body) \in evaluations' /\ evaluations \subseteq evaluations'
        /\ EvidenceTable(evaluations)'
    BY <1>1, <2>1, InsertedTable
  <2>3. \A i \in idempotency : ~ (i.tenant = tenant /\ i.key = key)
    BY <1>7 DEF priorAnswers
  <2>4. RememberedOK'
    BY <2>1, <2>2, <2>3 DEF HostInv, RememberedOK
  <2>5. RequestsOK' /\ Moved(id, "stored", code)
    BY <1>4, <2>1
  <2>6. /\ \E i \in idempotency' : i.tenant = tenant /\ i.key = key /\ i.payloadHash = body
        /\ idempotency \subseteq idempotency'
    <3>1. /\ answer(code).tenant = tenant /\ answer(code).key = key
          /\ answer(code).payloadHash = body
      OBVIOUS
    <3>2. answer(code) \in idempotency' /\ idempotency \subseteq idempotency'
      BY <2>1
    <3> HIDE DEF answer
    <3> QED BY <3>1, <3>2
  <2>7. HostInv'
    BY <1>5, <2>2, <2>4, <2>5, <2>6
  <2> QED BY <2>2, <2>7
<1> QED BY <1>6, <1>7

\* Everything the host does to a request, to its grants and to its clock.
LEMMA HostSteps ==
  ASSUME HostInv, HostNext
  PROVE  HostInv' /\ evaluations \subseteq evaluations'
<1>1. ASSUME NEW id \in DOMAIN requests, Handle(id)
      PROVE  HostInv' /\ evaluations \subseteq evaluations'
  <2>1. CASE ingestHostedEvaluation(id)
    BY <2>1, IngestSteps
  <2>2. CASE ~ ingestHostedEvaluation(id)
    <3>1. HostInv'
      BY <1>1, <2>2, AuthorizeSteps, ReadVerdictsSteps, AnswerSteps, CheckSteps, IngestAnsweredSteps,
         ClaimNonceSteps, EnqueueHintSteps DEF Handle
    <3>2. UNCHANGED evaluations
      BY <1>1, <2>2 DEF Handle, authorize, readStatus, readVerdicts, readHostedEvaluation,
         acknowledgeTenantAlert, checkIngest, ingestRefused, ingestAnswered, ingestAuditFails,
         checkHint, claimNonce, enqueueHint, enqueueFails, tables
    <3> QED BY <3>1, <3>2
  <2> QED BY <2>1, <2>2
<1>2. CASE RevokeToken \/ SetSharing \/ Tick
  <2>1. UNCHANGED <<evaluations, idempotency, nonces, requests>>
    BY <1>2 DEF RevokeToken, SetSharing, Tick, tables
  <2> QED BY <2>1 DEF HostInv, RequestsOK, EvidenceTable, RememberedOK, ClaimedOnce, Backed,
                      Accepted, Authorized, Claims
<1> QED BY <1>1, <1>2 DEF HostNext

\* Of the agent's steps only the mirror touches the hosted plane: it asks.
Posts ==
  \E ask : /\ IsAsk(ask) /\ ask.kind = "ingest" /\ ask.token = AgentToken /\ ask.body = job.bundle
           /\ Post \notin DOMAIN requests
           /\ requests' = [id \in DOMAIN requests \cup {Post} |->
                             IF id = Post THEN NewRequest(ask) ELSE requests[id]]

LEMMA AgentTouchesHost ==
  ASSUME AgentNext
  PROVE  \/ UNCHANGED hostVars
         \/ /\ pc = "mirror" /\ pc' = "await" /\ Posts
            /\ UNCHANGED <<now, revoked, grants, tables, rates, limits>>
<1>1. ASSUME NEW arrives \in BOOLEAN, ingest(arrives), requests' # requests
      PROVE  pc = "mirror" /\ pc' = "await" /\ Posts
  <2> DEFINE ask == [kind |-> "ingest", token |-> AgentToken, key |-> ingestIdempotencyKey(job.bundle),
                     body |-> job.bundle]
  <2>1. IsAsk(ask) /\ ask.kind = "ingest" /\ ask.token = AgentToken /\ ask.body = job.bundle
    BY DEF IsAsk
  <2>2. /\ Post \notin DOMAIN requests
        /\ requests' = [id \in DOMAIN requests \cup {Post} |->
                          IF id = Post THEN NewRequest(ask) ELSE requests[id]]
    BY <1>1 DEF ingest
  <2>3. pc = "mirror" /\ pc' = "await"
    BY <1>1 DEF ingest
  <2> HIDE DEF ask
  <2> QED BY <2>1, <2>2, <2>3 DEF Posts
<1>2. ASSUME NEW arrives \in BOOLEAN, ingest(arrives)
      PROVE  UNCHANGED <<now, revoked, grants, tables, rates, limits>>
  BY <1>2 DEF ingest
<1>3. CASE \A arrives \in BOOLEAN : ~ ingest(arrives)
  BY <1>3 DEF AgentNext, startAgent, StartJob, ReplayLane, recordEvaluation, appendVerdictEvent,
     RaiseReplay, collectEconomic, collectConfigured, StoreEconomic, mirrorAnswered, mirrorTimesOut,
     mirrorDisabled, mirrorEnds, RaiseEconomic, drain, JobThrows, Crash, Breach, Migrate
<1> QED BY <1>1, <1>2, <1>3 DEF hostVars

LEMMA PostSteps ==
  ASSUME HostInv, Posts, UNCHANGED tables
  PROVE  HostInv'
<1>1. PICK ask, post : /\ IsAsk(ask) /\ ask.kind = "ingest" /\ post \notin DOMAIN requests
                       /\ requests' = [id \in DOMAIN requests \cup {post} |->
                                         IF id = post THEN NewRequest(ask) ELSE requests[id]]
  BY DEF Posts
<1>2. /\ DOMAIN requests' = DOMAIN requests \cup {post}
      /\ requests' = [id \in DOMAIN requests' |-> requests'[id]]
      /\ requests'[post] = NewRequest(ask)
      /\ \A id \in DOMAIN requests : requests'[id] = requests[id]
  BY <1>1
<1>3. IsRequest(NewRequest(ask)) /\ NewRequest(ask).ask = ask /\ NewRequest(ask).pc = "new"
  BY <1>1, NewRequestOK
<1>4. RequestsOK'
  BY <1>2, <1>3 DEF HostInv, RequestsOK
<1>5. ~ Accepted(requests[post])' /\ ~ Authorized(requests[post])' /\ ~ Claims(requests[post])'
  BY <1>1, <1>2, <1>3 DEF Accepted, Authorized, Claims
<1>6. Backed(requests[post])'
  BY <1>2, <1>3, <1>5 DEF Backed
<1>7. UNCHANGED <<evaluations, idempotency, nonces>>
  BY DEF tables
<1>8. ASSUME NEW id \in DOMAIN requests
      PROVE  Backed(requests[id])' /\ (Claims(requests[id])' => Claims(requests[id]))
  BY <1>2, <1>7 DEF HostInv, Backed, Accepted, Authorized, Claims
<1>9. ClaimedOnce'
  BY <1>2, <1>5, <1>8 DEF HostInv, ClaimedOnce
<1>10. EvidenceTable(evaluations)' /\ RememberedOK'
  BY <1>7 DEF HostInv, RememberedOK, EvidenceTable
<1> QED BY <1>2, <1>4, <1>6, <1>8, <1>9, <1>10 DEF HostInv

LEMMA HostUnchanged == HostInv /\ UNCHANGED hostVars => HostInv'
BY DEF hostVars, tables, HostInv, RequestsOK, EvidenceTable, RememberedOK, ClaimedOnce, Backed,
   Accepted, Authorized, Claims

LEMMA HostInitially ==
  ASSUME NEW asks, NEW rows, NEW level, NEW migrated, NEW budget,
         SystemInit(asks, rows, level, migrated, budget)
  PROVE  HostInv
<1>1. /\ requests = [id \in DOMAIN asks |-> NewRequest(asks[id])]
      /\ evaluations = rows /\ idempotency = {} /\ EvidenceTable(rows) /\ ClientAsks(asks)
  BY DEF SystemInit, HostInit
<1>2. ASSUME NEW id \in DOMAIN requests
      PROVE  IsRequest(requests[id]) /\ requests[id].pc = "new" /\ requests[id].ask = asks[id]
  BY <1>1, <1>2, NewRequestOK DEF ClientAsks
<1>3. RequestsOK
  BY <1>1, <1>2 DEF RequestsOK
<1>4. ASSUME NEW id \in DOMAIN requests
      PROVE  Backed(requests[id]) /\ ~ Claims(requests[id])
  BY <1>2, <1>4 DEF Backed, Accepted, Authorized, Claims
<1> QED BY <1>1, <1>3, <1>4 DEF HostInv, RememberedOK, ClaimedOnce

LEMMA HostInvStep ==
  ASSUME HostInv, [SystemNext]_vars
  PROVE  HostInv' /\ evaluations \subseteq evaluations'
<1>1. CASE HostNext
  BY <1>1, HostSteps
<1>2. CASE AgentNext
  <2>1. CASE UNCHANGED hostVars
    BY <2>1, HostUnchanged DEF hostVars, tables
  <2>2. CASE Posts /\ UNCHANGED tables
    BY <2>2, PostSteps DEF tables
  <2> QED BY <1>2, <2>1, <2>2, AgentTouchesHost
<1>3. CASE UNCHANGED vars
  BY <1>3, HostUnchanged DEF vars, hostVars, tables
<1> QED BY <1>1, <1>2, <1>3 DEF SystemNext

\* An ingest that was answered 200 or 201 is in the table with the payload it sent, a
\* digest has one row, and one key never stood for two payloads, whatever else was
\* asked in between and whichever statement failed (server.ts ingest,
\* hosted-evidence.ts ingestHostedEvaluation).
THEOREM IngestIsHonest ==
  ASSUME NEW asks, NEW rows, NEW level, NEW migrated, NEW budget
  PROVE  SystemSpec(asks, rows, level, migrated, budget) => []IngestHonest
<1>1. SystemInit(asks, rows, level, migrated, budget) => HostInv
  BY HostInitially
<1>2. HostInv /\ [SystemNext]_vars => HostInv'
  BY HostInvStep
<1>3. HostInv => IngestHonest
  BY HostInvHonest
<1> QED BY <1>1, <1>2, <1>3, PTL DEF SystemSpec

\* Of the hints with one nonce at most one is accepted (server.ts webhook,
\* hosted-store.ts claimWebhookNonce).
THEOREM HintsOnce ==
  ASSUME NEW asks, NEW rows, NEW level, NEW migrated, NEW budget
  PROVE  SystemSpec(asks, rows, level, migrated, budget) => []HintOnce
<1>1. SystemInit(asks, rows, level, migrated, budget) => HostInv
  BY HostInitially
<1>2. HostInv /\ [SystemNext]_vars => HostInv'
  BY HostInvStep
<1>3. HostInv => HintOnce
  BY HostInvHonest
<1> QED BY <1>1, <1>2, <1>3, PTL DEF SystemSpec

\* No step removes or changes a record of the hosted evidence (hosted-evidence.ts).
THEOREM RecordsAreKept ==
  ASSUME NEW asks, NEW rows, NEW level, NEW migrated, NEW budget
  PROVE  SystemSpec(asks, rows, level, migrated, budget) => RecordsStand
<1>1. SystemInit(asks, rows, level, migrated, budget) => HostInv
  BY HostInitially
<1>2. HostInv /\ [SystemNext]_vars => HostInv' /\ [evaluations \subseteq evaluations']_hostVars
  BY HostInvStep
<1> QED BY <1>1, <1>2, PTL DEF SystemSpec, RecordsStand

---------------------------------------------------------------------------
(* The agent: its lanes and its readiness *)

IsJob(j) ==
  j = [at |-> j.at, reports |-> j.reports, observation |-> j.observation,
       evaluation |-> j.evaluation, bundle |-> j.bundle]

IsMemory(m) ==
  m = [previous |-> m.previous, lastSuccess |-> m.lastSuccess, healthSuccess |-> m.healthSuccess,
       verdict |-> m.verdict, failures |-> m.failures, database |-> m.database, schema |-> m.schema,
       alertingDegraded |-> m.alertingDegraded, hostedIngestDegraded |-> m.hostedIngestDegraded,
       economicLastRun |-> m.economicLastRun, economicPrevious |-> m.economicPrevious,
       mirrored |-> m.mirrored]

Jobless == {"down", "idle"}

\* Every lane was once complete, no earlier than t.
AllSince(t) ==
  t # None => \A l \in LaneSet : /\ completeness[l] # None /\ completeness[l].lastSuccess # None
                                 /\ t <= completeness[l].lastSuccess

LaneReport ==
  [lane : LaneSet, complete : BOOLEAN, verdict : {"OK", "UNKNOWN"}, checkpoint : BOOLEAN]

\* What the pass of this job has found: a lane that was complete was so at the job's time.
ReportsOK ==
  /\ job.reports \in Seq(LaneReport)
  /\ pc \in {"lanes", "record"} =>
       /\ Len(job.reports) <= Len(Lanes)
       /\ \A i \in 1..Len(job.reports) :
            /\ job.reports[i].lane = Lanes[i]
            /\ job.reports[i].complete => /\ completeness[Lanes[i]] # None
                                          /\ completeness[Lanes[i]].lastSuccess = job.at
  /\ pc = "lanes" => Len(job.reports) < Len(Lanes)
  /\ pc = "record" => Len(job.reports) = Len(Lanes)

\* No success of a lane is later than the job that is running, nor than the clock.
TimesOK ==
  /\ now \in Nat
  /\ completeness \in [LaneSet -> LaneRow \cup {None}]
  /\ \A l \in LaneSet : (completeness[l] # None /\ completeness[l].lastSuccess # None) =>
       /\ completeness[l].lastSuccess <= now
       /\ pc \notin Jobless => completeness[l].lastSuccess <= job.at
  /\ pc \notin Jobless => job.at \in Nat /\ job.at <= now

ReadyInv ==
  /\ IsJob(job) /\ IsMemory(memory) /\ TimesOK /\ ReportsOK
  /\ memory.lastSuccess \in Nat \cup {None} /\ memory.healthSuccess \in Nat \cup {None}
  /\ AllSince(memory.lastSuccess) /\ AllSince(memory.healthSuccess)

---------------------------------------------------------------------------
(* The agent: its evaluations, its alerts and its mirror *)

\* Before the economic evidence of this job is stored.
BeforeStore == {"lanes", "record", "event", "raise", "gate", "collect", "store"}

IsRow(r) ==
  r = [subject |-> r.subject, digest |-> r.digest, payload |-> r.payload,
       verdict |-> r.verdict, event |-> r.event]

\* One row per key; a replay judgement carries its verdict in its digest, an economic
\* one the job that collected it.
StoredOK ==
  /\ \A r \in stored : IsRow(r) /\ r.subject \in {"replay-completeness", "economic"}
  /\ \A r, q \in stored : r.subject = q.subject /\ r.digest = q.digest => r = q
  /\ \A r \in stored : r.subject = "replay-completeness" => r.verdict = r.digest[1]
  /\ \A r \in stored : r.subject = "economic" =>
       \E n \in Nat : r.digest = <<n>> /\ n <= jobs /\ (pc \in BeforeStore => n < jobs)

\* The judgement under a key is on record, with its event when it is to be named.
Stands(key, verdict, withEvent) ==
  \E r \in RowsUnder(key) : r.verdict = verdict /\ (withEvent => r.event)

EconomicKey == evaluationIdempotencyKey(EconomicRow(job.bundle))

JobOK ==
  /\ pc = "event" => Stands(job.evaluation, job.observation.verdict, FALSE)
  /\ pc = "raise" /\ job.evaluation # None => Stands(job.evaluation, job.observation.verdict, TRUE)
  /\ pc \in {"lanes", "record", "event", "raise", "gate", "collect"} => job.bundle = None
  /\ pc \in {"store", "economicEvent", "mirror", "await"} => job.bundle \in BundleRow /\ job.bundle.digest = jobs
  /\ pc = "economicEvent" => job.evaluation = EconomicKey /\ Stands(EconomicKey, job.bundle.status, FALSE)
  /\ pc \in {"mirror", "await"} => job.evaluation = EconomicKey /\ Stands(EconomicKey, job.bundle.status, TRUE)
  /\ pc = "raiseEconomic" =>
       \/ job.bundle = None /\ job.evaluation = None
       \/ /\ job.bundle \in BundleRow /\ job.evaluation = EconomicKey
          /\ Stands(EconomicKey, job.bundle.status, TRUE)

AlertInv ==
  /\ jobs \in Nat /\ sharingLevel \in Levels
  /\ StoredOK /\ JobOK /\ AlertsStand

\* The agent's requests carry the bundle they are named after.
PostsOK ==
  \A n \in Nat : PostId(n) \in DOMAIN requests =>
    LET ask == requests[PostId(n)].ask IN
    /\ ask.kind = "ingest" /\ ask.token = AgentToken
    /\ ask.body.digest = n /\ ask.body.deployment = AgentDeployment

AgentInv == ReadyInv /\ AlertInv /\ PostsOK /\ MirrorHonest

---------------------------------------------------------------------------
(* Readiness is inductive *)

LEMMA LeastTime ==
  ASSUME NEW S \in SUBSET Nat, S # {}
  PROVE  \E m \in S : \A n \in S : m <= n
<1> DEFINE R == OpToRel(<, Nat)
<1>1. IsWellFoundedOn(R, Nat)
  BY NatLessThanWellFounded
<1>2. PICK m \in S : \A n \in S : ~ (<<n, m>> \in R)
  BY <1>1, WFMin
<1>3. \A n \in S : ~ (n < m)
  BY <1>2 DEF OpToRel
<1> QED BY <1>3

\* A step that leaves the lanes alone, and the job or its report.
LEMMA QuietReady ==
  ASSUME ReadyInv, UNCHANGED <<now, completeness>>, IsJob(job'), IsMemory(memory'),
         memory'.lastSuccess \in {None, memory.lastSuccess},
         memory'.healthSuccess \in {None, memory.healthSuccess, memory.lastSuccess},
         \/ pc' \in Jobless /\ job' = NoJob
         \/ /\ pc \notin Jobless /\ pc' \notin Jobless \cup {"lanes", "record"}
            /\ job'.at = job.at /\ job'.reports = job.reports
         \/ pc' = pc /\ job' = job
  PROVE  ReadyInv'
<1>1. TimesOK'
  BY DEF ReadyInv, TimesOK, Jobless
<1>2. NoJob.reports = <<>>
  BY DEF NoJob
<1>3. ReportsOK'
  <2>1. CASE pc' \in Jobless /\ job' = NoJob
    <3>1. job'.reports = <<>> /\ <<>> \in Seq(LaneReport)
      BY <1>2, <2>1
    <3>2. pc' \notin {"lanes", "record"}
      BY <2>1 DEF Jobless
    <3> QED BY <3>1, <3>2 DEF ReportsOK
  <2>2. CASE /\ pc' \notin Jobless \cup {"lanes", "record"}
             /\ job'.at = job.at /\ job'.reports = job.reports
    BY <2>2 DEF ReadyInv, ReportsOK
  <2>3. CASE pc' = pc /\ job' = job
    BY <2>3 DEF ReadyInv, ReportsOK
  <2> QED BY <2>1, <2>2, <2>3
<1>4. AllSince(memory.lastSuccess)' /\ AllSince(memory.healthSuccess)'
  BY DEF ReadyInv, AllSince
<1> QED BY <1>1, <1>3, <1>4 DEF ReadyInv

LEMMA HostReady ==
  ASSUME ReadyInv, HostNext, UNCHANGED agentVars
  PROVE  ReadyInv'
<1>1. now' \in Nat /\ now <= now'
  <2>1. ASSUME NEW id \in DOMAIN requests, Handle(id) PROVE now' = now
    BY <2>1 DEF Handle, authorize, readStatus, readVerdicts, readHostedEvaluation,
       acknowledgeTenantAlert, checkIngest, ingestHostedEvaluation, ingestRefused, ingestAnswered,
       ingestAuditFails, checkHint, claimNonce, enqueueHint, enqueueFails
  <2>2. CASE RevokeToken \/ SetSharing
    BY <2>2 DEF RevokeToken, SetSharing, ReadyInv, TimesOK
  <2>3. CASE Tick
    BY <2>3 DEF Tick, ReadyInv, TimesOK
  <2> QED BY <2>1, <2>2, <2>3 DEF HostNext, ReadyInv, TimesOK
<1>2. UNCHANGED <<completeness, pc, memory, job>>
  BY DEF agentVars, localDb
<1>3. TimesOK'
  BY <1>1, <1>2 DEF ReadyInv, TimesOK, Jobless, LaneRow
<1> QED BY <1>2, <1>3 DEF ReadyInv, ReportsOK, AllSince

LEMMA NoJobNoMemory ==
  /\ IsJob(NoJob) /\ NoJob.reports = <<>> /\ NoJob.bundle = None /\ NoJob.evaluation = None
  /\ IsMemory(NoMemory) /\ NoMemory.lastSuccess = None /\ NoMemory.healthSuccess = None
  /\ NoMemory.mirrored = None
BY DEF IsJob, IsMemory, NoJob, NoMemory

\* There is a lane.
LEMMA SomeLane ==
  /\ Lanes \in Seq(LaneSet) /\ Len(Lanes) \in Nat /\ Len(Lanes) > 0
  /\ \A i \in 1..Len(Lanes) : Lanes[i] \in LaneSet
  /\ \A l \in LaneSet : \E i \in 1..Len(Lanes) : Lanes[i] = l
  /\ LaneSet # {}
<1>1. Lanes \in Seq(LaneSet) /\ Lanes # <<>>
  BY AgentAssumption
<1>2. Len(Lanes) \in Nat /\ Len(Lanes) > 0 /\ DOMAIN Lanes = 1..Len(Lanes)
  BY <1>1
<1>3. \A i \in 1..Len(Lanes) : Lanes[i] \in LaneSet
  BY <1>1, <1>2
<1>4. \A l \in LaneSet : \E i \in 1..Len(Lanes) : Lanes[i] = l
  BY <1>2 DEF LaneSet, ToSet
<1> QED BY <1>1, <1>2, <1>3, <1>4

\* What a new process reads from the tables is no later than any lane's own success.
LEMMA HydratedReady ==
  ASSUME ReadyInv
  PROVE  /\ IsMemory(hydrated) /\ hydrated.mirrored = None
         /\ hydrated.lastSuccess \in Nat \cup {None} /\ AllSince(hydrated.lastSuccess)
         /\ hydrated.healthSuccess = hydrated.lastSuccess
<1> DEFINE Row(l) == completeness[l]
           found == [NoMemory EXCEPT !.database = TRUE, !.schema = TRUE]
           successes == {Row(l).lastSuccess : l \in LaneSet}
           last == oldestSuccess(successes)
<1>1. /\ IsMemory(found) /\ found.lastSuccess = None /\ found.healthSuccess = None
      /\ found.mirrored = None
  <2>1. PICK x : x = found
    OBVIOUS
  <2>2. /\ IsMemory(x) /\ x.lastSuccess = None /\ x.healthSuccess = None /\ x.mirrored = None
    BY <2>1, NoJobNoMemory DEF IsMemory
  <2> QED BY <2>1, <2>2
<1>2. AllSince(None)
  BY DEF AllSince
<1>3. CASE ~ schema
  BY <1>2, <1>3, NoJobNoMemory DEF hydrated
<1>4. CASE schema /\ \E l \in LaneSet : Row(l) = None
  <2>1. hydrated = found
    BY <1>4 DEF hydrated
  <2> QED BY <1>1, <1>2, <2>1
<1>5. CASE schema /\ \A l \in LaneSet : Row(l) # None
  <2>1. \A l \in LaneSet : Row(l) \in LaneRow /\ Row(l).lastSuccess \in Nat \cup {None}
    BY <1>5 DEF ReadyInv, TimesOK, LaneRow
  <2>2. PICK v : hydrated = [found EXCEPT !.previous = v, !.verdict = v,
                                          !.lastSuccess = last, !.healthSuccess = last]
    BY <1>5 DEF hydrated
  <2>3. successes # {}
    BY SomeLane
  <2>4. last \in Nat \cup {None} /\ AllSince(last)
    <3>1. CASE None \in successes
      BY <1>2, <3>1 DEF oldestSuccess
    <3>2. CASE None \notin successes
      <4>1. successes \in SUBSET Nat
        BY <2>1, <3>2
      <4>2. \E m \in successes : \A n \in successes : m <= n
        BY <2>3, <4>1, LeastTime
      <4>3. last \in successes /\ \A n \in successes : last <= n
        BY <3>2, <4>2 DEF oldestSuccess
      <4> QED BY <1>5, <3>2, <4>1, <4>3 DEF AllSince
    <3> QED BY <3>1, <3>2
  <2> HIDE DEF last, found
  <2>5. /\ IsMemory(hydrated) /\ hydrated.mirrored = None
        /\ hydrated.lastSuccess = last /\ hydrated.healthSuccess = last
    BY <1>1, <2>2 DEF IsMemory
  <2> QED BY <2>4, <2>5
<1> QED BY <1>3, <1>4, <1>5

LEMMA StartReady ==
  ASSUME ReadyInv, startAgent
  PROVE  ReadyInv'
<1>1. /\ pc' = "idle" /\ memory' = hydrated /\ job' = NoJob /\ UNCHANGED <<now, completeness>>
      /\ pc = "down"
  BY DEF startAgent, hostVars, localDb
<1>2. TimesOK'
  BY <1>1 DEF ReadyInv, TimesOK, Jobless
<1>3. ReportsOK'
  BY <1>1, NoJobNoMemory DEF ReportsOK
<1>4. AllSince(memory.lastSuccess)' /\ AllSince(memory.healthSuccess)'
  BY <1>1, HydratedReady DEF AllSince
<1> QED BY <1>1, <1>2, <1>3, <1>4, NoJobNoMemory, HydratedReady DEF ReadyInv

LEMMA StartJobReady ==
  ASSUME ReadyInv, StartJob
  PROVE  ReadyInv'
<1>1. /\ pc = "idle" /\ pc' = "lanes" /\ job' = [NoJob EXCEPT !.at = now]
      /\ UNCHANGED <<now, completeness, memory>>
  BY DEF StartJob, hostVars, localDb
<1>2. IsJob(job') /\ job'.at = now /\ job'.reports = <<>>
  BY <1>1, NoJobNoMemory DEF IsJob
<1>3. TimesOK'
  BY <1>1, <1>2 DEF ReadyInv, TimesOK, Jobless
<1>4. ReportsOK'
  <2>1. Len(job'.reports) = 0 /\ job'.reports \in Seq(LaneReport) /\ Len(Lanes) \in Nat /\ Len(Lanes) > 0
    BY <1>2, SomeLane
  <2> QED BY <1>1, <2>1 DEF ReportsOK
<1> QED BY <1>1, <1>2, <1>3, <1>4 DEF ReadyInv, AllSince

\* A lane's pass: complete, it is as recent as the job; otherwise its past stands.
LEMMA ReplayLaneReady ==
  ASSUME ReadyInv, NEW complete \in BOOLEAN, ReplayLane(complete)
  PROVE  ReadyInv'
<1> DEFINE n == Len(job.reports) + 1
           lane == Lanes[n]
           prior == completeness[lane]
           row == [verdict |-> IF complete THEN "OK" ELSE "UNKNOWN",
                   lastSuccess |-> IF complete THEN job.at ELSE IF prior = None THEN None ELSE prior.lastSuccess,
                   checkpoint |-> complete \/ (prior # None /\ prior.checkpoint)]
           found == [lane |-> lane, complete |-> complete, verdict |-> row.verdict, checkpoint |-> row.checkpoint]
<1>1. /\ pc = "lanes" /\ UNCHANGED <<now, memory>>
      /\ completeness' = [completeness EXCEPT ![lane] = row]
      /\ job' = [job EXCEPT !.reports = Append(@, found)]
      /\ pc' = IF Len(job'.reports) = Len(Lanes) THEN "record" ELSE "lanes"
  BY DEF ReplayLane, hostVars
<1>2. /\ job.reports \in Seq(LaneReport) /\ Len(job.reports) \in Nat /\ Len(job.reports) < Len(Lanes)
      /\ n \in 1..Len(Lanes) /\ lane \in LaneSet
      /\ job.at \in Nat /\ job.at <= now /\ now \in Nat
      /\ prior \in LaneRow \cup {None}
  <2>1. job.reports \in Seq(LaneReport) /\ Len(job.reports) \in Nat /\ Len(job.reports) < Len(Lanes)
    BY <1>1 DEF ReadyInv, ReportsOK
  <2>2. n \in 1..Len(Lanes) /\ lane \in LaneSet
    <3>1. n \in 1..Len(Lanes)
      BY <2>1, SomeLane
    <3> HIDE DEF n
    <3> QED BY <3>1, SomeLane
  <2>3. job.at \in Nat /\ job.at <= now /\ now \in Nat
    BY <1>1 DEF ReadyInv, TimesOK, Jobless
  <2>4. prior \in LaneRow \cup {None}
    BY <2>2 DEF ReadyInv, TimesOK
  <2> QED BY <2>1, <2>2, <2>3, <2>4
<1>3. row \in LaneRow /\ row.lastSuccess = IF complete THEN job.at ELSE IF prior = None THEN None ELSE prior.lastSuccess
  BY <1>2 DEF LaneRow
<1>4. row # None /\ found \in LaneReport
  BY <1>2, <1>3, AgentAssumption DEF LaneRow, LaneReport
<1> HIDE DEF row, lane
<1>5. /\ IsJob(job') /\ job'.at = job.at /\ job'.reports = Append(job.reports, found)
  BY <1>1 DEF ReadyInv, IsJob
<1> HIDE DEF found
<1>6. /\ completeness' \in [LaneSet -> LaneRow \cup {None}]
      /\ completeness'[lane] = row
      /\ \A l \in LaneSet : l # lane => completeness'[l] = completeness[l]
  BY <1>1, <1>2, <1>3 DEF ReadyInv, TimesOK
<1>7. prior # None /\ prior.lastSuccess # None => prior.lastSuccess \in Nat /\ prior.lastSuccess <= job.at
  BY <1>1, <1>2 DEF ReadyInv, TimesOK, Jobless, LaneRow
<1>8. row.lastSuccess # None => row.lastSuccess \in Nat /\ row.lastSuccess <= job.at
  BY <1>2, <1>3, <1>7
<1>9. pc' \in {"lanes", "record"} /\ pc' \notin Jobless
  BY <1>1 DEF Jobless
<1>10. TimesOK'
  <2>1. \A l \in LaneSet : (completeness'[l] # None /\ completeness'[l].lastSuccess # None) =>
           completeness'[l].lastSuccess <= now /\ completeness'[l].lastSuccess <= job.at
    BY <1>1, <1>2, <1>6, <1>8 DEF ReadyInv, TimesOK, Jobless
  <2> QED BY <1>1, <1>2, <1>5, <1>6, <1>9, <2>1 DEF TimesOK
\* A success is never forgotten and never moves back.
<1>11. \A t \in Nat \cup {None} : AllSince(t) => AllSince(t)'
  <2> SUFFICES ASSUME NEW t \in Nat, AllSince(t), t # None, NEW l \in LaneSet
               PROVE  /\ completeness'[l] # None /\ completeness'[l].lastSuccess # None
                      /\ t <= completeness'[l].lastSuccess
    BY DEF AllSince
  <2>1. /\ completeness[l] # None /\ completeness[l].lastSuccess # None
        /\ t <= completeness[l].lastSuccess
    BY DEF AllSince
  <2>2. CASE l # lane
    BY <1>6, <2>1, <2>2
  <2>3. CASE l = lane
    BY <1>2, <1>3, <1>4, <1>6, <1>7, <2>1, <2>3, AgentAssumption
  <2> QED BY <2>2, <2>3
<1>12. ReportsOK'
  <2>1. /\ job'.reports \in Seq(LaneReport) /\ Len(job'.reports) = n /\ job'.reports[n] = found
        /\ \A i \in 1..Len(job.reports) : job'.reports[i] = job.reports[i]
    BY <1>2, <1>4, <1>5
  <2>2. ASSUME NEW i \in 1..Len(job'.reports)
        PROVE  /\ job'.reports[i].lane = Lanes[i]
               /\ job'.reports[i].complete => /\ completeness'[Lanes[i]] # None
                                              /\ completeness'[Lanes[i]].lastSuccess = job'.at
    <3>1. CASE i = n
      BY <1>3, <1>4, <1>5, <1>6, <2>1, <3>1 DEF found, lane
    <3>2. CASE i \in 1..Len(job.reports)
      <4>1. /\ job.reports[i].lane = Lanes[i] /\ Lanes[i] \in LaneSet
            /\ job.reports[i].complete => /\ completeness[Lanes[i]] # None
                                          /\ completeness[Lanes[i]].lastSuccess = job.at
        <5>1. i \in 1..Len(Lanes)
          BY <1>2, <3>2, SomeLane, SMTT(30)
        <5> QED BY <1>1, <3>2, <5>1, SomeLane DEF ReadyInv, ReportsOK
      <4>2. CASE Lanes[i] # lane
        BY <1>5, <1>6, <2>1, <3>2, <4>1, <4>2
      <4>3. CASE Lanes[i] = lane
        BY <1>2, <1>3, <1>4, <1>5, <1>6, <2>1, <3>2, <4>1, <4>3
      <4> QED BY <4>2, <4>3
    <3> QED BY <1>2, <2>1, <3>1, <3>2
  <2> QED BY <1>1, <1>2, <2>1, <2>2 DEF ReportsOK
<1> QED BY <1>1, <1>5, <1>10, <1>11, <1>12 DEF ReadyInv, AllSince

\* The job's own time is remembered only when every lane was complete at it.
LEMMA RecordReady ==
  ASSUME ReadyInv, recordEvaluation
  PROVE  ReadyInv'
<1> DEFINE success == IF allComplete THEN job.at ELSE memory.lastSuccess
<1>1. /\ pc = "record" /\ pc' \in {"event", "raise"} /\ UNCHANGED <<now, completeness>>
      /\ memory' = [memory EXCEPT !.lastSuccess = success]
  BY DEF recordEvaluation, hostVars
<1>2. PICK o, e : job' = [job EXCEPT !.observation = o, !.evaluation = e]
  BY DEF recordEvaluation
<1>3. IsJob(job') /\ job'.at = job.at /\ job'.reports = job.reports
  BY <1>2 DEF ReadyInv, IsJob
<1>4. AllSince(success) /\ success \in Nat \cup {None}
  <2>1. CASE ~ allComplete
    BY <2>1 DEF ReadyInv
  <2>2. CASE allComplete
    <3>1. job.at \in Nat
      BY <1>1 DEF ReadyInv, TimesOK, Jobless
    <3>2. job.reports \in Seq(LaneReport) /\ Len(job.reports) = Len(Lanes)
      BY <1>1 DEF ReadyInv, ReportsOK
    <3>3. ASSUME NEW l \in LaneSet
          PROVE  completeness[l] # None /\ completeness[l].lastSuccess = job.at
      <4>1. PICK i \in 1..Len(Lanes) : Lanes[i] = l
        BY SomeLane
      <4>2. job.reports[i] \in ToSet(job.reports)
        BY <3>2 DEF ToSet
      <4>3. job.reports[i].complete
        BY <2>2, <4>2 DEF allComplete
      <4> QED BY <1>1, <3>2, <4>1, <4>3 DEF ReadyInv, ReportsOK
    <3>4. job.at # None
      BY <3>1, AgentAssumption
    <3> QED BY <2>2, <3>1, <3>3, <3>4 DEF AllSince
  <2> QED BY <2>1, <2>2
<1> HIDE DEF success
<1>5. /\ IsMemory(memory') /\ memory'.lastSuccess = success
      /\ memory'.healthSuccess = memory.healthSuccess
  BY <1>1 DEF ReadyInv, IsMemory
<1>6. TimesOK'
  BY <1>1, <1>3 DEF ReadyInv, TimesOK, Jobless
<1>7. ReportsOK'
  BY <1>1, <1>3 DEF ReadyInv, ReportsOK
<1> QED BY <1>1, <1>3, <1>4, <1>5, <1>6, <1>7 DEF ReadyInv, AllSince

\* Everything else a job does, and every way it ends.
LEMMA QuietSteps ==
  ASSUME ReadyInv, AgentNext, ~ startAgent, ~ StartJob, ~ recordEvaluation,
         \A complete \in BOOLEAN : ~ ReplayLane(complete)
  PROVE  ReadyInv'
<1>1. IsJob(job) /\ IsMemory(memory)
  BY DEF ReadyInv
<1>2. CASE appendVerdictEvent
  BY <1>1, <1>2, QuietReady DEF appendVerdictEvent, hostVars, Jobless
<1>3. CASE RaiseReplay
  <2>1. PICK v, t : /\ t \in {memory.healthSuccess, memory.lastSuccess}
                    /\ memory' = [memory EXCEPT !.previous = v, !.verdict = v, !.failures = 0, !.database = TRUE,
                                                !.schema = TRUE, !.healthSuccess = t]
    BY <1>3 DEF RaiseReplay
  <2>2. IsMemory(memory') /\ memory'.lastSuccess = memory.lastSuccess /\ memory'.healthSuccess = t
    BY <1>1, <2>1 DEF IsMemory
  <2> QED BY <1>1, <1>3, <2>1, <2>2, QuietReady DEF RaiseReplay, hostVars, Jobless
<1>4. CASE collectEconomic
  <2>1. memory' = memory \/ memory' = [memory EXCEPT !.economicLastRun = now]
    BY <1>4 DEF collectEconomic
  <2>2. /\ IsMemory(memory') /\ memory'.lastSuccess = memory.lastSuccess
        /\ memory'.healthSuccess = memory.healthSuccess
    BY <1>1, <2>1 DEF IsMemory
  <2> QED BY <1>1, <1>4, <2>2, QuietReady DEF collectEconomic, hostVars, localDb, Jobless
<1>5. ASSUME NEW found \in BOOLEAN, collectConfigured(found)
      PROVE  ReadyInv'
  <2>1. PICK b : job' = [job EXCEPT !.evaluation = None, !.bundle = b]
    BY <1>5 DEF collectConfigured
  <2>2. IsJob(job') /\ job'.at = job.at /\ job'.reports = job.reports
    BY <1>1, <2>1 DEF IsJob
  <2> QED BY <1>1, <1>5, <2>2, QuietReady DEF collectConfigured, hostVars, localDb, Jobless
<1>6. CASE StoreEconomic
  <2>1. PICK e : job' = [job EXCEPT !.evaluation = e]
    BY <1>6 DEF StoreEconomic
  <2>2. IsJob(job') /\ job'.at = job.at /\ job'.reports = job.reports
    BY <1>1, <2>1 DEF IsJob
  <2> QED BY <1>1, <1>6, <2>2, QuietReady DEF StoreEconomic, hostVars, Jobless
<1>7. ASSUME NEW arrives \in BOOLEAN, ingest(arrives)
      PROVE  ReadyInv'
  BY <1>1, <1>7, QuietReady DEF ingest, localDb, Jobless
<1>8. CASE mirrorAnswered \/ mirrorTimesOut \/ mirrorDisabled
  <2>1. PICK outcome : mirrorEnds(outcome)
    BY <1>8 DEF mirrorAnswered, mirrorTimesOut, mirrorDisabled
  <2>2. PICK m, d : memory' = [memory EXCEPT !.mirrored = m, !.hostedIngestDegraded = d]
    BY <2>1 DEF mirrorEnds
  <2>3. /\ IsMemory(memory') /\ memory'.lastSuccess = memory.lastSuccess
        /\ memory'.healthSuccess = memory.healthSuccess
    BY <1>1, <2>2 DEF IsMemory
  <2> QED BY <1>1, <2>1, <2>3, QuietReady DEF mirrorEnds, hostVars, localDb, Jobless
<1>9. CASE RaiseEconomic
  <2>1. PICK v : memory' = [memory EXCEPT !.economicPrevious = v]
    BY <1>9 DEF RaiseEconomic
  <2>2. /\ IsMemory(memory') /\ memory'.lastSuccess = memory.lastSuccess
        /\ memory'.healthSuccess = memory.healthSuccess
    BY <1>1, <2>1 DEF IsMemory
  <2> QED BY <1>1, <1>9, <2>2, QuietReady DEF RaiseEconomic, hostVars, Jobless
<1>10. CASE drain
  <2>1. PICK d : memory' = [memory EXCEPT !.alertingDegraded = d]
    BY <1>10 DEF drain
  <2>2. /\ IsMemory(memory') /\ memory'.lastSuccess = memory.lastSuccess
        /\ memory'.healthSuccess = memory.healthSuccess
    BY <1>1, <2>1 DEF IsMemory
  <2> QED BY <1>10, <2>2, QuietReady, NoJobNoMemory DEF drain, hostVars, localDb, Jobless
<1>11. ASSUME NEW answers \in BOOLEAN, JobThrows(answers)
       PROVE  ReadyInv'
  <2>1. memory' = memory \/ memory' = [memory EXCEPT !.database = answers, !.failures = @ + 1]
    BY <1>11 DEF JobThrows
  <2>2. /\ IsMemory(memory') /\ memory'.lastSuccess = memory.lastSuccess
        /\ memory'.healthSuccess = memory.healthSuccess
    BY <1>1, <2>1 DEF IsMemory
  <2> QED BY <1>11, <2>2, QuietReady, NoJobNoMemory DEF JobThrows, hostVars, localDb, Jobless
<1>12. CASE Crash
  BY <1>12, QuietReady, NoJobNoMemory DEF Crash, hostVars, localDb, Jobless
<1>13. CASE Breach \/ Migrate
  BY <1>1, <1>13, QuietReady DEF Breach, Migrate, hostVars, localDb
<1> QED BY <1>2, <1>3, <1>4, <1>5, <1>6, <1>7, <1>8, <1>9, <1>10, <1>11, <1>12, <1>13 DEF AgentNext

LEMMA ReadyInvStep ==
  ASSUME ReadyInv, [SystemNext]_vars
  PROVE  ReadyInv'
<1>1. CASE HostNext /\ UNCHANGED agentVars
  BY <1>1, HostReady
<1>2. CASE AgentNext
  BY <1>2, StartReady, StartJobReady, RecordReady, ReplayLaneReady, QuietSteps
<1>3. CASE UNCHANGED vars
  BY <1>3 DEF vars, hostVars, agentVars, localDb, ReadyInv, TimesOK, ReportsOK, AllSince, Jobless
<1> QED BY <1>1, <1>2, <1>3 DEF SystemNext

LEMMA ReadyInitially ==
  ASSUME NEW asks, NEW rows, NEW level, NEW migrated, NEW budget,
         SystemInit(asks, rows, level, migrated, budget)
  PROVE  ReadyInv
<1>1. /\ now \in Nat /\ completeness = [l \in LaneSet |-> None]
      /\ pc = "down" /\ memory = NoMemory /\ job = NoJob
  BY DEF SystemInit, HostInit, AgentInit
<1>2. TimesOK
  BY <1>1 DEF TimesOK, Jobless
<1>3. ReportsOK
  BY <1>1, NoJobNoMemory DEF ReportsOK
<1>4. AllSince(None)
  BY DEF AllSince
<1> QED BY <1>1, <1>2, <1>3, <1>4, NoJobNoMemory DEF ReadyInv

\* The health endpoint counts back to the oldest success of any lane.
LEMMA ReadyHonest ==
  ASSUME ReadyInv
  PROVE  ReadyIsHonest
<1> SUFFICES ASSUME Ready, NEW l \in LaneSet
             PROVE  /\ completeness[l] # None /\ completeness[l].lastSuccess # None
                    /\ now - completeness[l].lastSuccess \in 0..MaxAge
  BY DEF ReadyIsHonest
<1>1. evaluateHealth(memory, now) = {}
  BY DEF Ready
<1>2. memory.healthSuccess # None
  BY <1>1 DEF evaluateHealth
<1>3. now - memory.healthSuccess \in 0..MaxAge
  BY <1>1, <1>2 DEF evaluateHealth
<1>4. /\ completeness[l] # None /\ completeness[l].lastSuccess # None
      /\ memory.healthSuccess <= completeness[l].lastSuccess
  BY <1>2 DEF ReadyInv, AllSince
<1>5. completeness[l].lastSuccess \in Nat /\ completeness[l].lastSuccess <= now /\ now \in Nat
  BY <1>4 DEF ReadyInv, TimesOK, LaneRow
<1>6. memory.healthSuccess \in Nat
  BY <1>2 DEF ReadyInv
<1>7. \A d, h, c, n \in Nat : n - h \in 0..d /\ h <= c /\ c <= n => n - c \in 0..d
  OBVIOUS
<1>8. now - completeness[l].lastSuccess \in 0..MaxAge
  BY <1>3, <1>4, <1>5, <1>6, <1>7, AgentAssumption, Zenon
<1> QED BY <1>4, <1>8

\* Whatever lanes there are, and whatever failed or restarted in between, an agent that
\* says it is ready has seen every lane complete within the policy's age
\* (apps/agent health.ts evaluateHealth, daemon.ts hydrate, runtime.ts evaluate).
THEOREM ReadyMeansFresh ==
  ASSUME NEW asks, NEW rows, NEW level, NEW migrated, NEW budget
  PROVE  SystemSpec(asks, rows, level, migrated, budget) => []ReadyIsHonest
<1>1. SystemInit(asks, rows, level, migrated, budget) => ReadyInv
  BY ReadyInitially
<1>2. ReadyInv /\ [SystemNext]_vars => ReadyInv'
  BY ReadyInvStep
<1>3. ReadyInv => ReadyIsHonest
  BY ReadyHonest
<1> QED BY <1>1, <1>2, <1>3, PTL DEF SystemSpec

---------------------------------------------------------------------------
(* What an alert stands on is inductive *)

\* A judgement on record stays on record, and keeps its event.
StoredGrows ==
  \A r \in stored : \E q \in stored' :
    q.subject = r.subject /\ q.digest = r.digest /\ q.verdict = r.verdict /\ (r.event => q.event)

LEMMA KeyParts ==
  \A r, key : r \in RowsUnder(key) <=>
    r \in stored /\ key = [subject |-> r.subject, digest |-> r.digest]
BY DEF RowsUnder, evaluationIdempotencyKey

LEMMA StandsKept ==
  ASSUME StoredGrows
  PROVE  \A key, verdict, withEvent : Stands(key, verdict, withEvent) => Stands(key, verdict, withEvent)'
BY DEF StoredGrows, Stands, RowsUnder, evaluationIdempotencyKey

\* Putting a replay judgement: it is on record, under its own key and no other.
LEMMA PutReplay ==
  ASSUME StoredOK, NEW row, IsRow(row), row.subject = "replay-completeness",
         row.verdict = row.digest[1], putEvaluation(row),
         jobs' = jobs, pc' \in BeforeStore => pc \in BeforeStore
  PROVE  /\ StoredOK' /\ StoredGrows
         /\ Stands(evaluationIdempotencyKey(row), row.verdict, FALSE)'
<1> DEFINE key == evaluationIdempotencyKey(row)
<1>1. stored' = IF RowsUnder(key) = {} THEN stored \cup {row} ELSE stored
  BY DEF putEvaluation
<1>2. key = [subject |-> row.subject, digest |-> row.digest]
  BY DEF evaluationIdempotencyKey
<1>3. StoredGrows
  BY <1>1 DEF StoredGrows
<1>4. CASE RowsUnder(key) = {}
  <2>1. \A r \in stored : ~ (r.subject = row.subject /\ r.digest = row.digest)
    BY <1>4 DEF RowsUnder, evaluationIdempotencyKey
  <2>2. stored' = stored \cup {row}
    BY <1>1, <1>4
  <2>3. row \in stored' /\ key = evaluationIdempotencyKey(row)
    BY <2>2
  <2>4. Stands(key, row.verdict, FALSE)'
    BY <2>3 DEF Stands, RowsUnder
  <2>5. StoredOK'
    BY <2>1, <2>2 DEF StoredOK
  <2> QED BY <1>3, <2>4, <2>5
<1>5. CASE RowsUnder(key) # {}
  <2>1. stored' = stored
    BY <1>1, <1>5
  <2>2. PICK r \in stored : r.subject = row.subject /\ r.digest = row.digest /\ r \in RowsUnder(key)
    BY <1>5, <1>2 DEF RowsUnder, evaluationIdempotencyKey
  <2>3. r.verdict = row.verdict
    BY <2>2 DEF StoredOK
  <2>4. r \in stored' /\ evaluationIdempotencyKey(r) = key
    BY <2>1, <2>2 DEF RowsUnder
  <2>5. Stands(key, row.verdict, FALSE)'
    BY <2>3, <2>4 DEF Stands, RowsUnder
  <2>6. StoredOK'
    BY <2>1 DEF StoredOK
  <2> QED BY <1>3, <2>5, <2>6
<1> QED BY <1>4, <1>5

\* Putting the economic judgement of a job: no earlier job put one under its key.
LEMMA PutEconomic ==
  ASSUME StoredOK, jobs \in Nat, NEW row, IsRow(row), row.subject = "economic",
         row.digest = <<jobs>>, putEvaluation(row), jobs' = jobs,
         pc \in BeforeStore, pc' \notin BeforeStore
  PROVE  /\ StoredOK' /\ StoredGrows
         /\ Stands(evaluationIdempotencyKey(row), row.verdict, FALSE)'
<1> DEFINE key == evaluationIdempotencyKey(row)
<1>1. \A r \in stored : ~ (r.subject = row.subject /\ r.digest = row.digest)
  <2> SUFFICES ASSUME NEW r \in stored, r.subject = "economic", r.digest = <<jobs>> PROVE FALSE
    OBVIOUS
  <2>1. PICK n \in Nat : r.digest = <<n>> /\ n < jobs
    BY DEF StoredOK
  <2>2. <<n>>[1] = <<jobs>>[1]
    BY <2>1
  <2> QED BY <2>1, <2>2
<1>2. RowsUnder(key) = {}
  BY <1>1 DEF RowsUnder, evaluationIdempotencyKey
<1>3. stored' = stored \cup {row}
  BY <1>2 DEF putEvaluation
<1>4. StoredGrows
  BY <1>3 DEF StoredGrows
<1>5. row \in stored' /\ key = evaluationIdempotencyKey(row)
  BY <1>3
<1>6. Stands(key, row.verdict, FALSE)'
  BY <1>5 DEF Stands, RowsUnder
<1>7. StoredOK'
  BY <1>1, <1>3 DEF StoredOK
<1> QED BY <1>4, <1>6, <1>7

\* Appending the verdict event changes nothing else of the judgement.
LEMMA EventAppended ==
  ASSUME StoredOK, NEW key, jobs' = jobs, pc' \in BeforeStore => pc \in BeforeStore,
         stored' = (stored \ RowsUnder(key)) \cup {[r EXCEPT !.event = TRUE] : r \in RowsUnder(key)}
  PROVE  /\ StoredOK' /\ StoredGrows
         /\ \A verdict : Stands(key, verdict, FALSE) => Stands(key, verdict, TRUE)'
<1> DEFINE Marked(r) == [r EXCEPT !.event = TRUE]
<1>1. \A r \in stored : /\ IsRow(Marked(r)) /\ Marked(r).event
                        /\ Marked(r).subject = r.subject /\ Marked(r).digest = r.digest
                        /\ Marked(r).payload = r.payload /\ Marked(r).verdict = r.verdict
  <2> SUFFICES ASSUME NEW r \in stored
               PROVE  /\ IsRow(Marked(r)) /\ Marked(r).event
                      /\ Marked(r).subject = r.subject /\ Marked(r).digest = r.digest
                      /\ Marked(r).payload = r.payload /\ Marked(r).verdict = r.verdict
    OBVIOUS
  <2>1. IsRow(r)
    BY DEF StoredOK
  <2>2. PICK x : x = Marked(r)
    OBVIOUS
  <2>3. /\ IsRow(x) /\ x.event /\ x.subject = r.subject /\ x.digest = r.digest
        /\ x.payload = r.payload /\ x.verdict = r.verdict
    BY <2>1, <2>2 DEF IsRow
  <2> QED BY <2>2, <2>3
<1>2. stored' = (stored \ RowsUnder(key)) \cup {Marked(r) : r \in RowsUnder(key)}
  OBVIOUS
<1> HIDE DEF Marked
\* Every row now comes from one that was there.
<1>3. ASSUME NEW q \in stored'
      PROVE  \E r \in stored : /\ IsRow(q) /\ q.subject = r.subject /\ q.digest = r.digest
                               /\ q.payload = r.payload /\ q.verdict = r.verdict
                               /\ q = IF r \in RowsUnder(key) THEN Marked(r) ELSE r
  <2>1. CASE q \in stored \ RowsUnder(key)
    BY <2>1 DEF StoredOK
  <2>2. CASE q \in {Marked(r) : r \in RowsUnder(key)}
    <3>1. PICK r \in RowsUnder(key) : q = Marked(r)
      BY <2>2
    <3>2. r \in stored
      BY DEF RowsUnder
    <3> QED BY <1>1, <3>1, <3>2
  <2> QED BY <1>2, <2>1, <2>2
<1>4. StoredOK'
  <2>1. \A r \in stored' : IsRow(r) /\ r.subject \in {"replay-completeness", "economic"}
    BY <1>3 DEF StoredOK
  <2>2. ASSUME NEW q \in stored', NEW p \in stored', p.subject = q.subject, p.digest = q.digest
        PROVE  p = q
    <3>1. PICK r \in stored : /\ q.subject = r.subject /\ q.digest = r.digest
                              /\ q = IF r \in RowsUnder(key) THEN Marked(r) ELSE r
      BY <1>3
    <3>2. PICK s \in stored : /\ p.subject = s.subject /\ p.digest = s.digest
                              /\ p = IF s \in RowsUnder(key) THEN Marked(s) ELSE s
      BY <1>3
    <3>3. r = s
      BY <2>2, <3>1, <3>2 DEF StoredOK
    <3> QED BY <3>1, <3>2, <3>3
  <2>3. \A r \in stored' : r.subject = "replay-completeness" => r.verdict = r.digest[1]
    BY <1>3 DEF StoredOK
  <2>4. \A r \in stored' : r.subject = "economic" =>
          \E n \in Nat : r.digest = <<n>> /\ n <= jobs' /\ (pc' \in BeforeStore => n < jobs')
    BY <1>3 DEF StoredOK
  <2> QED BY <2>1, <2>2, <2>3, <2>4 DEF StoredOK
<1>5. StoredGrows
  <2> SUFFICES ASSUME NEW r \in stored
               PROVE  \E q \in stored' : /\ q.subject = r.subject /\ q.digest = r.digest
                                         /\ q.verdict = r.verdict /\ (r.event => q.event)
    BY DEF StoredGrows
  <2>1. CASE r \in RowsUnder(key)
    BY <1>1, <1>2, <2>1
  <2>2. CASE r \notin RowsUnder(key)
    BY <1>2, <2>2
  <2> QED BY <2>1, <2>2
<1>6. ASSUME NEW verdict, Stands(key, verdict, FALSE)
      PROVE  Stands(key, verdict, TRUE)'
  <2>1. PICK r \in RowsUnder(key) : r.verdict = verdict
    BY <1>6 DEF Stands
  <2>2. r \in stored /\ evaluationIdempotencyKey(r) = key
    BY DEF RowsUnder
  <2>3. /\ Marked(r) \in stored' /\ Marked(r).verdict = verdict /\ Marked(r).event
        /\ evaluationIdempotencyKey(Marked(r)) = key
    BY <1>1, <1>2, <2>1, <2>2 DEF evaluationIdempotencyKey
  <2> QED BY <2>3 DEF Stands, RowsUnder
<1> QED BY <1>4, <1>5, <1>6

\* A step that stores and raises nothing.
LEMMA QuietAlerts ==
  ASSUME AlertInv, UNCHANGED <<stored, raised, jobs, sharingLevel>>, JobOK',
         pc' \in BeforeStore => pc \in BeforeStore, pc' = "drain" => job'.bundle = None
  PROVE  AlertInv'
<1>1. StoredOK'
  BY DEF AlertInv, StoredOK
<1>2. AlertsStand'
  BY DEF AlertInv, AlertsStand, RowsUnder
<1> QED BY <1>1, <1>2 DEF AlertInv

LEMMA StillAlerts ==
  ASSUME AlertInv, UNCHANGED <<stored, raised, jobs, sharingLevel, pc, job>>
  PROVE  AlertInv'
BY DEF AlertInv, StoredOK, JobOK, AlertsStand, RowsUnder, Stands, EconomicKey

\* A step that stores, and raises nothing.
LEMMA StoringAlerts ==
  ASSUME AlertInv, StoredGrows, StoredOK', JobOK', UNCHANGED <<raised, jobs, sharingLevel>>, pc' # "drain"
  PROVE  AlertInv'
<1>1. \A a \in raised : a.evaluation # None => Stands(a.evaluation, a.to, TRUE)
  BY DEF AlertInv, AlertsStand, Stands
<1>2. \A a \in raised' : a.evaluation # None => Stands(a.evaluation, a.to, TRUE)'
  BY <1>1, StandsKept
<1>3. AlertsStand'
  BY <1>2 DEF AlertsStand, Stands
<1> QED BY <1>3 DEF AlertInv

LEMMA EndingAlerts ==
  ASSUME AlertInv, UNCHANGED <<stored, raised, jobs, sharingLevel>>, pc' \in Jobless
  PROVE  AlertInv'
<1>1. JobOK'
  BY DEF JobOK, Jobless
<1> QED BY <1>1, QuietAlerts DEF Jobless, BeforeStore

LEMMA StartJobAlerts ==
  ASSUME AlertInv, StartJob
  PROVE  AlertInv'
<1>1. /\ jobs' = jobs + 1 /\ pc' = "lanes" /\ job' = [NoJob EXCEPT !.at = now]
      /\ UNCHANGED <<stored, raised, sharingLevel>>
  BY DEF StartJob, localDb, truth
<1>2. job'.bundle = None
  BY <1>1, NoJobNoMemory DEF IsJob
<1>3. JobOK'
  BY <1>1, <1>2 DEF JobOK
<1>4. StoredOK'
  <2>1. \A n \in Nat : n <= jobs => n < jobs' /\ n <= jobs'
    BY <1>1 DEF AlertInv
  <2> QED BY <1>1, <2>1 DEF AlertInv, StoredOK
<1>5. AlertsStand'
  BY <1>1 DEF AlertInv, AlertsStand, RowsUnder
<1> QED BY <1>1, <1>3, <1>4, <1>5 DEF AlertInv

LEMMA ReplayLaneAlerts ==
  ASSUME IsJob(job), AlertInv, NEW complete \in BOOLEAN, ReplayLane(complete)
  PROVE  AlertInv'
<1>1. /\ pc = "lanes" /\ pc' \in {"lanes", "record"}
      /\ UNCHANGED <<stored, raised, jobs, sharingLevel>>
  BY DEF ReplayLane, spent, truth
<1>2. PICK reports : job' = [job EXCEPT !.reports = reports]
  BY DEF ReplayLane
<1>3. job'.bundle = job.bundle
  BY <1>2 DEF IsJob
<1>4. JobOK'
  BY <1>1, <1>3 DEF AlertInv, JobOK
<1> QED BY <1>1, <1>4, QuietAlerts DEF BeforeStore

LEMMA RecordAlerts ==
  ASSUME IsJob(job), AlertInv, recordEvaluation
  PROVE  AlertInv'
<1>1. /\ pc = "record" /\ UNCHANGED <<raised, jobs, sharingLevel>>
  BY DEF recordEvaluation, spent, truth
<1>2. PICK verdict, stale, reportable, reports, pinned :
        LET observation == [verdict |-> verdict, stale |-> stale, reportable |-> reportable, reports |-> reports]
            row == EvaluationInput("replay-completeness", <<verdict, stale, reportable, reports>>, verdict)
        IN  /\ job' = [job EXCEPT !.observation = observation,
                                  !.evaluation = IF pinned THEN evaluationIdempotencyKey(row) ELSE None]
            /\ IF pinned THEN putEvaluation(row) ELSE UNCHANGED stored
            /\ pc' = IF pinned THEN "event" ELSE "raise"
  BY DEF recordEvaluation
<1> DEFINE observation == [verdict |-> verdict, stale |-> stale, reportable |-> reportable, reports |-> reports]
           row == EvaluationInput("replay-completeness", <<verdict, stale, reportable, reports>>, verdict)
           key == evaluationIdempotencyKey(row)
<1>3. /\ job' = [job EXCEPT !.observation = observation, !.evaluation = IF pinned THEN key ELSE None]
      /\ pinned => putEvaluation(row) /\ pc' = "event"
      /\ ~ pinned => stored' = stored /\ pc' = "raise"
  BY <1>2
<1>4. /\ IsRow(row) /\ row.subject = "replay-completeness" /\ row.verdict = verdict
      /\ row.verdict = row.digest[1]
  BY DEF EvaluationInput, IsRow
<1>5. observation.verdict = verdict
  OBVIOUS
<1> HIDE DEF row, observation, key
<1>6. /\ job'.bundle = job.bundle /\ job'.observation = observation
      /\ job'.evaluation = IF pinned THEN key ELSE None
  BY <1>3 DEF IsJob
<1>7. job.bundle = None
  BY <1>1 DEF AlertInv, JobOK
<1>8. CASE pinned
  <2>1. StoredOK' /\ StoredGrows /\ Stands(key, verdict, FALSE)'
    BY <1>1, <1>3, <1>4, <1>8, PutReplay DEF AlertInv, BeforeStore, key
  <2>2. JobOK'
    BY <1>3, <1>5, <1>6, <1>7, <1>8, <2>1 DEF JobOK, Stands
  <2> QED BY <1>1, <1>3, <1>8, <2>1, <2>2, StoringAlerts
<1>9. CASE ~ pinned
  <2>1. JobOK'
    BY <1>3, <1>6, <1>7, <1>9 DEF JobOK
  <2> QED BY <1>1, <1>3, <1>9, <2>1, QuietAlerts DEF BeforeStore
<1> QED BY <1>8, <1>9

LEMMA AppendAlerts ==
  ASSUME AlertInv, appendVerdictEvent
  PROVE  AlertInv'
<1> DEFINE key == job.evaluation
<1>1. /\ pc \in {"event", "economicEvent"} /\ pc' = IF pc = "event" THEN "raise" ELSE "mirror"
      /\ UNCHANGED <<raised, jobs, sharingLevel, job>>
      /\ stored' = (stored \ RowsUnder(key)) \cup {[r EXCEPT !.event = TRUE] : r \in RowsUnder(key)}
  BY DEF appendVerdictEvent, truth, spent
<1>2. PICK k : k = key
  OBVIOUS
<1>3. /\ StoredOK' /\ StoredGrows
      /\ \A verdict : Stands(k, verdict, FALSE) => Stands(k, verdict, TRUE)'
  BY <1>1, <1>2, EventAppended DEF AlertInv, BeforeStore
<1>4. CASE pc = "event"
  <2>1. Stands(k, job.observation.verdict, FALSE) /\ job.bundle = None
    BY <1>2, <1>4 DEF AlertInv, JobOK
  <2>2. PICK v : v = job.observation.verdict
    OBVIOUS
  <2>3. Stands(k, v, TRUE)' /\ k = job'.evaluation /\ v = job'.observation.verdict
    BY <1>1, <1>2, <1>3, <2>1, <2>2
  <2>4. JobOK'
    BY <1>1, <1>4, <2>1, <2>3 DEF JobOK, Stands
  <2> QED BY <1>1, <1>3, <1>4, <2>4, StoringAlerts
<1>5. CASE pc = "economicEvent"
  <2>1. /\ Stands(k, job.bundle.status, FALSE) /\ k = EconomicKey
        /\ job.bundle \in BundleRow /\ job.bundle.digest = jobs
    BY <1>2, <1>5 DEF AlertInv, JobOK
  <2>2. PICK v : v = job.bundle.status
    OBVIOUS
  <2>3. Stands(k, v, TRUE)' /\ k = EconomicKey' /\ k = job'.evaluation /\ v = job'.bundle.status
    BY <1>1, <1>2, <1>3, <2>1, <2>2 DEF EconomicKey
  <2>4. JobOK'
    BY <1>1, <1>5, <2>1, <2>3 DEF JobOK, Stands
  <2> QED BY <1>1, <1>3, <1>5, <2>4, StoringAlerts
<1> QED BY <1>1, <1>4, <1>5

LEMMA StoreEconomicAlerts ==
  ASSUME IsJob(job), AlertInv, StoreEconomic
  PROVE  AlertInv'
<1> DEFINE row == EconomicRow(job.bundle)
           key == evaluationIdempotencyKey(row)
<1>1. /\ pc = "store" /\ pc' = "economicEvent" /\ putEvaluation(row)
      /\ job' = [job EXCEPT !.evaluation = key]
      /\ UNCHANGED <<raised, jobs, sharingLevel>>
  BY DEF StoreEconomic, truth, spent
<1>2. job.bundle \in BundleRow /\ job.bundle.digest = jobs /\ jobs \in Nat
  BY <1>1 DEF AlertInv, JobOK
<1>3. /\ IsRow(row) /\ row.subject = "economic" /\ row.digest = <<jobs>>
      /\ row.verdict = job.bundle.status
  BY <1>2 DEF EconomicRow, EvaluationInput, IsRow
<1> HIDE DEF row, key
<1>4. job'.bundle = job.bundle /\ job'.evaluation = key
  BY <1>1 DEF IsJob
<1>5. PICK r, v : r = row /\ v = row.verdict
  OBVIOUS
<1>6. StoredOK' /\ StoredGrows /\ Stands(evaluationIdempotencyKey(r), v, FALSE)'
  BY <1>1, <1>2, <1>3, <1>5, PutEconomic DEF AlertInv, BeforeStore
<1>7. EconomicKey' = evaluationIdempotencyKey(r) /\ job'.evaluation = EconomicKey'
  BY <1>4, <1>5 DEF EconomicKey, key, row
<1>8. JobOK'
  BY <1>1, <1>2, <1>3, <1>4, <1>5, <1>6, <1>7 DEF JobOK, Stands
<1> QED BY <1>1, <1>6, <1>8, StoringAlerts

LEMMA RaiseAlerts ==
  ASSUME AlertInv, RaiseReplay
  PROVE  AlertInv'
<1>1. PICK a : /\ raised' = raised \cup {a}
               /\ a.evaluation = job.evaluation /\ a.to = job.observation.verdict
  <2>1. PICK a : a = Alert("replay-completeness", job.evaluation, memory.previous, job.observation.verdict)
    OBVIOUS
  <2>2. a.evaluation = job.evaluation /\ a.to = job.observation.verdict
    BY <2>1 DEF Alert
  <2> QED BY <2>1, <2>2 DEF RaiseReplay
<1>2. /\ pc = "raise" /\ pc' = "gate" /\ UNCHANGED <<stored, job, jobs, sharingLevel>>
  BY DEF RaiseReplay, truth, spent
<1>3. a.evaluation # None => \E r \in RowsUnder(a.evaluation) : r.event /\ r.verdict = a.to
  BY <1>1, <1>2 DEF AlertInv, JobOK, Stands
<1>4. AlertsStand'
  BY <1>1, <1>2, <1>3 DEF AlertInv, AlertsStand, RowsUnder
<1>5. JobOK' /\ StoredOK'
  BY <1>2 DEF AlertInv, JobOK, StoredOK, BeforeStore
<1> QED BY <1>2, <1>4, <1>5 DEF AlertInv

LEMMA RaiseEconomicAlerts ==
  ASSUME AlertInv, RaiseEconomic
  PROVE  AlertInv'
<1>1. PICK a : /\ raised' = raised \cup {a} /\ a.evaluation = job.evaluation
               /\ a.to = IF job.bundle = None THEN "UNKNOWN" ELSE job.bundle.status
  <2> DEFINE verdict == IF job.bundle = None THEN "UNKNOWN" ELSE job.bundle.status
  <2>1. PICK a : a = Alert("economic", job.evaluation, memory.economicPrevious, verdict)
    OBVIOUS
  <2>2. a.evaluation = job.evaluation /\ a.to = verdict
    BY <2>1 DEF Alert
  <2> QED BY <2>1, <2>2 DEF RaiseEconomic
<1>2. /\ pc = "raiseEconomic" /\ pc' = "drain" /\ UNCHANGED <<stored, job, jobs, sharingLevel>>
  BY DEF RaiseEconomic, truth, spent
<1>3. CASE job.bundle = None /\ job.evaluation = None
  <2>1. AlertsStand'
    BY <1>1, <1>2, <1>3 DEF AlertInv, AlertsStand, RowsUnder
  <2> QED BY <1>2, <2>1 DEF AlertInv, JobOK, StoredOK, BeforeStore
<1>4. CASE /\ job.bundle \in BundleRow /\ job.evaluation = EconomicKey
           /\ Stands(EconomicKey, job.bundle.status, TRUE)
  <2>1. a.evaluation = EconomicKey /\ a.to = job.bundle.status
    BY <1>1, <1>4, AgentAssumption
  <2>2. \E r \in RowsUnder(a.evaluation) : r.event /\ r.verdict = a.to
    BY <1>4, <2>1 DEF Stands
  <2>3. AlertsStand'
    BY <1>1, <1>2, <2>1, <2>2 DEF AlertInv, AlertsStand, RowsUnder, EconomicKey
  <2> QED BY <1>2, <2>3 DEF AlertInv, JobOK, StoredOK, BeforeStore
<1> QED BY <1>2, <1>3, <1>4 DEF AlertInv, JobOK

\* The collector's bundle, and what a job carries it through.
LEMMA CollectAlerts ==
  ASSUME IsJob(job), now \in Nat, AlertInv, NEW found \in BOOLEAN, collectConfigured(found)
  PROVE  AlertInv'
<1> DEFINE bundle == Bundle(IF breach THEN "CRITICAL" ELSE "OK")
<1>1. /\ pc = "collect" /\ UNCHANGED <<stored, raised, jobs, sharingLevel>>
      /\ job' = [job EXCEPT !.evaluation = None, !.bundle = IF found THEN bundle ELSE None]
      /\ pc' = IF found THEN "store" ELSE "raiseEconomic"
  BY DEF collectConfigured, truth, localDb, spent
<1>2. bundle \in BundleRow /\ bundle.digest = jobs
  <2>1. PICK status \in {"OK", "CRITICAL"} : bundle = Bundle(status)
    OBVIOUS
  <2>2. jobs \in Nat /\ sharingLevel \in Levels /\ now + ExpiresAfter \in Nat
    BY AgentAssumption DEF AlertInv
  <2> HIDE DEF bundle
  <2> QED BY <2>1, <2>2 DEF Bundle, BundleRow
<1> HIDE DEF bundle
<1>3. job'.evaluation = None /\ job'.bundle = IF found THEN bundle ELSE None
  BY <1>1 DEF IsJob
<1>4. JobOK'
  BY <1>1, <1>2, <1>3 DEF JobOK
<1> QED BY <1>1, <1>4, QuietAlerts DEF BeforeStore

LEMMA AlertInvStep ==
  ASSUME ReadyInv, AlertInv, [SystemNext]_vars
  PROVE  AlertInv'
<1>1. IsJob(job) /\ now \in Nat
  BY DEF ReadyInv, TimesOK
<1>2. CASE HostNext /\ UNCHANGED agentVars
  BY <1>2, StillAlerts DEF agentVars, localDb, spent, truth
<1>3. CASE UNCHANGED vars
  BY <1>3, StillAlerts DEF vars, agentVars, localDb, spent, truth
<1>4. CASE startAgent
  BY <1>4, EndingAlerts DEF startAgent, Jobless, localDb, spent, truth
<1>5. CASE collectEconomic
  <2>1. /\ pc = "gate" /\ pc' \in {"collect", "drain"}
        /\ UNCHANGED <<stored, raised, jobs, sharingLevel, job>>
    BY <1>5 DEF collectEconomic, localDb, spent, truth
  <2>2. job'.bundle = None
    BY <2>1 DEF AlertInv, JobOK
  <2>3. JobOK'
    BY <2>1, <2>2 DEF JobOK
  <2> QED BY <2>1, <2>2, <2>3, QuietAlerts DEF BeforeStore
<1>6. ASSUME NEW arrives \in BOOLEAN, ingest(arrives)
      PROVE  AlertInv'
  <2>1. /\ pc = "mirror" /\ pc' = "await"
        /\ UNCHANGED <<stored, raised, jobs, sharingLevel, job>>
    BY <1>6 DEF ingest, localDb, spent, truth
  <2>2. JobOK'
    BY <2>1 DEF AlertInv, JobOK, Stands, RowsUnder, EconomicKey
  <2> QED BY <2>1, <2>2, QuietAlerts DEF BeforeStore
<1>7. CASE mirrorAnswered \/ mirrorTimesOut \/ mirrorDisabled
  <2>1. /\ pc = "await" /\ pc' = "raiseEconomic"
        /\ UNCHANGED <<stored, raised, jobs, sharingLevel, job>>
    BY <1>7 DEF mirrorAnswered, mirrorTimesOut, mirrorDisabled, mirrorEnds, localDb, spent, truth
  <2>2. JobOK'
    BY <2>1 DEF AlertInv, JobOK, Stands, RowsUnder, EconomicKey
  <2> QED BY <2>1, <2>2, QuietAlerts DEF BeforeStore
<1>8. CASE drain \/ Crash \/ \E answers \in BOOLEAN : JobThrows(answers)
  BY <1>8, EndingAlerts DEF drain, Crash, JobThrows, Jobless, localDb, spent, truth
<1>9. CASE Breach \/ Migrate
  BY <1>9, StillAlerts DEF Breach, Migrate, localDb, spent, truth
<1> QED BY <1>1, <1>2, <1>3, <1>4, <1>5, <1>6, <1>7, <1>8, <1>9, StartJobAlerts, ReplayLaneAlerts,
           RecordAlerts, AppendAlerts, StoreEconomicAlerts, RaiseAlerts, RaiseEconomicAlerts,
           CollectAlerts DEF SystemNext, AgentNext

LEMMA AlertInitially ==
  ASSUME NEW asks, NEW rows, NEW level, NEW migrated, NEW budget,
         SystemInit(asks, rows, level, migrated, budget)
  PROVE  AlertInv
<1>1. /\ stored = {} /\ raised = {} /\ pc = "down" /\ jobs \in Nat /\ sharingLevel \in Levels
  BY DEF SystemInit, AgentInit
<1> QED BY <1>1 DEF AlertInv, StoredOK, JobOK, AlertsStand

\* An alert that names an evaluation stands on one the database has, with its event and
\* with the verdict the alert announces, and a recorded breach is raised by the job that
\* recorded it whatever the mirror gave, however jobs fail and processes die
\* (runtime.ts evaluate, daemon.ts collectEconomic, evaluations.ts).
THEOREM AlertsStandOnEvidence ==
  ASSUME NEW asks, NEW rows, NEW level, NEW migrated, NEW budget
  PROVE  SystemSpec(asks, rows, level, migrated, budget) => []AlertsStand
<1>1. SystemInit(asks, rows, level, migrated, budget) => ReadyInv /\ AlertInv
  BY ReadyInitially, AlertInitially
<1>2. ReadyInv /\ AlertInv /\ [SystemNext]_vars => ReadyInv' /\ AlertInv'
  BY ReadyInvStep, AlertInvStep
<1>3. AlertInv => AlertsStand
  BY DEF AlertInv
<1> QED BY <1>1, <1>2, <1>3, PTL DEF SystemSpec

---------------------------------------------------------------------------
(* What the agent takes for mirrored is inductive *)

\* Most handlers answer the request or move it on.
Answers(id) ==
  \/ \E status, value : Reply(id, status, value)
  \/ \E to : Goto(id, to)

LEMMA HandlersAnswer ==
  ASSUME NEW id, Handle(id), ~ authorize(id), ~ readVerdicts(id), ~ ingestHostedEvaluation(id)
  PROVE  Answers(id)
<1>1. CASE readStatus(id) \/ readHostedEvaluation(id)
  BY <1>1 DEF readStatus, readHostedEvaluation, Refuse, Answers
<1>2. CASE acknowledgeTenantAlert(id)
  <2>1. \E code : Refuse(id, code)
    BY <1>2 DEF acknowledgeTenantAlert
  <2> QED BY <2>1 DEF Refuse, Answers
<1>3. CASE checkIngest(id) \/ checkHint(id)
  <2>1. \/ \E code : Refuse(id, code)
        \/ \E to : Goto(id, to)
    BY <1>3 DEF checkIngest, checkHint
  <2> QED BY <2>1 DEF Refuse, Answers
<1>4. CASE ingestRefused(id) \/ ingestAuditFails(id) \/ enqueueFails(id)
  <2>1. \E code : Refuse(id, code)
    BY <1>4 DEF ingestRefused, ingestAuditFails, enqueueFails
  <2> QED BY <2>1 DEF Refuse, Answers
<1>5. CASE ingestAnswered(id)
  BY <1>5 DEF ingestAnswered, Answers
<1>6. CASE claimNonce(id)
  <2>1. \/ \E code : Refuse(id, code)
        \/ \E to : Goto(id, to)
    BY <1>6 DEF claimNonce
  <2> QED BY <2>1 DEF Refuse, Answers
<1>7. CASE enqueueHint(id)
  <2>1. \E value : Reply(id, 202, value)
    BY <1>7 DEF enqueueHint
  <2> QED BY <2>1 DEF Answers
<1> QED BY <1>1, <1>2, <1>3, <1>4, <1>5, <1>6, <1>7 DEF Handle

\* Whatever happens to a request, it asks what it asked, except that a walk turns pages.
LEMMA AskKept ==
  ASSUME HostInv, NEW id \in DOMAIN requests, Handle(id)
  PROVE  /\ OnlyThis(id) /\ requests'[id].ask.kind = requests[id].ask.kind
         /\ requests[id].ask.kind # "verdicts" => requests'[id].ask = requests[id].ask
<1>1. RequestsOK /\ IsRequest(requests[id])
  BY DEF HostInv, RequestsOK
<1>2. CASE Answers(id)
  BY <1>1, <1>2, ReplyMoves, GotoMoves DEF Answers, Moved
<1>3. CASE \E tenant : requests' = [requests EXCEPT ![id].pc = "authorized", ![id].tenant = tenant]
  <2>1. PICK tenant : requests' = [requests EXCEPT ![id].pc = "authorized", ![id].tenant = tenant]
    BY <1>3
  <2>2. requests' = [requests EXCEPT ![id] = [[requests[id] EXCEPT !.pc = "authorized"] EXCEPT !.tenant = tenant]]
    BY <1>1, <2>1 DEF RequestsOK
  <2> QED BY <1>1, <2>2 DEF RequestsOK, IsRequest, OnlyThis
<1>4. CASE \E code : requests' = [requests EXCEPT ![id].pc = "stored", ![id].status = code]
  <2>1. PICK code : requests' = [requests EXCEPT ![id].pc = "stored", ![id].status = code]
    BY <1>4
  <2>2. requests' = [requests EXCEPT ![id] = [[requests[id] EXCEPT !.pc = "stored"] EXCEPT !.status = code]]
    BY <1>1, <2>1 DEF RequestsOK
  <2> QED BY <1>1, <2>2 DEF RequestsOK, IsRequest, OnlyThis
<1>5. CASE readVerdicts(id)
  <2>1. requests[id].ask.kind = "verdicts"
    BY <1>5 DEF readVerdicts, At, kindOf
  <2>2. CASE \E rows : requests' = [requests EXCEPT ![id] = afterPage(requests[id], rows)]
    <3>1. PICK rows : requests' = [requests EXCEPT ![id] = afterPage(requests[id], rows)]
      BY <2>2
    <3> DEFINE z == afterPage(requests[id], rows)
    <3>2. z.ask.kind = "verdicts"
      BY <1>1, <2>1, AfterPageIsRequest
    <3>3. requests' = [requests EXCEPT ![id] = z]
      BY <3>1
    <3> HIDE DEF z
    <3> QED BY <1>1, <2>1, <3>2, <3>3 DEF RequestsOK, OnlyThis
  <2>3. CASE Refuse(id, 404)
    BY <1>2, <2>3 DEF Refuse, Answers
  <2> QED BY <1>5, <2>2, <2>3 DEF readVerdicts
<1>6. CASE authorize(id)
  BY <1>2, <1>3, <1>6, ZenonT(30) DEF authorize, Refuse, Answers
<1>7. CASE ingestHostedEvaluation(id)
  BY <1>4, <1>7 DEF ingestHostedEvaluation
<1> QED BY <1>2, <1>5, <1>6, <1>7, HandlersAnswer

LEMMA PostIsPostId == AlertInv /\ pc \in {"mirror", "await"} =>
  job.bundle \in BundleRow /\ job.bundle.digest \in Nat /\ Post = PostId(job.bundle.digest)
BY DEF AlertInv, JobOK, BundleRow, Post, PostId

LEMMA PostsStep ==
  ASSUME HostInv, AlertInv, PostsOK, [SystemNext]_vars
  PROVE  PostsOK'
<1>1. CASE HostNext
  <2>2. CASE RevokeToken \/ SetSharing \/ Tick
    BY <2>2 DEF RevokeToken, SetSharing, Tick, PostsOK
  <2>3. ASSUME NEW id \in DOMAIN requests, Handle(id)
        PROVE  PostsOK'
    <3>1. ASSUME NEW n \in Nat, PostId(n) \in DOMAIN requests'
          PROVE  PostId(n) \in DOMAIN requests /\ requests'[PostId(n)].ask = requests[PostId(n)].ask
      BY <2>3, <3>1, AskKept DEF PostsOK, OnlyThis
    <3> QED BY <3>1 DEF PostsOK
  <2> QED BY <1>1, <2>2, <2>3 DEF HostNext
<1>2. CASE AgentNext
  <2>1. CASE UNCHANGED hostVars
    BY <2>1 DEF PostsOK, hostVars
  <2>2. CASE pc = "mirror" /\ Posts
    <3>1. PICK ask : /\ IsAsk(ask) /\ ask.kind = "ingest" /\ ask.token = AgentToken /\ ask.body = job.bundle
                     /\ Post \notin DOMAIN requests
                     /\ requests' = [id \in DOMAIN requests \cup {Post} |->
                                       IF id = Post THEN NewRequest(ask) ELSE requests[id]]
      BY <2>2 DEF Posts
    <3>2. /\ job.bundle.deployment = AgentDeployment /\ job.bundle.digest \in Nat
          /\ Post = PostId(job.bundle.digest)
      BY <2>2, PostIsPostId DEF BundleRow
    <3>3. NewRequest(ask).ask = ask
      BY <3>1, NewRequestOK
    <3>4. ASSUME NEW n \in Nat, PostId(n) \in DOMAIN requests', PostId(n) = Post
          PROVE  requests'[PostId(n)].ask = ask /\ n = job.bundle.digest
      <4>1. n = job.bundle.digest
        BY <3>2, <3>4 DEF PostId
      <4> QED BY <3>1, <3>3, <3>4, <4>1
    <3>5. ASSUME NEW n \in Nat, PostId(n) \in DOMAIN requests', PostId(n) # Post
          PROVE  PostId(n) \in DOMAIN requests /\ requests'[PostId(n)] = requests[PostId(n)]
      BY <3>1, <3>5
    <3> QED BY <3>1, <3>2, <3>4, <3>5 DEF PostsOK
  <2> QED BY <1>2, <2>1, <2>2, AgentTouchesHost
<1>3. CASE UNCHANGED vars
  BY <1>3 DEF vars, hostVars, PostsOK
<1> QED BY <1>1, <1>2, <1>3 DEF SystemNext

\* Only the end of a mirror says anything is mirrored.
LEMMA MirroredOnlyThere ==
  ASSUME ReadyInv, AgentNext, ~ mirrorAnswered, ~ mirrorTimesOut, ~ mirrorDisabled
  PROVE  memory'.mirrored \in {None, memory.mirrored}
<1>1. IsMemory(memory)
  BY DEF ReadyInv
<1>2. CASE memory' = memory \/ memory' = NoMemory \/ memory' = hydrated
  BY <1>2, NoJobNoMemory, HydratedReady
<1>3. CASE recordEvaluation
  <2>1. PICK t : memory' = [memory EXCEPT !.lastSuccess = t]
    BY <1>3 DEF recordEvaluation
  <2> QED BY <1>1, <2>1 DEF IsMemory
<1>4. CASE RaiseReplay
  <2>1. PICK v, t : memory' = [memory EXCEPT !.previous = v, !.verdict = v, !.failures = 0, !.database = TRUE,
                                             !.schema = TRUE, !.healthSuccess = t]
    BY <1>4 DEF RaiseReplay
  <2> QED BY <1>1, <2>1 DEF IsMemory
<1>5. CASE collectEconomic
  <2>1. memory' = memory \/ memory' = [memory EXCEPT !.economicLastRun = now]
    BY <1>5 DEF collectEconomic
  <2> QED BY <1>1, <2>1 DEF IsMemory
<1>6. CASE RaiseEconomic
  <2>1. PICK v : memory' = [memory EXCEPT !.economicPrevious = v]
    BY <1>6 DEF RaiseEconomic
  <2> QED BY <1>1, <2>1 DEF IsMemory
<1>7. CASE drain
  <2>1. PICK d : memory' = [memory EXCEPT !.alertingDegraded = d]
    BY <1>7 DEF drain
  <2> QED BY <1>1, <2>1 DEF IsMemory
<1>8. ASSUME NEW answers \in BOOLEAN, JobThrows(answers)
      PROVE  memory'.mirrored = memory.mirrored
  <2>1. memory' = memory \/ memory' = [memory EXCEPT !.database = answers, !.failures = @ + 1]
    BY <1>8 DEF JobThrows
  <2> QED BY <1>1, <2>1 DEF IsMemory
<1>9. CASE \/ startAgent \/ StartJob \/ appendVerdictEvent \/ StoreEconomic \/ Crash \/ Breach \/ Migrate
           \/ \E complete \in BOOLEAN : ReplayLane(complete)
           \/ \E found \in BOOLEAN : collectConfigured(found)
           \/ \E arrives \in BOOLEAN : ingest(arrives)
  <2>1. memory' = memory \/ memory' = NoMemory \/ memory' = hydrated
    BY <1>9 DEF startAgent, StartJob, appendVerdictEvent, StoreEconomic, Crash, Breach, Migrate,
       ReplayLane, collectConfigured, ingest
  <2> QED BY <1>2, <2>1
<1> QED BY <1>3, <1>4, <1>5, <1>6, <1>7, <1>8, <1>9 DEF AgentNext

\* An accepted request of the agent is a record of its tenant.
LEMMA AcceptedPost ==
  ASSUME HostInv, AlertInv, PostsOK, pc = "await", Post \in DOMAIN requests,
         requests[Post].pc = "answered", ingestOutcome(requests[Post].status) \in {"sent", "duplicate"}
  PROVE  \E e \in evaluations : /\ e.digest = job.bundle.digest
                                /\ e.deployment = AgentDeployment /\ e.tenant = Tokens[AgentToken].tenant
<1> DEFINE r == requests[Post]
<1>1. /\ r.ask.kind = "ingest" /\ r.ask.token = AgentToken
      /\ r.ask.body.digest = job.bundle.digest /\ r.ask.body.deployment = AgentDeployment
  BY PostIsPostId DEF PostsOK
<1>2. r.status \in {200, 201, 202}
  BY DEF ingestOutcome
<1>3. Backed(r)
  BY DEF HostInv
<1>4. Accepted(r) /\ Authorized(r)
  BY <1>1, <1>2, <1>3 DEF Backed, Accepted, Authorized
<1>5. PICK i \in idempotency : i.tenant = r.tenant /\ i.payloadHash = r.ask.body
  BY <1>3, <1>4 DEF Backed
<1>6. RowOf(r.tenant, r.ask.body) \in evaluations
  BY <1>5 DEF HostInv, RememberedOK
<1>7. r.tenant = Tokens[AgentToken].tenant
  BY <1>1, <1>3, <1>4 DEF Backed
<1>8. /\ RowOf(r.tenant, r.ask.body).tenant = r.tenant
      /\ RowOf(r.tenant, r.ask.body).digest = r.ask.body.digest
      /\ RowOf(r.tenant, r.ask.body).deployment = r.ask.body.deployment
  BY DEF RowOf
<1> QED BY <1>1, <1>6, <1>7, <1>8

LEMMA MirrorStep ==
  ASSUME HostInv, ReadyInv, AlertInv, PostsOK, MirrorHonest, [SystemNext]_vars
  PROVE  MirrorHonest'
<1>1. evaluations \subseteq evaluations'
  BY HostInvStep
<1>2. CASE memory'.mirrored \in {None, memory.mirrored}
  BY <1>1, <1>2 DEF MirrorHonest
<1>3. ASSUME NEW outcome, mirrorEnds(outcome)
      PROVE  /\ memory'.mirrored.outcome = outcome /\ memory'.mirrored.digest = job.bundle.digest
             /\ pc = "await"
  <2>1. PICK d, x : /\ x = [outcome |-> outcome, digest |-> job.bundle.digest]
                    /\ memory' = [memory EXCEPT !.mirrored = x, !.hostedIngestDegraded = d]
    BY <1>3 DEF mirrorEnds
  <2>2. memory'.mirrored = x
    BY <2>1 DEF ReadyInv, IsMemory
  <2> QED BY <1>3, <2>1, <2>2 DEF mirrorEnds
<1>4. CASE mirrorTimesOut \/ mirrorDisabled
  <2>1. memory'.mirrored.outcome \in {"unreachable", "disabled"}
    BY <1>3, <1>4 DEF mirrorTimesOut, mirrorDisabled
  <2> QED BY <2>1 DEF MirrorHonest
<1>5. CASE mirrorAnswered
  <2>1. PICK outcome : /\ outcome = ingestOutcome(requests[Post].status) /\ mirrorEnds(outcome)
                       /\ Post \in DOMAIN requests /\ requests[Post].pc = "answered"
    BY <1>5 DEF mirrorAnswered
  <2>2. /\ memory'.mirrored.outcome = outcome /\ memory'.mirrored.digest = job.bundle.digest
        /\ pc = "await"
    BY <1>3, <2>1
  <2>3. CASE outcome \in {"sent", "duplicate"}
    BY <1>1, <2>1, <2>2, <2>3, AcceptedPost DEF MirrorHonest
  <2>4. CASE outcome \notin {"sent", "duplicate"}
    BY <2>2, <2>4 DEF MirrorHonest
  <2> QED BY <2>3, <2>4
<1>6. CASE (HostNext /\ UNCHANGED agentVars) \/ UNCHANGED vars
  BY <1>2, <1>6 DEF agentVars, vars
<1> QED BY <1>2, <1>4, <1>5, <1>6, MirroredOnlyThere DEF SystemNext

\* When the agent takes its evidence for mirrored the hosted plane has it, under the
\* tenant of the agent's token, whether the answer came at once, to a retry or after
\* another client's request (ingest.ts, server.ts ingest, hosted-evidence.ts).
THEOREM MirroredIsThere ==
  ASSUME NEW asks, NEW rows, NEW level, NEW migrated, NEW budget
  PROVE  SystemSpec(asks, rows, level, migrated, budget) => []MirrorHonest
<1> DEFINE Inv == HostInv /\ AgentInv
<1>1. SystemInit(asks, rows, level, migrated, budget) => Inv
  <2> SUFFICES ASSUME SystemInit(asks, rows, level, migrated, budget) PROVE Inv
    OBVIOUS
  <2>1. HostInv /\ ReadyInv /\ AlertInv
    BY HostInitially, ReadyInitially, AlertInitially
  <2>2. PostsOK
    BY DEF SystemInit, HostInit, ClientAsks, PostsOK
  <2>3. memory.mirrored = None
    BY NoJobNoMemory DEF SystemInit, AgentInit
  <2> QED BY <2>1, <2>2, <2>3 DEF AgentInv, MirrorHonest
<1>2. Inv /\ [SystemNext]_vars => Inv'
  BY HostInvStep, ReadyInvStep, AlertInvStep, PostsStep, MirrorStep DEF AgentInv
<1>3. Inv => MirrorHonest
  BY DEF AgentInv
<1> QED BY <1>1, <1>2, <1>3, PTL DEF SystemSpec

---------------------------------------------------------------------------
(* The timeline: pages of a table that grows *)

\* Rows the timeline can order: dated, and known by their digests.
Timeline(rows) ==
  /\ IsFiniteSet(rows)
  /\ \A e \in rows : e.observed \in Nat /\ e.digest \in Nat
  /\ \A e, f \in rows : e.digest = f.digest => e = f

LEMMA NewerOrders ==
  ASSUME NEW rows, Timeline(rows)
  PROVE  /\ \A a \in rows : ~ Newer(a, a)
         /\ \A a, b, c \in rows : Newer(a, b) /\ Newer(b, c) => Newer(a, c)
         /\ \A a, b \in rows : a # b => Newer(a, b) \/ Newer(b, a)
<1>1. \A a, b \in rows : a # b => a.digest # b.digest
  BY DEF Timeline
<1> QED BY <1>1 DEF Timeline, Newer

\* Every place up to the last is taken, by one row, and the newer has the lower.
LEMMA Places ==
  ASSUME NEW rows, Timeline(rows)
  PROVE  /\ Cardinality(rows) \in Nat
         /\ \A r \in rows : place(rows, r) \in Nat /\ place(rows, r) < Cardinality(rows)
         /\ \A a, b \in rows : Newer(a, b) <=> place(rows, a) < place(rows, b)
         /\ \A i \in Nat : i < Cardinality(rows) => \E r \in rows : place(rows, r) = i
<1> DEFINE n == Cardinality(rows)
           N(r) == {x \in rows : Newer(x, r)}
           f == [r \in rows |-> place(rows, r)]
<1>1. n \in Nat
  BY FS_CardinalityType DEF Timeline
<1>2. ASSUME NEW r \in rows
      PROVE  /\ IsFiniteSet(N(r)) /\ Cardinality(N(r)) \in Nat
             /\ Cardinality(N(r)) < n /\ place(rows, r) = Cardinality(N(r))
  <2>1. N(r) \in SUBSET rows /\ r \notin N(r)
    BY NewerOrders
  <2>2. IsFiniteSet(N(r)) /\ Cardinality(N(r)) <= n /\ (n = Cardinality(N(r)) => rows = N(r))
    BY <2>1, FS_Subset DEF Timeline
  <2>3. Cardinality(N(r)) \in Nat
    BY <2>2, FS_CardinalityType
  <2>4. place(rows, r) = Cardinality(N(r))
    BY DEF place
  <2> HIDE DEF N
  <2> QED BY <1>1, <2>1, <2>2, <2>3, <2>4
<1>3. ASSUME NEW a \in rows, NEW b \in rows, Newer(a, b)
      PROVE  place(rows, a) < place(rows, b)
  <2>1. N(a) \in SUBSET N(b) /\ a \in N(b) /\ a \notin N(a)
    BY <1>3, NewerOrders
  <2>2. Cardinality(N(a)) <= Cardinality(N(b)) /\ (Cardinality(N(b)) = Cardinality(N(a)) => N(b) = N(a))
    BY <1>2, <2>1, FS_Subset
  <2> HIDE DEF N
  <2> QED BY <1>2, <2>1, <2>2
<1>4. ASSUME NEW a \in rows, NEW b \in rows, place(rows, a) < place(rows, b)
      PROVE  Newer(a, b)
  <2>1. place(rows, a) \in Nat /\ place(rows, b) \in Nat
    BY <1>2
  <2>2. a # b
    BY <1>4, <2>1
  <2>3. ~ Newer(b, a)
    BY <1>3, <1>4, <2>1
  <2> QED BY <2>2, <2>3, NewerOrders
<1>5. f \in Surjection(rows, 0..(n - 1))
  <2> HIDE DEF n, N
  <2>1. f \in [rows -> 0..(n - 1)]
    <3>1. \A r \in rows : place(rows, r) \in 0..(n - 1)
      BY <1>1, <1>2
    <3> QED BY <3>1
  <2>2. ASSUME NEW a \in rows, NEW b \in rows, f[a] = f[b]
        PROVE  a = b
    <3>1. place(rows, a) = place(rows, b) /\ place(rows, a) \in Nat
      BY <1>2, <2>2
    <3>2. ~ Newer(a, b) /\ ~ Newer(b, a)
      BY <1>3, <3>1
    <3> QED BY <3>2, NewerOrders
  <2>3. f \in Injection(rows, 0..(n - 1))
    BY <2>1, <2>2 DEF Injection, IsInjective
  <2>4. IsFiniteSet(0..(n - 1)) /\ Cardinality(0..(n - 1)) = n
    BY <1>1, FS_Interval
  <2>5. Cardinality(rows) = Cardinality(0..(n - 1))
    BY <2>4 DEF n
  <2> HIDE DEF f
  <2> QED BY <2>3, <2>4, <2>5, FS_Injection
<1>6. ASSUME NEW i \in Nat, i < n
      PROVE  \E r \in rows : place(rows, r) = i
  <2>1. i \in 0..(n - 1)
    BY <1>1, <1>6
  <2> QED BY <1>5, <2>1 DEF Surjection
<1> HIDE DEF f, N
<1>7. \A r \in rows : place(rows, r) \in Nat /\ place(rows, r) < n
  <2> HIDE DEF n
  <2> QED BY <1>1, <1>2
<1>8. \A a, b \in rows : Newer(a, b) <=> place(rows, a) < place(rows, b)
  BY <1>3, <1>4
<1>9. \A i \in Nat : i < n => \E r \in rows : place(rows, r) = i
  BY <1>6
<1> QED BY <1>1, <1>7, <1>8, <1>9

\* A page is in order and leaves out nothing that comes before its last row.
LEMMA PageMeans ==
  ASSUME NEW rows, Timeline(rows), NEW limit \in Nat \ {0}, NEW p, p = page(rows, limit)
  PROVE  /\ p \in Seq(rows) /\ Len(p) \in Nat /\ Len(p) <= limit
         /\ \A i, j \in DOMAIN p : i < j => Newer(p[i], p[j])
         /\ \A r \in rows : (\E i \in DOMAIN p : p[i] = r) \/ (Len(p) = limit /\ Newer(p[limit], r))
<1> DEFINE n == Cardinality(rows)
           size == IF n < limit THEN n ELSE limit
<1>1. n \in Nat /\ size \in Nat /\ size <= n /\ size <= limit /\ (size < n => size = limit)
  BY Places
<1>2. p = [i \in 1..size |-> CHOOSE r \in rows : place(rows, r) = i - 1]
  BY DEF page
<1> HIDE DEF size
<1>3. ASSUME NEW i \in 1..size
      PROVE  p[i] \in rows /\ place(rows, p[i]) = i - 1
  <2>1. i - 1 \in Nat /\ i - 1 < n
    BY <1>1
  <2>2. \E r \in rows : place(rows, r) = i - 1
    BY <2>1, Places
  <2>3. p[i] = CHOOSE r \in rows : place(rows, r) = i - 1
    BY <1>2
  <2> QED BY <2>2, <2>3
<1>4. p \in Seq(rows) /\ Len(p) = size /\ DOMAIN p = 1..size
  BY <1>1, <1>2, <1>3
<1>5. ASSUME NEW i \in DOMAIN p, NEW j \in DOMAIN p, i < j
      PROVE  Newer(p[i], p[j])
  <2>1. place(rows, p[i]) < place(rows, p[j]) /\ p[i] \in rows /\ p[j] \in rows
    BY <1>3, <1>4, <1>5
  <2> QED BY <2>1, Places
<1>6. ASSUME NEW r \in rows
      PROVE  (\E i \in DOMAIN p : p[i] = r) \/ (Len(p) = limit /\ Newer(p[limit], r))
  <2> DEFINE k == place(rows, r)
  <2>1. k \in Nat /\ k < n
    BY Places
  <2>2. CASE k < size
    <3>1. k + 1 \in DOMAIN p /\ p[k + 1] \in rows /\ place(rows, p[k + 1]) = k
      BY <1>1, <1>3, <1>4, <2>1, <2>2
    <3>2. ~ Newer(p[k + 1], r) /\ ~ Newer(r, p[k + 1])
      BY <3>1, <2>1, Places
    <3>3. p[k + 1] = r
      BY <3>1, <3>2, NewerOrders
    <3> QED BY <3>1, <3>3
  <2>3. CASE ~ (k < size)
    <3>1. size = limit /\ limit \in 1..size
      BY <1>1, <2>1, <2>3
    <3>2. p[limit] \in rows /\ place(rows, p[limit]) < k
      BY <1>1, <1>3, <2>1, <2>3, <3>1
    <3>3. Newer(p[limit], r)
      BY <3>2, Places
    <3> QED BY <1>4, <3>1, <3>3
  <2> QED BY <2>2, <2>3
<1> QED BY <1>1, <1>4, <1>5, <1>6

---------------------------------------------------------------------------
(* A walk through the pages *)

Walks(r) == r.ask.kind = "verdicts"

\* The rows a walk is about: its token's tenant does not change.
RowsOf(r) == rowsOf(Tokens[r.ask.token].tenant, r.ask.deployment)

\* Nothing was seen twice.
SeenOnce(r) ==
  /\ r.seen \in Seq(Nat)
  /\ \A i, j \in DOMAIN r.seen : r.seen[i] = r.seen[j] => i = j

\* Of what was there when it began, it has seen what is not below the cursor, and
\* nothing else.
UpToCursor(r, rows) ==
  /\ \A d \in r.before : \/ \E i \in DOMAIN r.seen : r.seen[i] = d
                         \/ \E e \in below(rows, r.ask.after) : e.digest = d
  /\ \A i \in DOMAIN r.seen :
       \E e, c \in rows : e.digest = r.seen[i] /\ c.digest = r.ask.after /\ ~ Newer(c, e)

AllSeen(r) == \A d \in r.before : \E i \in DOMAIN r.seen : r.seen[i] = d

WalkOK(r, rows) ==
  /\ {"after", "token", "deployment"} \subseteq DOMAIN r.ask
  /\ r.pc = "authorized" => r.tenant = Tokens[r.ask.token].tenant
  /\ SeenOnce(r)
  /\ r.pc # "answered" => UpToCursor(r, rows)
  /\ r.pc = "answered" /\ r.status = 200 => AllSeen(r)

Dated(body) == body.observed \in Nat /\ body.digest \in Nat

WalkInv ==
  /\ IsFiniteSet(evaluations)
  /\ \A e \in evaluations : Dated(e)
  /\ \A id \in DOMAIN requests :
       /\ requests[id].ask.kind = "ingest" => Dated(requests[id].ask.body)
       /\ Walks(requests[id]) => WalkOK(requests[id], RowsOf(requests[id]))

\* A row that arrives above the cursor is not looked for, one below it is still to come.
LEMMA UpToCursorGrows ==
  ASSUME NEW rows, NEW more, rows \subseteq more, NEW r, UpToCursor(r, rows)
  PROVE  UpToCursor(r, more)
<1>1. below(rows, r.ask.after) \subseteq below(more, r.ask.after)
  BY DEF below
<1> QED BY <1>1 DEF UpToCursor

LEMMA Joined ==
  ASSUME NEW a \in Seq(Nat), NEW b \in Seq(Nat)
  PROVE  /\ a \o b \in Seq(Nat) /\ Len(a \o b) = Len(a) + Len(b)
         /\ \A i \in 1..Len(a) : (a \o b)[i] = a[i]
         /\ \A i \in 1..Len(b) : (a \o b)[Len(a) + i] = b[i]
OBVIOUS

\* What a request r becomes when it has read the page p.
Paged(r, rows, p, s) ==
  /\ p = page(below(rows, r.ask.after), PageSize)
  /\ s.seen = r.seen \o [i \in DOMAIN p |-> p[i].digest]
  /\ s.before = IF r.ask.after = None THEN {e.digest : e \in rows} ELSE r.before

\* The page after the cursor takes the walk on to the last of its rows.
LEMMA PageStep ==
  ASSUME NEW rows, Timeline(rows), NEW r, SeenOnce(r), UpToCursor(r, rows),
         NEW p, NEW s, Paged(r, rows, p, s)
  PROVE  /\ SeenOnce(s)
         /\ Len(p) = PageSize /\ s.ask.after = Last(p).digest => UpToCursor(s, rows)
         /\ Len(p) # PageSize => AllSeen(s)
<1> DEFINE B == below(rows, r.ask.after)
           old == Len(r.seen)
           new == Len(p)
<1>1. B \subseteq rows /\ Timeline(B) /\ (r.ask.after = None => B = rows)
  <2>1. B \in SUBSET rows /\ (r.ask.after = None => B = rows)
    BY DEF below
  <2> HIDE DEF B
  <2>2. IsFiniteSet(B)
    BY <2>1, FS_Subset DEF Timeline
  <2> QED BY <2>1, <2>2 DEF Timeline
<1>2. /\ p \in Seq(B) /\ new \in Nat /\ new <= PageSize
      /\ \A i, j \in DOMAIN p : i < j => Newer(p[i], p[j])
      /\ \A e \in B : (\E i \in DOMAIN p : p[i] = e) \/ (new = PageSize /\ Newer(p[PageSize], e))
  <2>1. p = page(B, PageSize) /\ PageSize \in Nat \ {0}
    BY PageAssumption DEF Paged
  <2> HIDE DEF B
  <2> QED BY <1>1, <2>1, PageMeans
<1>3. /\ DOMAIN p = 1..new /\ \A i \in 1..new : p[i] \in B /\ p[i] \in rows /\ p[i].digest \in Nat
  <2> HIDE DEF B
  <2> QED BY <1>1, <1>2 DEF Timeline
<1>4. /\ old \in Nat /\ DOMAIN r.seen = 1..old /\ \A i \in 1..old : r.seen[i] \in Nat
      /\ \A i, j \in 1..old : r.seen[i] = r.seen[j] => i = j
  BY DEF SeenOnce
<1>5. /\ s.seen \in Seq(Nat) /\ DOMAIN s.seen = 1..(old + new)
      /\ \A i \in 1..old : s.seen[i] = r.seen[i]
      /\ \A i \in 1..new : s.seen[old + i] = p[i].digest
  <2> DEFINE t == [i \in DOMAIN p |-> p[i].digest]
  <2>1. t \in Seq(Nat) /\ Len(t) = new /\ \A i \in 1..new : t[i] = p[i].digest
    BY <1>2, <1>3
  <2>2. r.seen \in Seq(Nat) /\ s.seen = r.seen \o t
    BY DEF SeenOnce, Paged
  <2> HIDE DEF t, new
  <2>3. /\ s.seen \in Seq(Nat) /\ Len(s.seen) = old + Len(t)
        /\ \A i \in 1..old : s.seen[i] = r.seen[i]
        /\ \A i \in 1..Len(t) : s.seen[old + i] = t[i]
    <3>1. t \in Seq(Nat) /\ r.seen \in Seq(Nat)
      BY <2>1, <2>2
    <3>2. /\ r.seen \o t \in Seq(Nat) /\ Len(r.seen \o t) = old + Len(t)
          /\ \A i \in 1..old : (r.seen \o t)[i] = r.seen[i]
          /\ \A i \in 1..Len(t) : (r.seen \o t)[old + i] = t[i]
      BY <3>1, Joined
    <3> QED BY <2>2, <3>2
  <2> HIDE DEF old
  <2>4. old \in Nat /\ Len(s.seen) = old + new
    BY <1>4, <2>1, <2>3
  <2> QED BY <2>1, <2>3, <2>4, SMTT(30)
\* What was seen is not below the cursor.
<1>6. ASSUME NEW i \in 1..old
      PROVE  \E e, c \in rows : /\ e.digest = r.seen[i] /\ c.digest = r.ask.after /\ ~ Newer(c, e)
                                /\ e \notin B /\ \A x \in B : Newer(c, x)
  <2>1. PICK e \in rows, c \in rows : e.digest = r.seen[i] /\ c.digest = r.ask.after /\ ~ Newer(c, e)
    BY <1>4, <1>6 DEF UpToCursor
  <2>2. r.ask.after # None
    BY <2>1, AgentAssumption DEF Timeline
  <2>3. \A x \in B : Newer(c, x)
    BY <2>1, <2>2 DEF below, Timeline
  <2> HIDE DEF B
  <2> QED BY <2>1, <2>3
<1> HIDE DEF B, old, new
<1>split. /\ old \in Nat /\ new \in Nat
          /\ \A i \in 1..old : i \in 1..(old + new)
          /\ \A i \in 1..new : old + i \in 1..(old + new)
          /\ \A k \in 1..(old + new) : ~ (k \in 1..old) => k - old \in 1..new /\ k = old + (k - old)
  <2>1. old \in Nat /\ new \in Nat
    BY <1>2, <1>4
  <2> QED BY <2>1
<1>7. ASSUME NEW i \in 1..old, NEW j \in 1..new
      PROVE  s.seen[i] # s.seen[old + j]
  <2>1. PICK e \in rows : e.digest = r.seen[i] /\ e \notin B
    BY <1>6
  <2>2. e.digest # p[j].digest
    BY <1>3, <2>1 DEF Timeline
  <2> QED BY <1>5, <2>1, <2>2
<1>8. ASSUME NEW i \in 1..new, NEW j \in 1..new, p[i].digest = p[j].digest
      PROVE  i = j
  <2>1. p[i] = p[j]
    BY <1>3, <1>8 DEF Timeline
  <2>2. ~ Newer(p[i], p[j]) /\ ~ Newer(p[j], p[i])
    BY <1>3, <2>1, NewerOrders
  <2>3. i \in DOMAIN p /\ j \in DOMAIN p
    BY <1>3
  <2>4. ~ (i < j) /\ ~ (j < i)
    BY <1>2, <2>2, <2>3
  <2> QED BY <1>2, <2>4
<1>9. SeenOnce(s)
  <2> SUFFICES ASSUME NEW i \in 1..(old + new), NEW j \in 1..(old + new), s.seen[i] = s.seen[j]
               PROVE  i = j
    BY <1>5 DEF SeenOnce
  <2>2. CASE i \in 1..old /\ j \in 1..old
    BY <1>4, <1>5, <2>2
  <2>3. CASE i \in 1..old /\ ~ (j \in 1..old)
    BY <1>7, <1>split, <2>3
  <2>4. CASE ~ (i \in 1..old) /\ j \in 1..old
    BY <1>7, <1>split, <2>4
  <2>5. CASE ~ (i \in 1..old) /\ ~ (j \in 1..old)
    <3>1. ASSUME NEW k \in 1..(old + new), ~ (k \in 1..old)
          PROVE  s.seen[k] = p[k - old].digest
      <4>1. k - old \in 1..new /\ s.seen[old + (k - old)] = p[k - old].digest
        BY <1>5, <1>split, <3>1
      <4> QED BY <1>split, <3>1, <4>1
    <3>2. p[i - old].digest = p[j - old].digest
      BY <2>5, <3>1
    <3>3. i - old = j - old
      BY <1>8, <1>split, <2>5, <3>2
    <3> QED BY <1>split, <2>5, <3>3
  <2> QED BY <2>2, <2>3, <2>4, <2>5
<1>10. ASSUME NEW d \in s.before
       PROVE  \/ \E i \in DOMAIN s.seen : s.seen[i] = d
              \/ new = PageSize /\ \E e \in B : e.digest = d /\ Newer(p[PageSize], e)
  <2>1. CASE \E i \in 1..old : r.seen[i] = d
    <3>1. PICK i \in 1..old : r.seen[i] = d
      BY <2>1
    <3>2. i \in DOMAIN s.seen /\ s.seen[i] = d
      BY <1>5, <1>split, <3>1
    <3> QED BY <3>2
  <2>2. ASSUME NEW e \in B, e.digest = d
        PROVE  \/ \E i \in DOMAIN s.seen : s.seen[i] = d
               \/ new = PageSize /\ \E x \in B : x.digest = d /\ Newer(p[PageSize], x)
    <3>1. CASE \E i \in 1..new : p[i] = e
      <4>1. PICK i \in 1..new : p[i] = e
        BY <3>1
      <4>2. old + i \in DOMAIN s.seen /\ s.seen[old + i] = d
        BY <1>5, <1>split, <2>2, <4>1
      <4> QED BY <4>2
    <3> QED BY <1>2, <1>3, <2>2, <3>1
  <2>3. (\E i \in 1..old : r.seen[i] = d) \/ (\E e \in B : e.digest = d)
    <3>1. CASE r.ask.after = None
      BY <1>1, <3>1 DEF Paged
    <3>2. CASE r.ask.after # None
      BY <1>4, <3>2 DEF UpToCursor, B, Paged
    <3> QED BY <3>1, <3>2
  <2> QED BY <2>1, <2>2, <2>3
<1>11. ASSUME new = PageSize, s.ask.after = Last(p).digest
       PROVE  UpToCursor(s, rows)
  <2> DEFINE z == p[PageSize]
  <2>1. PageSize \in 1..new /\ z \in B /\ z \in rows /\ s.ask.after = z.digest /\ s.ask.after # None
    BY <1>2, <1>3, <1>11, PageAssumption, AgentAssumption DEF Last, new
  <2>2. ASSUME NEW e \in rows, Newer(z, e)
        PROVE  e \in below(rows, s.ask.after)
    BY <2>1, <2>2 DEF below
  <2>3. ASSUME NEW i \in 1..old
        PROVE  \E e \in rows : e.digest = s.seen[i] /\ ~ Newer(z, e)
    <3>1. PICK e \in rows, c \in rows : e.digest = r.seen[i] /\ ~ Newer(c, e) /\ \A x \in B : Newer(c, x)
      BY <1>6
    <3>2. Newer(c, z)
      BY <2>1, <3>1
    <3>3. ~ Newer(z, e)
      BY <2>1, <3>1, <3>2, NewerOrders
    <3> QED BY <1>5, <3>1, <3>3
  <2>4. ASSUME NEW i \in 1..new
        PROVE  ~ Newer(z, p[i])
    <3>1. CASE i = PageSize
      BY <2>1, <3>1, NewerOrders
    <3>2. CASE i # PageSize
      <4>4. i \in DOMAIN p /\ PageSize \in DOMAIN p /\ i < PageSize
        BY <1>2, <1>3, <1>11, <2>1, <3>2
      <4>1. Newer(p[i], z)
        BY <1>2, <4>4
      <4>2. ~ Newer(p[i], p[i])
        BY <1>3, NewerOrders
      <4>3. Newer(z, p[i]) => Newer(p[i], p[i])
        BY <1>3, <2>1, <4>1, NewerOrders
      <4> QED BY <4>2, <4>3
    <3> QED BY <3>1, <3>2
  <2>5. ASSUME NEW i \in DOMAIN s.seen
        PROVE  \E e \in rows : e.digest = s.seen[i] /\ ~ Newer(z, e)
    <3>1. CASE i \in 1..old
      BY <2>3, <3>1
    <3>2. CASE ~ (i \in 1..old)
      <4>1. i - old \in 1..new /\ i = old + (i - old)
        BY <1>5, <1>split, <3>2
      <4>2. s.seen[i] = p[i - old].digest /\ p[i - old] \in rows /\ ~ Newer(z, p[i - old])
        BY <1>3, <1>5, <2>4, <4>1
      <4> QED BY <4>2
    <3> QED BY <3>1, <3>2
  <2>6. ASSUME NEW d \in s.before
        PROVE  \/ \E i \in DOMAIN s.seen : s.seen[i] = d
               \/ \E e \in below(rows, s.ask.after) : e.digest = d
    BY <1>1, <1>10, <2>2
  <2> HIDE DEF z
  <2> QED BY <2>1, <2>5, <2>6 DEF UpToCursor
<1>12. ASSUME new # PageSize
       PROVE  AllSeen(s)
  BY <1>10, <1>12 DEF AllSeen
<1> QED BY <1>9, <1>11, <1>12 DEF new

LEMMA TimelineRows ==
  ASSUME HostInv, WalkInv, NEW r
  PROVE  Timeline(RowsOf(r))
<1>1. RowsOf(r) \in SUBSET evaluations
  BY DEF RowsOf, rowsOf
<1>2. IsFiniteSet(RowsOf(r))
  BY <1>1, FS_Subset DEF WalkInv
<1>3. \A e, f \in RowsOf(r) : e.digest = f.digest => e = f
  BY DEF HostInv, EvidenceTable, RowsOf, rowsOf
<1> QED BY <1>1, <1>2, <1>3 DEF Timeline, WalkInv, Dated

\* A request that nobody touched, or that was only moved on.
LEMMA WalkMoved ==
  ASSUME NEW id \in DOMAIN requests, evaluations \subseteq evaluations',
         WalkOK(requests[id], RowsOf(requests[id])),
         requests'[id].ask = requests[id].ask,
         requests'[id].seen = requests[id].seen, requests'[id].before = requests[id].before,
         requests'[id].pc = "authorized" => requests'[id].tenant = Tokens[requests[id].ask.token].tenant,
         \/ requests'[id].pc = requests[id].pc /\ requests'[id].status = requests[id].status
         \/ requests[id].pc # "answered" /\ requests'[id].pc = "authorized"
         \/ requests'[id].pc = "answered" /\ requests'[id].status # 200
  PROVE  WalkOK(requests[id], RowsOf(requests[id]))'
<1> DEFINE r == requests[id]
           s == requests'[id]
           rows == RowsOf(r)
           more == RowsOf(requests[id])'
<1>1. rows \subseteq more
  BY DEF RowsOf, rowsOf
<1>2. SeenOnce(s) /\ {"after", "token", "deployment"} \subseteq DOMAIN s.ask
  BY DEF WalkOK, SeenOnce
<1> HIDE DEF rows, more
<1>3. UpToCursor(r, rows) => UpToCursor(s, more)
  <2>1. UpToCursor(r, rows) => UpToCursor(r, more)
    BY <1>1, UpToCursorGrows
  <2> QED BY <2>1 DEF UpToCursor
<1>4. AllSeen(r) => AllSeen(s)
  BY DEF AllSeen
<1>5. /\ r.pc # "answered" => UpToCursor(r, rows)
      /\ r.pc = "answered" /\ r.status = 200 => AllSeen(r)
  BY DEF WalkOK, rows
<1>6. WalkOK(s, more)
  BY <1>2, <1>3, <1>4, <1>5 DEF WalkOK
<1> QED BY <1>6 DEF more

\* Only two handlers take a walk.
LEMMA WalkHandlers ==
  ASSUME NEW id \in DOMAIN requests, Handle(id), Walks(requests[id])
  PROVE  authorize(id) \/ readVerdicts(id)
BY DEF Handle, Walks, readStatus, readHostedEvaluation, acknowledgeTenantAlert, checkIngest,
   ingestHostedEvaluation, ingestRefused, ingestAnswered, ingestAuditFails, checkHint, claimNonce,
   enqueueHint, enqueueFails, At, kindOf

LEMMA WalkAuthorized ==
  ASSUME HostInv, WalkInv, NEW id \in DOMAIN requests, authorize(id), Walks(requests[id])
  PROVE  WalkOK(requests[id], RowsOf(requests[id]))'
<1>1. /\ requests[id].pc = "new" /\ UNCHANGED evaluations
      /\ WalkOK(requests[id], RowsOf(requests[id])) /\ RequestsOK /\ IsRequest(requests[id])
  BY DEF authorize, WalkInv, HostInv, RequestsOK
<1>2. CASE \E status \in {401, 403, 429} : Refuse(id, status)
  <2>1. PICK status \in {401, 403, 429} : Reply(id, status, None)
    BY <1>2 DEF Refuse
  <2>2. Moved(id, "answered", status)
    BY <1>1, <2>1, ReplyMoves
  <2> QED BY <1>1, <2>2, WalkMoved DEF Moved
<1>3. CASE requests' = [requests EXCEPT ![id].pc = "authorized",
                                       ![id].tenant = Tokens[requests[id].ask.token].tenant]
  <2>1. requests' = [requests EXCEPT ![id] =
          [[requests[id] EXCEPT !.pc = "authorized"]
             EXCEPT !.tenant = Tokens[requests[id].ask.token].tenant]]
    BY <1>1, <1>3 DEF RequestsOK
  <2>2. /\ requests'[id].ask = requests[id].ask /\ requests'[id].pc = "authorized"
        /\ requests'[id].tenant = Tokens[requests[id].ask.token].tenant
        /\ requests'[id].seen = requests[id].seen /\ requests'[id].before = requests[id].before
    BY <1>1, <2>1 DEF RequestsOK, IsRequest
  <2> QED BY <1>1, <2>2, WalkMoved
<1> QED BY <1>2, <1>3 DEF authorize

LEMMA WalkTurnsPage ==
  ASSUME HostInv, WalkInv, NEW id \in DOMAIN requests, readVerdicts(id)
  PROVE  WalkOK(requests[id], RowsOf(requests[id]))'
<1> DEFINE r == requests[id]
           s == requests'[id]
           rows == RowsOf(r)
           p == page(below(rows, r.ask.after), PageSize)
<1>1. /\ r.pc = "authorized" /\ r.ask.kind = "verdicts" /\ UNCHANGED evaluations
      /\ WalkOK(r, rows) /\ RequestsOK /\ IsRequest(r)
  BY DEF readVerdicts, WalkInv, HostInv, RequestsOK, At, kindOf, Walks
<1>2. CASE Refuse(id, 404)
  <2>1. Reply(id, 404, None)
    BY <1>2 DEF Refuse
  <2>2. Moved(id, "answered", 404)
    BY <1>1, <2>1, ReplyMoves
  <2> QED BY <1>1, <2>2, WalkMoved DEF Moved
<1>3. CASE requests' = [requests EXCEPT ![id] =
             afterPage(r, readHostedEvaluations(r.tenant, r.ask.deployment, PageSize, r.ask.after))]
  <2>1. rowsOf(r.tenant, r.ask.deployment) = rows
    BY <1>1 DEF WalkOK, RowsOf
  <2>2. readHostedEvaluations(r.tenant, r.ask.deployment, PageSize, r.ask.after) = p
    BY <2>1 DEF readHostedEvaluations
  <2> HIDE DEF p
  <2>3. s = afterPage(r, p)
    BY <1>1, <1>3, <2>2 DEF RequestsOK
  <2> HIDE DEF s
  <2>4. /\ s.seen = r.seen \o [i \in DOMAIN p |-> p[i].digest]
        /\ s.before = IF r.ask.after = None
                      THEN {e.digest : e \in rowsOf(r.tenant, r.ask.deployment)} ELSE r.before
        /\ Len(p) # PageSize => s.pc = "answered" /\ s.ask = r.ask
        /\ Len(p) = PageSize => s.pc = "new" /\ s.ask = [r.ask EXCEPT !.after = Last(p).digest]
    <3> HIDE DEF r
    <3>1. IsRequest(r) /\ r.ask.kind = "verdicts"
      BY <1>1
    <3> QED BY <2>3, <3>1, AfterPageIsRequest, ZenonT(30)
  <2>5. Paged(r, rows, p, s)
    BY <2>1, <2>4 DEF Paged, p
  <2>6. Timeline(rows) /\ SeenOnce(r) /\ UpToCursor(r, rows)
    <3>1. Timeline(rows)
      BY TimelineRows
    <3> QED BY <1>1, <3>1 DEF WalkOK
  <2> HIDE DEF rows
  <2>7. /\ SeenOnce(s)
        /\ Len(p) = PageSize /\ s.ask.after = Last(p).digest => UpToCursor(s, rows)
        /\ Len(p) # PageSize => AllSeen(s)
    BY <2>5, <2>6, PageStep
  <2>8. /\ {"after", "token", "deployment"} \subseteq DOMAIN s.ask
        /\ s.ask.token = r.ask.token /\ s.ask.deployment = r.ask.deployment
        /\ Len(p) = PageSize => s.ask.after = Last(p).digest
    BY <1>1, <2>4 DEF WalkOK
  <2>9. WalkOK(s, rows)
    BY <2>4, <2>7, <2>8 DEF WalkOK
  <2>10. RowsOf(requests[id])' = rows
    BY <1>1, <2>8 DEF RowsOf, rowsOf, rows, s
  <2> QED BY <2>9, <2>10 DEF s
<1> QED BY <1>2, <1>3 DEF readVerdicts

LEMMA RecordsDated ==
  ASSUME HostInv, WalkInv, NEW id \in DOMAIN requests, Handle(id)
  PROVE  IsFiniteSet(evaluations') /\ \A e \in evaluations' : Dated(e)
<1>1. IsFiniteSet(evaluations) /\ \A e \in evaluations : Dated(e)
  BY DEF WalkInv
<1>2. CASE UNCHANGED evaluations
  BY <1>1, <1>2
<1>3. CASE ~ ingestHostedEvaluation(id)
  <2>1. UNCHANGED evaluations
    BY <1>3 DEF Handle, authorize, readStatus, readVerdicts, readHostedEvaluation,
       acknowledgeTenantAlert, checkIngest, ingestRefused, ingestAnswered, ingestAuditFails,
       checkHint, claimNonce, enqueueHint, enqueueFails, tables
  <2> QED BY <1>2, <2>1
<1>4. CASE ingestHostedEvaluation(id) /\ ~ UNCHANGED evaluations
  <2> DEFINE row == RowOf(requests[id].tenant, requests[id].ask.body)
  <2>1. evaluations' = inserted(requests[id].tenant, requests[id].ask.body) /\ requests[id].ask.kind = "ingest"
    BY <1>4 DEF ingestHostedEvaluation, At, kindOf
  <2>2. evaluations' = evaluations \cup {row}
    BY <1>4, <2>1 DEF inserted
  <2>3. Dated(row)
    BY <2>1 DEF WalkInv, Dated, RowOf
  <2> HIDE DEF row
  <2>4. IsFiniteSet(evaluations \cup {row})
    BY <1>1, FS_AddElement
  <2> QED BY <1>1, <2>2, <2>3, <2>4
<1> QED BY <1>3, <1>4, <1>2

\* What one handler does to every request.
LEMMA WalkInvHandled ==
  ASSUME HostInv, WalkInv, NEW id \in DOMAIN requests, Handle(id)
  PROVE  WalkInv'
<1>1. evaluations \subseteq evaluations' /\ HostNext
  BY HostSteps DEF HostNext
<1>2. /\ OnlyThis(id) /\ requests'[id].ask.kind = requests[id].ask.kind
      /\ requests[id].ask.kind # "verdicts" => requests'[id].ask = requests[id].ask
  BY AskKept
<1>3. ASSUME NEW i \in DOMAIN requests', requests'[i].ask.kind = "ingest"
      PROVE  Dated(requests'[i].ask.body)
  BY <1>2, <1>3 DEF OnlyThis, WalkInv
<1>4. ASSUME NEW i \in DOMAIN requests', Walks(requests[i])'
      PROVE  WalkOK(requests[i], RowsOf(requests[i]))'
  <2>1. i \in DOMAIN requests /\ Walks(requests[i]) /\ WalkOK(requests[i], RowsOf(requests[i]))
    BY <1>2, <1>4 DEF OnlyThis, WalkInv, Walks
  <2>2. CASE i # id
    <3>1. requests'[i] = requests[i]
      BY <1>2, <2>1, <2>2 DEF OnlyThis
    <3>2. requests[i].pc = "authorized" => requests[i].tenant = Tokens[requests[i].ask.token].tenant
      BY <2>1 DEF WalkOK
    <3> QED BY <1>1, <2>1, <3>1, <3>2, WalkMoved
  <2>3. CASE i = id
    BY <2>1, <2>3, WalkHandlers, WalkAuthorized, WalkTurnsPage
  <2> QED BY <2>2, <2>3
<1>5. IsFiniteSet(evaluations') /\ \A e \in evaluations' : Dated(e)
  BY RecordsDated
<1> QED BY <1>3, <1>4, <1>5 DEF WalkInv

\* The request of the agent carries evidence that is dated.
LEMMA WalkInvPosted ==
  ASSUME AlertInv, WalkInv, pc = "mirror", Posts, UNCHANGED tables
  PROVE  WalkInv'
<1>1. PICK ask : /\ IsAsk(ask) /\ ask.kind = "ingest" /\ ask.body = job.bundle
                 /\ Post \notin DOMAIN requests
                 /\ requests' = [id \in DOMAIN requests \cup {Post} |->
                                   IF id = Post THEN NewRequest(ask) ELSE requests[id]]
  BY DEF Posts
<1>2. /\ DOMAIN requests' = DOMAIN requests \cup {Post} /\ requests'[Post] = NewRequest(ask)
      /\ \A i \in DOMAIN requests : requests'[i] = requests[i]
      /\ UNCHANGED evaluations
  BY <1>1 DEF tables
<1>3. requests'[Post].ask = ask
  BY <1>1, <1>2, NewRequestOK
<1>4. Dated(job.bundle)
  BY PostIsPostId DEF BundleRow, Dated
<1>5. ASSUME NEW i \in DOMAIN requests'
      PROVE  /\ requests'[i].ask.kind = "ingest" => Dated(requests'[i].ask.body)
             /\ Walks(requests[i])' => WalkOK(requests[i], RowsOf(requests[i]))'
  <2>1. CASE i = Post
    BY <1>1, <1>3, <1>4, <2>1 DEF Walks
  <2>2. CASE i \in DOMAIN requests
    <3>1. requests'[i] = requests[i] /\ UNCHANGED evaluations
      BY <1>2, <2>2
    <3>2. RowsOf(requests[i])' = RowsOf(requests[i])
      BY <3>1 DEF RowsOf, rowsOf
    <3>3. WalkOK(requests[i], RowsOf(requests[i])) => WalkOK(requests[i], RowsOf(requests[i]))'
      BY <3>1, <3>2
    <3> QED BY <2>2, <3>1, <3>3 DEF WalkInv, Walks
  <2> QED BY <1>2, <2>1, <2>2
<1> QED BY <1>2, <1>5 DEF WalkInv

LEMMA WalkInvStep ==
  ASSUME HostInv, AlertInv, WalkInv, [SystemNext]_vars
  PROVE  WalkInv'
<1>1. CASE UNCHANGED <<requests, evaluations>>
  <2>1. RequestsOK
    BY DEF HostInv
  <2>2. \A i \in DOMAIN requests : RowsOf(requests[i])' = RowsOf(requests[i])
    BY <1>1 DEF RowsOf, rowsOf
  <2>3. \A i \in DOMAIN requests : requests'[i] = requests[i]
    BY <1>1
  <2>4. ASSUME NEW i \in DOMAIN requests, Walks(requests[i])'
        PROVE  WalkOK(requests[i], RowsOf(requests[i]))'
    <3>1. WalkOK(requests[i], RowsOf(requests[i]))
      BY <2>3, <2>4 DEF WalkInv, Walks
    <3> QED BY <2>2, <2>3, <3>1
  <2> QED BY <1>1, <2>3, <2>4 DEF WalkInv
<1>2. CASE HostNext
  <2>1. CASE RevokeToken \/ SetSharing \/ Tick
    BY <1>1, <2>1 DEF RevokeToken, SetSharing, Tick, tables
  <2> QED BY <1>2, <2>1, WalkInvHandled DEF HostNext
<1>3. CASE AgentNext
  <2>1. CASE UNCHANGED hostVars
    BY <1>1, <2>1 DEF hostVars, tables
  <2> QED BY <1>3, <2>1, AgentTouchesHost, WalkInvPosted
<1>4. CASE UNCHANGED vars
  BY <1>1, <1>4 DEF vars, hostVars, tables
<1> QED BY <1>2, <1>3, <1>4 DEF SystemNext

\* Clients send dated evidence and well-formed questions, and the table they find is
\* dated and finite.
TimelineInit(asks, rows) ==
  /\ IsFiniteSet(rows) /\ \A e \in rows : Dated(e)
  /\ \A id \in DOMAIN asks :
       /\ asks[id].kind = "ingest" => Dated(asks[id].body)
       /\ asks[id].kind = "verdicts" => {"after", "token", "deployment"} \subseteq DOMAIN asks[id]

LEMMA WalkInitially ==
  ASSUME NEW asks, NEW rows, NEW level, NEW migrated, NEW budget, TimelineInit(asks, rows),
         SystemInit(asks, rows, level, migrated, budget)
  PROVE  WalkInv
<1>1. /\ requests = [id \in DOMAIN asks |-> NewRequest(asks[id])]
      /\ evaluations = rows /\ ClientAsks(asks)
  BY DEF SystemInit, HostInit
<1>2. ASSUME NEW id \in DOMAIN requests
      PROVE  /\ requests[id].ask = asks[id] /\ requests[id].pc = "new"
             /\ requests[id].seen = <<>> /\ requests[id].before = {}
  BY <1>1, <1>2 DEF NewRequest
<1>3. ASSUME NEW id \in DOMAIN requests, Walks(requests[id])
      PROVE  WalkOK(requests[id], RowsOf(requests[id]))
  <2>1. {"after", "token", "deployment"} \subseteq DOMAIN requests[id].ask
    BY <1>1, <1>2, <1>3 DEF TimelineInit, Walks
  <2>2. SeenOnce(requests[id]) /\ UpToCursor(requests[id], RowsOf(requests[id]))
    <3>1. requests[id].seen \in Seq(Nat) /\ DOMAIN requests[id].seen = {} /\ requests[id].before = {}
      <4>1. << >> \in Seq(Nat) /\ DOMAIN << >> = {}
        OBVIOUS
      <4> QED BY <1>2, <4>1
    <3> QED BY <3>1 DEF SeenOnce, UpToCursor
  <2> QED BY <1>2, <2>1, <2>2 DEF WalkOK
<1> QED BY <1>1, <1>2, <1>3 DEF WalkInv, TimelineInit

\* A client that follows the cursors to the end has seen every record there was when it
\* began, and none twice, whatever is ingested meanwhile and whatever other requests ask
\* (server.ts verdicts, hosted-evidence.ts readHostedEvaluations).
THEOREM WalksAreComplete ==
  ASSUME NEW asks, NEW rows, NEW level, NEW migrated, NEW budget, TimelineInit(asks, rows)
  PROVE  SystemSpec(asks, rows, level, migrated, budget) => []WalkComplete
<1> DEFINE Inv == HostInv /\ ReadyInv /\ AlertInv /\ WalkInv
<1>1. SystemInit(asks, rows, level, migrated, budget) => Inv
  BY HostInitially, ReadyInitially, AlertInitially, WalkInitially
<1>2. Inv /\ [SystemNext]_vars => Inv'
  BY HostInvStep, ReadyInvStep, AlertInvStep, WalkInvStep
<1>3. Inv => WalkComplete
  <2> SUFFICES ASSUME WalkInv, NEW id \in DOMAIN requests, Answered(id, "verdicts", {200})
               PROVE  /\ requests[id].before \subseteq ToSet(requests[id].seen)
                      /\ \A i, j \in DOMAIN requests[id].seen :
                           requests[id].seen[i] = requests[id].seen[j] => i = j
    BY DEF WalkComplete
  <2>1. SeenOnce(requests[id]) /\ AllSeen(requests[id])
    BY DEF WalkInv, WalkOK, Walks, Answered, kindOf
  <2> QED BY <2>1 DEF SeenOnce, AllSeen, ToSet
<1> QED BY <1>1, <1>2, <1>3, PTL DEF SystemSpec
=============================================================================
