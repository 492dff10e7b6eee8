---------------------------- MODULE HostedPlane ----------------------------
(***************************************************************************)
(* The optional hosted plane: apps/api (authorisation, rate limits, reads,  *)
(* ingest, acknowledgement, webhook hints) over the hosted tables of        *)
(* packages/storage-postgres.                                              *)
(*                                                                         *)
(* A request is a record that moves through the awaits of its handler, so   *)
(* other requests, a revoked token and a changed grant fall between its     *)
(* steps.  A statement of the database is one step; those of an ingest and  *)
(* of a hint may fail (MaxFailures bounds how often).  Times are integers; digests and         *)
(* observation times are naturals because the timeline orders them.  A hash *)
(* of a body is the body.                                                  *)
(***************************************************************************)
EXTENDS Integers, Sequences, FiniteSets, SequencesExt

CONSTANTS
  None,
  Tokens,        \* [token -> [tenant, scopes, expires]]
  Owner,         \* [deployment -> tenant]: deployment_tenants, set by the operator
  Levels,        \* sharing levels the operator may set
  Secrets,       \* webhook sources with a configured secret: <<tenant, source>>
  RateLimit, RateWindow,
  HintWindow,    \* seconds a signed hint may be old or early
  PageSize,
  MaxClock, MaxFailures, MaxOperator   \* bounds: seconds, failed statements, operator acts

ASSUME PageAssumption == PageSize \in Nat \ {0}

VARIABLES
  now,
  revoked,       \* tokens revoked by the operator
  grants,        \* [deployment -> sharing level]
  evaluations,   \* hosted_evaluations
  idempotency,   \* api_idempotency
  nonces,        \* webhook_nonces
  hints,         \* priority hints enqueued
  alerts,        \* alert_outbox rows: [deployment, incident, state, by]
  audit,         \* api_audit_log
  rates,         \* the process's rate windows: [key, start, count]
  requests,      \* [id -> request in its handler]
  failures, operator

tables   == <<evaluations, idempotency, nonces, hints, alerts, audit>>
limits   == <<failures, operator>>
hostVars == <<now, revoked, grants, tables, rates, requests, limits>>

LevelRank(level) == CASE level = "local-only" -> 0 [] level = "sanitized-metadata" -> 1
                      [] level = "approved-full" -> 2

---------------------------------------------------------------------------
\* Requests.

NewRequest(ask) ==
  [ask |-> ask, pc |-> "new", tenant |-> None, response |-> None, status |-> None,
   seen |-> <<>>, before |-> {}]

kindOf(id) == requests[id].ask.kind

Goto(id, pc)     == requests' = [requests EXCEPT ![id].pc = pc]
Reply(id, status, value) ==
  requests' = [requests EXCEPT ![id].pc = "answered", ![id].status = status, ![id].response = value]
Refuse(id, status) == Reply(id, status, None)

\* An audit row is keyed by request and action: the first one stays.
appendAudit(id, outcome, status) ==
  audit' = IF \E a \in audit : a.request = id THEN audit
           ELSE audit \cup {[request |-> id, outcome |-> outcome, status |-> status]}

\* A fixed window that starts with its first request.
take(key) ==
  LET current == {r \in rates : r.key = key}
      opens   == \A r \in current : now - r.start >= RateWindow
      count   == IF opens THEN 1 ELSE 1 + (CHOOSE r \in current : TRUE).count
      start   == IF opens THEN now ELSE (CHOOSE r \in current : TRUE).start
  IN  [ok |-> opens \/ count <= RateLimit,
       rates |-> (rates \ current) \cup {[key |-> key, start |-> start, count |-> count]}]

\* Expiry and revocation are judged in the statement that finds the token.
findTokenByHash(token) ==
  token \in DOMAIN Tokens /\ token \notin revoked /\ Tokens[token].expires > now

ScopeOf(kind) == CASE kind = "ingest" -> "ingest:write" [] kind = "acknowledge" -> "alerts:ack"
                   [] kind = "evidence" -> "evidence:read" [] OTHER -> "status:read"

\* The rate is taken before the token is looked at, by its hash.
authorize(id) ==
  LET ask   == requests[id].ask
      taken == take(ask.token)
  IN  /\ requests[id].pc = "new" /\ ask.kind # "hint"
      /\ rates' = taken.rates
      /\ IF ~taken.ok THEN Refuse(id, 429) /\ appendAudit(id, "denied", 429)
         ELSE IF ~findTokenByHash(ask.token) THEN Refuse(id, 401) /\ appendAudit(id, "denied", 401)
         ELSE IF ScopeOf(ask.kind) \notin Tokens[ask.token].scopes
           THEN Refuse(id, 403) /\ appendAudit(id, "denied", 403)
         ELSE /\ requests' = [requests EXCEPT ![id].pc = "authorized",
                                              ![id].tenant = Tokens[ask.token].tenant]
              /\ UNCHANGED audit
      /\ UNCHANGED <<now, revoked, grants, evaluations, idempotency, nonces, hints, alerts, limits>>

At(id, kind, pc) == kindOf(id) = kind /\ requests[id].pc = pc

\* Another tenant's deployment and an unknown one are the same 404.
findGrant(tenant, deployment) == deployment \in DOMAIN Owner /\ Owner[deployment] = tenant

---------------------------------------------------------------------------
\* Reads.

rowsOf(tenant, deployment) ==
  {e \in evaluations : e.tenant = tenant /\ e.deployment = deployment}

Newer(a, b) == a.observed > b.observed \/ (a.observed = b.observed /\ a.digest > b.digest)

\* A slip: the digest does not break a tie at the cursor.
belowTime(rows, after) ==
  IF after = None THEN rows ELSE {r \in rows : \E c \in rows : c.digest = after /\ c.observed > r.observed}

\* Strictly below the cursor's row.
below(rows, after) ==
  IF after = None THEN rows ELSE {r \in rows : \E c \in rows : c.digest = after /\ Newer(c, r)}

\* How many rows come before it, newest first.
place(rows, r) == Cardinality({x \in rows : Newer(x, r)})

\* The newest of the rows, in order.
page(rows, limit) ==
  LET size == IF Cardinality(rows) < limit THEN Cardinality(rows) ELSE limit
  IN  [i \in 1..size |-> CHOOSE r \in rows : place(rows, r) = i - 1]

readHostedEvaluations(tenant, deployment, limit, after) ==
  page(below(rowsOf(tenant, deployment), after), limit)

publicStatus(row) ==
  LET expired == now >= row.expires
  IN  [digest |-> row.digest, stale |-> expired,
       currentProtocolStatus |-> IF expired /\ row.status # "CRITICAL" THEN "UNKNOWN" ELSE row.status]

readStatus(id) ==
  LET r    == requests[id]
      rows == readHostedEvaluations(r.tenant, r.ask.deployment, 1, None)
  IN  /\ At(id, "status", "authorized")
      /\ IF ~findGrant(r.tenant, r.ask.deployment)
           THEN Refuse(id, 404) /\ appendAudit(id, "denied", 404)
         ELSE /\ Reply(id, 200, IF rows = <<>> THEN None ELSE publicStatus(rows[1]))
              /\ appendAudit(id, "allowed", 200)
      /\ UNCHANGED <<now, revoked, grants, evaluations, idempotency, nonces, hints, alerts, rates, limits>>

\* What a walk has seen after a page; its first page fixes what it has to see.
walked(r, rows) ==
  [r EXCEPT !.seen = @ \o [i \in DOMAIN rows |-> rows[i].digest],
            !.before = IF r.ask.after = None
              THEN {e.digest : e \in rowsOf(r.tenant, r.ask.deployment)} ELSE @]

\* A full page names its last row as the next cursor, and asking for it is a
\* request of its own.
afterPage(r, rows) ==
  IF Len(rows) = PageSize
  THEN [walked(r, rows) EXCEPT !.pc = "new", !.status = None, !.ask.after = Last(rows).digest]
  ELSE [walked(r, rows) EXCEPT !.pc = "answered", !.status = 200]

readVerdicts(id) ==
  LET r    == requests[id]
      rows == readHostedEvaluations(r.tenant, r.ask.deployment, PageSize, r.ask.after)
  IN  /\ At(id, "verdicts", "authorized")
      /\ IF ~findGrant(r.tenant, r.ask.deployment)
           THEN Refuse(id, 404) /\ appendAudit(id, "denied", 404)
         ELSE requests' = [requests EXCEPT ![id] = afterPage(r, rows)] /\ appendAudit(id, "allowed", 200)
      /\ UNCHANGED <<now, revoked, grants, evaluations, idempotency, nonces, hints, alerts, rates, limits>>

\* A record of metadata only has no bundle to give.
fullBundle(row) == IF row.level = "approved-full" THEN row.payload ELSE None

readHostedEvaluation(id) ==
  LET r    == requests[id]
      rows == {e \in rowsOf(r.tenant, r.ask.deployment) : e.digest = r.ask.digest}
  IN  /\ At(id, "evidence", "authorized")
      /\ IF ~findGrant(r.tenant, r.ask.deployment)
           THEN Refuse(id, 404) /\ appendAudit(id, "denied", 404)
         ELSE IF rows = {} THEN Refuse(id, 404) /\ UNCHANGED audit
         ELSE /\ Reply(id, 200, fullBundle(CHOOSE e \in rows : TRUE))
              /\ appendAudit(id, "allowed", 200)
      /\ UNCHANGED <<now, revoked, grants, evaluations, idempotency, nonces, hints, alerts, rates, limits>>

\* Every open alert of the incident in the tenant's own deployments.
acknowledgeTenantAlert(id) ==
  LET r    == requests[id]
      mine == {a \in alerts : findGrant(r.tenant, a.deployment) /\ a.incident = r.ask.incident
                                /\ a.state # "recovered"}
      code == IF mine = {} THEN 404 ELSE 200
  IN  /\ At(id, "acknowledge", "authorized")
      /\ alerts' = (alerts \ mine) \cup {[a EXCEPT !.state = "acknowledged", !.by = r.ask.token] : a \in mine}
      /\ Refuse(id, code)
      /\ appendAudit(id, IF mine = {} THEN "denied" ELSE "allowed", code)
      /\ UNCHANGED <<now, revoked, grants, evaluations, idempotency, nonces, hints, rates, limits>>

---------------------------------------------------------------------------
\* Ingest.  A body is [level, deployment, digest, status, observed, expires,
\* verifies, payload]: what its metadata states, or what its bundle contains.

\* A full bundle must pass the verifier; metadata must only have its shape.
acceptable(body) == body.level = "sanitized-metadata" \/ body.verifies

permitted(tenant, body) ==
  /\ findGrant(tenant, body.deployment)
  /\ grants[body.deployment] # "local-only"
  /\ LevelRank(body.level) <= LevelRank(grants[body.deployment])

checkIngest(id) ==
  LET r == requests[id]
      body == r.ask.body
  IN  /\ At(id, "ingest", "authorized")
      /\ IF ~acceptable(body) THEN Refuse(id, 400) /\ UNCHANGED audit
         ELSE IF ~permitted(r.tenant, body) THEN Refuse(id, 404) /\ appendAudit(id, "denied", 404)
         ELSE IF body.expires <= body.observed THEN Refuse(id, 400) /\ UNCHANGED audit
         ELSE Goto(id, "permitted") /\ UNCHANGED audit
      /\ UNCHANGED <<now, revoked, grants, evaluations, idempotency, nonces, hints, alerts, rates, limits>>

RowOf(tenant, body) ==
  [tenant |-> tenant, deployment |-> body.deployment, digest |-> body.digest,
   payloadHash |-> body, level |-> body.level, status |-> body.status,
   verify |-> IF body.level = "approved-full" THEN "verified" ELSE "metadata-only",
   observed |-> body.observed, expires |-> body.expires, payload |-> body.payload]

priorAnswers(tenant, key) == {i \in idempotency : i.tenant = tenant /\ i.key = key}
existingRows(tenant, body) == {e \in rowsOf(tenant, body.deployment) : e.digest = body.digest}

\* A slip: only the idempotency key is looked up.
conflictsOfKey(tenant, key, body) == \E x \in priorAnswers(tenant, key) : x.payloadHash # body

\* The same key or the same evidence with another payload is never accepted.
conflicts(tenant, key, body) ==
  \E x \in priorAnswers(tenant, key) \cup existingRows(tenant, body) : x.payloadHash # body

\* A slip: one row per deployment, the latest.
insertedLatest(tenant, body) == (evaluations \ rowsOf(tenant, body.deployment)) \cup {RowOf(tenant, body)}

inserted(tenant, body) ==
  evaluations \cup (IF existingRows(tenant, body) = {} THEN {RowOf(tenant, body)} ELSE {})

\* One transaction under the lock of <<tenant, key>>: the answer remembered for
\* the key, or the record (unless it is there already) with a remembered answer.
ingestHostedEvaluation(id) ==
  LET r      == requests[id]
      body   == r.ask.body
      prior  == priorAnswers(r.tenant, r.ask.key)
      stored == existingRows(r.tenant, body)
      code   == IF stored = {} THEN 201 ELSE 200
  IN  /\ At(id, "ingest", "permitted") /\ ~conflicts(r.tenant, r.ask.key, body)
      /\ IF prior # {}
           THEN /\ requests' = [requests EXCEPT ![id].pc = "stored",
                                  ![id].status = (CHOOSE p \in prior : TRUE).status]
                /\ UNCHANGED <<evaluations, idempotency>>
           ELSE /\ evaluations' = inserted(r.tenant, body)
                /\ idempotency' = idempotency \cup {[tenant |-> r.tenant, key |-> r.ask.key,
                                                     payloadHash |-> body, status |-> code]}
                /\ requests' = [requests EXCEPT ![id].pc = "stored", ![id].status = code]
      /\ UNCHANGED <<now, revoked, grants, nonces, hints, alerts, audit, rates, limits>>

Fails == failures < MaxFailures /\ failures' = failures + 1

\* Whatever the transaction throws, a conflict or a fault, is answered 409.
ingestRefused(id) ==
  LET r == requests[id]
  IN  /\ At(id, "ingest", "permitted")
      /\ \/ conflicts(r.tenant, r.ask.key, r.ask.body) /\ UNCHANGED failures
         \/ Fails
      /\ Refuse(id, 409) /\ appendAudit(id, "denied", 409)
      /\ UNCHANGED <<now, revoked, grants, evaluations, idempotency, nonces, hints, alerts, rates, operator>>

ingestAnswered(id) ==
  LET r == requests[id]
  IN  /\ At(id, "ingest", "stored")
      /\ Reply(id, r.status, r.ask.body.digest) /\ appendAudit(id, "allowed", r.status)
      /\ UNCHANGED <<now, revoked, grants, evaluations, idempotency, nonces, hints, alerts, rates, limits>>

\* The audit inside the same try fails after the commit: 409 for a stored
\* record, or 400 when the second audit fails as well.
ingestAuditFails(id) ==
  /\ At(id, "ingest", "stored") /\ Fails
  /\ \/ Refuse(id, 409) /\ appendAudit(id, "denied", 409)
     \/ Refuse(id, 400) /\ UNCHANGED audit
  /\ UNCHANGED <<now, revoked, grants, evaluations, idempotency, nonces, hints, alerts, rates, operator>>

---------------------------------------------------------------------------
\* Webhook hints: [tenant, source, nonce, signedAt, deployment, block, signed].

Distance(a, b) == IF a < b THEN b - a ELSE a - b

checkHint(id) ==
  LET ask   == requests[id].ask
      taken == take(<<ask.tenant, ask.source>>)
      authentic == /\ Distance(now, ask.signedAt) <= HintWindow
                   /\ <<ask.tenant, ask.source>> \in Secrets /\ ask.signed
  IN  /\ At(id, "hint", "new")
      /\ IF ~authentic THEN Refuse(id, 401) /\ UNCHANGED rates
         ELSE /\ rates' = taken.rates
              /\ IF taken.ok THEN Goto(id, "signed") ELSE Refuse(id, 429)
      /\ UNCHANGED <<now, revoked, grants, tables, limits>>

\* A slip: the insert does nothing on a conflict and its count is not looked at.
nonceSpentUnseen(ask) == FALSE

nonceSpent(ask) == \E n \in nonces : n.tenant = ask.tenant /\ n.nonce = ask.nonce

\* The nonce is spent before the hint is queued.
claimNonce(id) ==
  LET ask == requests[id].ask
  IN  /\ At(id, "hint", "signed")
      /\ IF nonceSpent(ask)
           THEN Refuse(id, 409) /\ UNCHANGED nonces
         ELSE /\ nonces' = nonces \cup {[tenant |-> ask.tenant, nonce |-> ask.nonce]}
              /\ Goto(id, "claimed")
      /\ UNCHANGED <<now, revoked, grants, evaluations, idempotency, hints, alerts, audit, rates, limits>>

\* A hint for a deployment the tenant has no grant for, or one already queued,
\* is accepted and queues nothing.
enqueueHint(id) ==
  LET ask  == requests[id].ask
      hint == [tenant |-> ask.tenant, source |-> ask.source,
               deployment |-> ask.deployment, block |-> ask.block]
      adds == findGrant(ask.tenant, ask.deployment) /\ hint \notin hints
  IN  /\ At(id, "hint", "claimed")
      /\ hints' = (IF adds THEN hints \cup {hint} ELSE hints)
      /\ Reply(id, 202, [duplicateHint |-> ~adds])
      /\ UNCHANGED <<now, revoked, grants, evaluations, idempotency, nonces, alerts, audit, rates, limits>>

\* A failed enqueue leaves the nonce spent.
enqueueFails(id) ==
  /\ At(id, "hint", "claimed") /\ Fails /\ Refuse(id, 400)
  /\ UNCHANGED <<now, revoked, grants, tables, rates, operator>>

---------------------------------------------------------------------------
\* The operator's SQL and the clock.

Operates == operator < MaxOperator /\ operator' = operator + 1

RevokeToken == \E t \in DOMAIN Tokens \ revoked :
  /\ Operates /\ revoked' = revoked \cup {t}
  /\ UNCHANGED <<now, grants, tables, rates, requests, failures>>

SetSharing == \E d \in DOMAIN Owner, level \in Levels :
  /\ Operates /\ grants' = [grants EXCEPT ![d] = level] /\ grants' # grants
  /\ UNCHANGED <<now, revoked, tables, rates, requests, failures>>

Tick ==
  /\ now < MaxClock /\ now' = now + 1
  /\ UNCHANGED <<revoked, grants, tables, rates, requests, limits>>

Handle(id) ==
  \/ authorize(id)
  \/ readStatus(id) \/ readVerdicts(id) \/ readHostedEvaluation(id) \/ acknowledgeTenantAlert(id)
  \/ checkIngest(id) \/ ingestHostedEvaluation(id) \/ ingestRefused(id)
  \/ ingestAnswered(id) \/ ingestAuditFails(id)
  \/ checkHint(id) \/ claimNonce(id) \/ enqueueHint(id) \/ enqueueFails(id)

\* asks: the requests clients send, any time and in any order; the budget is how
\* much of the bounds on faults and operator acts is spent already.
HostInit(asks, level, rows, budget) ==
  /\ now = 0 /\ revoked = {} /\ grants = [d \in DOMAIN Owner |-> level]
  /\ evaluations = rows /\ idempotency = {} /\ nonces = {} /\ hints = {}
  /\ audit = {} /\ rates = {} /\ failures = budget.failures /\ operator = budget.operator
  /\ requests = [id \in DOMAIN asks |-> NewRequest(asks[id])]

HostNext == (\E id \in DOMAIN requests : Handle(id)) \/ RevokeToken \/ SetSharing \/ Tick

---------------------------------------------------------------------------
\* Properties.

Answered(id, kind, codes) == kindOf(id) = kind /\ requests[id].pc = "answered" /\ requests[id].status \in codes

\* An ingest answered 200 or 201 is in the table with the payload that was sent,
\* evidence has one row per tenant and deployment, and a key that was answered
\* twice was asked twice for the same thing.  (server.ts ingest,
\* hosted-evidence.ts ingestHostedEvaluation)
IngestHonest ==
  /\ \A id \in DOMAIN requests : Answered(id, "ingest", {200, 201}) =>
       RowOf(requests[id].tenant, requests[id].ask.body) \in evaluations
  /\ \A e, f \in evaluations :
       e.tenant = f.tenant /\ e.deployment = f.deployment /\ e.digest = f.digest => e = f
  /\ \A i, j \in DOMAIN requests :
       /\ Answered(i, "ingest", {200, 201}) /\ Answered(j, "ingest", {200, 201})
       /\ requests[i].tenant = requests[j].tenant /\ requests[i].ask.key = requests[j].ask.key
       => requests[i].ask.body = requests[j].ask.body

\* A client that follows the cursors to the end has seen every record there was
\* when it began, and none twice, whatever is ingested meanwhile.
\* (server.ts verdicts, hosted-evidence.ts readHostedEvaluations)
WalkComplete ==
  \A id \in DOMAIN requests : Answered(id, "verdicts", {200}) =>
    /\ requests[id].before \subseteq ToSet(requests[id].seen)
    /\ \A i, j \in DOMAIN requests[id].seen : requests[id].seen[i] = requests[id].seen[j] => i = j

\* A signed hint is taken once: of requests with one nonce at most one is
\* answered 202, however they interleave.  (server.ts webhook, hosted-store.ts)
HintOnce ==
  \A i, j \in DOMAIN requests :
    /\ Answered(i, "hint", {202}) /\ Answered(j, "hint", {202})
    /\ requests[i].ask.tenant = requests[j].ask.tenant /\ requests[i].ask.nonce = requests[j].ask.nonce
    => i = j

\* A record that was accepted is never changed or removed, whoever asks what
\* afterwards.  (hosted-evidence.ts)
RecordsStand == [][evaluations \subseteq evaluations']_hostVars
=============================================================================
