------------------------------ MODULE MCHosted ------------------------------
(***************************************************************************)
(* The agent and the hosted plane together, for TLC.  A behaviour begins in *)
(* one workload: an agent that mirrors, clients that ingest, follow the     *)
(* timeline or ask, or the senders of webhook hints.                        *)
(***************************************************************************)
EXTENDS AgentTick

VARIABLE agentRuns
mcVars == <<vars, agentRuns>>

MCLanes  == <<"home", "remote">>
MCTokens ==
  [agent  |-> [tenant |-> "t1", scopes |-> {"ingest:write", "status:read", "evidence:read", "alerts:ack"},
               expires |-> 9],
   narrow |-> [tenant |-> "t1", scopes |-> {"status:read"}, expires |-> 1],
   other  |-> [tenant |-> "t2", scopes |-> {"ingest:write", "status:read", "evidence:read", "alerts:ack"},
               expires |-> 9]]
MCOwner   == [d1 |-> "t1", d2 |-> "t2"]
MCSecrets == {<<"t1", "pager">>}

Body(level, deployment, digest, status) ==
  [level |-> level, deployment |-> deployment, digest |-> digest, status |-> status,
   observed |-> IF digest = 4 THEN 0 ELSE 1, expires |-> 2, verifies |-> TRUE, payload |-> level]

Put(token, key, body)  == [kind |-> "ingest", token |-> token, key |-> key, body |-> body]
Ask(kind, token)       == [kind |-> kind, token |-> token, deployment |-> "d1", after |-> None,
                           digest |-> 1, incident |-> "i1"]
Hint(nonce, block)     == [kind |-> "hint", tenant |-> "t1", source |-> "pager", nonce |-> nonce,
                           signedAt |-> 1, deployment |-> "d1", block |-> block, signed |-> TRUE]

Full(digest) == Body("approved-full", "d1", digest, "OK")
Meta(digest) == Body("sanitized-metadata", "d1", digest, "OK")
Kept         == {RowOf("t1", Full(d)) : d \in {1, 2, 3}} \cup {RowOf("t2", Body("approved-full", "d2", 2, "OK"))}
AlertRows    == {[deployment |-> d, incident |-> "i1", state |-> "delivered", by |-> None] : d \in {"d1", "d2"}}


\* What a workload may still spend of each bound.
Free    == [operator |-> 0, failures |-> 0, jobs |-> 0, throws |-> 0, crashes |-> 0,
            level |-> "approved-full"]
\* The faults are the agent's, or they are the hosted plane's.
Alone   == [Free EXCEPT !.operator = MaxOperator, !.failures = MaxFailures, !.level = "local-only"]
Sharing == [Free EXCEPT !.throws = MaxThrows, !.crashes = MaxCrashes, !.jobs = 1]

Load(asks, rows, level) == [asks |-> asks, rows |-> rows, level |-> level, agent |-> FALSE, budget |-> Free]
Agent(budget) == [asks |-> <<>>, rows |-> {}, level |-> "approved-full", agent |-> TRUE, budget |-> budget]

Workloads ==
  { Agent(Alone), Agent(Sharing),
    \* A retry, and another payload under its key and under another key.
    Load(<<Put("agent", "k1", Full(1)), Put("agent", "k1", Full(1)),
           Put("agent", "k1", Meta(1)), Put("agent", "k2", Meta(1))>>, {}, "approved-full"),
    \* Somebody else's key, and another key for the same evidence.
    Load(<<Put("agent", "k1", Full(1)), Put("other", "k1", Full(1)), Put("agent", "k2", Full(1))>>,
         {}, "approved-full"),
    \* Evidence that does not verify or never was valid, and a question that comes too early.
    Load(<<Put("agent", "k1", Full(1)), Put("agent", "k3", [Full(2) EXCEPT !.verifies = FALSE]),
           Put("agent", "k4", [Full(2) EXCEPT !.expires = 1]), Ask("evidence", "agent")>>,
         {}, "approved-full"),
    Load(<<Ask("verdicts", "agent"), Put("agent", "k4", Full(4)), Put("agent", "k5", Full(5))>>,
         Kept, "approved-full"),
    Load(<<Hint("n1", 1), Hint("n1", 1), Hint("n2", 1)>>, {}, "approved-full"),
    Load(<<Ask("status", "narrow"), Ask("evidence", "narrow"), Ask("evidence", "agent"),
           Ask("acknowledge", "agent"), Ask("acknowledge", "other")>>, Kept, "sanitized-metadata"),
    \* Another tenant asks about the deployment.
    Load(<<Ask("status", "other"), Ask("verdicts", "other"), Ask("evidence", "other")>>,
         Kept, "approved-full") }

MCInit ==
  \E w \in Workloads :
    /\ HostInit(w.asks, w.level, w.rows, w.budget) /\ alerts = AlertRows
    /\ agentRuns = w.agent
    /\ \E migrated \in BOOLEAN : AgentInit(migrated, w.budget) /\ (migrated \/ w.budget = Alone)

MCNext ==
  /\ \/ HostNext /\ UNCHANGED agentVars
     \/ agentRuns /\ AgentNext
  /\ UNCHANGED agentRuns

Spec == MCInit /\ [][MCNext]_mcVars
=============================================================================
