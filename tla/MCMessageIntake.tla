-------------------------- MODULE MCMessageIntake --------------------------
\* Two messages to the remote, one id of which a third chain uses too, for MessageIntake.
EXTENDS MessageIntake

\* The registries of the three chains are at different versions.
ctx ==
  [messengerAddressOf |-> [c \in {"home", "remote", "third"} |-> c],
   registryProtocolVersionOf |->
     (<<"home", "home">> :> 1) @@ (<<"remote", "remote">> :> 2) @@ (<<"third", "third">> :> 3)]

m  == keyFor("home", "remote", "m", ctx)
n  == keyFor("home", "remote", "n", ctx)
n3 == keyFor("third", "remote", "n", ctx)

Messages == {m, n, n3}

\* The k-th log of a transaction.
Seen(kind, chain, peer, id, tx, k, height) ==
  [kind |-> kind, chain |-> chain, peer |-> peer, id |-> id,
   fact |-> [tx |-> tx, log |-> k], height |-> height]
AtHome(kind, id, tx, k, height)   == Seen(kind, "home", "remote", id, tx, k, height)
AtRemote(kind, id, tx, k, height) == Seen(kind, "remote", "home", id, tx, k, height)

inputs(observations) == projectObservations(observations, ctx).inputs
Timed(input) == [input EXCEPT !.at = 0]

Whole(s) == [inputs |-> s, complete |-> TRUE]
Page(s) == [inputs |-> s, complete |-> FALSE]

\* m leaves home with its accounting; n leaves in a shape nobody supports.
Sent == << projectSourceAccounting(AtHome("accounted", "m", "sent", 1, 1), TRUE, ctx),
           Timed(projectTeleporter(AtHome("sent", "m", "sent", 2, 2), ctx)),
           projectUnsupportedShape(AtHome("routed", "n", "sent", 3, 2), ctx) >>

\* A first execution of m fails, another succeeds; a state read is no lifecycle fact.
Failed == [inputs(<<AtRemote("received", "m", "failed", 1, 1),
                    AtRemote("failed", "m", "failed", 2, 1)>>) EXCEPT ![1] = Timed(@)]
Done == inputs(<<AtRemote("executed", "m", "done", 1, 2),
                 AtRemote("ictt.state-read", "m", "done", 2, 2)>>)

\* Two transactions that each execute both messages again.
Again == inputs(<<AtRemote("executed", "m", "again", 1, 2),
                  AtRemote("executed", "n", "again", 2, 2)>>)
Crossed == inputs(<<AtRemote("executed", "n", "crossed", 1, 2),
                    AtRemote("executed", "m", "crossed", 2, 2)>>)

\* One transaction carries the same messageId on two routes.
Shared == inputs(<<AtRemote("received", "n", "shared", 1, 1),
                   Seen("received", "remote", "third", "n", "shared", 2, 1)>>)

Transactions ==
  { Whole(s) : s \in {Sent, Failed, Done, Again, Crossed, Shared} }
    \cup {Page(SubSeq(Sent, 1, 1))}

Inputs == UNION { InputsOf(t) : t \in Transactions }
Kinds == { i.kind : i \in Inputs }
Logs == { i.fact : i \in Inputs }

\* The first execution is not in the ledger yet.
Ingested == Logs \ {Done[1].fact}

\* The adapters of this world keep their word.
ASSUME WholeTransactions /\ OneInputPerLog

\* The facts a transaction adds are those of folding its inputs one by one (reduce).
reduce(a, i) == IF \E f \in a : f.fact = i.fact THEN a ELSE a \cup {i}
ASSUME ReduceOneByOne ==
  \A t \in Transactions, u \in Transactions, key \in Messages :
    \A a \in {{}, InputsOf(u)} \cup {{[i EXCEPT !.at = 9]} : i \in Inputs} :
      \A twice \in {t, [t EXCEPT !.inputs = @ \o [k \in DOMAIN @ |-> [@[k] EXCEPT !.at = 9]]]} :
        LET mine == SelectSeq(twice.inputs, LAMBDA i : i.message.id = key.id)
        IN  reduceTransaction(key, a, twice) = FoldLeft(reduce, a, mine)

Batches == { rowsOf(t) : t \in Transactions }
=============================================================================
