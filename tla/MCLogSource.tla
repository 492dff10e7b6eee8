---------------------------- MODULE MCLogSource ----------------------------
(***************************************************************************)
(* The log source over a chain of four blocks and three endpoints of two   *)
(* witnesses, for every way the endpoints may fail and lie.                *)
(***************************************************************************)
EXTENDS LogSource

HeadHeight   == 4
LoggedHeights == {2, 3}      \* three logs each
Window       == [fromBlock |-> 2, toBlock |-> 3]
MaxBlocks    == 2

\* The second and the third endpoint are one provider's.
Endpoint(id, domain, provider) ==
  [id |-> id, trustDomain |-> domain, providerGroup |-> provider,
   secretRef |-> id, host |-> "unresolved"]
Endpoints == <<Endpoint(1, 1, "P"), Endpoint(2, 2, "Q"), Endpoint(3, 3, "Q")>>

\* The second name of one endpoint: another domain and provider, the same URL.
TwoNames == <<Endpoint(1, 1, "P"), [Endpoint(2, 2, "Q") EXCEPT !.secretRef = 1]>>

---------------------------------------------------------------------------
\* The chain, and what an endpoint makes of it.

HashOf(h, branch) == <<h, branch>>
Block(h, branch)  == [number |-> h, hash |-> HashOf(h, branch)]
LogAt(h, i)       == [height |-> h, hash |-> HashOf(h, "main"), index |-> i, copy |-> 1,
                      removed |-> FALSE]
TrueLogs   == {LogAt(h, i) : h \in LoggedHeights, i \in 0..2}
TrueBlocks == {Block(h, "main") : h \in {Window.fromBlock, Window.toBlock}}

\* Lies one endpoint can tell.  The last two are visible only by comparison.
Refutable == {"malformed", "removed", "hole", "twice", "shifted", "crossed", "behind"}
Lies      == Refutable \cup {"none", "short", "fork"}

Answer(v) == [shaped |-> TRUE, value |-> v]
Absent    == [shaped |-> FALSE, value |-> {}]

logsAnswer(lie) ==
  CASE lie = "removed"   -> {[l EXCEPT !.removed = TRUE] : l \in TrueLogs}
    [] lie = "hole"      -> TrueLogs \ {LogAt(2, 1)}
    [] lie = "twice"     -> TrueLogs \cup {[LogAt(3, 2) EXCEPT !.copy = 2]}
    [] lie = "short"     -> TrueLogs \ {LogAt(3, 2)}
    [] lie = "behind"    -> {l \in TrueLogs : l.height <= 2}
    [] lie \in {"crossed", "fork"} ->
         {IF l.height = 3 THEN [l EXCEPT !.hash = HashOf(3, "fork")] ELSE l : l \in TrueLogs}
    [] OTHER             -> TrueLogs

blockAnswer(lie, h) ==
  CASE lie = "shifted"          -> Block(h + 1, "main")
    [] lie = "fork" /\ h = 3    -> Block(h, "fork")
    [] OTHER                    -> Block(h, "main")

headAnswer(lie) == Block(IF lie = "behind" THEN 2 ELSE HeadHeight, "main")

Operations == {LogsOp(Window), FinalizedOp, HeadOp} \cup {BlockOp(h) : h \in 1..HeadHeight}

answersOf ==
  [lie \in Lies |->
    [op \in Operations |->
      CASE op.op = "logs" -> IF lie = "malformed" THEN Absent ELSE Answer(logsAnswer(lie))
        [] op.op = "block-by-number" ->
             IF lie = "behind" /\ op.at > 2 THEN Absent ELSE Answer(blockAnswer(lie, op.at))
        [] OTHER -> Answer(headAnswer(lie))]]

AllOps == {"logs", "block-by-number", "finalized", "head"}
Faults == {{}, {"logs"}, AllOps}

\* Every assignment of failures and lies to the three endpoints.
Behaviours == [DOMAIN Endpoints -> [fails : Faults, lie : Lies]]
transportsOf(b) == [i \in DOMAIN b |-> [fails |-> b[i].fails, answers |-> answersOf[b[i].lie]]]

---------------------------------------------------------------------------

Witnesses == byWitness(Endpoints)
Honest(w, b) == \A i \in DOMAIN w : b[w[i].id].lie = "none"
SameLie(w, b, lie) == \A i \in DOMAIN w : b[w[i].id].lie = lie

\* What one answer can be refuted by is refuted without asking anyone else.
NoneRefutable(w, b, observed) ==
  \A lie \in Refutable : SameLie(w, b, lie) => ~observed.ok

\* What the witnesses agree on is the chain's own content, every log and every block
\* of it, as soon as the endpoints of one of them are honest.
AgreementIsTruth(b, observed) ==
  LET answers == [w \in {x \in Witnesses : observed[x].ok} |-> observed[w].digest]
  IN  (agree(answers, {}, FALSE, 2).kind = "agreed" /\ \E w \in Witnesses : Honest(w, b)) =>
        \A w \in DOMAIN answers : answers[w].logs = TrueLogs /\ answers[w].blocks = TrueBlocks

\* The agreed head is a height some endpoint of every witness has reached.
HeadIsCommon(b, transports) ==
  \A settled \in BOOLEAN :
    LET head == agreedAcceptedHead(Witnesses, transports, settled)
    IN  head # None =>
          \A w \in Witnesses : \E i \in DOMAIN w : headAnswer(b[w[i].id].lie).number >= head

SourceExact ==
  /\ Cardinality(Witnesses) = 2
  /\ Cardinality(byWitness(TwoNames)) = 1
  /\ \A b \in Behaviours :
       LET transports == transportsOf(b)
           observed   == [w \in Witnesses |-> observe(w, transports, Window, MaxBlocks)]
       IN  /\ \A w \in Witnesses : NoneRefutable(w, b, observed[w])
           /\ AgreementIsTruth(b, observed)
           /\ HeadIsCommon(b, transports)
           /\ \A w \in Witnesses : ~observe(w, transports, Window, MaxBlocks - 1).ok
=============================================================================
