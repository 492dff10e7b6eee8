--------------------------- MODULE MessageProofs ---------------------------
(***************************************************************************)
(* The table of transitions: one credit per message and whole batches or   *)
(* nothing, for every number of connections, every set of batches and      *)
(* every loss of a connection.  The state machine: the same facts in       *)
(* whatever order the transactions are read, a verdict that no late fact   *)
(* makes better, and a cut in which what reads as executed has its causes. *)
(***************************************************************************)
EXTENDS MessageIntake, FiniteSetTheorems, NaturalsInduction, WellFoundedInduction, TLAPS

\* A row that is stored or held by an open transaction.
Held(r) == r \in table \/ \E w \in Writer : r \in call[w].mine

\* No two rows that clash are ever held, in whatever transactions: the index entries of
\* open transactions count.  OneEffect alone is not inductive, for a commit adds rows that
\* only this rules out.
NoClash == \A r, s \in Row : Held(r) /\ Held(s) /\ Clash(r, s) => r = s

\* The rows before the next one are stored, by the transaction or before it.
Done ==
  \A w \in Writer :
    call[w].open =>
      /\ call[w].batch \in Batch
      /\ \A i \in 1..(call[w].next - 1) :
           \E r \in Visible(w) : SameIdentity(r, call[w].batch[i])

IndInv == StoreTypeOK /\ NoClash /\ Done

USE DEF SameIdentity, SameCredit

----------------------------------------------------------------------------
\* A batch is a sequence of rows.
LEMMA BatchRows ==
  ASSUME NEW b \in Batch \cup {<<>>}
  PROVE  /\ Len(b) \in Nat /\ DOMAIN b = 1..Len(b)
         /\ \A i \in 1..Len(b) : b[i] \in Row
         /\ Ledger!RowsIn(b) \subseteq Row
<1>1. b \in Seq(Row)
  <2>1. <<>> \in Seq(Row)
    OBVIOUS
  <2>2. Batch \subseteq Seq(Row)
    BY StoreAssumption
  <2> QED BY <2>1, <2>2
<1>2. Len(b) \in Nat /\ DOMAIN b = 1..Len(b) /\ \A i \in 1..Len(b) : b[i] \in Row
  BY <1>1
<1> QED BY <1>2 DEF Ledger!RowsIn

\* The current row of a transaction is a row of its batch.
LEMMA CurrentRow ==
  ASSUME StoreTypeOK, NEW w \in Writer, AtRow(w)
  PROVE  /\ Current(w) \in Row /\ Current(w) \in Ledger!RowsIn(call[w].batch)
         /\ call[w].next \in Nat \ {0} /\ call[w].next <= Len(call[w].batch)
<1>1. call[w].batch \in Batch \cup {<<>>} /\ call[w].next \in Nat \ {0}
  BY DEF StoreTypeOK
<1>2. call[w].next \in 1..Len(call[w].batch)
  BY <1>1, BatchRows DEF AtRow
<1> QED BY <1>1, <1>2, BatchRows DEF Current, Ledger!RowsIn, AtRow

\* The end of a call, a commit aside, takes rows away and touches no other call.
Ends(w) ==
  /\ w \in Writer
  /\ \E c \in {NoCall, Refused(call[w].batch)} : call' = [call EXCEPT ![w] = c]
  /\ UNCHANGED <<logs, table>>

LEMMA EndStep ==
  ASSUME IndInv, NEW w \in Writer, Ends(w)
  PROVE  IndInv'
<1>1. PICK c \in {NoCall, Refused(call[w].batch)} : call' = [call EXCEPT ![w] = c]
  BY DEF Ends
<1>2. /\ c.open = FALSE /\ c.mine = {} /\ c.next = 1
      /\ c.batch \in Batch \cup {<<>>}
      /\ c \in [open : BOOLEAN, batch : Batch \cup {<<>>}, next : Nat \ {0}, mine : SUBSET Row]
  <2>1. call[w].batch \in Batch \cup {<<>>}
    BY DEF IndInv, StoreTypeOK
  <2>2. PICK b \in Batch \cup {<<>>} :
          c = [open |-> FALSE, batch |-> b, next |-> 1, mine |-> {}]
    BY <2>1, <1>1 DEF NoCall, Refused
  <2> QED BY <2>2
<1>3. /\ call'[w] = c /\ \A v \in Writer \ {w} : call'[v] = call[v]
      /\ table' = table /\ logs' = logs
  BY <1>1 DEF IndInv, StoreTypeOK, Ends
<1>4. StoreTypeOK'
  <2>1. call' \in [Writer -> [open : BOOLEAN, batch : Batch \cup {<<>>},
                              next : Nat \ {0}, mine : SUBSET Row]]
    BY <1>1, <1>2 DEF IndInv, StoreTypeOK
  <2>2. c.next <= Len(c.batch) + 1 /\ c.mine \subseteq Ledger!RowsIn(c.batch)
    BY <1>2, BatchRows
  <2> QED BY <2>1, <2>2, <1>2, <1>3 DEF IndInv, StoreTypeOK
<1>5. NoClash'
  <2>1. \A r \in Row : Held(r)' => Held(r)
    BY <1>2, <1>3 DEF Held
  <2> QED BY <2>1 DEF IndInv, NoClash, Clash
<1>6. Done'
  BY <1>2, <1>3 DEF IndInv, Done, Visible
<1> QED BY <1>4, <1>5, <1>6 DEF IndInv

\* A new call holds nothing yet.
LEMMA BeginStep ==
  ASSUME IndInv, NEW w \in Writer, NEW b \in Batch, Begin(w, b)
  PROVE  IndInv'
<1>1. /\ call' = [call EXCEPT ![w] = Call(b)]
      /\ call'[w] = Call(b) /\ \A v \in Writer \ {w} : call'[v] = call[v]
      /\ table' = table /\ logs' = logs
  BY DEF IndInv, StoreTypeOK, Begin
<1>2. /\ Call(b).open = TRUE /\ Call(b).mine = {} /\ Call(b).next = 1 /\ Call(b).batch = b
      /\ Call(b) \in [open : BOOLEAN, batch : Batch \cup {<<>>},
                      next : Nat \ {0}, mine : SUBSET Row]
  BY DEF Call
<1>3. StoreTypeOK'
  <2>1. call' \in [Writer -> [open : BOOLEAN, batch : Batch \cup {<<>>},
                              next : Nat \ {0}, mine : SUBSET Row]]
    BY <1>1, <1>2 DEF IndInv, StoreTypeOK
  <2>2. 1 <= Len(b) + 1
    BY BatchRows
  <2> QED BY <2>1, <2>2, <1>1, <1>2 DEF IndInv, StoreTypeOK
<1>4. NoClash'
  <2>1. \A r \in Row : Held(r)' => Held(r)
    BY <1>1, <1>2 DEF Held
  <2> QED BY <2>1 DEF IndInv, NoClash, Clash
<1>5. Done'
  BY <1>1, <1>2 DEF IndInv, Done, Visible
<1> QED BY <1>3, <1>4, <1>5 DEF IndInv

\* A row that is inserted clashes with no row held anywhere.
LEMMA InsertStep ==
  ASSUME IndInv, NEW w \in Writer, Insert(w)
  PROVE  IndInv'
<1> DEFINE c == Current(w)
           next == Advanced(call[w], {c})
<1>1. /\ c \in Row /\ c \in Ledger!RowsIn(call[w].batch)
      /\ call[w].next \in Nat \ {0} /\ call[w].next <= Len(call[w].batch)
  BY CurrentRow DEF IndInv, Insert, Decides
<1>2. call[w] \in [open : BOOLEAN, batch : Batch \cup {<<>>},
                   next : Nat \ {0}, mine : SUBSET Row]
  BY DEF IndInv, StoreTypeOK
<1>3. /\ call' \in [Writer -> [open : BOOLEAN, batch : Batch \cup {<<>>},
                               next : Nat \ {0}, mine : SUBSET Row]]
      /\ call'[w] = next
      /\ \A v \in Writer \ {w} : call'[v] = call[v]
      /\ table' = table /\ logs' = logs
  <2>1. call' = [call EXCEPT ![w] = next]
    BY DEF Insert
  <2>2. next \in [open : BOOLEAN, batch : Batch \cup {<<>>}, next : Nat \ {0}, mine : SUBSET Row]
    BY <1>1, <1>2 DEF Advanced
  <2> HIDE DEF next
  <2> QED BY <2>1, <2>2 DEF IndInv, StoreTypeOK, Insert
<1>4. /\ next.open = call[w].open /\ next.batch = call[w].batch
      /\ next.next = call[w].next + 1 /\ next.mine = call[w].mine \cup {c}
      /\ next \in [open : BOOLEAN, batch : Batch \cup {<<>>},
                   next : Nat \ {0}, mine : SUBSET Row]
  BY <1>1, <1>2 DEF Advanced, Insert, Decides, AtRow
<1>5. call[w].open /\ call[w].batch \in Batch
  BY DEF IndInv, Done, Insert, Decides, AtRow
<1> HIDE DEF next
<1>6. StoreTypeOK'
  <2>1. call' \in [Writer -> [open : BOOLEAN, batch : Batch \cup {<<>>},
                              next : Nat \ {0}, mine : SUBSET Row]]
    BY <1>3, <1>4 DEF IndInv, StoreTypeOK
  <2>2. Len(call[w].batch) \in Nat
    BY <1>5, BatchRows
  <2>3. next.next <= Len(next.batch) + 1
    BY <2>2, <1>1, <1>4
  <2>4. next.mine \subseteq Ledger!RowsIn(next.batch)
    BY <1>1, <1>4 DEF IndInv, StoreTypeOK
  <2> QED BY <2>1, <2>3, <2>4, <1>3, <1>4, <1>5, ZenonT(30) DEF IndInv, StoreTypeOK
<1>7. NoClash'
  <2>1. \A r \in Row : Held(r)' => Held(r) \/ r = c
    BY <1>3, <1>4 DEF Held
  <2>2. \A r \in Row : Held(r) => ~ Clash(r, c)
    <3>1. \A r \in Visible(w) : ~ Clash(r, c)
      BY DEF Insert, Decides, Present, Credited, Clash
    <3>2. \A v \in Writer \ {w} : \A r \in call[v].mine : ~ Clash(r, c)
      BY DEF Insert, Decides, Holders
    <3> QED BY <3>1, <3>2 DEF Held, Visible
  <2>3. \A r \in Row : Clash(c, r) => Clash(r, c)
    BY DEF Clash, Ledger!SameIdentity, Ledger!SameCredit
  <2>4. ASSUME NEW r \in Row, NEW s \in Row, Held(r)', Held(s)', Clash(r, s)
        PROVE  r = s
    <3>1. CASE Held(r) /\ Held(s)
      BY <3>1, <2>4 DEF IndInv, NoClash
    <3>2. CASE r = c
      BY <3>2, <2>1, <2>2, <2>3, <2>4
    <3>3. CASE s = c
      BY <3>3, <2>1, <2>2, <2>4
    <3> QED BY <3>1, <3>2, <3>3, <2>1, <2>4
  <2> QED BY <2>4 DEF NoClash, Clash
<1>8. Done'
  <2>1. ASSUME NEW i \in 1..(next.next - 1)
        PROVE  \E r \in table \cup next.mine : SameIdentity(r, next.batch[i])
    <3>1. CASE i = call[w].next
      BY <3>1, <1>4 DEF Current, Ledger!SameIdentity
    <3>2. CASE i # call[w].next
      <4>1. i \in 1..(call[w].next - 1)
        BY <3>2, <1>1, <1>4
      <4> QED BY <4>1, <1>4, <1>5 DEF IndInv, Done, Visible
    <3> QED BY <3>1, <3>2
  <2> QED BY <2>1, <1>3, <1>4, <1>5 DEF IndInv, Done, Visible
<1> QED BY <1>6, <1>7, <1>8 DEF IndInv

\* A row that is there already is passed over.
LEMMA DoNothingStep ==
  ASSUME IndInv, NEW w \in Writer, DoNothing(w)
  PROVE  IndInv'
<1> DEFINE next == Advanced(call[w], {})
<1>1. call[w].next \in Nat \ {0} /\ call[w].next <= Len(call[w].batch)
  BY CurrentRow DEF IndInv, DoNothing
<1>2. call[w] \in [open : BOOLEAN, batch : Batch \cup {<<>>},
                   next : Nat \ {0}, mine : SUBSET Row]
  BY DEF IndInv, StoreTypeOK
<1>3. /\ call' \in [Writer -> [open : BOOLEAN, batch : Batch \cup {<<>>},
                               next : Nat \ {0}, mine : SUBSET Row]]
      /\ call'[w] = next
      /\ \A v \in Writer \ {w} : call'[v] = call[v]
      /\ table' = table /\ logs' = logs
  <2>1. call' = [call EXCEPT ![w] = next]
    BY DEF DoNothing
  <2>2. next \in [open : BOOLEAN, batch : Batch \cup {<<>>}, next : Nat \ {0}, mine : SUBSET Row]
    BY <1>1, <1>2 DEF Advanced
  <2> HIDE DEF next
  <2> QED BY <2>1, <2>2 DEF IndInv, StoreTypeOK, DoNothing
<1>4. /\ next.open = call[w].open /\ next.batch = call[w].batch
      /\ next.next = call[w].next + 1 /\ next.mine = call[w].mine
      /\ next \in [open : BOOLEAN, batch : Batch \cup {<<>>},
                   next : Nat \ {0}, mine : SUBSET Row]
  BY <1>1, <1>2 DEF Advanced, DoNothing, AtRow
<1>5. call[w].open /\ call[w].batch \in Batch
  BY DEF IndInv, Done, DoNothing, AtRow
<1> HIDE DEF next
<1>6. StoreTypeOK'
  <2>1. call' \in [Writer -> [open : BOOLEAN, batch : Batch \cup {<<>>},
                              next : Nat \ {0}, mine : SUBSET Row]]
    BY <1>3, <1>4 DEF IndInv, StoreTypeOK
  <2>2. Len(call[w].batch) \in Nat
    BY <1>5, BatchRows
  <2>3. next.next <= Len(next.batch) + 1
    BY <2>2, <1>1, <1>4
  <2>4. ASSUME NEW v \in Writer
        PROVE  /\ call'[v].next <= Len(call'[v].batch) + 1
               /\ call'[v].mine \subseteq Ledger!RowsIn(call'[v].batch)
               /\ ~ call'[v].open => call'[v].mine = {} /\ call'[v].next = 1
    <3>1. /\ call[v].next <= Len(call[v].batch) + 1
          /\ call[v].mine \subseteq Ledger!RowsIn(call[v].batch)
          /\ ~ call[v].open => call[v].mine = {} /\ call[v].next = 1
      BY DEF IndInv, StoreTypeOK
    <3>2. CASE v = w
      BY <3>1, <3>2, <2>3, <1>3, <1>4, <1>5
    <3>3. CASE v # w
      BY <3>1, <3>3, <1>3
    <3> QED BY <3>2, <3>3
  <2>5. logs' \subseteq Log /\ table' \subseteq Row
    BY <1>3 DEF IndInv, StoreTypeOK
  <2> QED BY <2>1, <2>4, <2>5 DEF StoreTypeOK
<1>7. NoClash'
  <2>1. \A r \in Row : Held(r)' => Held(r)
    BY <1>3, <1>4 DEF Held
  <2> QED BY <2>1 DEF IndInv, NoClash, Clash
<1>8. Done'
  <2>1. ASSUME NEW i \in 1..(next.next - 1)
        PROVE  \E r \in table \cup next.mine : SameIdentity(r, next.batch[i])
    <3>1. CASE i = call[w].next
      BY <3>1, <1>4 DEF DoNothing, Present, Current, Visible
    <3>2. CASE i # call[w].next
      <4>1. i \in 1..(call[w].next - 1)
        BY <3>2, <1>1, <1>4
      <4> QED BY <4>1, <1>4, <1>5 DEF IndInv, Done, Visible
    <3> QED BY <3>1, <3>2
  <2> QED BY <2>1, <1>3, <1>4, <1>5 DEF IndInv, Done, Visible
<1> QED BY <1>6, <1>7, <1>8 DEF IndInv

\* A commit moves the rows of the call into the table, and all rows of its batch are there.
LEMMA CommitStep ==
  ASSUME IndInv, NEW w \in Writer, Commit(w)
  PROVE  IndInv' /\ call[w].batch \in Batch /\ Ledger!Write(call[w].batch)
<1>1. /\ call' = [call EXCEPT ![w] = NoCall] /\ call'[w] = NoCall
      /\ \A v \in Writer \ {w} : call'[v] = call[v]
      /\ table' = table \cup call[w].mine /\ logs' = logs
  BY DEF IndInv, StoreTypeOK, Commit, End
<1>2. /\ NoCall.open = FALSE /\ NoCall.mine = {} /\ NoCall.next = 1 /\ NoCall.batch = <<>>
      /\ NoCall \in [open : BOOLEAN, batch : Batch \cup {<<>>},
                     next : Nat \ {0}, mine : SUBSET Row]
  BY DEF NoCall
<1>3. /\ call[w].batch \in Batch /\ call[w].mine \subseteq Row
      /\ call[w].mine \subseteq Ledger!RowsIn(call[w].batch)
  BY DEF IndInv, StoreTypeOK, Done, Commit
<1>4. StoreTypeOK'
  <2>1. call' \in [Writer -> [open : BOOLEAN, batch : Batch \cup {<<>>},
                              next : Nat \ {0}, mine : SUBSET Row]]
    BY <1>1, <1>2 DEF IndInv, StoreTypeOK
  <2>2. 1 <= Len(<<>>) + 1
    BY BatchRows
  <2> QED BY <2>1, <2>2, <1>1, <1>2, <1>3 DEF IndInv, StoreTypeOK
<1>5. NoClash'
  <2>1. \A r \in Row : Held(r)' => Held(r)
    BY <1>1, <1>2 DEF Held
  <2> QED BY <2>1 DEF IndInv, NoClash, Clash
<1>6. Done'
  BY <1>1, <1>2 DEF IndInv, Done, Visible
<1>7. Ledger!Write(call[w].batch)
  <2>1. call[w].next = Len(call[w].batch) + 1
    BY <1>3, BatchRows DEF IndInv, StoreTypeOK, Commit, AtRow
  <2>2. ASSUME NEW r \in Ledger!RowsIn(call[w].batch)
        PROVE  \E s \in table' : Ledger!SameIdentity(r, s)
    <3>1. PICK i \in 1..Len(call[w].batch) : r = call[w].batch[i]
      BY <1>3, BatchRows DEF Ledger!RowsIn
    <3>2. i \in 1..(call[w].next - 1)
      BY <2>1, <1>3, BatchRows
    <3>3. \E s \in table' : SameIdentity(s, r)
      BY <3>1, <3>2, <1>1 DEF IndInv, Done, Visible, Commit
    <3> QED BY <3>3 DEF Ledger!SameIdentity
  <2>3. table' \subseteq Row /\ \A r \in table' : Held(r)
    BY <1>1, <1>3 DEF Held, IndInv, StoreTypeOK
  <2>4. Ledger!Distinct(table') /\ Ledger!CreditedOnce(table')
    BY <2>3 DEF Ledger!Distinct, Ledger!CreditedOnce, IndInv, NoClash, Clash
  <2> QED BY <1>1, <1>3, <2>2, <2>4 DEF Ledger!Write
<1> QED BY <1>3, <1>4, <1>5, <1>6, <1>7 DEF IndInv

----------------------------------------------------------------------------
LEMMA Initially == StoreInit => IndInv
<1> SUFFICES ASSUME StoreInit PROVE IndInv
  OBVIOUS
<1>1. /\ \A w \in Writer : call[w] = NoCall
      /\ table = {} /\ logs = Known
  BY DEF StoreInit
<1>2. /\ NoCall.open = FALSE /\ NoCall.mine = {} /\ NoCall.next = 1 /\ NoCall.batch = <<>>
      /\ NoCall \in [open : BOOLEAN, batch : Batch \cup {<<>>},
                     next : Nat \ {0}, mine : SUBSET Row]
  BY DEF NoCall
<1>3. 1 <= Len(<<>>) + 1
  BY BatchRows
<1>4. StoreTypeOK
  BY <1>1, <1>2, <1>3, StoreAssumption DEF StoreTypeOK, StoreInit
<1>5. NoClash /\ Done
  BY <1>1, <1>2 DEF NoClash, Held, Done
<1> QED BY <1>4, <1>5 DEF IndInv

\* What a step of the store does: it keeps the invariant and is a step of the ledger or none.
LEMMA Step ==
  ASSUME IndInv, [StoreNext]_storeVars
  PROVE  IndInv' /\ [Ledger!LedgerNext]_table
<1>1. CASE UNCHANGED storeVars
  BY <1>1 DEF storeVars, IndInv, StoreTypeOK, NoClash, Held, Done, Visible, Clash
<1>2. ASSUME NEW l \in Log, Ingest(l)
      PROVE  IndInv' /\ table' = table
  BY <1>2 DEF Ingest, IndInv, StoreTypeOK, NoClash, Held, Done, Visible, Clash
<1>3. ASSUME NEW w \in Writer, NEW b \in Batch, Begin(w, b)
      PROVE  IndInv' /\ table' = table
  BY <1>3, BeginStep DEF Begin
<1>4. ASSUME NEW w \in Writer, StoreStep(w)
      PROVE  IndInv' /\ [Ledger!LedgerNext]_table
  <2>1. CASE Insert(w)
    BY <2>1, InsertStep DEF Insert
  <2>2. CASE DoNothing(w)
    BY <2>2, DoNothingStep DEF DoNothing
  <2>3. CASE RefuseCredit(w)
    BY <2>3, EndStep DEF RefuseCredit, Ends
  <2>4. CASE RefuseLog(w)
    BY <2>4, EndStep DEF RefuseLog, Ends, End
  <2>5. CASE Commit(w)
    BY <2>5, CommitStep DEF Ledger!LedgerNext
  <2>6. CASE Lose(w)
    BY <2>6, EndStep DEF Lose, Ends, End
  <2>7. CASE DeadlockVictim(w)
    BY <2>7, EndStep DEF DeadlockVictim, Ends, End
  <2> QED BY <1>4, <2>1, <2>2, <2>3, <2>4, <2>5, <2>6, <2>7 DEF StoreStep, Statement
<1> QED BY <1>1, <1>2, <1>3, <1>4 DEF StoreNext, storeVars

\* The inductive invariant of the store.
THEOREM StoreInvariant == StoreSpec => []IndInv
<1>1. IndInv /\ [StoreNext]_storeVars => IndInv'
  BY Step
<1> QED BY <1>1, Initially, PTL DEF StoreSpec

\* The rows and calls of any number of connections are of their types, and a connection
\* without a transaction holds no row (writeTransitionBatch, sql.begin).
THEOREM StoreTypes == StoreSpec => []StoreTypeOK
<1>1. IndInv => StoreTypeOK
  BY DEF IndInv
<1> QED BY <1>1, StoreInvariant, PTL

\* A message is credited at most once, however many connections write, retry and fail
\* (message_transitions_one_economic_effect).
THEOREM OneEffectHolds == StoreSpec => []OneEffect
<1>1. IndInv => OneEffect
  BY DEF IndInv, StoreTypeOK, NoClash, Held, Clash, OneEffect, Ledger!CreditedOnce
<1> QED BY <1>1, StoreInvariant, PTL

\* Statement by statement, the concurrent calls of writeTransitionBatch implement a table
\* that takes whole batches in one step.
THEOREM StoreImplementsLedger == StoreSpec => StoreRefined
<1>1. StoreInit => Ledger!LedgerInit
  BY DEF StoreInit, Ledger!LedgerInit
<1>2. IndInv /\ [StoreNext]_storeVars => [Ledger!LedgerNext]_table
  BY Step
<1> QED BY <1>1, <1>2, StoreInvariant, PTL DEF StoreSpec, StoreRefined, Ledger!LedgerSpec

----------------------------------------------------------------------------
(* The connections of MessageIntake are connections of the store *)

\* What a connection writes is one of the batches of the store.
RowsAreBatches == \A t \in Transaction : rowsOf(t) \in Batch

LEMMA IntakeStep ==
  ASSUME [Next]_vars
  PROVE  \/ \E t \in Transaction : Fold(t)
         \/ UNCHANGED lifecycleVars
BY DEF Next, vars, lifecycleVars, Submit

LEMMA IntakeImplementsStore ==
  ASSUME RowsAreBatches
  PROVE  Spec => StoreSpec
<1>1. Init => StoreInit
  BY DEF Init
<1>2. [Next]_vars => [StoreNext]_storeVars
  BY DEF Next, vars, storeVars, Submit, StoreNext, RowsAreBatches
<1> QED BY <1>1, <1>2, PTL DEF Spec, StoreSpec

\* A message is credited at most once in the table when the connections also fold what
\* they write (MessageAggregate, message_transitions_one_economic_effect).
THEOREM IntakeCreditsOnce ==
  ASSUME RowsAreBatches
  PROVE  Spec => []OneEffect /\ StoreRefined
BY IntakeImplementsStore, OneEffectHolds, StoreImplementsLedger

----------------------------------------------------------------------------
(* The facts of a message *)

LEMMA LeastIndex ==
  ASSUME NEW S \in SUBSET Nat, S # {}
  PROVE  \E k \in S : \A n \in S : k <= n
<1>1. IsWellFoundedOn(OpToRel(<, Nat), Nat)
  BY NatLessThanWellFounded
<1>2. PICK k \in S : \A n \in S : <<n, k>> \notin OpToRel(<, Nat)
  BY <1>1, WFMin
<1>3. \A n \in S : ~ (n < k)
  BY <1>2 DEF OpToRel
<1> QED BY <1>3

\* The inputs of a transaction are finitely many, each at an index.
LEMMA InputsMean ==
  ASSUME NEW t \in Transaction
  PROVE  /\ DOMAIN t.inputs \in SUBSET Nat
         /\ InputsOf(t) = { t.inputs[k] : k \in DOMAIN t.inputs }
         /\ IsFiniteSet(InputsOf(t))
<1>1. t.inputs \in Seq(InputsOf(t)) /\ InputsOf(t) = { t.inputs[k] : k \in DOMAIN t.inputs }
  BY LifecycleAssumption DEF InputsOf, ToSet
<1>2. Len(t.inputs) \in Nat /\ DOMAIN t.inputs = 1..Len(t.inputs)
  BY <1>1
<1>3. t.inputs \in Surjection(1..Len(t.inputs), InputsOf(t))
  BY <1>1, <1>2 DEF Surjection
<1>4. IsFiniteSet(1..Len(t.inputs))
  BY <1>2, FS_Interval
<1>5. IsFiniteSet(InputsOf(t))
  BY <1>3, <1>4, FS_Surjection
<1> QED BY <1>1, <1>2, <1>5

\* What is reduced is kept, and is of the transaction.
LEMMA ReduceAdds ==
  ASSUME NEW t \in Transaction, NEW m, NEW a
  PROVE  /\ a \subseteq reduceTransaction(m, a, t)
         /\ \A i \in reduceTransaction(m, a, t) : i \in a \/ (i \in InputsOf(t) /\ i.message.id = m.id)
BY InputsMean DEF reduceTransaction, ofMessage

\* When a log is one input of its message, all inputs of the message are reduced.
LEMMA ReduceTakesAll ==
  ASSUME NEW t \in Transaction, NEW m, NEW a, ~ KeyMismatch(m, t),
         \A i \in a : i.message = m,
         \A i, j \in a \cup InputsOf(t) : i.message = j.message /\ i.fact = j.fact => i = j
  PROVE  reduceTransaction(m, a, t) = a \cup { i \in InputsOf(t) : i.message = m }
<1> DEFINE all == reduceTransaction(m, a, t)
<1>1. \A k \in ofMessage(m, t) : t.inputs[k].message = m /\ k \in Nat /\ t.inputs[k] \in InputsOf(t)
  BY InputsMean DEF KeyMismatch, ofMessage
<1>2. \A i \in all : i \in a \/ (i \in InputsOf(t) /\ i.message = m)
  BY <1>1 DEF reduceTransaction
<1>3. ASSUME NEW i \in InputsOf(t), i.message = m
      PROVE  i \in all
  <2> DEFINE new == { k \in ofMessage(m, t) : \A f \in a : f.fact # t.inputs[k].fact }
             same == { k \in new : t.inputs[k].fact = i.fact }
  <2>1. PICK k \in ofMessage(m, t) : t.inputs[k] = i
    BY <1>3, InputsMean DEF ofMessage
  <2>2. CASE \E f \in a : f.fact = i.fact
    <3>1. i \in a
      BY <1>3, <2>2
    <3> QED BY <3>1, ReduceAdds
  <2>3. CASE ~ \E f \in a : f.fact = i.fact
    <3>1. k \in same /\ same \in SUBSET Nat
      BY <1>1, <2>1, <2>3
    <3>2. PICK j \in same : \A n \in same : j <= n
      BY <3>1, LeastIndex
    <3>3. j \in ofMessage(m, t) /\ t.inputs[j].fact = i.fact
      BY <3>2
    <3>4. t.inputs[j] = i
      BY <1>1, <1>3, <3>3
    <3>5. j \in new /\ \A n \in new : t.inputs[n].fact = t.inputs[j].fact => j <= n
      BY <3>2
    <3>6. t.inputs[j] \in all
      BY <3>5 DEF reduceTransaction
    <3> QED BY <3>4, <3>6
  <2> QED BY <2>2, <2>3
<1>4. a \subseteq all
  BY ReduceAdds
<1> QED BY <1>2, <1>3, <1>4

\* A transaction that is folded adds its own inputs to what the chains hold of a message.
LEMMA FoldStep ==
  ASSUME WholeTransactions, OneInputPerLog, OrderFree, NEW t \in Transaction, Fold(t)
  PROVE  OrderFree'
<1> DEFINE all == UNION { InputsOf(u) : u \in { v \in Transaction : v.complete } }
           mine(m) == { i \in InputsOf(t) : i.message = m }
<1>1. CASE InputsOf(t) = {}
  <2>1. MessagesOf(t) = {} /\ { i.fact.tx : i \in InputsOf(t) } = {}
    BY <1>1 DEF MessagesOf
  <2>2. agg' = [m \in Message |-> agg[m]] /\ folded' = folded
    BY <2>1 DEF Fold
  <2> QED BY <2>2 DEF OrderFree, OnChain
<1>2. CASE InputsOf(t) # {}
  <2>1. PICK i0 \in InputsOf(t) : TRUE
    BY <1>2
  <2>2. \A m \in MessagesOf(t) : ~ KeyMismatch(m, t)
    BY DEF Fold, throws
  <2>3. t.complete /\ ~ MixedTransaction(t)
    <3>1. i0.message \in MessagesOf(t)
      BY <2>1 DEF MessagesOf
    <3> QED BY <3>1 DEF Fold, throws
  <2>4. \A i \in InputsOf(t) : i.fact.tx = i0.fact.tx
    BY <2>1, <2>3 DEF MixedTransaction
  <2>5. folded' = folded \cup {i0.fact.tx}
    <3>1. { i.fact.tx : i \in InputsOf(t) } = {i0.fact.tx}
      BY <2>1, <2>4
    <3> QED BY <3>1 DEF Fold
  <2>6. InputsOf(t) \subseteq all
    BY <2>3
  <2>7. \A i \in all : i.fact.tx = i0.fact.tx => i \in InputsOf(t)
    BY <2>1, <2>3 DEF WholeTransactions
  <2>8. ASSUME NEW m \in Message
        PROVE  OnChain(m)' = OnChain(m) \cup mine(m)
    <3>1. OnChain(m) = { i \in all : i.message = m /\ i.fact.tx \in folded }
      BY DEF OnChain
    <3>2. OnChain(m)' = { i \in all : i.message = m /\ i.fact.tx \in folded' }
      BY DEF OnChain
    <3> HIDE DEF all
    <3> QED BY <2>4, <2>5, <2>6, <2>7, <3>1, <3>2
  <2>9. ASSUME NEW m \in Message
        PROVE  agg'[m] = agg[m] \cup mine(m)
    <3>1. CASE m \notin MessagesOf(t)
      <4>1. mine(m) = {}
        BY <3>1 DEF MessagesOf
      <4>2. agg'[m] = agg[m]
        BY <3>1 DEF Fold
      <4> QED BY <4>1, <4>2
    <3>2. CASE m \in MessagesOf(t)
      <4>1. agg'[m] = reduceTransaction(m, agg[m], t)
        BY <3>2 DEF Fold
      <4>2. agg[m] = OnChain(m)
        BY DEF OrderFree
      <4>3. \A i \in agg[m] : i.message = m /\ i \in all
        BY <4>2 DEF OnChain
      <4>4. all \subseteq UNION { InputsOf(u) : u \in Transaction }
        OBVIOUS
      <4>5. \A i, j \in agg[m] \cup InputsOf(t) : i.message = j.message /\ i.fact = j.fact => i = j
        BY <2>6, <4>3, <4>4 DEF OneInputPerLog
      <4> HIDE DEF all
      <4>6. reduceTransaction(m, agg[m], t) = agg[m] \cup { i \in InputsOf(t) : i.message = m }
        BY <2>2, <3>2, <4>3, <4>5, ReduceTakesAll
      <4> QED BY <4>1, <4>6
    <3> QED BY <3>1, <3>2
  <2> QED BY <2>8, <2>9 DEF OrderFree
<1> QED BY <1>1, <1>2

\* Whatever the order in which connections read, repeat and lose transactions, a message has
\* exactly the facts of the transactions folded (aggregate.ts: "ingestion order cannot change
\* the answer"; transaction.ts: "reduced whole or not at all").
THEOREM OrderIsFree ==
  ASSUME WholeTransactions, OneInputPerLog
  PROVE  Spec => []OrderFree
<1>1. Init => OrderFree
  BY DEF Init, LifecycleInit, OrderFree, OnChain
<1>2. OrderFree /\ [Next]_vars => OrderFree'
  <2> SUFFICES ASSUME OrderFree, [Next]_vars PROVE OrderFree'
    OBVIOUS
  <2>1. CASE UNCHANGED lifecycleVars
    BY <2>1 DEF lifecycleVars, OrderFree, OnChain
  <2> QED BY <2>1, IntakeStep, FoldStep
<1> QED BY <1>1, <1>2, PTL DEF Spec

----------------------------------------------------------------------------
(* The state of a message *)

\* Facts are only added, and there are finitely many of them.
FiniteFacts == \A m \in Message : IsFiniteSet(agg[m])

LEMMA FactsGrow ==
  ASSUME FiniteFacts, NEW t \in Transaction, Fold(t)
  PROVE  FiniteFacts' /\ \A m \in Message : agg[m] \subseteq agg'[m]
<1> SUFFICES ASSUME NEW m \in Message
             PROVE  IsFiniteSet(agg'[m]) /\ agg[m] \subseteq agg'[m]
  BY DEF FiniteFacts
<1>1. IsFiniteSet(agg[m])
  BY DEF FiniteFacts
<1>2. CASE agg'[m] = agg[m]
  BY <1>1, <1>2
<1>3. CASE agg'[m] = reduceTransaction(m, agg[m], t)
  <2>1. agg[m] \subseteq agg'[m] /\ agg'[m] \in SUBSET (agg[m] \cup InputsOf(t))
    BY <1>3, ReduceAdds
  <2>2. IsFiniteSet(agg[m] \cup InputsOf(t))
    BY <1>1, InputsMean, FS_Union
  <2> QED BY <2>1, <2>2, FS_Subset
<1> QED BY <1>2, <1>3 DEF Fold

\* Two credits stay two.
LEMMA CreditsGrow ==
  ASSUME NEW a, NEW b, a \subseteq b, IsFiniteSet(b)
  PROVE  Cardinality(credits(a)) > 1 => Cardinality(credits(b)) > 1
<1> DEFINE G(x) == { g \in x : g.kind \in DestinationEffects /\ g.credits }
           f == [g \in G(b) |-> g.fact]
<1>1. G(b) \in SUBSET b
  OBVIOUS
<1>2. IsFiniteSet(G(b))
  BY <1>1, FS_Subset
<1>3. f \in Surjection(G(b), credits(b))
  BY DEF Surjection, credits
<1>4. IsFiniteSet(credits(b))
  BY <1>2, <1>3, FS_Surjection
<1>5. credits(a) \in SUBSET credits(b)
  BY DEF credits
<1>6. IsFiniteSet(credits(a)) /\ Cardinality(credits(a)) <= Cardinality(credits(b))
  BY <1>4, <1>5, FS_Subset
<1>7. Cardinality(credits(a)) \in Nat /\ Cardinality(credits(b)) \in Nat
  BY <1>4, <1>6, FS_CardinalityType
<1> QED BY <1>6, <1>7

Has(a, kind) == \E f \in a : f.kind = kind

\* The lines of the precedence that decide whether a message is healthy.
LEMMA PrecedenceLines ==
  ASSUME NEW a
  PROVE  LET p == Precedence(a) IN
         /\ DOMAIN p = 1..15 /\ p[15][1]
         /\ p[1][1] = Has(a, "unsupported") /\ p[1][2] = "UNCLASSIFIABLE"
         /\ p[2][2] = "ORPHANED" /\ p[3][2] = "PAUSED_VERSION"
         /\ p[4][2] = "UNRECEIVABLE_BY_VERSION_POLICY"
         /\ p[5][1] = Has(a, "execution-retried") /\ p[5][2] = "RETRIED_SUCCESS"
         /\ p[6][1] = Has(a, "execution-succeeded") /\ p[6][2] = "EXECUTED_SUCCESS"
         /\ \A k \in 7..15 : p[k][2] \notin Healthy
<1> DEFINE p == Precedence(a)
<1>1. DOMAIN p = 1..15
  BY DEF Precedence
<1>2. p[15][1]
  BY DEF Precedence
<1>3. p[1][1] = Has(a, "unsupported") /\ p[1][2] = "UNCLASSIFIABLE"
  BY DEF Precedence, Has
<1>4. /\ p[2][2] = "ORPHANED" /\ p[3][2] = "PAUSED_VERSION"
      /\ p[4][2] = "UNRECEIVABLE_BY_VERSION_POLICY"
  BY DEF Precedence
<1>5. /\ p[5][1] = Has(a, "execution-retried") /\ p[5][2] = "RETRIED_SUCCESS"
      /\ p[6][1] = Has(a, "execution-succeeded") /\ p[6][2] = "EXECUTED_SUCCESS"
  BY DEF Precedence, Has
<1>6. \A k \in 7..15 : p[k][2] \notin Healthy
  <2>1. /\ p[7][2] = "RETRY_PENDING" /\ p[8][2] = "EXECUTED_FAILED" /\ p[9][2] = "DELIVERED"
        /\ p[10][2] = "ICM_SENT" /\ p[11][2] = "SOURCE_ACCOUNTED" /\ p[12][2] = "INTENT_OBSERVED"
    BY DEF Precedence
  <2>2. /\ p[13][2] = "SOURCE_APPLICATION_EMITTED" /\ p[14][2] = "RECEIPT_OBSERVED"
        /\ p[15][2] = "UNCLASSIFIABLE"
    BY DEF Precedence
  <2> HIDE DEF p
  <2>3. \A k \in 7..15 : k = 7 \/ k = 8 \/ k = 9 \/ k = 10 \/ k = 11 \/ k = 12 \/ k = 13 \/ k = 14 \/ k = 15
    OBVIOUS
  <2> QED BY <2>1, <2>2, <2>3 DEF Healthy
<1> QED BY <1>1, <1>2, <1>3, <1>4, <1>5, <1>6

LEMMA StateMeans ==
  ASSUME NEW a
  PROVE  /\ Has(a, "unsupported") => lifecycleState(a) = "UNCLASSIFIABLE"
         /\ lifecycleState(a) \in Healthy => Has(a, "execution-retried") \/ Has(a, "execution-succeeded")
         /\ Has(a, "execution-retried") \/ Has(a, "execution-succeeded") =>
              lifecycleState(a) \in Healthy \cup Unknown
<1> DEFINE p == Precedence(a)
           ks == { k \in DOMAIN p : p[k][1] }
           j == Min(ks)
<1>1. /\ DOMAIN p = 1..15 /\ p[15][1]
      /\ p[1][1] = Has(a, "unsupported") /\ p[1][2] = "UNCLASSIFIABLE"
      /\ p[2][2] = "ORPHANED" /\ p[3][2] = "PAUSED_VERSION"
      /\ p[4][2] = "UNRECEIVABLE_BY_VERSION_POLICY"
      /\ p[5][1] = Has(a, "execution-retried") /\ p[5][2] = "RETRIED_SUCCESS"
      /\ p[6][1] = Has(a, "execution-succeeded") /\ p[6][2] = "EXECUTED_SUCCESS"
      /\ \A k \in 7..15 : p[k][2] \notin Healthy
  BY PrecedenceLines
<1>2. lifecycleState(a) = p[j][2]
  BY DEF lifecycleState
<1> HIDE DEF p
<1>3. 15 \in ks /\ ks \in SUBSET Nat
  BY <1>1
<1> HIDE DEF ks
<1>4. \E k \in ks : \A n \in ks : k <= n
  BY <1>3, LeastIndex
<1>5. j \in ks /\ \A n \in ks : j <= n
  BY <1>4 DEF Min
<1> HIDE DEF j
<1>6. j \in 1..15 /\ p[j][1] /\ \A n \in 1..15 : p[n][1] => j <= n
  BY <1>1, <1>5 DEF ks
<1>7. Has(a, "unsupported") => j = 1
  BY <1>1, <1>6
<1>8. p[j][2] \in Healthy => j \in {5, 6}
  <2>1. j \in {1, 2, 3, 4, 5, 6} \/ j \in 7..15
    BY <1>6
  <2> QED BY <1>1, <2>1 DEF Healthy
<1>9. Has(a, "execution-retried") \/ Has(a, "execution-succeeded") => j \in {1, 2, 3, 4, 5, 6}
  <2>1. Has(a, "execution-retried") \/ Has(a, "execution-succeeded") => j <= 6
    BY <1>1, <1>6
  <2> QED BY <1>6, <2>1
<1>10. j \in {1, 2, 3, 4, 5, 6} => p[j][2] \in Healthy \cup Unknown
  BY <1>1 DEF Healthy, Unknown
<1>11. j \in {5, 6} => Has(a, "execution-retried") \/ Has(a, "execution-succeeded")
  BY <1>1, <1>6
<1> QED BY <1>1, <1>2, <1>7, <1>8, <1>9, <1>10, <1>11

\* What more facts do to a verdict.
LEMMA VerdictCloses ==
  ASSUME NEW a, NEW b, a \subseteq b, IsFiniteSet(b), NEW now
  PROVE  LET before == deriveState(a, now).verdict
             after == deriveState(b, now).verdict
         IN  /\ before = "CRITICAL" => after = "CRITICAL"
             /\ (\E f \in a : f.kind = "unsupported") => after # "OK"
             /\ before = "OK" => after # "WARN"
<1> DEFINE two(x) == Cardinality(credits(x)) > 1
           state(x) == IF stale(x, now) THEN "STALE" ELSE lifecycleState(x)
           verdict(x) == deriveState(x, now).verdict
<1>1. \A x : verdict(x) = IF two(x) THEN "CRITICAL" ELSE stateVerdict(state(x))
  BY DEF deriveState
<1>2. \A s : stateVerdict(s) \in {"OK", "UNKNOWN", "WARN"}
  BY DEF stateVerdict
<1>3. stateVerdict("STALE") = "UNKNOWN" /\ stateVerdict("UNCLASSIFIABLE") = "UNKNOWN"
  BY DEF stateVerdict, Healthy, Unknown
<1>4. \A kind : Has(a, kind) => Has(b, kind)
  BY DEF Has
<1>5. two(a) => two(b)
  BY CreditsGrow
<1> HIDE DEF two, verdict
<1>6. verdict(a) = "CRITICAL" => verdict(b) = "CRITICAL"
  BY <1>1, <1>2, <1>5
<1>7. Has(a, "unsupported") => verdict(b) # "OK"
  BY <1>1, <1>3, <1>4, StateMeans
<1>8. verdict(a) = "OK" => verdict(b) # "WARN"
  <2> SUFFICES ASSUME verdict(a) = "OK" PROVE verdict(b) # "WARN"
    OBVIOUS
  <2>1. stateVerdict(state(a)) = "OK"
    BY <1>1
  <2>2. lifecycleState(a) \in Healthy
    BY <1>3, <2>1 DEF stateVerdict
  <2>3. lifecycleState(b) \in Healthy \cup Unknown
    BY <1>4, <2>2, StateMeans
  <2>4. stateVerdict(lifecycleState(b)) # "WARN"
    BY <2>3 DEF stateVerdict
  <2> QED BY <1>1, <1>3, <2>4
<1> QED BY <1>6, <1>7, <1>8 DEF verdict, Has

\* A late fact never makes a bad answer better (derive.ts, the order of lifecycleState).
THEOREM LateFactsFailClosed == Spec => FailClosed
<1>1. Init => FiniteFacts
  <2>1. IsFiniteSet({})
    BY FS_EmptySet
  <2> QED BY <2>1 DEF Init, LifecycleInit, FiniteFacts
<1>2. FiniteFacts /\ [Next]_vars => FiniteFacts'
  BY IntakeStep, FactsGrow DEF lifecycleVars, FiniteFacts
<1> DEFINE Closed ==
      \A m \in Message, now \in Time :
        agg'[m] # agg[m] =>
        LET before == deriveState(agg[m], now).verdict
            after == deriveState(agg'[m], now).verdict
        IN /\ before = "CRITICAL" => after = "CRITICAL"
           /\ (\E f \in agg[m] : f.kind = "unsupported") => after # "OK"
           /\ before = "OK" => after # "WARN"
<1>3. FiniteFacts /\ [Next]_vars => [Closed]_lifecycleVars
  <2> SUFFICES ASSUME FiniteFacts, [Next]_vars, ~ UNCHANGED lifecycleVars,
                      NEW m \in Message, NEW now \in Time
               PROVE  LET before == deriveState(agg[m], now).verdict
                          after == deriveState(agg'[m], now).verdict
                      IN /\ before = "CRITICAL" => after = "CRITICAL"
                         /\ (\E f \in agg[m] : f.kind = "unsupported") => after # "OK"
                         /\ before = "OK" => after # "WARN"
    OBVIOUS
  <2>1. PICK t \in Transaction : Fold(t)
    BY IntakeStep
  <2>2. agg[m] \subseteq agg'[m] /\ IsFiniteSet(agg'[m])
    BY <2>1, FactsGrow DEF FiniteFacts
  <2> QED BY <2>2, VerdictCloses
<1> QED BY <1>1, <1>2, <1>3, PTL DEF Spec, FailClosed

\* On a cut that permits an evaluation, whatever reads as executed inside it has all its
\* observed causes inside, and has one (watermark.ts assessCut).
THEOREM NoShortfallFromReading == Spec => []NoPhantomShortfall
<1>1. NoPhantomShortfall
  <2> SUFFICES ASSUME NEW cut \in [Chain -> Height \cup {NoCut}], cutPermitsEvaluation(cut), NEW m \in Message,
                      lifecycleState({ f \in agg[m] : inCut(f, cut) }) \in Healthy
               PROVE  LET causes == { f \in agg[m] : f.kind \in {"source-accounted", "icm-sent"} }
                      IN  causes # {} /\ causes \subseteq { f \in agg[m] : inCut(f, cut) }
    BY DEF NoPhantomShortfall
  <2> DEFINE inside == { f \in agg[m] : inCut(f, cut) }
  <2>1. ~ openEdges(agg[m], cut)
    BY DEF cutPermitsEvaluation
  <2>2. Has(inside, "execution-retried") \/ Has(inside, "execution-succeeded")
    BY StateMeans
  <2>3. \E f \in agg[m] : f.kind \in DestinationEffects /\ inCut(f, cut)
    BY <2>2 DEF Has, DestinationEffects
  <2>4. SourceEffects \cup {"icm-sent"} = {"source-accounted", "icm-sent"}
    BY DEF SourceEffects
  <2> QED BY <2>1, <2>3, <2>4 DEF openEdges
<1> QED BY <1>1, PTL
=============================================================================
