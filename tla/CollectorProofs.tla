--------------------------- MODULE CollectorProofs ---------------------------
(***************************************************************************)
(* What a collection says of a route, for every route and every set of     *)
(* endpoints: theorems of Collector.                                       *)
(***************************************************************************)
EXTENDS Collector, RuleProofs

---------------------------------------------------------------------------
\* Sums.

\* f is the running sum of the amounts up to n.
RunsTo(f, amounts, n) ==
  f = [i \in 0..n |-> IF i = 0 THEN 0 ELSE f[i - 1] + amounts[i]]

LEMMA RunningSum ==
  ASSUME NEW a, NEW n \in Nat
  PROVE  \E f : RunsTo(f, a, n)
<1> DEFINE Missing == {k \in Nat : ~ \E f : RunsTo(f, a, k)}
<1> SUFFICES ASSUME Missing # {} PROVE FALSE
  OBVIOUS
<1>1. PICK k \in Missing : \A l \in Missing : k <= l
  BY LeastOfSome
<1>2. CASE k = 0
  <2> DEFINE f == [i \in 0..0 |-> 0]
  <2>1. RunsTo(f, a, 0)
    BY DEF RunsTo
  <2> QED BY <1>2, <2>1
<1>3. CASE k # 0
  <2>1. k - 1 \in Nat /\ k - 1 \notin Missing
    BY <1>1, <1>3
  <2>2. PICK g : RunsTo(g, a, k - 1)
    BY <2>1
  <2> DEFINE f == [i \in 0..k |-> IF i < k THEN g[i] ELSE g[k - 1] + a[k]]
  <2>3. \A i \in 0..k : f[i] = IF i = 0 THEN 0 ELSE f[i - 1] + a[i]
    BY <1>3, <2>1, <2>2 DEF RunsTo
  <2>4. RunsTo(f, a, k)
    BY <2>3 DEF RunsTo
  <2> QED BY <2>4
<1> QED BY <1>2, <1>3

LEMMA SumRuns ==
  ASSUME NEW a, NEW n \in Nat
  PROVE  \E f : RunsTo(f, a, n) /\ SumOf(a, n) = f[n]
<1> DEFINE f == CHOOSE g : RunsTo(g, a, n)
<1>1. RunsTo(f, a, n)
  BY RunningSum
<1>2. SumOf(a, n) = f[n]
  BY DEF SumOf, RunsTo
<1> QED BY <1>1, <1>2

\* Two running sums agree as far as their amounts do.
LEMMA RunsAgree ==
  ASSUME NEW a, NEW b, NEW n \in Nat, NEW m \in Nat, NEW f, NEW g,
         RunsTo(f, a, n), RunsTo(g, b, m), n <= m, \A i \in 1..n : a[i] = b[i]
  PROVE  \A i \in 0..n : f[i] = g[i]
<1> DEFINE Off == {i \in 0..n : f[i] # g[i]}
<1> SUFFICES ASSUME Off # {} PROVE FALSE
  OBVIOUS
<1>0. Off \in SUBSET Nat
  OBVIOUS
<1>1. PICK k \in Off : \A l \in Off : k <= l
  BY <1>0, LeastOfSome
<1>2. k # 0
  BY <1>1 DEF RunsTo
<1>3. k - 1 \in 0..n /\ k - 1 \notin Off
  BY <1>1, <1>2
<1>4. f[k] = f[k - 1] + a[k] /\ g[k] = g[k - 1] + b[k]
  BY <1>1, <1>2, <1>3 DEF RunsTo
<1> QED BY <1>1, <1>2, <1>3, <1>4

LEMMA SumOfNone ==
  ASSUME NEW a PROVE SumOf(a, 0) = 0
BY SumRuns DEF RunsTo

LEMMA SumOfMore ==
  ASSUME NEW a, NEW n \in Nat, n # 0
  PROVE  SumOf(a, n) = SumOf(a, n - 1) + a[n]
<1>1. PICK f : RunsTo(f, a, n) /\ SumOf(a, n) = f[n]
  BY SumRuns
<1>2. PICK g : RunsTo(g, a, n - 1) /\ SumOf(a, n - 1) = g[n - 1]
  BY SumRuns
<1>3. f[n - 1] = g[n - 1]
  BY <1>1, <1>2, RunsAgree
<1> QED BY <1>1, <1>2, <1>3 DEF RunsTo

LEMMA SumOfSame ==
  ASSUME NEW a, NEW b, NEW n \in Nat, \A i \in 1..n : a[i] = b[i]
  PROVE  SumOf(a, n) = SumOf(b, n)
<1>1. PICK f : RunsTo(f, a, n) /\ SumOf(a, n) = f[n]
  BY SumRuns
<1>2. PICK g : RunsTo(g, b, n) /\ SumOf(b, n) = g[n]
  BY SumRuns
<1>3. \A i \in 0..n : f[i] = g[i]
  BY <1>1, <1>2, RunsAgree
<1> QED BY <1>1, <1>2, <1>3

LEMMA SumOfType ==
  ASSUME NEW a, NEW n \in Nat, \A i \in 1..n : a[i] \in Int
  PROVE  SumOf(a, n) \in Int
<1> DEFINE Off == {k \in 0..n : SumOf(a, k) \notin Int}
<1> SUFFICES ASSUME Off # {} PROVE FALSE
  OBVIOUS
<1> HIDE DEF SumOf
<1>0. Off \in SUBSET Nat
  OBVIOUS
<1>1. PICK k \in Off : \A l \in Off : k <= l
  BY <1>0, LeastOfSome
<1>2. k # 0
  BY <1>1, SumOfNone
<1>3. k \in Nat /\ k - 1 \in 0..n /\ SumOf(a, k - 1) \in Int
  BY <1>1, <1>2
<1>4. SumOf(a, k) = SumOf(a, k - 1) + a[k]
  BY <1>2, <1>3, SumOfMore
<1> QED BY <1>1, <1>2, <1>3, <1>4

\* A sum that is no less, term by term, is no less.
LEMMA SumOfGrows ==
  ASSUME NEW a, NEW b, NEW n \in Nat,
         \A i \in 1..n : a[i] \in Int /\ b[i] \in Int /\ a[i] <= b[i]
  PROVE  SumOf(a, n) <= SumOf(b, n)
<1> DEFINE Off == {k \in 0..n : ~ (SumOf(a, k) <= SumOf(b, k))}
<1> SUFFICES ASSUME Off # {} PROVE FALSE
  OBVIOUS
<1>0. Off \in SUBSET Nat
  OBVIOUS
<1>1. PICK k \in Off : \A l \in Off : k <= l
  BY <1>0, LeastOfSome
<1>2. k # 0
  BY <1>1, SumOfNone
<1>3. k \in Nat /\ k - 1 \in 0..n /\ SumOf(a, k - 1) <= SumOf(b, k - 1)
  BY <1>1, <1>2
<1>4. SumOf(a, k) = SumOf(a, k - 1) + a[k] /\ SumOf(b, k) = SumOf(b, k - 1) + b[k]
  BY <1>2, <1>3, SumOfMore
<1>5. SumOf(a, k - 1) \in Int /\ SumOf(b, k - 1) \in Int
  BY <1>3, SumOfType
<1>6. a[k] \in Int /\ b[k] \in Int /\ a[k] <= b[k]
  BY <1>1, <1>2
<1> QED BY <1>1, <1>3, <1>4, <1>5, <1>6

LEMMA SumOfBoth ==
  ASSUME NEW a, NEW b, NEW c, NEW n \in Nat,
         \A i \in 1..n : a[i] \in Int /\ b[i] \in Int /\ c[i] = a[i] + b[i]
  PROVE  SumOf(c, n) = SumOf(a, n) + SumOf(b, n)
<1> DEFINE Off == {k \in 0..n : SumOf(c, k) # SumOf(a, k) + SumOf(b, k)}
<1> SUFFICES ASSUME Off # {} PROVE FALSE
  OBVIOUS
<1>0. Off \in SUBSET Nat
  OBVIOUS
<1>1. PICK k \in Off : \A l \in Off : k <= l
  BY <1>0, LeastOfSome
<1>2. k # 0
  BY <1>1, SumOfNone
<1>3. k \in Nat /\ k - 1 \in 0..n /\ SumOf(c, k - 1) = SumOf(a, k - 1) + SumOf(b, k - 1)
  BY <1>1, <1>2
<1>4. /\ SumOf(a, k) = SumOf(a, k - 1) + a[k] /\ SumOf(b, k) = SumOf(b, k - 1) + b[k]
      /\ SumOf(c, k) = SumOf(c, k - 1) + c[k]
  BY <1>2, <1>3, SumOfMore
<1>5. SumOf(a, k - 1) \in Int /\ SumOf(b, k - 1) \in Int
  BY <1>3, SumOfType
<1>6. a[k] \in Int /\ b[k] \in Int /\ c[k] = a[k] + b[k]
  BY <1>1, <1>2
<1> QED BY <1>1, <1>3, <1>4, <1>5, <1>6

LEMMA SumOfScaled ==
  ASSUME NEW a, NEW c, NEW x \in Int, NEW n \in Nat,
         \A i \in 1..n : a[i] \in Int /\ c[i] = x * a[i]
  PROVE  SumOf(c, n) = x * SumOf(a, n)
<1> DEFINE Off == {k \in 0..n : SumOf(c, k) # x * SumOf(a, k)}
<1> SUFFICES ASSUME Off # {} PROVE FALSE
  OBVIOUS
<1>0. Off \in SUBSET Nat
  OBVIOUS
<1>1. PICK k \in Off : \A l \in Off : k <= l
  BY <1>0, LeastOfSome
<1>2. k # 0
  BY <1>1, SumOfNone
<1>3. k \in Nat /\ k - 1 \in 0..n /\ SumOf(c, k - 1) = x * SumOf(a, k - 1)
  BY <1>1, <1>2
<1>4. SumOf(a, k) = SumOf(a, k - 1) + a[k] /\ SumOf(c, k) = SumOf(c, k - 1) + c[k]
  BY <1>2, <1>3, SumOfMore
<1>5. SumOf(a, k - 1) \in Int
  BY <1>3, SumOfType
<1>6. a[k] \in Int /\ c[k] = x * a[k]
  BY <1>1, <1>2
<1>7. \A p, q \in Int : x * (p + q) = x * p + x * q
  OBVIOUS
<1>8. x * (SumOf(a, k - 1) + a[k]) = x * SumOf(a, k - 1) + x * a[k]
  BY <1>5, <1>6, <1>7
<1> QED BY <1>1, <1>3, <1>4, <1>6, <1>8

\* Nothing but zeros before the place p, and after it.
LEMMA SumOfZeros ==
  ASSUME NEW a, NEW n \in Nat, \A i \in 1..n : a[i] = 0
  PROVE  SumOf(a, n) = 0
<1> DEFINE Off == {k \in 0..n : SumOf(a, k) # 0}
<1> SUFFICES ASSUME Off # {} PROVE FALSE
  OBVIOUS
<1>0. Off \in SUBSET Nat
  OBVIOUS
<1>1. PICK k \in Off : \A l \in Off : k <= l
  BY <1>0, LeastOfSome
<1>2. k # 0
  BY <1>1, SumOfNone
<1>3. k \in Nat /\ k - 1 \in 0..n /\ SumOf(a, k - 1) = 0
  BY <1>1, <1>2
<1>4. SumOf(a, k) = SumOf(a, k - 1) + a[k]
  BY <1>2, <1>3, SumOfMore
<1> QED BY <1>1, <1>2, <1>3, <1>4

LEMMA SumOfOne ==
  ASSUME NEW a, NEW n \in Nat, NEW p \in 1..n, a[p] \in Int,
         \A i \in 1..n : i # p => a[i] = 0
  PROVE  SumOf(a, n) = a[p]
<1> DEFINE Off == {k \in p..n : SumOf(a, k) # a[p]}
<1> SUFFICES ASSUME Off # {} PROVE FALSE
  OBVIOUS
<1>0. Off \in SUBSET Nat
  OBVIOUS
<1>1. PICK k \in Off : \A l \in Off : k <= l
  BY <1>0, LeastOfSome
<1>2. k \in Nat /\ k # 0 /\ k - 1 \in Nat
  BY <1>1
<1>3. SumOf(a, k) = SumOf(a, k - 1) + a[k]
  BY <1>2, SumOfMore
<1>4. CASE k = p
  <2>1. \A i \in 1..k - 1 : a[i] = 0
    BY <1>1, <1>4
  <2>2. SumOf(a, k - 1) = 0
    BY <1>2, <2>1, SumOfZeros
  <2> QED BY <1>1, <1>3, <1>4, <2>2
<1>5. CASE k # p
  <2>1. k - 1 \in p..n /\ k - 1 \notin Off
    BY <1>1, <1>2, <1>5
  <2>2. a[k] = 0
    BY <1>1, <1>5
  <2> QED BY <1>1, <1>3, <2>1, <2>2
<1> QED BY <1>4, <1>5

\* A matrix adds up to the same by rows as by columns.
LEMMA SumExchanged ==
  ASSUME NEW a, NEW n \in Nat, NEW m \in Nat,
         \A i \in 1..n : \A j \in 1..m : a[i][j] \in Int
  PROVE  SumOf([i \in 1..n |-> SumOf(a[i], m)], n)
           = SumOf([j \in 1..m |-> SumOf([i \in 1..n |-> a[i][j]], n)], m)
<1> DEFINE row(k) == [i \in 1..n |-> SumOf(a[i], k)]
           column == [j \in 1..m |-> SumOf([i \in 1..n |-> a[i][j]], n)]
           Off == {k \in 0..m : SumOf(row(k), n) # SumOf(column, k)}
<1> SUFFICES Off = {}
  <2>1. m \in 0..m
    OBVIOUS
  <2> QED BY <2>1, Zenon
<1> SUFFICES ASSUME Off # {} PROVE FALSE
  OBVIOUS
<1>0. Off \in SUBSET Nat
  OBVIOUS
<1>1. PICK k \in Off : \A l \in Off : k <= l
  BY <1>0, LeastOfSome
<1>2. k # 0
  <2>1. SUFFICES ASSUME k = 0 PROVE SumOf(row(0), n) = SumOf(column, 0)
    BY <1>1
  <2>2. \A i \in 1..n : row(0)[i] = 0
    BY SumOfNone
  <2>3. SumOf(row(0), n) = 0
    BY <2>2, SumOfZeros
  <2> QED BY <2>3, SumOfNone
<1>3. k \in Nat /\ k - 1 \in 0..m /\ k \in 1..m /\ k - 1 \in Nat
  BY <1>1, <1>2
<1>4. SumOf(row(k - 1), n) = SumOf(column, k - 1)
  BY <1>1, <1>3
<1> DEFINE last == [i \in 1..n |-> a[i][k]]
<1>5. \A i \in 1..n : row(k - 1)[i] \in Int /\ last[i] \in Int /\ row(k)[i] = row(k - 1)[i] + last[i]
  <2> SUFFICES ASSUME NEW i \in 1..n
               PROVE  SumOf(a[i], k - 1) \in Int /\ a[i][k] \in Int
                        /\ SumOf(a[i], k) = SumOf(a[i], k - 1) + a[i][k]
    OBVIOUS
  <2>1. \A j \in 1..k - 1 : a[i][j] \in Int
    BY <1>3
  <2> QED BY <1>2, <1>3, <2>1, SumOfType, SumOfMore
<1>6. SumOf(row(k), n) = SumOf(row(k - 1), n) + SumOf(last, n)
  <2> HIDE DEF row, last
  <2> QED BY <1>5, SumOfBoth
<1>7. SumOf(column, k) = SumOf(column, k - 1) + column[k]
  <2> HIDE DEF column
  <2> QED BY <1>2, <1>3, SumOfMore
<1>8. column[k] = SumOf(last, n)
  BY <1>3
<1> HIDE DEF row, column, last
<1> QED BY <1>1, <1>4, <1>6, <1>7, <1>8

---------------------------------------------------------------------------
\* The histories.

Messages == Outbound \cup Inbound
Kinds    == {"sent", "executed", "failed", "registered", "minted", "drained", "called"} \cup OddKinds
Events   == [kind : Kinds, msg : Messages \cup {NoMessage}, amount : Nat, delivers : BOOLEAN]

Outgoing(side) == IF side = "home" THEN Outbound ELSE Inbound
Incoming(side) == IF side = "home" THEN Inbound ELSE Outbound

\* What may happen on a chain.
Shaped(side, e) ==
  \/ e.kind = "sent" /\ e.msg \in Outgoing(side) /\ e.amount = Amount[e.msg] /\ ~e.delivers
  \/ /\ e.kind = "executed" /\ e.msg \in Incoming(side)
     /\ e.amount = Amount[e.msg] \/ (side = "remote" /\ e.amount = Amount[e.msg] + 1)
  \/ e.kind = "failed" /\ e.msg \in Incoming(side) /\ e.amount = Amount[e.msg] /\ e.delivers
  \/ /\ side = "home" /\ e.kind \in {"registered", "untracked", "drained"} \cup Uninterpreted
     /\ e.msg = NoMessage /\ e.amount = 0 /\ ~e.delivers
  \/ side = "remote" /\ e.kind = "minted" /\ e.msg = NoMessage /\ e.amount = 0 /\ ~e.delivers
  \/ /\ side = "remote" /\ e.kind \in {"called"} \cup Strange
     /\ e.msg = NoMessage /\ e.amount = 0 /\ e.delivers

\* The block carries the delivery of a message.
IsDelivery(e) == e.kind \in {"executed", "failed"} /\ e.delivers

ObligationTo(log, k) == SumOf([i \in DOMAIN log |-> obligationBy(log[i])], k)
EscrowTo(log, k)     == SumOf([i \in DOMAIN log |-> escrowBy(log[i])], k)
SupplyTo(log, k)     == SumOf([i \in DOMAIN log |-> supplyBy(log[i])], k)

\* A chain's history up to any height: a message is sent, fails and is delivered once,
\* is delivered before it is executed, and the home executes it once; no balance is
\* ever negative.
Ordered(side, log) ==
  /\ log \in Seq(Events) /\ Len(log) <= MaxHeight
  /\ \A i \in DOMAIN log : Shaped(side, log[i])
  /\ \A i, j \in DOMAIN log :
       i # j /\ log[i].msg = log[j].msg =>
         /\ log[i].kind = log[j].kind => log[i].kind \notin {"sent", "failed"}
         /\ log[i].kind = log[j].kind /\ side = "home" => log[i].kind # "executed"
         /\ ~ (IsDelivery(log[i]) /\ IsDelivery(log[j]))
  /\ \A i \in DOMAIN log : log[i].kind = "executed" =>
       \E j \in 1..i : IsDelivery(log[j]) /\ log[j].msg = log[i].msg
  /\ side = "home" => \A k \in 0..Len(log) : ObligationTo(log, k) >= 0
  /\ side = "remote" => \A k \in 0..Len(log) : SupplyTo(log, k) >= 0

\* What a new block must respect.
Fits(side, log, e) ==
  /\ e \in Events /\ Len(log) < MaxHeight
  /\ Shaped(side, e)
  /\ \A i \in DOMAIN log :
       log[i].msg = e.msg =>
         /\ log[i].kind = e.kind => e.kind \notin {"sent", "failed"}
         /\ log[i].kind = e.kind /\ side = "home" => e.kind # "executed"
         /\ ~ (IsDelivery(log[i]) /\ IsDelivery(e))
  /\ e.kind = "executed" =>
       IsDelivery(e) \/ \E j \in DOMAIN log : IsDelivery(log[j]) /\ log[j].msg = e.msg
  /\ side = "home" => ObligationTo(log, Len(log)) + obligationBy(e) >= 0
  /\ side = "remote" => SupplyTo(log, Len(log)) + supplyBy(e) >= 0

LEMMA ByType ==
  ASSUME NEW side, NEW e \in Events, Shaped(side, e)
  PROVE  /\ obligationBy(e) \in Int /\ supplyBy(e) \in Int
         /\ side = "home" => escrowBy(e) \in Int
BY RouteAssumption, EncodingAssumption
   DEF Events, Kinds, OddKinds, Uninterpreted, Strange, Shaped, obligationBy, supplyBy, escrowBy,
       Messages, Outgoing, Incoming

\* A balance at a height of a longer history is the balance at that height.
LEMMA BalancesExtend ==
  ASSUME NEW log, NEW more, NEW k \in Nat, \A i \in 1..k : i \in DOMAIN log /\ i \in DOMAIN more /\ log[i] = more[i]
  PROVE  /\ ObligationTo(more, k) = ObligationTo(log, k)
         /\ EscrowTo(more, k) = EscrowTo(log, k)
         /\ SupplyTo(more, k) = SupplyTo(log, k)
<1>1. \A i \in 1..k : [j \in DOMAIN more |-> obligationBy(more[j])][i] = [j \in DOMAIN log |-> obligationBy(log[j])][i]
  OBVIOUS
<1>2. \A i \in 1..k : [j \in DOMAIN more |-> escrowBy(more[j])][i] = [j \in DOMAIN log |-> escrowBy(log[j])][i]
  OBVIOUS
<1>3. \A i \in 1..k : [j \in DOMAIN more |-> supplyBy(more[j])][i] = [j \in DOMAIN log |-> supplyBy(log[j])][i]
  OBVIOUS
<1>4. ObligationTo(more, k) = ObligationTo(log, k)
  BY <1>1, SumOfSame DEF ObligationTo
<1>5. EscrowTo(more, k) = EscrowTo(log, k)
  BY <1>2, SumOfSame DEF EscrowTo
<1>6. SupplyTo(more, k) = SupplyTo(log, k)
  BY <1>3, SumOfSame DEF SupplyTo
<1> QED BY <1>4, <1>5, <1>6

LEMMA Appended ==
  ASSUME NEW side, NEW log, Ordered(side, log), NEW e, Fits(side, log, e)
  PROVE  Ordered(side, Append(log, e))
<1> DEFINE more == Append(log, e)
           n == Len(log)
<1>1. /\ n \in Nat /\ DOMAIN log = 1..n /\ log \in Seq(Events) /\ e \in Events
      /\ more \in Seq(Events) /\ Len(more) = n + 1 /\ DOMAIN more = 1..(n + 1)
      /\ more[n + 1] = e /\ \A i \in 1..n : more[i] = log[i]
  BY DEF Ordered, Fits
<1> HIDE DEF more, n
<1>2. \A i \in DOMAIN more : i \in DOMAIN log \/ i = n + 1
  BY <1>1
<1>3. Len(more) <= MaxHeight
  BY <1>1, RouteAssumption DEF Fits, n
<1>4. \A i \in DOMAIN more : Shaped(side, more[i])
  BY <1>1, <1>2 DEF Ordered, Fits
<1>5. \A i, j \in DOMAIN more :
       i # j /\ more[i].msg = more[j].msg =>
         /\ more[i].kind = more[j].kind => more[i].kind \notin {"sent", "failed"}
         /\ more[i].kind = more[j].kind /\ side = "home" => more[i].kind # "executed"
         /\ ~ (IsDelivery(more[i]) /\ IsDelivery(more[j]))
  <2> SUFFICES ASSUME NEW i \in DOMAIN more, NEW j \in DOMAIN more, i # j, more[i].msg = more[j].msg
               PROVE  /\ more[i].kind = more[j].kind => more[i].kind \notin {"sent", "failed"}
                      /\ more[i].kind = more[j].kind /\ side = "home" => more[i].kind # "executed"
                      /\ ~ (IsDelivery(more[i]) /\ IsDelivery(more[j]))
    OBVIOUS
  <2>1. CASE i \in DOMAIN log /\ j \in DOMAIN log
    BY <2>1, <1>1 DEF Ordered
  <2>2. CASE i \in DOMAIN log /\ j = n + 1
    BY <2>2, <1>1 DEF Fits
  <2>3. CASE i = n + 1 /\ j \in DOMAIN log
    BY <2>3, <1>1 DEF Fits
  <2> QED BY <2>1, <2>2, <2>3, <1>2
<1>6. \A i \in DOMAIN more : more[i].kind = "executed" =>
       \E j \in 1..i : IsDelivery(more[j]) /\ more[j].msg = more[i].msg
  <2> SUFFICES ASSUME NEW i \in DOMAIN more, more[i].kind = "executed"
               PROVE  \E j \in 1..i : IsDelivery(more[j]) /\ more[j].msg = more[i].msg
    OBVIOUS
  <2>1. CASE i \in DOMAIN log
    <3>1. PICK j \in 1..i : IsDelivery(log[j]) /\ log[j].msg = log[i].msg
      BY <2>1, <1>1 DEF Ordered
    <3>2. j \in 1..n /\ more[j] = log[j] /\ more[i] = log[i]
      BY <2>1, <1>1
    <3> QED BY <3>1, <3>2
  <2>2. CASE i = n + 1 /\ IsDelivery(e)
    BY <2>2, <1>1
  <2>3. CASE i = n + 1 /\ ~IsDelivery(e)
    <3>1. PICK j \in 1..n : IsDelivery(log[j]) /\ log[j].msg = e.msg
      BY <2>3, <1>1 DEF Fits
    <3>2. j \in 1..i /\ more[j] = log[j] /\ more[i] = e
      BY <2>3, <1>1
    <3> QED BY <3>1, <3>2
  <2> QED BY <1>2, <2>1, <2>2, <2>3
<1>7. \A k \in 0..n : /\ ObligationTo(more, k) = ObligationTo(log, k)
                      /\ SupplyTo(more, k) = SupplyTo(log, k)
  <2> SUFFICES ASSUME NEW k \in 0..n
               PROVE  /\ ObligationTo(more, k) = ObligationTo(log, k)
                      /\ SupplyTo(more, k) = SupplyTo(log, k)
    OBVIOUS
  <2>1. k \in Nat /\ \A i \in 1..k : i \in DOMAIN log /\ i \in DOMAIN more /\ log[i] = more[i]
    BY <1>1
  <2> QED BY <2>1, BalancesExtend
<1>8. /\ ObligationTo(more, n + 1) = ObligationTo(more, n) + obligationBy(e)
      /\ SupplyTo(more, n + 1) = SupplyTo(more, n) + supplyBy(e)
  <2>1. n + 1 \in Nat /\ n + 1 # 0 /\ (n + 1) - 1 = n
    BY <1>1
  <2>2. [i \in DOMAIN more |-> obligationBy(more[i])][n + 1] = obligationBy(e)
    BY <1>1
  <2>3. [i \in DOMAIN more |-> supplyBy(more[i])][n + 1] = supplyBy(e)
    BY <1>1
  <2> QED BY <2>1, <2>2, <2>3, SumOfMore DEF ObligationTo, SupplyTo
<1>9. side = "home" => \A k \in 0..Len(more) : ObligationTo(more, k) >= 0
  BY <1>1, <1>7, <1>8 DEF Ordered, Fits, n
<1>10. side = "remote" => \A k \in 0..Len(more) : SupplyTo(more, k) >= 0
  BY <1>1, <1>7, <1>8 DEF Ordered, Fits, n
<1> QED BY <1>1, <1>3, <1>4, <1>5, <1>6, <1>9, <1>10 DEF Ordered, more

LEMMA Balances ==
  ASSUME NEW log, log \in Seq(Events)
  PROVE  /\ transferredBalance(log) = ObligationTo(log, Len(log))
         /\ escrowBalance(log) = EscrowTo(log, Len(log))
         /\ totalSupply(log) = SupplyTo(log, Len(log))
BY DEF transferredBalance, escrowBalance, totalSupply, ObligationTo, EscrowTo, SupplyTo

LEMMA BalanceTypes ==
  ASSUME NEW side, NEW log, Ordered(side, log), NEW k \in 0..Len(log)
  PROVE  /\ ObligationTo(log, k) \in Int /\ SupplyTo(log, k) \in Int
         /\ side = "home" => EscrowTo(log, k) \in Int
<1>1. /\ DOMAIN log = 1..Len(log) /\ Len(log) \in Nat
      /\ \A i \in DOMAIN log : log[i] \in Events /\ Shaped(side, log[i])
  BY DEF Ordered
<1>2. \A i \in 1..k : i \in DOMAIN log
  BY <1>1
<1> DEFINE obligations == [j \in DOMAIN log |-> obligationBy(log[j])]
           escrows == [j \in DOMAIN log |-> escrowBy(log[j])]
           supplies == [j \in DOMAIN log |-> supplyBy(log[j])]
<1>3. \A i \in 1..k : obligations[i] \in Int
  BY <1>1, <1>2, ByType
<1>4. \A i \in 1..k : supplies[i] \in Int
  BY <1>1, <1>2, ByType
<1>5. side = "home" => \A i \in 1..k : escrows[i] \in Int
  BY <1>1, <1>2, ByType
<1>6. /\ ObligationTo(log, k) = SumOf(obligations, k) /\ EscrowTo(log, k) = SumOf(escrows, k)
      /\ SupplyTo(log, k) = SumOf(supplies, k) /\ k \in Nat
  BY <1>1 DEF ObligationTo, EscrowTo, SupplyTo
<1> HIDE DEF obligations, escrows, supplies
<1> QED BY <1>3, <1>4, <1>5, <1>6, SumOfType

RouteInv == Ordered("home", home) /\ Ordered("remote", remote)

\* A chain only grows.
Grown(log, more) == more = log \/ \E e \in Events : more = Append(log, e)

LEMMA EventIsOne ==
  ASSUME NEW kind \in Kinds, NEW m \in Messages \cup {NoMessage}, NEW amount \in Nat, NEW delivers \in BOOLEAN
  PROVE  /\ Event(kind, m, amount, delivers) \in Events
         /\ Event(kind, m, amount, delivers).kind = kind
         /\ Event(kind, m, amount, delivers).msg = m
         /\ Event(kind, m, amount, delivers).amount = amount
         /\ Event(kind, m, amount, delivers).delivers = delivers
BY DEF Event, Events

LEMMA HomeGrows ==
  ASSUME RouteInv, NEW e, Fits("home", home, e), OnHome(e)
  PROVE  RouteInv' /\ Grown(home, home') /\ Grown(remote, remote')
<1>1. home' = Append(home, e) /\ remote' = remote /\ e \in Events
  BY DEF OnHome, Fits
<1>2. Ordered("home", Append(home, e))
  BY Appended DEF RouteInv
<1> QED BY <1>1, <1>2 DEF RouteInv, Grown

LEMMA RemoteGrows ==
  ASSUME RouteInv, NEW e, Fits("remote", remote, e), OnRemote(e)
  PROVE  RouteInv' /\ Grown(home, home') /\ Grown(remote, remote')
<1>1. remote' = Append(remote, e) /\ home' = home /\ e \in Events
  BY DEF OnRemote, Fits
<1>2. Ordered("remote", Append(remote, e))
  BY Appended DEF RouteInv
<1> QED BY <1>1, <1>2 DEF RouteInv, Grown

\* The balances of a history are whole numbers, and none of them is negative.
LEMMA BalancesOf ==
  ASSUME NEW side, NEW log, Ordered(side, log)
  PROVE  /\ Len(log) \in Nat /\ log \in Seq(Events) /\ DOMAIN log = 1..Len(log)
         /\ ObligationTo(log, Len(log)) \in Int /\ SupplyTo(log, Len(log)) \in Int
         /\ side = "home" => ObligationTo(log, Len(log)) >= 0
         /\ side = "remote" => SupplyTo(log, Len(log)) >= 0
<1>1. Len(log) \in Nat /\ log \in Seq(Events) /\ DOMAIN log = 1..Len(log)
  BY DEF Ordered
<1>2. Len(log) \in 0..Len(log)
  BY <1>1
<1>3. ObligationTo(log, Len(log)) \in Int /\ SupplyTo(log, Len(log)) \in Int
  BY <1>2, BalanceTypes
<1> QED BY <1>1, <1>2, <1>3 DEF Ordered

LEMMA RouteStarts == RouteInit => RouteInv
<1> SUFFICES ASSUME RouteInit PROVE RouteInv
  OBVIOUS
<1> DEFINE e == Plain("registered")
<1>1. /\ e \in Events /\ e.kind = "registered" /\ e.msg = NoMessage /\ e.amount = 0 /\ e.delivers = FALSE
  BY DEF Plain, Event, Events, Kinds
<1> HIDE DEF e
<1>2. home = <<e>> /\ remote = <<>>
  BY DEF RouteInit, e
<1>3. /\ home \in Seq(Events) /\ Len(home) = 1 /\ DOMAIN home = 1..1 /\ home[1] = e
      /\ remote \in Seq(Events) /\ Len(remote) = 0 /\ DOMAIN remote = {}
  BY <1>1, <1>2
<1>4. MaxHeight >= 1
  BY RouteAssumption
<1>5. Shaped("home", e)
  BY <1>1 DEF Shaped
<1>6. \A k \in 0..1 : ObligationTo(home, k) >= 0
  <2>1. ObligationTo(home, 0) = 0
    BY SumOfNone DEF ObligationTo
  <2>2. [i \in DOMAIN home |-> obligationBy(home[i])][1] = 0
    BY <1>1, <1>3 DEF obligationBy, Uninterpreted
  <2>3. ObligationTo(home, 1) = ObligationTo(home, 0) + 0
    BY <2>2, SumOfMore DEF ObligationTo
  <2> QED BY <2>1, <2>3
<1>7. \A k \in 0..0 : SupplyTo(remote, k) >= 0
  BY SumOfNone DEF SupplyTo
<1>8. Ordered("home", home)
  BY <1>1, <1>3, <1>4, <1>5, <1>6 DEF Ordered
<1>9. Ordered("remote", remote)
  <2>1. 0 <= MaxHeight
    BY RouteAssumption
  <2> QED BY <1>3, <1>7, <2>1 DEF Ordered
<1> QED BY <1>8, <1>9 DEF RouteInv

\* What a Has of the contracts' guards says of a history.
LEMMA NotYet ==
  ASSUME NEW log, NEW kind, NEW m, ~Has(log, kind, m)
  PROVE  \A i \in DOMAIN log : log[i].msg = m => log[i].kind # kind
BY DEF Has

LEMMA OrdinarySteps ==
  ASSUME RouteInv,
         NEW e \in Events, e.msg = NoMessage, e.amount = 0
  PROVE  /\ (/\ Len(home) < MaxHeight /\ ~e.delivers
             /\ e.kind \in {"untracked", "drained"} \cup Uninterpreted) => Fits("home", home, e)
         /\ (/\ Len(remote) < MaxHeight
             /\ \/ e.kind = "minted" /\ ~e.delivers
                \/ e.kind \in {"called"} \cup Strange /\ e.delivers) => Fits("remote", remote, e)
<1>1. /\ Len(home) \in Nat /\ Len(remote) \in Nat
      /\ ObligationTo(home, Len(home)) \in Int /\ ObligationTo(home, Len(home)) >= 0
      /\ SupplyTo(remote, Len(remote)) \in Int /\ SupplyTo(remote, Len(remote)) >= 0
  BY BalancesOf DEF RouteInv
<1>2. ASSUME Len(home) < MaxHeight, ~e.delivers,
             e.kind \in {"untracked", "drained"} \cup Uninterpreted
      PROVE  Fits("home", home, e)
  <2>1. Shaped("home", e)
    BY <1>2 DEF Shaped
  <2>2. obligationBy(e) \in {0, 1}
    BY <1>2 DEF obligationBy, Uninterpreted
  <2>3. e.kind \notin {"sent", "failed", "executed"} /\ ~IsDelivery(e)
    BY <1>2 DEF Uninterpreted, IsDelivery
  <2> QED BY <1>1, <1>2, <2>1, <2>2, <2>3 DEF Fits
<1>3. ASSUME Len(remote) < MaxHeight,
             (e.kind = "minted" /\ ~e.delivers) \/ (e.kind \in {"called"} \cup Strange /\ e.delivers)
      PROVE  Fits("remote", remote, e)
  <2>1. Shaped("remote", e)
    BY <1>3 DEF Shaped
  <2>2. supplyBy(e) \in {0, 1, 2}
    BY <1>3 DEF supplyBy, Strange
  <2>3. e.kind \notin {"sent", "failed", "executed"} /\ ~IsDelivery(e)
    BY <1>3 DEF Strange, IsDelivery
  <2> QED BY <1>1, <1>3, <2>1, <2>2, <2>3 DEF Fits
<1> QED BY <1>2, <1>3

LEMMA SendSteps ==
  ASSUME RouteInv, NEW side \in Sides, NEW m \in Outgoing(side), ~Has(LogOf(side), "sent", m),
         Len(LogOf(side)) < MaxHeight,
         side = "remote" => totalSupply(remote) >= Amount[m]
  PROVE  Fits(side, LogOf(side), Event("sent", m, Amount[m], FALSE))
<1> DEFINE e == Event("sent", m, Amount[m], FALSE)
           log == LogOf(side)
<1>1. m \in Messages /\ Amount[m] \in Nat
  BY RouteAssumption DEF Messages, Outgoing
<1>2. /\ e \in Events /\ e.kind = "sent" /\ e.msg = m /\ e.amount = Amount[m] /\ e.delivers = FALSE
  <2>1. "sent" \in Kinds /\ m \in Messages \cup {NoMessage} /\ FALSE \in BOOLEAN
    BY <1>1 DEF Kinds
  <2> QED BY <1>1, <2>1 DEF Event, Events
<1>3. Ordered(side, log)
  BY DEF RouteInv, LogOf, Sides
<1>4. Len(log) \in Nat /\ log \in Seq(Events)
  BY <1>3 DEF Ordered
<1>5. /\ ObligationTo(log, Len(log)) \in Int /\ SupplyTo(log, Len(log)) \in Int
      /\ side = "home" => ObligationTo(log, Len(log)) >= 0
  BY <1>3, BalancesOf
<1>6. obligationBy(e) = Amount[m] /\ supplyBy(e) = -Amount[m]
  <2> HIDE DEF e
  <2> QED BY <1>2 DEF obligationBy, supplyBy, Uninterpreted
<1>7. side = "remote" => SupplyTo(log, Len(log)) >= Amount[m]
  BY <1>4, Balances DEF LogOf
<1>8. \A i \in DOMAIN log : log[i].msg = m => log[i].kind # "sent"
  BY NotYet
<1>9. Shaped(side, e)
  BY <1>2 DEF Shaped
<1>10. ~IsDelivery(e)
  BY <1>2 DEF IsDelivery
<1> HIDE DEF e, log
<1>11. Fits(side, log, e)
  BY <1>1, <1>2, <1>4, <1>5, <1>6, <1>7, <1>8, <1>9, <1>10 DEF Fits, log
<1> QED BY <1>11 DEF e, log

\* An execution or a failed one of a message that was not executed there before, and a
\* repeated execution at the remote.
LEMMA ArrivalSteps ==
  ASSUME RouteInv, NEW side \in Sides, NEW m \in Incoming(side), Len(LogOf(side)) < MaxHeight,
         NEW kind \in {"executed", "failed"}, NEW amount \in Nat, NEW delivers \in BOOLEAN,
         amount = Amount[m] \/ (kind = "executed" /\ side = "remote" /\ amount = Amount[m] + 1),
         kind = "failed" => delivers /\ ~Has(LogOf(side), "failed", m),
         Has(LogOf(side), "executed", m) => kind = "executed" /\ side = "remote" /\ ~delivers,
         ~Has(LogOf(side), "executed", m) => delivers = ~Has(LogOf(side), "failed", m),
         side = "home" => transferredBalance(home) >= amount
  PROVE  Fits(side, LogOf(side), Event(kind, m, amount, delivers))
<1> DEFINE e == Event(kind, m, amount, delivers)
           log == LogOf(side)
<1>1. m \in Messages /\ Amount[m] \in Nat
  BY RouteAssumption DEF Messages, Incoming
<1>2. /\ e \in Events /\ e.kind = kind /\ e.msg = m /\ e.amount = amount /\ e.delivers = delivers
  <2>1. kind \in Kinds /\ m \in Messages \cup {NoMessage}
    BY <1>1 DEF Kinds
  <2> QED BY <1>1, <2>1, EventIsOne
<1>3. Ordered(side, log)
  BY DEF RouteInv, LogOf, Sides
<1>4. /\ Len(log) \in Nat /\ log \in Seq(Events) /\ DOMAIN log = 1..Len(log)
      /\ ObligationTo(log, Len(log)) \in Int /\ SupplyTo(log, Len(log)) \in Int
      /\ side = "home" => ObligationTo(log, Len(log)) >= 0
      /\ side = "remote" => SupplyTo(log, Len(log)) >= 0
  BY <1>3, BalancesOf
<1>5. obligationBy(e) \in {0, -amount} /\ supplyBy(e) \in {0, amount}
  <2> HIDE DEF e
  <2> QED BY <1>2 DEF obligationBy, supplyBy, Uninterpreted
<1>6. side = "home" => ObligationTo(log, Len(log)) >= amount
  BY <1>4, Balances DEF LogOf
<1>7. Shaped(side, e)
  BY <1>1, <1>2 DEF Shaped
<1>8. \A i \in DOMAIN log : log[i].msg = m =>
        /\ kind = "failed" => log[i].kind # "failed"
        /\ side = "home" => log[i].kind # "executed"
        /\ delivers => ~IsDelivery(log[i])
  <2> SUFFICES ASSUME NEW i \in DOMAIN log, log[i].msg = m
               PROVE  /\ kind = "failed" => log[i].kind # "failed"
                      /\ side = "home" => log[i].kind # "executed"
                      /\ delivers => ~IsDelivery(log[i])
    OBVIOUS
  <2>1. kind = "failed" => log[i].kind # "failed"
    BY NotYet
  <2>2. side = "home" => log[i].kind # "executed"
    BY NotYet DEF Sides
  <2>3. delivers => log[i].kind # "executed" /\ log[i].kind # "failed"
    BY NotYet
  <2> QED BY <2>1, <2>2, <2>3 DEF IsDelivery
<1>9. kind = "executed" => IsDelivery(e) \/ \E j \in DOMAIN log : IsDelivery(log[j]) /\ log[j].msg = m
  <2> SUFFICES ASSUME kind = "executed", ~delivers
               PROVE  \E j \in DOMAIN log : IsDelivery(log[j]) /\ log[j].msg = m
    BY <1>2 DEF IsDelivery
  <2>1. CASE Has(log, "executed", m)
    <3>1. PICK i \in DOMAIN log : log[i].kind = "executed" /\ log[i].msg = m
      BY <2>1 DEF Has
    <3>2. PICK j \in 1..i : IsDelivery(log[j]) /\ log[j].msg = log[i].msg
      BY <1>3, <3>1 DEF Ordered
    <3> QED BY <1>4, <3>1, <3>2
  <2>2. CASE Has(log, "failed", m)
    <3>1. PICK i \in DOMAIN log : log[i].kind = "failed" /\ log[i].msg = m
      BY <2>2 DEF Has
    <3>2. Shaped(side, log[i])
      BY <1>3 DEF Ordered
    <3>3. log[i].delivers
      BY <3>1, <3>2 DEF Shaped, Uninterpreted, Strange
    <3> QED BY <3>1, <3>3 DEF IsDelivery
  <2> QED BY <2>1, <2>2
<1> HIDE DEF e, log
<1>10. \A i \in DOMAIN log :
       log[i].msg = e.msg =>
         /\ log[i].kind = e.kind => e.kind \notin {"sent", "failed"}
         /\ log[i].kind = e.kind /\ side = "home" => e.kind # "executed"
         /\ ~ (IsDelivery(log[i]) /\ IsDelivery(e))
  BY <1>2, <1>8 DEF IsDelivery
<1>11. side = "home" => ObligationTo(log, Len(log)) + obligationBy(e) >= 0
  BY <1>4, <1>5, <1>6
<1>12. side = "remote" => SupplyTo(log, Len(log)) + supplyBy(e) >= 0
  BY <1>4, <1>5
<1>13. Fits(side, log, e)
  BY <1>2, <1>4, <1>7, <1>9, <1>10, <1>11, <1>12 DEF Fits, log
<1> QED BY <1>13 DEF e, log

\* Whatever the contracts do, both histories stay in order, and only grow.
LEMMA RouteSteps ==
  ASSUME RouteInv, RouteNext
  PROVE  RouteInv' /\ Grown(home, home') /\ Grown(remote, remote')
<1> DEFINE Goal == RouteInv' /\ Grown(home, home') /\ Grown(remote, remote')
<1> HIDE DEF Goal
<1>0. \A m \in Messages : Amount[m] \in Nat /\ Amount[m] + 1 \in Nat
  BY RouteAssumption DEF Messages
<1>1. ASSUME NEW m \in Outbound, SendOut(m) PROVE Goal
  <2>1. Fits("home", home, Event("sent", m, Amount[m], FALSE))
    BY <1>1, SendSteps DEF SendOut, OnHome, LogOf, Outgoing, Sides
  <2> QED BY <1>1, <2>1, HomeGrows DEF SendOut, Goal
<1>2. ASSUME NEW m \in Inbound, SendBack(m) PROVE Goal
  <2>1. Fits("remote", remote, Event("sent", m, Amount[m], FALSE))
    BY <1>2, SendSteps DEF SendBack, OnRemote, LogOf, Outgoing, Sides
  <2> QED BY <1>2, <2>1, RemoteGrows DEF SendBack, Goal
<1>3. ASSUME NEW m \in Outbound, ReceiveAtRemote(m) PROVE Goal
  <2> DEFINE delivers == ~Has(remote, "failed", m)
  <2>1. Amount[m] \in Nat /\ delivers \in BOOLEAN /\ m \in Incoming("remote") /\ "remote" \in Sides
    BY <1>0 DEF Messages, Incoming, Sides
  <2>2. ~Has(remote, "executed", m) /\ Len(remote) < MaxHeight
    BY <1>3 DEF ReceiveAtRemote, MayExecute, OnRemote
  <2>3. Fits("remote", remote, Event("executed", m, Amount[m], delivers))
    BY <2>1, <2>2, ArrivalSteps DEF LogOf
  <2> QED BY <1>3, <2>3, RemoteGrows DEF ReceiveAtRemote, Goal
<1>4. ASSUME NEW m \in Inbound, ReceiveAtHome(m) PROVE Goal
  <2> DEFINE delivers == ~Has(home, "failed", m)
  <2>1. Amount[m] \in Nat /\ delivers \in BOOLEAN /\ m \in Incoming("home") /\ "home" \in Sides
    BY <1>0 DEF Messages, Incoming, Sides
  <2>2. ~Has(home, "executed", m) /\ Len(home) < MaxHeight /\ transferredBalance(home) >= Amount[m]
    BY <1>4 DEF ReceiveAtHome, MayExecute, OnHome
  <2>3. Fits("home", home, Event("executed", m, Amount[m], delivers))
    BY <2>1, <2>2, ArrivalSteps DEF LogOf
  <2> QED BY <1>4, <2>3, HomeGrows DEF ReceiveAtHome, Goal
<1>5. ASSUME NEW m \in Outbound, FailAtRemote(m) PROVE Goal
  <2>1. Amount[m] \in Nat /\ TRUE \in BOOLEAN /\ m \in Incoming("remote") /\ "remote" \in Sides
    BY <1>0 DEF Messages, Incoming, Sides
  <2>2. /\ ~Has(remote, "executed", m) /\ ~Has(remote, "failed", m)
        /\ Len(remote) < MaxHeight
    BY <1>5 DEF FailAtRemote, MayExecute, OnRemote
  <2>3. Fits("remote", remote, Event("failed", m, Amount[m], TRUE))
    BY <2>1, <2>2, ArrivalSteps DEF LogOf
  <2> QED BY <1>5, <2>3, RemoteGrows DEF FailAtRemote, Goal
<1>6. ASSUME NEW m \in Inbound, FailAtHome(m) PROVE Goal
  <2>1. Amount[m] \in Nat /\ TRUE \in BOOLEAN /\ m \in Incoming("home") /\ "home" \in Sides
    BY <1>0 DEF Messages, Incoming, Sides
  <2>2. /\ ~Has(home, "executed", m) /\ ~Has(home, "failed", m)
        /\ Len(home) < MaxHeight
    BY <1>6 DEF FailAtHome, MayExecute, OnHome
  <2> DEFINE e == Event("failed", m, Amount[m], TRUE)
  <2>3. Fits("home", home, e)
    <3>1. /\ e \in Events /\ e.kind = "failed" /\ e.msg = m /\ e.amount = Amount[m] /\ e.delivers
      BY <2>1 DEF Event, Events, Kinds, Messages
    <3>2. /\ Len(home) \in Nat /\ ObligationTo(home, Len(home)) \in Int
          /\ ObligationTo(home, Len(home)) >= 0
      BY BalancesOf DEF RouteInv
    <3>3. obligationBy(e) = 0 /\ Shaped("home", e)
      <4> HIDE DEF e
      <4> QED BY <3>1 DEF obligationBy, Uninterpreted, Shaped, Incoming
    <3>4. \A i \in DOMAIN home : home[i].msg = m => home[i].kind \notin {"failed", "executed"}
      BY <2>2, NotYet
    <3> HIDE DEF e
    <3> QED BY <2>2, <3>1, <3>2, <3>3, <3>4 DEF Fits, IsDelivery
  <2> QED BY <1>6, <2>3, HomeGrows DEF FailAtHome, Goal
<1>7. ASSUME NEW m \in Outbound, ExecuteTwice(m) PROVE Goal
  <2>1. Amount[m] \in Nat /\ FALSE \in BOOLEAN /\ m \in Incoming("remote") /\ "remote" \in Sides
    BY <1>0 DEF Messages, Incoming, Sides
  <2>2. Has(remote, "executed", m) /\ Len(remote) < MaxHeight
    BY <1>7 DEF ExecuteTwice, OnRemote
  <2>3. Fits("remote", remote, Event("executed", m, Amount[m], FALSE))
    BY <2>1, <2>2, ArrivalSteps DEF LogOf
  <2> QED BY <1>7, <2>3, RemoteGrows DEF ExecuteTwice, Goal
<1>8. ASSUME NEW m \in Outbound, ExecuteWrongly(m) PROVE Goal
  <2> DEFINE delivers == ~Has(remote, "failed", m)
  <2>1. Amount[m] + 1 \in Nat /\ delivers \in BOOLEAN /\ m \in Incoming("remote") /\ "remote" \in Sides
    BY <1>0 DEF Messages, Incoming, Sides
  <2>2. ~Has(remote, "executed", m) /\ Len(remote) < MaxHeight
    BY <1>8 DEF ExecuteWrongly, MayExecute, OnRemote
  <2>3. Fits("remote", remote, Event("executed", m, Amount[m] + 1, delivers))
    BY <2>1, <2>2, ArrivalSteps DEF LogOf
  <2> QED BY <1>8, <2>3, RemoteGrows DEF ExecuteWrongly, Goal
<1>9. ASSUME NEW kind \in {"untracked", "drained"} \cup Uninterpreted, OnHome(Plain(kind)) PROVE Goal
  <2>1. /\ Plain(kind) \in Events /\ Plain(kind).kind = kind /\ Plain(kind).msg = NoMessage
        /\ Plain(kind).amount = 0 /\ ~Plain(kind).delivers
    BY DEF Plain, Event, Events, Kinds, OddKinds
  <2>2. Fits("home", home, Plain(kind))
    BY <1>9, <2>1, OrdinarySteps DEF OnHome
  <2> QED BY <1>9, <2>2, HomeGrows DEF Goal
<1>10. ASSUME Mint PROVE Goal
  <2>1. /\ Plain("minted") \in Events /\ Plain("minted").kind = "minted"
        /\ Plain("minted").msg = NoMessage /\ Plain("minted").amount = 0 /\ ~Plain("minted").delivers
    BY DEF Plain, Event, Events, Kinds
  <2>2. Fits("remote", remote, Plain("minted"))
    BY <1>10, <2>1, OrdinarySteps DEF Mint, OnRemote
  <2> QED BY <1>10, <2>2, RemoteGrows DEF Goal, Mint
<1>11. ASSUME NEW kind \in {"called"} \cup Strange, OnRemote(Event(kind, NoMessage, 0, TRUE)) PROVE Goal
  <2> DEFINE e == Event(kind, NoMessage, 0, TRUE)
  <2>1. e \in Events /\ e.kind = kind /\ e.msg = NoMessage /\ e.amount = 0 /\ e.delivers
    BY DEF Event, Events, Kinds, OddKinds
  <2>2. Fits("remote", remote, e)
    BY <1>11, <2>1, OrdinarySteps DEF OnRemote
  <2> QED BY <1>11, <2>2, RemoteGrows DEF Goal
<1>12. Goal
  <2>1. CASE RouteElsewhere
    BY <2>1, <1>9 DEF RouteElsewhere
  <2>2. CASE RegisterUnknown
    BY <2>2, <1>9 DEF RegisterUnknown
  <2>3. CASE DeliverStrange
    BY <2>3, <1>11 DEF DeliverStrange
  <2>4. CASE DeliverCall
    BY <2>4, <1>11 DEF DeliverCall
  <2>5. CASE Drain
    BY <2>5, <1>9 DEF Drain
  <2> QED BY <1>1, <1>2, <1>3, <1>4, <1>5, <1>6, <1>7, <1>8, <1>10, <2>1, <2>2, <2>3, <2>4, <2>5
          DEF RouteNext
<1> QED BY <1>12 DEF Goal

LEMMA PrefixIs ==
  ASSUME NEW log \in Seq(Events), NEW k \in 0..Len(log)
  PROVE  /\ Prefix(log, k) \in Seq(Events) /\ Len(Prefix(log, k)) = k
         /\ DOMAIN Prefix(log, k) = 1..k /\ 1..k \subseteq DOMAIN log
         /\ \A i \in 1..k : Prefix(log, k)[i] = log[i]
BY DEF Prefix

LEMMA PrefixStays ==
  ASSUME NEW log \in Seq(Events), NEW more, Grown(log, more), NEW k \in 0..Len(log)
  PROVE  Prefix(more, k) = Prefix(log, k) /\ k \in 0..Len(more) /\ more \in Seq(Events)
<1>1. CASE more = log
  BY <1>1
<1>2. ASSUME NEW e \in Events, more = Append(log, e)
      PROVE  Prefix(more, k) = Prefix(log, k) /\ k \in 0..Len(more) /\ more \in Seq(Events)
  <2>1. /\ more \in Seq(Events) /\ Len(more) = Len(log) + 1 /\ Len(log) \in Nat
        /\ \A i \in 1..Len(log) : more[i] = log[i]
    BY <1>2
  <2>2. k \in 0..Len(more)
    BY <2>1
  <2>3. /\ Prefix(more, k) = [i \in 1..k |-> more[i]]
        /\ Prefix(log, k) = [i \in 1..k |-> log[i]]
    BY <2>1, <2>2 DEF Prefix
  <2> QED BY <2>1, <2>2, <2>3
<1> QED BY <1>1, <1>2 DEF Grown

LEMMA PrefixOrdered ==
  ASSUME NEW side, NEW log, Ordered(side, log), NEW k \in 0..Len(log)
  PROVE  Ordered(side, Prefix(log, k))
<1> DEFINE cut == Prefix(log, k)
<1>1. /\ log \in Seq(Events) /\ Len(log) \in Nat /\ DOMAIN log = 1..Len(log) /\ Len(log) <= MaxHeight
  BY DEF Ordered
<1>2. /\ cut \in Seq(Events) /\ Len(cut) = k /\ DOMAIN cut = 1..k /\ 1..k \subseteq DOMAIN log
      /\ \A i \in 1..k : cut[i] = log[i]
  BY <1>1, PrefixIs
<1> HIDE DEF cut
<1>3. \A j \in 0..k : ObligationTo(cut, j) = ObligationTo(log, j) /\ SupplyTo(cut, j) = SupplyTo(log, j)
  <2> SUFFICES ASSUME NEW j \in 0..k
               PROVE  ObligationTo(cut, j) = ObligationTo(log, j) /\ SupplyTo(cut, j) = SupplyTo(log, j)
    OBVIOUS
  <2>1. j \in Nat /\ \A i \in 1..j : i \in DOMAIN log /\ i \in DOMAIN cut /\ log[i] = cut[i]
    BY <1>2
  <2> QED BY <2>1, BalancesExtend
<1>4. Len(cut) <= MaxHeight
  BY <1>1, <1>2, RouteAssumption
<1>5. \A i \in DOMAIN cut : i \in DOMAIN log /\ cut[i] = log[i]
  BY <1>2
<1>6. \A i \in DOMAIN cut : Shaped(side, cut[i])
  BY <1>5 DEF Ordered
<1>7. \A i, j \in DOMAIN cut :
       i # j /\ cut[i].msg = cut[j].msg =>
         /\ cut[i].kind = cut[j].kind => cut[i].kind \notin {"sent", "failed"}
         /\ cut[i].kind = cut[j].kind /\ side = "home" => cut[i].kind # "executed"
         /\ ~ (IsDelivery(cut[i]) /\ IsDelivery(cut[j]))
  BY <1>5 DEF Ordered
<1>8. \A i \in DOMAIN cut : cut[i].kind = "executed" =>
       \E j \in 1..i : IsDelivery(cut[j]) /\ cut[j].msg = cut[i].msg
  <2> SUFFICES ASSUME NEW i \in DOMAIN cut, cut[i].kind = "executed"
               PROVE  \E j \in 1..i : IsDelivery(cut[j]) /\ cut[j].msg = cut[i].msg
    OBVIOUS
  <2>1. PICK j \in 1..i : IsDelivery(log[j]) /\ log[j].msg = log[i].msg
    BY <1>5 DEF Ordered
  <2>2. j \in DOMAIN cut
    BY <1>2
  <2> QED BY <1>5, <2>1, <2>2
<1>9. side = "home" => \A j \in 0..Len(cut) : ObligationTo(cut, j) >= 0
  BY <1>1, <1>2, <1>3 DEF Ordered
<1>10. side = "remote" => \A j \in 0..Len(cut) : SupplyTo(cut, j) >= 0
  BY <1>1, <1>2, <1>3 DEF Ordered
<1> QED BY <1>2, <1>4, <1>6, <1>7, <1>8, <1>9, <1>10 DEF Ordered, cut

---------------------------------------------------------------------------
\* The failure domains of endpoints.

KeepsTo(f, s, A, n) ==
  f = [i \in 0..n |-> IF i = 0 THEN <<>>
                      ELSE IF s[i] \in A THEN Append(f[i - 1], s[i]) ELSE f[i - 1]]

LEMMA KeepRuns ==
  ASSUME NEW s, NEW A, NEW n \in Nat
  PROVE  \E f : KeepsTo(f, s, A, n)
<1> DEFINE Missing == {k \in Nat : ~ \E f : KeepsTo(f, s, A, k)}
<1> SUFFICES ASSUME Missing # {} PROVE FALSE
  OBVIOUS
<1>1. PICK k \in Missing : \A l \in Missing : k <= l
  BY LeastOfSome
<1>2. CASE k = 0
  <2> DEFINE f == [i \in 0..0 |-> <<>>]
  <2>1. KeepsTo(f, s, A, 0)
    BY DEF KeepsTo
  <2> QED BY <1>2, <2>1
<1>3. CASE k # 0
  <2>1. k - 1 \in Nat /\ k - 1 \notin Missing
    BY <1>1, <1>3
  <2>2. PICK g : KeepsTo(g, s, A, k - 1)
    BY <2>1
  <2> DEFINE last == IF s[k] \in A THEN Append(g[k - 1], s[k]) ELSE g[k - 1]
             f == [i \in 0..k |-> IF i < k THEN g[i] ELSE last]
  <2>3. \A i \in 0..k : f[i] = IF i = 0 THEN <<>>
                               ELSE IF s[i] \in A THEN Append(f[i - 1], s[i]) ELSE f[i - 1]
    <3> SUFFICES ASSUME NEW i \in 0..k
                 PROVE f[i] = IF i = 0 THEN <<>>
                              ELSE IF s[i] \in A THEN Append(f[i - 1], s[i]) ELSE f[i - 1]
      OBVIOUS
    <3>1. CASE i < k
      <4>1. i \in 0..(k - 1) /\ f[i] = g[i]
        BY <3>1, <2>1
      <4>2. i # 0 => i - 1 \in 0..k /\ i - 1 < k
        BY <4>1, <2>1
      <4>3. i # 0 => f[i - 1] = g[i - 1]
        BY <4>2
      <4>4. g[i] = IF i = 0 THEN <<>>
                   ELSE IF s[i] \in A THEN Append(g[i - 1], s[i]) ELSE g[i - 1]
        BY <4>1, <2>2 DEF KeepsTo
      <4> HIDE DEF f
      <4> QED BY <4>1, <4>3, <4>4
    <3>2. CASE i = k
      <4>1. f[k] = last /\ f[k - 1] = g[k - 1]
        BY <2>1, <1>3
      <4> HIDE DEF f
      <4> QED BY <4>1, <3>2, <1>3
    <3> QED BY <3>1, <3>2, <1>1
  <2>4. KeepsTo(f, s, A, k)
    <3> DEFINE all == [i \in 0..k |-> IF i = 0 THEN <<>>
                               ELSE IF s[i] \in A THEN Append(f[i - 1], s[i]) ELSE f[i - 1]]
    <3>1. f = all
      BY <2>3
    <3> HIDE DEF f
    <3> QED BY <3>1 DEF KeepsTo
  <2> QED BY <2>4
<1> QED BY <1>2, <1>3

\* What is kept is kept in order, each place once, and nothing else is.
KeptBy(p, t, s, A, n) ==
  /\ t \in Seq({s[i] : i \in 1..n})
  /\ p \in [DOMAIN t -> 1..n]
  /\ \A i \in DOMAIN t : t[i] = s[p[i]] /\ t[i] \in A
  /\ \A i, j \in DOMAIN t : i # j => p[i] # p[j]
  /\ \A k \in 1..n : s[k] \in A => \E i \in DOMAIN t : p[i] = k

LEMMA KeptByMore ==
  ASSUME NEW s, NEW A, NEW n \in Nat, n # 0, NEW t, NEW p, KeptBy(p, t, s, A, n - 1)
  PROVE  \E q : KeptBy(q, IF s[n] \in A THEN Append(t, s[n]) ELSE t, s, A, n)
<1>1. t \in Seq({s[i] : i \in 1..n})
  BY DEF KeptBy
<1>2. CASE s[n] \notin A
  <2>1. KeptBy(p, t, s, A, n)
    BY <1>1, <1>2 DEF KeptBy
  <2> QED BY <1>2, <2>1
<1>3. CASE s[n] \in A
  <2> DEFINE more == Append(t, s[n])
             q == [i \in 1..(Len(t) + 1) |-> IF i = Len(t) + 1 THEN n ELSE p[i]]
  <2>1. /\ more \in Seq({s[i] : i \in 1..n}) /\ DOMAIN more = 1..(Len(t) + 1) /\ Len(t) \in Nat
        /\ DOMAIN t = 1..Len(t)
        /\ more[Len(t) + 1] = s[n] /\ \A i \in 1..Len(t) : more[i] = t[i]
    BY <1>1
  <2>2. q[Len(t) + 1] = n /\ \A i \in 1..Len(t) : q[i] = p[i]
    BY <2>1
  <2>3. \A i \in 1..Len(t) : p[i] \in 1..(n - 1)
    BY <2>1 DEF KeptBy
  <2>4. q \in [1..(Len(t) + 1) -> 1..n]
    BY <2>1, <2>3
  <2>9. /\ \A i \in 1..Len(t) : t[i] = s[p[i]] /\ t[i] \in A
        /\ \A i, j \in 1..Len(t) : i # j => p[i] # p[j]
        /\ \A k \in 1..(n - 1) : s[k] \in A => \E i \in 1..Len(t) : p[i] = k
    BY <2>1, Zenon DEF KeptBy
  <2>10. DOMAIN more = 1..(Len(t) + 1) /\ Len(t) \in Nat
         /\ more[Len(t) + 1] = s[n] /\ \A i \in 1..Len(t) : more[i] = t[i]
    BY <2>1
  <2> HIDE DEF q, more
  <2>5. \A i \in DOMAIN more : more[i] = s[q[i]] /\ more[i] \in A
    BY <1>3, <2>10, <2>2, <2>9
  <2>6. \A i, j \in DOMAIN more : i # j => q[i] # q[j]
    BY <2>10, <2>2, <2>3, <2>9
  <2>7. \A k \in 1..n : s[k] \in A => \E i \in DOMAIN more : q[i] = k
    <3> SUFFICES ASSUME NEW k \in 1..n, s[k] \in A PROVE \E i \in DOMAIN more : q[i] = k
      OBVIOUS
    <3>1. CASE k = n
      BY <3>1, <2>10, <2>2
    <3>2. CASE k # n
      <4>1. PICK i \in 1..Len(t) : p[i] = k
        BY <3>2, <2>9
      <4> QED BY <4>1, <2>10, <2>2
    <3> QED BY <3>1, <3>2
  <2>8. KeptBy(q, more, s, A, n)
    BY <2>1, <2>4, <2>5, <2>6, <2>7 DEF KeptBy
  <2> QED BY <1>3, <2>8 DEF more
<1> QED BY <1>2, <1>3

LEMMA Kept ==
  ASSUME NEW s, Len(s) \in Nat, NEW A
  PROVE  \E p : KeptBy(p, Q!Keep(s, A), s, A, Len(s))
<1> DEFINE f == CHOOSE g : KeepsTo(g, s, A, Len(s))
<1>1. KeepsTo(f, s, A, Len(s))
  BY KeepRuns
<1>2. Q!Keep(s, A) = f[Len(s)]
  BY DEF Q!Keep, KeepsTo
<1> HIDE DEF f
<1> DEFINE Off == {k \in 0..Len(s) : ~ \E p : KeptBy(p, f[k], s, A, k)}
<1> SUFFICES ASSUME Off # {} PROVE FALSE
  BY <1>2
<1>0. Off \in SUBSET Nat
  OBVIOUS
<1>3. PICK k \in Off : \A l \in Off : k <= l
  BY <1>0, LeastOfSome
<1>4. CASE k = 0
  <2>1. f[0] = <<>>
    BY <1>1 DEF KeepsTo
  <2>2. KeptBy(<<>>, <<>>, s, A, 0)
    BY DEF KeptBy
  <2> QED BY <1>3, <1>4, <2>1, <2>2
<1>5. CASE k # 0
  <2>1. k \in Nat /\ k - 1 \in 0..Len(s) /\ k - 1 \notin Off
    BY <1>3, <1>5
  <2>2. PICK p : KeptBy(p, f[k - 1], s, A, k - 1)
    BY <2>1
  <2>3. f[k] = IF s[k] \in A THEN Append(f[k - 1], s[k]) ELSE f[k - 1]
    BY <1>1, <1>3, <1>5 DEF KeepsTo
  <2>4. \E q : KeptBy(q, f[k], s, A, k)
    BY <1>5, <2>1, <2>2, <2>3, KeptByMore
  <2> QED BY <1>3, <2>4
<1> QED BY <1>4, <1>5

FlattensTo(f, seqs, n) ==
  f = [i \in 1..n |-> IF i = 1 THEN seqs[i] ELSE f[i - 1] \o seqs[i]]

LEMMA FlattenRuns ==
  ASSUME NEW s, NEW n \in Nat
  PROVE  \E f : FlattensTo(f, s, n)
<1> DEFINE Missing == {k \in Nat : ~ \E f : FlattensTo(f, s, k)}
<1> SUFFICES ASSUME Missing # {} PROVE FALSE
  OBVIOUS
<1>1. PICK k \in Missing : \A l \in Missing : k <= l
  BY LeastOfSome
<1>2. CASE k = 0
  <2> DEFINE f == [i \in 1..0 |-> <<>>]
  <2>1. FlattensTo(f, s, 0)
    BY DEF FlattensTo
  <2> QED BY <1>2, <2>1
<1>3. CASE k # 0
  <2>1. k \in Nat /\ k - 1 \in Nat /\ k - 1 \notin Missing
    BY <1>1, <1>3
  <2>2. PICK g : FlattensTo(g, s, k - 1)
    BY <2>1
  <2> DEFINE last == IF k = 1 THEN s[k] ELSE g[k - 1] \o s[k]
             f == [i \in 1..k |-> IF i < k THEN g[i] ELSE last]
  <2>3. ASSUME NEW i \in 1..k
        PROVE  f[i] = IF i = 1 THEN s[i] ELSE f[i - 1] \o s[i]
    <3>1. CASE i < k
      <4>1. i \in 1..(k - 1) /\ f[i] = g[i]
        BY <3>1, <2>1
      <4>2. i # 1 => i - 1 \in 1..k /\ i - 1 < k
        BY <4>1, <2>1
      <4>3. i # 1 => f[i - 1] = g[i - 1]
        BY <4>2
      <4>4. g[i] = IF i = 1 THEN s[i] ELSE g[i - 1] \o s[i]
        BY <4>1, <2>2 DEF FlattensTo
      <4> HIDE DEF f
      <4> QED BY <4>1, <4>3, <4>4
    <3>2. CASE i = k
      <4>1. f[k] = last
        BY <2>1, <1>3
      <4>2. k # 1 => k - 1 \in 1..k /\ k - 1 < k
        BY <1>3, <2>1
      <4>3. k # 1 => f[k - 1] = g[k - 1]
        BY <4>2
      <4> HIDE DEF f
      <4> QED BY <4>1, <4>3, <3>2
    <3>3. i < k \/ i = k
      BY <2>1
    <3> QED BY <3>1, <3>2, <3>3
  <2>4. FlattensTo(f, s, k)
    <3> DEFINE all == [i \in 1..k |-> IF i = 1 THEN s[i] ELSE f[i - 1] \o s[i]]
    <3>1. f = all
      BY <2>3
    <3> HIDE DEF f
    <3> QED BY <3>1 DEF FlattensTo
  <2> QED BY <2>4
<1> QED BY <1>2, <1>3

LEMMA Flattened ==
  ASSUME NEW V, NEW s, Len(s) \in Nat, DOMAIN s = 1..Len(s), \A i \in 1..Len(s) : s[i] \in Seq(V),
         Len(s) = 0 => s = <<>>
  PROVE  Q!FlattenSeq(s) \in Seq(V)
<1>1. CASE Len(s) = 0
  BY <1>1 DEF Q!FlattenSeq
<1>2. CASE Len(s) # 0
  <2> DEFINE f == CHOOSE g : FlattensTo(g, s, Len(s))
  <2>1. FlattensTo(f, s, Len(s))
    BY FlattenRuns
  <2>2. Q!FlattenSeq(s) = f[Len(s)]
    BY <1>2 DEF Q!FlattenSeq, FlattensTo
  <2> HIDE DEF f
  <2> DEFINE Off == {k \in 1..Len(s) : f[k] \notin Seq(V)}
  <2> SUFFICES ASSUME Off # {} PROVE FALSE
    BY <1>2, <2>2
  <2>0. Off \in SUBSET Nat
    OBVIOUS
  <2>3. PICK k \in Off : \A l \in Off : k <= l
    BY <2>0, LeastOfSome
  <2>4. f[k] = IF k = 1 THEN s[k] ELSE f[k - 1] \o s[k]
    BY <2>1, <2>3 DEF FlattensTo
  <2>5. k # 1 => k - 1 \in 1..Len(s) /\ k - 1 < k
    BY <2>3
  <2>6. k # 1 => f[k - 1] \in Seq(V)
    BY <2>3, <2>5
  <2>7. s[k] \in Seq(V)
    BY <2>3
  <2>8. \A t, u \in Seq(V) : t \o u \in Seq(V)
    OBVIOUS
  <2>9. f[k] \in Seq(V)
    BY <2>4, <2>6, <2>7, <2>8
  <2> QED BY <2>3, <2>9
<1> QED BY <1>1, <1>2

\* The items of a failure domain are of its domains and of its providers.
Own(W, c) == {w \in W : w.trustDomain \in c.domains /\ w.providerGroup \in c.providers}

\* Failure domains that have nothing in common.
Separate(W, components, n) ==
  /\ DOMAIN components = 1..n /\ Len(components) = n
  /\ \A i \in 1..n : components[i].items \in Seq(Own(W, components[i])) /\ components[i].items # <<>>
  /\ \A i, j \in 1..n : i # j =>
       /\ components[i].domains \cap components[j].domains = {}
       /\ components[i].providers \cap components[j].providers = {}

\* A failure domain has both the trust domain and the provider group of w.
Placed(components, n, w) ==
  \E i \in 1..n : w.trustDomain \in components[i].domains /\ w.providerGroup \in components[i].providers

LEMMA OwnGrows ==
  ASSUME NEW W, NEW c, NEW d, c.domains \subseteq d.domains, c.providers \subseteq d.providers,
         NEW s \in Seq(Own(W, c))
  PROVE  s \in Seq(Own(W, d))
<1>1. Own(W, c) \subseteq Own(W, d)
  BY DEF Own
<1> HIDE DEF Own
<1> QED BY <1>1

LEMMA Joined ==
  ASSUME NEW W, NEW components, NEW n \in Nat, Separate(W, components, n), NEW item \in W
  PROVE  \E k \in Nat :
           /\ Separate(W, Q!joinItem(components, item), k)
           /\ Placed(Q!joinItem(components, item), k, item)
           /\ \A w \in W : Placed(components, n, w) => Placed(Q!joinItem(components, item), k, w)
<1> DEFINE all == {components[i] : i \in 1..n}
           touched == {c \in Q!ToSet(components) : \/ item.trustDomain \in c.domains
                                                   \/ item.providerGroup \in c.providers}
           joined == Q!Keep(components, touched)
           kept == Q!Keep(components, Q!ToSet(components) \ touched)
           new == [domains |-> {item.trustDomain} \cup UNION {c.domains : c \in Q!ToSet(joined)},
                   providers |-> {item.providerGroup} \cup UNION {c.providers : c \in Q!ToSet(joined)},
                   items |-> <<item>> \o Q!FlattenSeq([i \in DOMAIN joined |-> joined[i].items])]
<1>1. /\ DOMAIN components = 1..n /\ Len(components) = n
      /\ \A i \in 1..n : components[i].items \in Seq(Own(W, components[i])) /\ components[i].items # <<>>
      /\ \A i, j \in 1..n : i # j =>
           /\ components[i].domains \cap components[j].domains = {}
           /\ components[i].providers \cap components[j].providers = {}
  BY DEF Separate
<1>2. Q!ToSet(components) = all
  BY <1>1 DEF Q!ToSet
<1>3. PICK p : KeptBy(p, joined, components, touched, n)
  BY <1>1, Kept
<1>4. PICK q : KeptBy(q, kept, components, all \ touched, n)
  BY <1>1, <1>2, Kept
<1>5. Q!joinItem(components, item) = Append(kept, new)
  BY DEF Q!joinItem
<1>6. \A i \in 1..n : components[i] \in touched <=>
        item.trustDomain \in components[i].domains \/ item.providerGroup \in components[i].providers
  BY <1>2
<1>7. Len(joined) \in Nat /\ DOMAIN joined = 1..Len(joined) /\ (Len(joined) = 0 => joined = <<>>)
  BY <1>3 DEF KeptBy
<1>8. Len(kept) \in Nat /\ DOMAIN kept = 1..Len(kept) /\ kept \in Seq(all)
  BY <1>4 DEF KeptBy
<1>9. \A i \in DOMAIN joined : p[i] \in 1..n /\ joined[i] = components[p[i]] /\ joined[i] \in touched
  BY <1>3, Zenon DEF KeptBy
<1>10. /\ \A i \in DOMAIN kept : q[i] \in 1..n /\ kept[i] = components[q[i]] /\ kept[i] \notin touched
       /\ \A i, j \in DOMAIN kept : i # j => q[i] # q[j]
  BY <1>4, Zenon DEF KeptBy
<1>20. /\ \A i \in 1..n : components[i] \in touched => \E j \in DOMAIN joined : joined[j] = components[i]
       /\ \A i \in 1..n : components[i] \notin touched => \E j \in DOMAIN kept : kept[j] = components[i]
  <2>1. \A i \in 1..n : components[i] \in touched => \E j \in DOMAIN joined : p[j] = i
    BY <1>3, Zenon DEF KeptBy
  <2>2. \A i \in 1..n : components[i] \in all \ touched => \E j \in DOMAIN kept : q[j] = i
    BY <1>4, Zenon DEF KeptBy
  <2>3. \A i \in 1..n : components[i] \in all
    OBVIOUS
  <2> HIDE DEF all, touched, joined, kept
  <2> QED BY <1>9, <1>10, <2>1, <2>2, <2>3
<1>11. Q!ToSet(joined) = {joined[i] : i \in DOMAIN joined}
  BY DEF Q!ToSet
<1>12. /\ item.trustDomain \in new.domains /\ item.providerGroup \in new.providers
       /\ \A i \in DOMAIN joined : joined[i].domains \subseteq new.domains /\ joined[i].providers \subseteq new.providers
       /\ \A d \in new.domains : d = item.trustDomain \/ \E i \in DOMAIN joined : d \in joined[i].domains
       /\ \A d \in new.providers : d = item.providerGroup \/ \E i \in DOMAIN joined : d \in joined[i].providers
  <2> HIDE DEF joined
  <2> QED BY <1>11
<1>13. new.items = <<item>> \o Q!FlattenSeq([i \in DOMAIN joined |-> joined[i].items])
  OBVIOUS
<1> HIDE DEF new, joined, kept, touched, all
<1>14. new.items \in Seq(Own(W, new)) /\ new.items # <<>>
  <2> DEFINE ss == [i \in DOMAIN joined |-> joined[i].items]
  <2>1. ASSUME NEW i \in DOMAIN joined PROVE ss[i] \in Seq(Own(W, new))
    <3>1. joined[i].items \in Seq(Own(W, joined[i]))
      BY <1>1, <1>9
    <3>2. joined[i].items \in Seq(Own(W, new))
      BY <3>1, <1>12, OwnGrows
    <3> QED BY <3>2
  <2>2. Len(ss) = Len(joined) /\ DOMAIN ss = 1..Len(joined) /\ (Len(joined) = 0 => ss = <<>>)
    BY <1>7
  <2> HIDE DEF ss
  <2>3. Q!FlattenSeq(ss) \in Seq(Own(W, new))
    BY <1>7, <2>1, <2>2, Flattened
  <2>4. item \in Own(W, new)
    BY <1>12 DEF Own
  <2>5. \A V : \A v \in V : \A t \in Seq(V) : <<v>> \o t \in Seq(V) /\ <<v>> \o t # <<>>
    <3> SUFFICES ASSUME NEW V, NEW v \in V, NEW t \in Seq(V)
                 PROVE  <<v>> \o t \in Seq(V) /\ <<v>> \o t # <<>>
      OBVIOUS
    <3>1. Len(<<v>> \o t) = 1 + Len(t) /\ Len(t) \in Nat
      OBVIOUS
    <3> QED BY <3>1
  <2>6. <<item>> \o Q!FlattenSeq(ss) \in Seq(Own(W, new)) /\ <<item>> \o Q!FlattenSeq(ss) # <<>>
    BY <2>3, <2>4, <2>5
  <2> QED BY <1>13, <2>6 DEF ss
<1>15. ASSUME NEW i \in DOMAIN kept
       PROVE  kept[i].domains \cap new.domains = {} /\ kept[i].providers \cap new.providers = {}
  <2>1. item.trustDomain \notin kept[i].domains /\ item.providerGroup \notin kept[i].providers
    BY <1>6, <1>10
  <2>2. ASSUME NEW j \in DOMAIN joined
        PROVE  kept[i].domains \cap joined[j].domains = {} /\ kept[i].providers \cap joined[j].providers = {}
    <3>1. q[i] # p[j]
      BY <1>9, <1>10
    <3> QED BY <3>1, <1>1, <1>9, <1>10
  <2> QED BY <2>1, <2>2, <1>12
<1> DEFINE more == Append(kept, new)
           k == Len(kept) + 1
<1>16. /\ k \in Nat /\ DOMAIN more = 1..k /\ Len(more) = k /\ more[k] = new
       /\ \A i \in 1..k : i # k => i \in DOMAIN kept /\ more[i] = kept[i]
  BY <1>8
<1> HIDE DEF more, k
<1>17. \A i \in 1..k : more[i].items \in Seq(Own(W, more[i])) /\ more[i].items # <<>>
  <2> SUFFICES ASSUME NEW i \in 1..k
               PROVE  more[i].items \in Seq(Own(W, more[i])) /\ more[i].items # <<>>
    OBVIOUS
  <2>1. CASE i = k
    BY <2>1, <1>14, <1>16
  <2>2. CASE i # k
    <3>1. more[i] = components[q[i]] /\ q[i] \in 1..n
      BY <2>2, <1>10, <1>16
    <3> QED BY <3>1, <1>1
  <2> QED BY <2>1, <2>2
<1>18. ASSUME NEW i \in 1..k, NEW j \in 1..k, i # j
       PROVE  more[i].domains \cap more[j].domains = {} /\ more[i].providers \cap more[j].providers = {}
  <2>1. CASE i = k
    BY <2>1, <1>15, <1>16, <1>18
  <2>2. CASE j = k
    BY <2>2, <1>15, <1>16, <1>18
  <2>3. CASE i # k /\ j # k
    <3>1. more[i] = components[q[i]] /\ more[j] = components[q[j]] /\ q[i] # q[j]
      BY <2>3, <1>10, <1>16, <1>18
    <3> QED BY <3>1, <2>3, <1>1, <1>10, <1>16
  <2> QED BY <2>1, <2>2, <2>3
<1>19. Separate(W, more, k)
  BY <1>16, <1>17, <1>18 DEF Separate
<1>21. k \in 1..k
  BY <1>8 DEF k
<1>22. Placed(more, k, item)
  BY <1>12, <1>16, <1>21 DEF Placed
<1>23. ASSUME NEW w \in W, Placed(components, n, w) PROVE Placed(more, k, w)
  <2>1. PICK i \in 1..n : w.trustDomain \in components[i].domains /\ w.providerGroup \in components[i].providers
    BY <1>23 DEF Placed
  <2>2. CASE components[i] \in touched
    <3>1. PICK j \in DOMAIN joined : joined[j] = components[i]
      BY <1>20, <2>2
    <3>2. w.trustDomain \in new.domains /\ w.providerGroup \in new.providers
      BY <1>12, <2>1, <3>1
    <3> QED BY <1>16, <1>21, <3>2 DEF Placed
  <2>3. CASE components[i] \notin touched
    <3>1. PICK j \in DOMAIN kept : kept[j] = components[i]
      BY <1>20, <2>3
    <3>2. j \in 1..k /\ more[j] = kept[j]
      BY <1>8, <1>16 DEF more, k
    <3> QED BY <2>1, <3>1, <3>2 DEF Placed
  <2> QED BY <2>2, <2>3
<1> QED BY <1>5, <1>16, <1>19, <1>22, <1>23 DEF more

ScansTo(f, items, n) ==
  f = [i \in 0..n |-> IF i = 0 THEN <<>> ELSE Q!joinItem(f[i - 1], items[i])]

LEMMA ScanRuns ==
  ASSUME NEW s, NEW n \in Nat
  PROVE  \E f : ScansTo(f, s, n)
<1> DEFINE Missing == {k \in Nat : ~ \E f : ScansTo(f, s, k)}
<1> SUFFICES ASSUME Missing # {} PROVE FALSE
  OBVIOUS
<1>1. PICK k \in Missing : \A l \in Missing : k <= l
  BY LeastOfSome
<1>2. CASE k = 0
  <2> DEFINE f == [i \in 0..0 |-> <<>>]
  <2>1. ScansTo(f, s, 0)
    BY DEF ScansTo
  <2> QED BY <1>2, <2>1
<1>3. CASE k # 0
  <2>1. k - 1 \in Nat /\ k - 1 \notin Missing
    BY <1>1, <1>3
  <2>2. PICK g : ScansTo(g, s, k - 1)
    BY <2>1
  <2> DEFINE last == Q!joinItem(g[k - 1], s[k])
             f == [i \in 0..k |-> IF i < k THEN g[i] ELSE last]
  <2> HIDE DEF last
  <2>3. ASSUME NEW i \in 0..k
        PROVE  f[i] = IF i = 0 THEN <<>> ELSE Q!joinItem(f[i - 1], s[i])
    <3>1. CASE i < k
      <4>1. i \in 0..(k - 1) /\ f[i] = g[i]
        BY <3>1, <2>1
      <4>2. i # 0 => i - 1 \in 0..k /\ i - 1 < k
        BY <4>1, <2>1
      <4>3. i # 0 => f[i - 1] = g[i - 1]
        BY <4>2
      <4>4. g[i] = IF i = 0 THEN <<>> ELSE Q!joinItem(g[i - 1], s[i])
        BY <4>1, <2>2 DEF ScansTo
      <4> HIDE DEF f
      <4> QED BY <4>1, <4>3, <4>4
    <3>2. CASE i = k
      <4>1. f[k] = last /\ f[k - 1] = g[k - 1]
        BY <2>1, <1>3
      <4> HIDE DEF f
      <4> QED BY <4>1, <3>2, <1>3 DEF last
    <3>3. i < k \/ i = k
      BY <2>1
    <3> QED BY <3>1, <3>2, <3>3
  <2>4. ScansTo(f, s, k)
    <3> DEFINE all == [i \in 0..k |-> IF i = 0 THEN <<>> ELSE Q!joinItem(f[i - 1], s[i])]
    <3>1. f = all
      BY <2>3
    <3> HIDE DEF f
    <3> QED BY <3>1 DEF ScansTo
  <2> QED BY <2>4
<1> QED BY <1>2, <1>3

GroupedBy(W, components, placed, groups) ==
  \E n \in Nat : /\ Separate(W, components, n) /\ DOMAIN groups = 1..n
                 /\ \A w \in placed : Placed(components, n, w)
                 /\ \A i \in 1..n : groups[i] = components[i].items

\* The failure domains of a sequence of items have neither a trust domain nor a provider
\* group in common, and each item is in one of them.
LEMMA GroupsSeparate ==
  ASSUME NEW W, NEW items, Len(items) \in Nat, \A i \in 1..Len(items) : items[i] \in W
  PROVE  \E components :
           GroupedBy(W, components, {items[i] : i \in 1..Len(items)}, Q!independenceGroups(items))
<1> DEFINE f == CHOOSE g : ScansTo(g, items, Len(items))
<1>1. ScansTo(f, items, Len(items))
  BY ScanRuns
<1>2. Q!independenceGroups(items) = [i \in DOMAIN f[Len(items)] |-> f[Len(items)][i].items]
  BY DEF Q!independenceGroups, ScansTo
<1> HIDE DEF f
<1> DEFINE Scanned(k, n) == Separate(W, f[k], n) /\ \A i \in 1..k : Placed(f[k], n, items[i])
           Off == {k \in 0..Len(items) : ~ \E n \in Nat : Scanned(k, n)}
<1>3. Off = {}
  <2> SUFFICES ASSUME Off # {} PROVE FALSE
    OBVIOUS
  <2>0. Off \in SUBSET Nat
    OBVIOUS
  <2>1. PICK k \in Off : \A l \in Off : k <= l
    BY <2>0, LeastOfSome
  <2>2. CASE k = 0
    <3>1. f[0] = <<>>
      BY <1>1 DEF ScansTo
    <3>2. Separate(W, <<>>, 0)
      BY DEF Separate
    <3> QED BY <2>1, <2>2, <3>1, <3>2
  <2>3. CASE k # 0
    <3>1. k \in 1..Len(items) /\ k - 1 \in 0..Len(items) /\ k - 1 \notin Off
      BY <2>1, <2>3
    <3>2. PICK n \in Nat : Scanned(k - 1, n)
      BY <3>1
    <3>3. f[k] = Q!joinItem(f[k - 1], items[k])
      BY <1>1, <2>1, <2>3 DEF ScansTo
    <3>4. items[k] \in W /\ \A i \in 1..(k - 1) : items[i] \in W
      BY <3>1
    <3>5. PICK m \in Nat : /\ Separate(W, f[k], m) /\ Placed(f[k], m, items[k])
                           /\ \A w \in W : Placed(f[k - 1], n, w) => Placed(f[k], m, w)
      <4> HIDE DEF Off
      <4> QED BY <3>2, <3>3, <3>4, Joined
    <3>6. ASSUME NEW i \in 1..k PROVE Placed(f[k], m, items[i])
      <4>1. i = k \/ i \in 1..(k - 1)
        BY <3>1
      <4> QED BY <4>1, <3>2, <3>4, <3>5
    <3>7. Scanned(k, m)
      BY <3>5, <3>6
    <3> QED BY <2>1, <3>7
  <2> QED BY <2>2, <2>3
<1>4. PICK n \in Nat : Scanned(Len(items), n)
  BY <1>3
<1>5. DOMAIN f[Len(items)] = 1..n
  BY <1>4 DEF Separate
<1>6. GroupedBy(W, f[Len(items)], {items[i] : i \in 1..Len(items)}, Q!independenceGroups(items))
  BY <1>2, <1>4, <1>5 DEF GroupedBy
<1> QED BY <1>6

\* Items no two of which share a trust domain or a provider group: each is a failure domain.
LEMMA GroupsApart ==
  ASSUME NEW items, Len(items) \in Nat,
         \A i, j \in 1..Len(items) : i # j =>
           /\ items[i].trustDomain # items[j].trustDomain
           /\ items[i].providerGroup # items[j].providerGroup
  PROVE  Len(Q!independenceGroups(items)) = Len(items)
<1> DEFINE n == Len(items)
           f == CHOOSE g : ScansTo(g, items, n)
           Apart(c, k) == /\ DOMAIN c = 1..k /\ Len(c) = k
                          /\ \A i \in 1..k :
                               /\ \A d \in c[i].domains : \E j \in 1..k : d = items[j].trustDomain
                               /\ \A d \in c[i].providers : \E j \in 1..k : d = items[j].providerGroup
           Off == {k \in 0..n : ~ Apart(f[k], k)}
<1>1. ScansTo(f, items, n)
  BY ScanRuns
<1>2. Q!independenceGroups(items) = [i \in DOMAIN f[n] |-> f[n][i].items]
  BY DEF Q!independenceGroups, ScansTo
<1> HIDE DEF f, Apart
<1>3. Off = {}
  <2> SUFFICES ASSUME Off # {} PROVE FALSE
    OBVIOUS
  <2>0. Off \in SUBSET Nat
    OBVIOUS
  <2>1. PICK k \in Off : \A l \in Off : k <= l
    BY <2>0, LeastOfSome
  <2>2. CASE k = 0
    <3>1. f[0] = <<>>
      BY <1>1 DEF ScansTo
    <3>2. Apart(<<>>, 0)
      BY DEF Apart
    <3> QED BY <2>1, <2>2, <3>1, <3>2
  <2>3. CASE k # 0
    <3> DEFINE c == f[k - 1]
               item == items[k]
               touched == {d \in Q!ToSet(c) : \/ item.trustDomain \in d.domains
                                              \/ item.providerGroup \in d.providers}
               joined == Q!Keep(c, touched)
               kept == Q!Keep(c, Q!ToSet(c) \ touched)
               new == [domains |-> {item.trustDomain} \cup UNION {d.domains : d \in Q!ToSet(joined)},
                       providers |-> {item.providerGroup} \cup UNION {d.providers : d \in Q!ToSet(joined)},
                       items |-> <<item>> \o Q!FlattenSeq([i \in DOMAIN joined |-> joined[i].items])]
    <3>1. k \in 1..n /\ k - 1 \in 0..n /\ k - 1 \notin Off /\ k \in Nat
      BY <2>1, <2>3
    <3>2. Apart(c, k - 1)
      BY <3>1
    <3>3. f[k] = Append(kept, new)
      BY <1>1, <2>1, <2>3 DEF ScansTo, Q!joinItem
    <3>4. DOMAIN c = 1..(k - 1) /\ Len(c) = k - 1
      BY <3>2 DEF Apart
    <3>5. \A i \in 1..(k - 1) : item.trustDomain \notin c[i].domains /\ item.providerGroup \notin c[i].providers
      <4>1. \A j \in 1..(k - 1) : /\ item.trustDomain # items[j].trustDomain
                                  /\ item.providerGroup # items[j].providerGroup
        BY <3>1
      <4> QED BY <4>1, <3>2 DEF Apart
    <3>6. touched = {}
      <4>1. \A d \in Q!ToSet(c) : \E i \in 1..(k - 1) : d = c[i]
        BY <3>4 DEF Q!ToSet
      <4> HIDE DEF c, item
      <4> QED BY <4>1, <3>5
    <3> HIDE DEF c, touched
    <3>7. PICK p : KeptBy(p, joined, c, touched, k - 1)
      <4>1. Len(c) \in Nat
        BY <3>1, <3>4
      <4> QED BY <3>4, <4>1, Kept
    <3>8. PICK q : KeptBy(q, kept, c, Q!ToSet(c) \ touched, k - 1)
      <4>1. Len(c) \in Nat
        BY <3>1, <3>4
      <4> QED BY <3>4, <4>1, Kept
    <3> HIDE DEF joined, kept
    <3>9. Q!ToSet(joined) = {}
      BY <3>6, <3>7 DEF KeptBy, Q!ToSet
    <3>10. new.domains = {item.trustDomain} /\ new.providers = {item.providerGroup}
      BY <3>9
    <3> HIDE DEF new
    <3>11. /\ Len(kept) \in Nat /\ DOMAIN kept = 1..Len(kept) /\ kept \in Seq({c[i] : i \in 1..(k - 1)})
      BY <3>8 DEF KeptBy
    <3>12. /\ q \in [1..Len(kept) -> 1..(k - 1)]
           /\ \A i \in 1..Len(kept) : kept[i] = c[q[i]]
           /\ \A i, j \in 1..Len(kept) : i # j => q[i] # q[j]
           /\ \A l \in 1..(k - 1) : \E i \in 1..Len(kept) : q[i] = l
      <4>1. \A l \in 1..(k - 1) : c[l] \in Q!ToSet(c) \ touched
        BY <3>4, <3>6 DEF Q!ToSet
      <4> QED BY <3>8, <3>11, <4>1 DEF KeptBy
    <3>13. Len(kept) = k - 1
      <4>1. q \in Bijection(1..Len(kept), 1..(k - 1))
        BY <3>12 DEF Bijection, Injection, Surjection, IsInjective
      <4>2. ExistsBijection(1..Len(kept), 1..(k - 1))
        BY <4>1 DEF ExistsBijection
      <4>3. IsFiniteSet(1..Len(kept)) /\ Cardinality(1..Len(kept)) = Len(kept)
        <5> DEFINE l == Len(kept)
        <5>1. l \in Nat
          BY <3>11
        <5> HIDE DEF l
        <5>2. IsFiniteSet(1..l) /\ Cardinality(1..l) = IF 1 > l THEN 0 ELSE l - 1 + 1
          <6>1. 1 \in Int /\ l \in Int
            BY <5>1
          <6> QED BY <6>1, FS_Interval, Zenon
        <5>3. (IF 1 > l THEN 0 ELSE l - 1 + 1) = l
          BY <5>1
        <5> QED BY <5>2, <5>3 DEF l
      <4>4. IsFiniteSet(1..(k - 1)) /\ Cardinality(1..(k - 1)) = k - 1
        BY <3>1, FS_Interval
      <4> QED BY <4>2, <4>3, <4>4, FS_Bijection
    <3> DEFINE more == Append(kept, new)
    <3>14. /\ DOMAIN more = 1..k /\ Len(more) = k /\ more[k] = new
           /\ \A i \in 1..k : i # k => i \in 1..Len(kept) /\ more[i] = kept[i]
      BY <3>1, <3>11, <3>13
    <3> HIDE DEF more
    <3>15. Apart(more, k)
      <4> SUFFICES ASSUME NEW i \in 1..k
                   PROVE  /\ \A d \in more[i].domains : \E j \in 1..k : d = items[j].trustDomain
                          /\ \A d \in more[i].providers : \E j \in 1..k : d = items[j].providerGroup
        BY <3>14 DEF Apart
      <4>1. CASE i = k
        BY <4>1, <3>1, <3>10, <3>14
      <4>2. CASE i # k
        <5>1. more[i] = c[q[i]] /\ q[i] \in 1..(k - 1)
          BY <4>2, <3>12, <3>14
        <5>2. /\ \A d \in c[q[i]].domains : \E j \in 1..(k - 1) : d = items[j].trustDomain
              /\ \A d \in c[q[i]].providers : \E j \in 1..(k - 1) : d = items[j].providerGroup
          BY <5>1, <3>2 DEF Apart
        <5>3. \A j \in 1..(k - 1) : j \in 1..k
          BY <3>1
        <5> QED BY <5>1, <5>2, <5>3
      <4> QED BY <4>1, <4>2
    <3>16. Apart(f[k], k)
      BY <3>3, <3>15 DEF more
    <3> QED BY <2>1, <3>16
  <2> QED BY <2>2, <2>3
<1>4. Apart(f[n], n)
  BY <1>3
<1>5. DOMAIN f[n] = 1..n
  BY <1>4 DEF Apart
<1> QED BY <1>2, <1>5

LEMMA Mapped ==
  ASSUME NEW S, IsFiniteSet(S), NEW f, NEW T,
         \A x \in S : f[x] \in T, \A y \in T : \E x \in S : y = f[x]
  PROVE  IsFiniteSet(T) /\ Cardinality(T) <= Cardinality(S)
<1> DEFINE g == [x \in S |-> f[x]]
<1>1. g \in Surjection(S, T)
  BY DEF Surjection
<1> HIDE DEF g
<1> QED BY <1>1, FS_Surjection

\* RpcQuorum counts as this module does.
LEMMA SameSize ==
  ASSUME NEW S
  PROVE  Q!Cardinality(S) = Cardinality(S)
BY DEF Q!Cardinality, Cardinality

\* A finite set, listed.
LEMMA ListedOnce ==
  ASSUME NEW S, IsFiniteSet(S)
  PROVE  /\ Q!SetToSeq(S) \in [1..Cardinality(S) -> S] /\ Q!SetToSeq(S) \in Seq(S)
         /\ Len(Q!SetToSeq(S)) = Cardinality(S) /\ Cardinality(S) \in Nat
         /\ \A i, j \in 1..Cardinality(S) : i # j => Q!SetToSeq(S)[i] # Q!SetToSeq(S)[j]
         /\ \A x \in S : \E i \in 1..Cardinality(S) : Q!SetToSeq(S)[i] = x
<1> DEFINE n == Cardinality(S)
           t == Q!SetToSeq(S)
<1>1. n \in Nat
  BY FS_CardinalityType
<1>2. ExistsBijection(1..n, S)
  BY FS_CountingElements, FS_CardinalityType
<1>3. PICK f : f \in Bijection(1..n, S)
  BY <1>2 DEF ExistsBijection
<1>4. f \in [1..n -> S] /\ Q!IsInjective(f)
  BY <1>3 DEF Bijection, Injection, IsInjective, Q!IsInjective
<1>5. t \in [1..n -> S] /\ Q!IsInjective(t)
  <2>1. t = CHOOSE g \in [1..n -> S] : Q!IsInjective(g)
    BY SameSize DEF Q!SetToSeq
  <2> HIDE DEF t, n
  <2> QED BY <1>4, <2>1, Zenon
<1> HIDE DEF t, n
<1>6. t \in Seq(S) /\ Len(t) = n
  BY <1>1, <1>5
<1>7. \A i, j \in 1..n : i # j => t[i] # t[j]
  BY <1>5 DEF Q!IsInjective
<1>8. \A x \in S : \E i \in 1..n : t[i] = x
  <2>1. t \in Injection(1..n, S)
    BY <1>5 DEF Injection, IsInjective, Q!IsInjective
  <2>2. Cardinality(1..n) = n
    BY <1>1, FS_Interval
  <2>3. t \in Surjection(1..n, S)
    BY <2>1, <2>2, FS_Injection DEF n
  <2> QED BY <2>3 DEF Surjection
<1> QED BY <1>1, <1>5, <1>6, <1>7, <1>8 DEF t, n

MergesTo(f, declared, merges, n) ==
  f = [i \in 0..n |-> IF i = 0 THEN declared ELSE Q!mergePair(f[i - 1], merges[i])]

LEMMA MergeRuns ==
  ASSUME NEW d, NEW s, NEW n \in Nat
  PROVE  \E f : MergesTo(f, d, s, n)
<1> DEFINE Missing == {k \in Nat : ~ \E f : MergesTo(f, d, s, k)}
<1> SUFFICES ASSUME Missing # {} PROVE FALSE
  OBVIOUS
<1>1. PICK k \in Missing : \A l \in Missing : k <= l
  BY LeastOfSome
<1>2. CASE k = 0
  <2> DEFINE f == [i \in 0..0 |-> d]
  <2>1. MergesTo(f, d, s, 0)
    BY DEF MergesTo
  <2> QED BY <1>2, <2>1
<1>3. CASE k # 0
  <2>1. k - 1 \in Nat /\ k - 1 \notin Missing
    BY <1>1, <1>3
  <2>2. PICK g : MergesTo(g, d, s, k - 1)
    BY <2>1
  <2> DEFINE last == Q!mergePair(g[k - 1], s[k])
             f == [i \in 0..k |-> IF i < k THEN g[i] ELSE last]
  <2> HIDE DEF last
  <2>3. ASSUME NEW i \in 0..k
        PROVE  f[i] = IF i = 0 THEN d ELSE Q!mergePair(f[i - 1], s[i])
    <3>1. CASE i < k
      <4>1. i \in 0..(k - 1) /\ f[i] = g[i]
        BY <3>1, <2>1
      <4>2. i # 0 => i - 1 \in 0..k /\ i - 1 < k
        BY <4>1, <2>1
      <4>3. i # 0 => f[i - 1] = g[i - 1]
        BY <4>2
      <4>4. g[i] = IF i = 0 THEN d ELSE Q!mergePair(g[i - 1], s[i])
        BY <4>1, <2>2 DEF MergesTo
      <4> HIDE DEF f
      <4> QED BY <4>1, <4>3, <4>4
    <3>2. CASE i = k
      <4>1. f[k] = last /\ f[k - 1] = g[k - 1]
        BY <2>1, <1>3
      <4> HIDE DEF f
      <4> QED BY <4>1, <3>2, <1>3 DEF last
    <3>3. i < k \/ i = k
      BY <2>1
    <3> QED BY <3>1, <3>2, <3>3
  <2>4. MergesTo(f, d, s, k)
    <3> DEFINE all == [i \in 0..k |-> IF i = 0 THEN d ELSE Q!mergePair(f[i - 1], s[i])]
    <3>1. f = all
      BY <2>3
    <3> HIDE DEF f
    <3> QED BY <3>1 DEF MergesTo
  <2> QED BY <2>4
<1> QED BY <1>2, <1>3

\* Endpoints declared to be of one trust domain stay so, whatever is merged; and two that
\* are merged become so, and stay so.
LEMMA MergedAlike ==
  ASSUME NEW declared, NEW merges, Len(merges) \in Nat,
         NEW x \in DOMAIN declared, NEW y \in DOMAIN declared,
         declared[x] = declared[y] \/ \E i \in 1..Len(merges) : merges[i] = <<x, y>>
  PROVE  Q!mergedDomains(declared, merges)[x] = Q!mergedDomains(declared, merges)[y]
<1> DEFINE n == Len(merges)
           f == CHOOSE g : MergesTo(g, declared, merges, n)
<1>1. MergesTo(f, declared, merges, n)
  BY MergeRuns
<1>2. Q!mergedDomains(declared, merges) = f[n]
  BY DEF Q!mergedDomains, MergesTo
<1> HIDE DEF f
<1> DEFINE Both(d) == x \in DOMAIN d /\ y \in DOMAIN d
           Lost == {k \in 0..n : ~ Both(f[k])}
<1>3. /\ f[0] = declared
      /\ \A k \in 1..n : k - 1 \in 0..n /\ f[k] = Q!mergePair(f[k - 1], merges[k])
  BY <1>1 DEF MergesTo
<1>4. Lost = {}
  <2> SUFFICES ASSUME Lost # {} PROVE FALSE
    OBVIOUS
  <2>0. Lost \in SUBSET Nat
    OBVIOUS
  <2>1. PICK k \in Lost : \A l \in Lost : k <= l
    BY <2>0, LeastOfSome
  <2>2. CASE k = 0
    BY <1>3, <2>1, <2>2
  <2>3. CASE k # 0
    <3>1. k \in 1..n /\ k - 1 \in 0..n /\ k - 1 \notin Lost
      BY <2>1, <2>3
    <3>2. ASSUME NEW d, Both(d), NEW pair PROVE Both(Q!mergePair(d, pair))
      BY <3>2 DEF Q!mergePair
    <3>3. Both(f[k - 1])
      BY <3>1
    <3>4. Both(f[k])
      BY <1>3, <3>1, <3>2, <3>3
    <3> QED BY <2>1, <3>4
  <2> QED BY <2>2, <2>3
<1> DEFINE Alike(d) == Both(d) /\ d[x] = d[y]
<1>5. PICK s \in 0..n : Alike(f[s])
  <2>1. CASE declared[x] = declared[y]
    BY <1>3, <2>1
  <2>2. CASE \E i \in 1..n : merges[i] = <<x, y>>
    <3>1. PICK i \in 1..n : merges[i] = <<x, y>>
      BY <2>2
    <3>2. ASSUME NEW d, Both(d) PROVE Alike(Q!mergePair(d, <<x, y>>))
      BY <3>2 DEF Q!mergePair
    <3>3. Both(f[i - 1]) /\ f[i] = Q!mergePair(f[i - 1], <<x, y>>)
      BY <1>3, <1>4, <3>1
    <3>4. i \in 0..n /\ Alike(f[i])
      BY <3>2, <3>3
    <3> QED BY <3>4
  <2> QED BY <2>1, <2>2
<1> DEFINE Off == {k \in s..n : ~ Alike(f[k])}
<1> SUFFICES ASSUME Off # {} PROVE FALSE
  BY <1>2
<1>6. Off \in SUBSET Nat
  OBVIOUS
<1>7. PICK k \in Off : \A l \in Off : k <= l
  BY <1>6, LeastOfSome
<1>8. k # s
  BY <1>5, <1>7
<1>9. k \in 1..n /\ k - 1 \in s..n /\ k - 1 \notin Off
  BY <1>7, <1>8
<1>10. ASSUME NEW d, Alike(d), NEW pair PROVE Alike(Q!mergePair(d, pair))
  BY <1>10 DEF Q!mergePair
<1>11. Alike(f[k - 1])
  BY <1>9
<1>12. Alike(f[k])
  BY <1>3, <1>9, <1>10, <1>11
<1> QED BY <1>7, <1>12

\* A configuration: every endpoint has an id of its own, a number.
Configuration(E) ==
  /\ Len(E) \in Nat /\ DOMAIN E = 1..Len(E)
  /\ \A i \in DOMAIN E : E[i].id = i

\* A failure domain of some endpoints is a sequence of configured ones among them, and two
\* of them have neither a provider group nor a declared trust domain in common, nor does
\* any chain of shared domains, groups, credentials and hosts lead from one to the other.
PartsOf(units, chosen) ==
  /\ IsFiniteSet(ToSet(units))
  /\ \A u \in ToSet(units) :
       /\ Len(u) \in Nat /\ DOMAIN u = 1..Len(u)
       /\ \A i \in DOMAIN u : u[i] \in chosen
  /\ \A u, v \in ToSet(units) : u # v =>
       \A i \in DOMAIN u, j \in DOMAIN v :
         /\ u[i].providerGroup # v[j].providerGroup /\ u[i].trustDomain # v[j].trustDomain
         /\ ~Linked(chosen, Joint(chosen), u[i], v[j])

LEMMA UnitsOf ==
  ASSUME NEW E, Configuration(E), NEW ids, NEW chosen, chosen = {e \in ToSet(E) : e.id \in ids},
         NEW units, units = unitsOf(E, ids)
  PROVE  PartsOf(units, chosen)
<1> DEFINE eligible == Q!Keep(E, chosen)
           merges == Q!correlateEndpoints(eligible)
           declared == [id \in {e.id : e \in Q!ToSet(eligible)} |->
                          (CHOOSE e \in Q!ToSet(eligible) : e.id = id).trustDomain]
           domains == Q!mergedDomains(declared, merges)
           claims == [i \in DOMAIN eligible |-> [trustDomain |-> domains[eligible[i].id],
                                                 providerGroup |-> eligible[i].providerGroup,
                                                 item |-> eligible[i]]]
           groups == Q!independenceGroups(claims)
           W == {claims[i] : i \in DOMAIN eligible}
<1>1. units = [i \in DOMAIN groups |-> [j \in DOMAIN groups[i] |-> groups[i][j].item]]
  <2> DEFINE kept == Q!Keep(E, {e \in ToSet(E) : e.id \in ids})
  <2>1. kept = eligible
    OBVIOUS
  <2>2. units = Q!collapsedIndependenceGroups(kept, Q!correlateEndpoints(kept))
    BY DEF unitsOf
  <2> HIDE DEF kept
  <2>3. units = Q!collapsedIndependenceGroups(eligible, merges)
    BY <2>1, <2>2
  <2> QED BY <2>3 DEF Q!collapsedIndependenceGroups
<1>2. Len(E) \in Nat /\ DOMAIN E = 1..Len(E) /\ ToSet(E) = {E[i] : i \in 1..Len(E)}
  BY DEF ToSet, Configuration
<1>3. PICK p : KeptBy(p, eligible, E, chosen, Len(E))
  BY <1>2, Kept
<1>4. /\ Len(eligible) \in Nat /\ DOMAIN eligible = 1..Len(eligible)
      /\ \A i \in DOMAIN eligible : eligible[i] \in chosen
  BY <1>3 DEF KeptBy
<1>21. \A e \in chosen : \E i \in DOMAIN eligible : eligible[i] = e
  <2> SUFFICES ASSUME NEW e \in chosen PROVE \E i \in DOMAIN eligible : eligible[i] = e
    OBVIOUS
  <2>1. PICK k \in 1..Len(E) : E[k] = e
    BY <1>2
  <2>2. /\ \A k1 \in 1..Len(E) : E[k1] \in chosen => \E i \in DOMAIN eligible : p[i] = k1
        /\ \A i \in DOMAIN eligible : eligible[i] = E[p[i]]
    BY <1>3, Zenon DEF KeptBy
  <2> HIDE DEF eligible
  <2> QED BY <2>1, <2>2
<1>18. \A e, f \in chosen : e.id \in Nat /\ f.id \in Nat /\ (e.id = f.id => e = f)
  BY <1>2 DEF Configuration
<1>19. /\ Len(merges) \in Nat
       /\ \A e, f \in chosen : /\ e.id < f.id /\ e.trustDomain # f.trustDomain /\ Q!conclusive(e, f)
                              => \E i \in 1..Len(merges) : merges[i] = <<e.id, f.id>>
  <2> DEFINE all == Q!ToSet(eligible)
             Pairs == {q \in all \X all : /\ q[1].id < q[2].id
                                      /\ q[1].trustDomain # q[2].trustDomain
                                      /\ Q!conclusive(q[1], q[2])}
             named == [q \in Pairs |-> <<q[1].id, q[2].id>>]
             S == {<<q[1].id, q[2].id>> : q \in Pairs}
  <2>1. IsFiniteSet(all)
    <3> DEFINE at == [k \in 1..Len(eligible) |-> eligible[k]]
    <3>1. (\A k \in 1..Len(eligible) : at[k] \in all) /\ \A e \in all : \E k \in 1..Len(eligible) : e = at[k]
      BY <1>4 DEF Q!ToSet
    <3>2. IsFiniteSet(1..Len(eligible))
      BY <1>4, FS_Interval
    <3> HIDE DEF at, all
    <3> QED BY <3>1, <3>2, Mapped
  <2> HIDE DEF all
  <2>2. IsFiniteSet(Pairs)
    <3>1. IsFiniteSet(all \X all)
      BY <2>1, FS_Product
    <3> QED BY <3>1, FS_Subset
  <2>3. (\A q \in Pairs : named[q] \in S) /\ \A y \in S : \E q \in Pairs : y = named[q]
    OBVIOUS
  <2>4. merges = Q!SetToSeq(S)
    BY DEF Q!correlateEndpoints, all
  <2>6. ASSUME NEW e \in chosen, NEW f \in chosen, e.id < f.id, e.trustDomain # f.trustDomain,
               Q!conclusive(e, f)
        PROVE  <<e.id, f.id>> \in S
    <3>1. e \in all /\ f \in all
      <4>1. all = {eligible[i] : i \in DOMAIN eligible}
        BY DEF Q!ToSet, all
      <4> HIDE DEF all, eligible
      <4> QED BY <1>21, <4>1
    <3>2. <<e, f>> \in Pairs
      <4> HIDE DEF all
      <4> QED BY <2>6, <3>1
    <3>3. named[<<e, f>>] = <<e.id, f.id>>
      <4> HIDE DEF Pairs
      <4> QED BY <3>2
    <3> HIDE DEF Pairs, named
    <3> QED BY <2>3, <3>2, <3>3
  <2> HIDE DEF Pairs, named, S, merges
  <2>5. IsFiniteSet(S)
    BY <2>2, <2>3, Mapped
  <2>7. Len(merges) = Cardinality(S) /\ Cardinality(S) \in Nat
        /\ \A x \in S : \E i \in 1..Cardinality(S) : merges[i] = x
    BY <2>4, <2>5, ListedOnce
  <2> QED BY <2>6, <2>7
<1>20. ASSUME NEW e \in chosen, NEW f \in chosen, e.trustDomain = f.trustDomain \/ Q!conclusive(e, f)
       PROVE  domains[e.id] = domains[f.id]
  <2>1. e \in Q!ToSet(eligible) /\ f \in Q!ToSet(eligible) /\ Q!ToSet(eligible) \subseteq chosen
    <3>1. Q!ToSet(eligible) = {eligible[i] : i \in DOMAIN eligible}
      BY DEF Q!ToSet
    <3> HIDE DEF eligible
    <3> QED BY <1>4, <1>21, <3>1
  <2> HIDE DEF eligible, merges
  <2>2. e.id \in DOMAIN declared /\ f.id \in DOMAIN declared
    BY <2>1
  <2>3. declared[e.id] = e.trustDomain /\ declared[f.id] = f.trustDomain
    <3>1. \A x \in Q!ToSet(eligible) : (x.id = e.id => x = e) /\ (x.id = f.id => x = f)
      BY <1>18, <2>1
    <3>2. (CHOOSE x \in Q!ToSet(eligible) : x.id = e.id) = e /\ (CHOOSE x \in Q!ToSet(eligible) : x.id = f.id) = f
      BY <2>1, <3>1
    <3> QED BY <2>1, <3>2
  <2> HIDE DEF declared
  <2>4. CASE e.trustDomain = f.trustDomain
    BY <1>19, <2>2, <2>3, <2>4, MergedAlike
  <2>5. CASE e.trustDomain # f.trustDomain
    <3>1. Q!conclusive(e, f) /\ Q!conclusive(f, e)
      BY <1>20, <2>5 DEF Q!conclusive
    <3>2. e.id \in Nat /\ f.id \in Nat /\ e.id # f.id
      BY <1>18, <2>5
    <3>3. CASE e.id < f.id
      <4>1. \E i \in 1..Len(merges) : merges[i] = <<e.id, f.id>>
        BY <1>19, <2>5, <3>1, <3>3
      <4> QED BY <1>19, <2>2, <4>1, MergedAlike
    <3>4. CASE f.id < e.id
      <4>1. \E i \in 1..Len(merges) : merges[i] = <<f.id, e.id>>
        BY <1>19, <2>5, <3>1, <3>4
      <4> QED BY <1>19, <2>2, <4>1, MergedAlike
    <3>5. e.id < f.id \/ f.id < e.id
      BY <3>2
    <3> QED BY <3>3, <3>4, <3>5
  <2> QED BY <2>4, <2>5
<1> HIDE DEF eligible, merges, domains
<1>5. /\ Len(claims) = Len(eligible) /\ \A i \in 1..Len(claims) : claims[i] \in W
      /\ W = {claims[i] : i \in 1..Len(claims)}
  BY <1>4
<1>22. \A e \in chosen : \E w \in W : /\ w.providerGroup = e.providerGroup
                                       /\ w.trustDomain = domains[e.id]
  <2> SUFFICES ASSUME NEW e \in chosen
               PROVE  \E w \in W : w.providerGroup = e.providerGroup /\ w.trustDomain = domains[e.id]
    OBVIOUS
  <2>1. PICK i \in DOMAIN eligible : eligible[i] = e
    BY <1>21
  <2>2. claims[i] \in W /\ claims[i].providerGroup = e.providerGroup /\ claims[i].trustDomain = domains[e.id]
    BY <2>1
  <2> QED BY <2>2
<1>6. \A w \in W : /\ w.item \in chosen /\ w.providerGroup = w.item.providerGroup
                   /\ w.trustDomain = domains[w.item.id] /\ \E i \in DOMAIN eligible : w.item = eligible[i]
  BY <1>4
<1> HIDE DEF claims, W
<1>7. PICK c : GroupedBy(W, c, W, groups)
  <2>1. Len(claims) \in Nat
    BY <1>4, <1>5
  <2> QED BY <1>5, <2>1, GroupsSeparate
<1>8. PICK n \in Nat : /\ Separate(W, c, n) /\ DOMAIN groups = 1..n
                       /\ \A w \in W : Placed(c, n, w)
                       /\ \A i \in 1..n : groups[i] = c[i].items
  BY <1>7 DEF GroupedBy
<1>9. /\ \A i \in 1..n : c[i].items \in Seq(Own(W, c[i]))
      /\ \A i, j \in 1..n : i # j =>
           c[i].providers \cap c[j].providers = {} /\ c[i].domains \cap c[j].domains = {}
  BY <1>8, Zenon DEF Separate
<1> HIDE DEF groups
<1>10. DOMAIN groups = 1..n /\ \A i \in 1..n : groups[i] = c[i].items
  BY <1>8
<1>11. ASSUME NEW i \in 1..n
       PROVE  /\ Len(groups[i]) \in Nat /\ DOMAIN groups[i] = 1..Len(groups[i])
              /\ \A j \in DOMAIN groups[i] :
                   /\ groups[i][j] \in W /\ groups[i][j].providerGroup \in c[i].providers
                   /\ groups[i][j].trustDomain \in c[i].domains
  <2>1. groups[i] \in Seq(Own(W, c[i]))
    BY <1>9, <1>10
  <2>2. \A w \in Own(W, c[i]) : w \in W /\ w.providerGroup \in c[i].providers /\ w.trustDomain \in c[i].domains
    BY DEF Own
  <2> QED BY <2>1, <2>2
<1>12. ASSUME NEW i \in 1..n
       PROVE  /\ Len(units[i]) \in Nat /\ DOMAIN units[i] = 1..Len(units[i])
              /\ \A j \in DOMAIN units[i] :
                   /\ units[i][j] \in chosen /\ units[i][j].providerGroup \in c[i].providers
                   /\ domains[units[i][j].id] \in c[i].domains
                   /\ \E k \in DOMAIN eligible : units[i][j] = eligible[k]
  <2> DEFINE u == [j \in DOMAIN groups[i] |-> groups[i][j].item]
  <2>1. units[i] = u
    BY <1>1, <1>10
  <2>2. Len(u) = Len(groups[i]) /\ DOMAIN u = 1..Len(groups[i])
    BY <1>11
  <2>3. \A j \in DOMAIN u : /\ u[j] \in chosen /\ u[j].providerGroup \in c[i].providers
                             /\ domains[u[j].id] \in c[i].domains
                             /\ \E k \in DOMAIN eligible : u[j] = eligible[k]
    BY <1>6, <1>11
  <2> HIDE DEF u
  <2> QED BY <1>11, <2>1, <2>2, <2>3
<1>13. DOMAIN units = 1..n
  BY <1>1, <1>10
<1>14. ToSet(units) = {units[i] : i \in 1..n}
  BY <1>13 DEF ToSet
<1>15. IsFiniteSet({units[i] : i \in 1..n})
  <2> DEFINE f == [i \in 1..n |-> units[i]]
             S == {units[i] : i \in 1..n}
  <2>1. f \in Surjection(1..n, S)
    BY DEF Surjection
  <2>2. IsFiniteSet(1..n)
    BY FS_Interval
  <2> HIDE DEF f, S
  <2>3. IsFiniteSet(S)
    BY <2>1, <2>2, FS_Surjection
  <2> QED BY <2>3 DEF S
<1>16. ASSUME NEW u \in ToSet(units)
       PROVE  /\ Len(u) \in Nat /\ DOMAIN u = 1..Len(u)
              /\ \A i \in DOMAIN u : u[i] \in chosen
  BY <1>12, <1>14
<1> DEFINE Part(k) == {e \in chosen : domains[e.id] \in c[k].domains /\ e.providerGroup \in c[k].providers}
<1>23. ASSUME NEW k \in 1..n, NEW x \in Part(k), NEW y \in chosen, <<x, y>> \in Joint(chosen)
       PROVE  y \in Part(k)
  <2>1. PICK m \in 1..n : domains[y.id] \in c[m].domains /\ y.providerGroup \in c[m].providers
    BY <1>8, <1>22 DEF Placed
  <2>2. Shares(x, y) \/ Q!conclusive(x, y)
    BY <1>23 DEF Joint
  <2>3. domains[x.id] = domains[y.id] \/ x.providerGroup = y.providerGroup
    BY <1>20, <2>2 DEF Shares
  <2>4. c[k].domains \cap c[m].domains # {} \/ c[k].providers \cap c[m].providers # {}
    BY <2>1, <2>3
  <2>5. k = m
    BY <1>9, <2>4
  <2> QED BY <2>1, <2>5
<1>17. ASSUME NEW u \in ToSet(units), NEW v \in ToSet(units), u # v,
              NEW i \in DOMAIN u, NEW j \in DOMAIN v
       PROVE  /\ u[i].providerGroup # v[j].providerGroup /\ u[i].trustDomain # v[j].trustDomain
              /\ ~Linked(chosen, Joint(chosen), u[i], v[j])
  <2>1. PICK k \in 1..n : u = units[k]
    BY <1>14
  <2>2. PICK l \in 1..n : v = units[l]
    BY <1>14
  <2>3. k # l
    BY <1>17, <2>1, <2>2
  <2>4. u[i] \in Part(k) /\ v[j] \in Part(l)
    BY <1>12, <2>1, <2>2
  <2>5. c[k].domains \cap c[l].domains = {} /\ c[k].providers \cap c[l].providers = {}
    BY <1>9, <2>3
  <2>6. u[i].providerGroup # v[j].providerGroup /\ domains[u[i].id] # domains[v[j].id]
    BY <2>4, <2>5
  <2>7. u[i].trustDomain # v[j].trustDomain
    BY <1>20, <2>4, <2>6
  <2>8. v[j] \notin Part(k)
    BY <2>4, <2>5
  <2>9. /\ Part(k) \in SUBSET chosen /\ u[i] \in Part(k) /\ v[j] \notin Part(k)
        /\ \A x \in Part(k), y \in chosen : <<x, y>> \in Joint(chosen) => y \in Part(k)
    BY <1>23, <2>4, <2>8
  <2>10. ~Linked(chosen, Joint(chosen), u[i], v[j])
    <3> HIDE DEF Part
    <3> QED BY <2>9 DEF Linked
  <2> QED BY <2>6, <2>7, <2>10
<1> QED BY <1>14, <1>15, <1>16, <1>17 DEF PartsOf

\* The same of this collection's endpoints.
LEMMA UnitsAre ==
  ASSUME NEW ids \in SUBSET DOMAIN Endpoints
  PROVE  /\ IsFiniteSet(ToSet(unitsAmong[ids]))
         /\ \A u \in ToSet(unitsAmong[ids]) :
              /\ Len(u) \in Nat /\ DOMAIN u = 1..Len(u)
              /\ \A i \in DOMAIN u : u[i] \in ToSet(Endpoints) /\ u[i].id \in ids
         /\ \A u, v \in ToSet(unitsAmong[ids]) : u # v =>
              \A i \in DOMAIN u, j \in DOMAIN v :
                u[i].providerGroup # v[j].providerGroup /\ u[i].trustDomain # v[j].trustDomain
<1>1. Configuration(Endpoints)
  BY EndpointsAssumption DEF Configuration
<1>2. unitsAmong[ids] = unitsOf(Endpoints, ids)
  BY DEF unitsAmong
<1> SUFFICES ASSUME NEW units, units = unitsOf(Endpoints, ids),
                    NEW chosen, chosen = {e \in ToSet(Endpoints) : e.id \in ids}
             PROVE  /\ IsFiniteSet(ToSet(units))
                    /\ \A u \in ToSet(units) :
                         /\ Len(u) \in Nat /\ DOMAIN u = 1..Len(u)
                         /\ \A i \in DOMAIN u : u[i] \in ToSet(Endpoints) /\ u[i].id \in ids
                    /\ \A u, v \in ToSet(units) : u # v =>
                         \A i \in DOMAIN u, j \in DOMAIN v :
                           u[i].providerGroup # v[j].providerGroup /\ u[i].trustDomain # v[j].trustDomain
  BY <1>2
<1>3. \A e \in chosen : e \in ToSet(Endpoints) /\ e.id \in ids
  OBVIOUS
<1>4. PartsOf(units, chosen)
  BY <1>1, UnitsOf
<1>5. \A u \in ToSet(units) : /\ Len(u) \in Nat /\ DOMAIN u = 1..Len(u)
                              /\ \A i \in DOMAIN u : u[i] \in ToSet(Endpoints) /\ u[i].id \in ids
  BY <1>3, <1>4 DEF PartsOf
<1>6. ASSUME NEW u \in ToSet(units), NEW v \in ToSet(units), u # v,
             NEW i \in DOMAIN u, NEW j \in DOMAIN v
      PROVE  u[i].providerGroup # v[j].providerGroup /\ u[i].trustDomain # v[j].trustDomain
  BY <1>4, <1>6 DEF PartsOf
<1>7. IsFiniteSet(ToSet(units))
  BY <1>4 DEF PartsOf
<1> QED BY <1>5, <1>6, <1>7

---------------------------------------------------------------------------
\* The truth of a reading.

LEMMA OnlyOne ==
  ASSUME NEW S, IsFiniteSet(S), ~ (Cardinality(S) > 1), NEW x \in S, NEW y \in S
  PROVE  x = y
<1> SUFFICES ASSUME x # y PROVE FALSE
  OBVIOUS
<1>1. IsFiniteSet({x}) /\ Cardinality({x}) = 1
  BY FS_Singleton
<1>2. IsFiniteSet({x} \cup {y}) /\ Cardinality({x} \cup {y}) = 2
  <2>1. y \notin {x}
    OBVIOUS
  <2>2. Cardinality({x} \cup {y}) = 1 + 1
    BY <1>1, <2>1, FS_AddElement
  <2> QED BY <1>1, <2>2, FS_AddElement
<1>3. {x} \cup {y} \in SUBSET S
  OBVIOUS
<1>4. Cardinality({x} \cup {y}) <= Cardinality(S) /\ Cardinality(S) \in Nat
  BY <1>3, FS_Subset, FS_CardinalityType
<1> QED BY <1>2, <1>4

LEMMA PinHolds ==
  ASSUME NEW log \in Seq(Events), NEW behaviour \in [DOMAIN Endpoints -> Behaviours]
  PROVE  choosePin(log, behaviour).height \in 0..Len(log) /\ choosePin(log, behaviour).hash \in Hashes
<1> DEFINE answering == {i \in DOMAIN Endpoints : behaviour[i] # "down"}
           heights   == {offered(behaviour[i], log) : i \in answering}
           height    == CHOOSE h \in heights : \A k \in heights : h <= k
           first     == CHOOSE i \in answering : \A j \in answering : i <= j
<1>1. Len(log) \in Nat
  OBVIOUS
<1>2. \A b : offered(b, log) \in 0..Len(log)
  BY <1>1 DEF offered, finalizedOf, headOf, Below
<1>3. CASE answering = {}
  <2>1. choosePin(log, behaviour) = NoPin
    BY <1>3, Zenon DEF choosePin
  <2> QED BY <1>1, <2>1 DEF NoPin, Hashes
<1>4. CASE answering # {}
  <2>1. heights # {} /\ heights \in SUBSET Nat /\ heights \subseteq 0..Len(log)
    BY <1>1, <1>2, <1>4
  <2> HIDE DEF heights
  <2>2. height \in heights
    BY <2>1, LeastOfSome
  <2>3. choosePin(log, behaviour) = [height |-> height, hash |-> hashAt(behaviour[first], log, height)]
    BY <1>4 DEF choosePin, heights
  <2>4. \A b, h : hashAt(b, log, h) \in Hashes
    BY DEF hashAt, Hashes
  <2> HIDE DEF height, first
  <2> QED BY <2>1, <2>2, <2>3, <2>4
<1> QED BY <1>3, <1>4

Balanced(side, prefix) ==
  IF side = "home" THEN homeQueries(prefix, 0) ELSE remoteQueries(prefix, 0)

\* What a side reads when no lie is believed.
Honest(side, r, log) ==
  /\ r.log = Prefix(log, r.pin.height) /\ r.first = 0
  /\ r.calls = Balanced(side, Prefix(log, r.pin.height))

LEMMA ReadTruly ==
  ASSUME NEW side, NEW b \in Behaviours \ Lies, NEW log \in Seq(Events), NEW pin,
         pin.height \in 0..Len(log), readChain(side, b, log, pin).ok
  PROVE  /\ readChain(side, b, log, pin).value.pin = pin
         /\ Honest(side, readChain(side, b, log, pin).value, log)
<1> DEFINE prefix == Prefix(log, pin.height)
           read == readChain(side, b, log, pin)
           calls == IF side = "home" THEN homeQueries(prefix, 0) ELSE remoteQueries(prefix, 0)
<1>1. Len(prefix) = pin.height
  BY PrefixIs
<1>2. b # "pruned" /\ b # "skewed"
  BY DEF Lies
<1> HIDE DEF prefix
<1>3. CASE Len(prefix) > MaxLogs
  <2>1. read = [ok |-> FALSE, bounded |-> TRUE]
    BY <1>2, <1>3 DEF readChain, prefix
  <2> QED BY <2>1
<1>4. CASE ~ (Len(prefix) > MaxLogs)
  <2>1. read = [ok |-> TRUE, bounded |-> FALSE,
                value |-> [pin |-> pin, log |-> prefix, first |-> pin.height - Len(prefix), calls |-> calls]]
    BY <1>2, <1>4 DEF readChain, prefix
  <2>2. pin.height - Len(prefix) = 0
    BY <1>1
  <2>3. calls = Balanced(side, prefix)
    BY DEF Balanced
  <2> HIDE DEF read, calls
  <2>4. /\ read.value.pin = pin /\ read.value.log = prefix /\ read.value.first = 0
        /\ read.value.calls = Balanced(side, prefix)
    BY <2>1, <2>2, <2>3
  <2> QED BY <2>4 DEF Honest, prefix, read
<1> QED BY <1>3, <1>4

\* What a side reads however many lie: the blocks after some block, up to the pin, and the
\* balances at the pin or one token more.
Queried(side, prefix, skew) ==
  IF side = "home" THEN homeQueries(prefix, skew) ELSE remoteQueries(prefix, skew)

Roughly(side, r, log) ==
  /\ r.first \in 0..r.pin.height /\ DOMAIN r.log = 1..(r.pin.height - r.first)
  /\ \A i \in DOMAIN r.log : r.log[i] = Prefix(log, r.pin.height)[r.first + i]
  /\ \E skew \in {0, 1} : r.calls = Queried(side, Prefix(log, r.pin.height), skew)

LEMMA ReadRoughly ==
  ASSUME NEW side, NEW b, NEW log \in Seq(Events), NEW pin,
         pin.height \in 0..Len(log), readChain(side, b, log, pin).ok
  PROVE  /\ readChain(side, b, log, pin).value.pin = pin
         /\ Roughly(side, readChain(side, b, log, pin).value, log)
<1> DEFINE prefix == Prefix(log, pin.height)
           seen == IF b = "pruned" /\ prefix # <<>> THEN Tail(prefix) ELSE prefix
           skew == IF b = "skewed" THEN 1 ELSE 0
           read == readChain(side, b, log, pin)
           calls == IF side = "home" THEN homeQueries(prefix, skew) ELSE remoteQueries(prefix, skew)
<1>1. /\ Len(prefix) = pin.height /\ DOMAIN prefix = 1..pin.height /\ prefix \in Seq(Events)
      /\ pin.height \in Nat
  BY PrefixIs
<1>2. ~ (Len(seen) > MaxLogs)
  <2>1. Len(seen) > MaxLogs => read = [ok |-> FALSE, bounded |-> TRUE]
    BY Zenon DEF readChain
  <2> QED BY <2>1
<1>3. read.value.pin = pin /\ read.value.log = seen /\ read.value.first = pin.height - Len(seen)
      /\ read.value.calls = calls
  <2>1. read = [ok |-> TRUE, bounded |-> FALSE,
                value |-> [pin |-> pin, log |-> seen, first |-> pin.height - Len(seen), calls |-> calls]]
    BY <1>2, Zenon DEF readChain
  <2> HIDE DEF read, calls, seen
  <2> QED BY <2>1
<1>4. calls = Queried(side, prefix, skew) /\ skew \in {0, 1}
  BY DEF Queried
<1>5. /\ Len(seen) \in 0..pin.height /\ DOMAIN seen = 1..Len(seen)
      /\ \A i \in 1..Len(seen) : seen[i] = prefix[pin.height - Len(seen) + i]
  <2> HIDE DEF prefix
  <2>1. CASE b = "pruned" /\ prefix # <<>>
    <3>1. pin.height # 0
      BY <1>1, <2>1
    <3>2. seen = Tail(prefix) /\ Len(seen) = pin.height - 1 /\ DOMAIN seen = 1..(pin.height - 1)
          /\ \A i \in 1..(pin.height - 1) : seen[i] = prefix[i + 1]
      BY <1>1, <2>1, <3>1
    <3> HIDE DEF seen
    <3> QED BY <1>1, <3>1, <3>2
  <2>2. CASE ~ (b = "pruned" /\ prefix # <<>>)
    <3>1. seen = prefix
      BY <2>2
    <3> HIDE DEF seen
    <3> QED BY <1>1, <3>1
  <2> QED BY <2>1, <2>2
<1> HIDE DEF prefix, seen, skew, read, calls
<1>6. /\ pin.height - Len(seen) \in 0..pin.height
      /\ DOMAIN seen = 1..(pin.height - (pin.height - Len(seen)))
  BY <1>1, <1>5
<1>7. Roughly(side, read.value, log)
  BY <1>3, <1>4, <1>5, <1>6 DEF Roughly, prefix
<1> QED BY <1>3, <1>7 DEF read

LEMMA ReadPin ==
  ASSUME NEW side, NEW b, NEW log, NEW pin, readChain(side, b, log, pin).ok
  PROVE  readChain(side, b, log, pin).value.pin = pin
BY DEF readChain

\* An agreed side was read at a final pin its chain has, by Required witnesses no two of
\* which share a provider group or a trust domain, and truly when fewer failure domains
\* than that lied.
Witnessed(r) ==
  /\ IsFiniteSet(r.witnesses) /\ Cardinality(r.witnesses) >= Required
  /\ r.witnesses \subseteq ToSet(Endpoints)
  /\ \A e, f \in r.witnesses : e # f =>
       e.providerGroup # f.providerGroup /\ e.trustDomain # f.trustDomain

AtPin(r, log) ==
  /\ r.pin.height \in 0..Len(log) /\ r.pin.hash \in Hashes
  /\ finalityBasisStands(Mode, r.pin.height)
  /\ r = [ok |-> TRUE, witnesses |-> r.witnesses, pin |-> r.pin, log |-> r.log, first |-> r.first,
          calls |-> r.calls]

\* One pass of CollectSide.
Collects(side, log, behaviour, pin, units, read, readings, bounded, r) ==
  /\ pin = choosePin(log, behaviour)
  /\ units = eligibleUnits(log, behaviour, pin)
  /\ \A i \in DOMAIN Endpoints : read[i] = readChain(side, behaviour[i], log, pin)
  /\ readings = readingsOf(units, read)
  /\ r = collectSide(pin, readings, bounded)

LEMMA CollectedSide ==
  ASSUME NEW side, NEW log \in Seq(Events), NEW behaviour \in [DOMAIN Endpoints -> Behaviours],
         NEW pin, NEW units, NEW read, NEW readings, NEW bounded, NEW r,
         Collects(side, log, behaviour, pin, units, read, readings, bounded, r)
  PROVE  /\ r.ok \in BOOLEAN
         /\ r.ok => /\ Witnessed(r) /\ AtPin(r, log) /\ Roughly(side, r, log)
                    /\ ~ (Cardinality(LyingDomains(units, behaviour)) >= Required) => Honest(side, r, log)
<1>0. /\ pin = choosePin(log, behaviour)
      /\ units = eligibleUnits(log, behaviour, pin)
      /\ \A i \in DOMAIN Endpoints : read[i] = readChain(side, behaviour[i], log, pin)
      /\ readings = readingsOf(units, read)
      /\ r = collectSide(pin, readings, bounded)
  BY DEF Collects
<1> DEFINE agreed == agreeOnReadings(readings)
           any == (CHOOSE x \in readings : TRUE).value
           full == [ok |-> TRUE, witnesses |-> {x.witness : x \in readings},
                    pin |-> any.pin, log |-> any.log, first |-> any.first, calls |-> any.calls]
<1>1. CASE pin = NoPin \/ agreed # "agreed"
  <2>1. r.ok = FALSE
    BY <1>0, <1>1 DEF collectSide, Refusal
  <2> QED BY <2>1
<1>2. CASE pin # NoPin /\ agreed = "agreed"
  <2>1. r = full
    BY <1>0, <1>2, Zenon DEF collectSide
  <2>2. /\ ~ (Cardinality({x.value : x \in readings}) > 1)
        /\ ~ (Cardinality(readings) < Required)
    BY <1>2 DEF agreeOnReadings
  <2>3. r.ok /\ r.witnesses = {x.witness : x \in readings}
        /\ r.pin = any.pin /\ r.log = any.log /\ r.first = any.first /\ r.calls = any.calls
    <3> HIDE DEF any
    <3> QED BY <2>1
  <2>19. r = [ok |-> TRUE, witnesses |-> r.witnesses, pin |-> r.pin, log |-> r.log, first |-> r.first,
              calls |-> r.calls]
    <3> DEFINE w == {x.witness : x \in readings}
    <3> HIDE DEF any, w
    <3> QED BY <2>1, <2>3 DEF w
  <2> HIDE DEF agreed, full
  <2> DEFINE ids == {i \in DOMAIN Endpoints : probeDeployment(behaviour[i], log, pin)}
  <2>4. units = unitsAmong[ids] /\ ids \in SUBSET DOMAIN Endpoints
    BY <1>0 DEF eligibleUnits
  <2> HIDE DEF ids
  <2> DEFINE Answering(u) == {i \in DOMAIN u : read[u[i].id].ok}
             first(u) == u[CHOOSE i \in Answering(u) : \A j \in Answering(u) : i <= j]
             answering == {u \in ToSet(units) : Answering(u) # {}}
             gives == [u \in answering |-> [witness |-> first(u), value |-> read[first(u).id].value]]
  <2>5. readings = {gives[u] : u \in answering}
    BY <1>0 DEF readingsOf
  <2>6. \A u \in answering : gives[u].witness = first(u) /\ gives[u].value = read[first(u).id].value
    OBVIOUS
  <2>7. IsFiniteSet(answering) /\ answering \subseteq ToSet(units)
    BY <2>4, UnitsAre, FS_Subset
  <2>8. ASSUME NEW u \in answering
        PROVE  \E i \in DOMAIN u : first(u) = u[i] /\ read[u[i].id].ok
    <3>1. DOMAIN u = 1..Len(u) /\ Len(u) \in Nat
      BY <2>4, <2>7, UnitsAre
    <3>2. Answering(u) # {} /\ Answering(u) \in SUBSET Nat
      BY <3>1
    <3> DEFINE answers == Answering(u)
               least == CHOOSE i \in answers : \A j \in answers : i <= j
    <3>3. first(u) = u[least]
      OBVIOUS
    <3>4. answers # {} /\ answers \in SUBSET Nat /\ \A i \in answers : i \in DOMAIN u /\ read[u[i].id].ok
      BY <3>2
    <3> HIDE DEF answers
    <3>5. least \in answers
      BY <3>4, LeastOfSome
    <3> HIDE DEF least, first
    <3> QED BY <3>3, <3>4, <3>5
  <2>9. ASSUME NEW u \in answering
        PROVE  /\ first(u) \in ToSet(Endpoints) /\ first(u).id \in DOMAIN Endpoints
               /\ read[first(u).id].ok
               /\ read[first(u).id] = readChain(side, behaviour[first(u).id], log, pin)
               /\ \E i \in DOMAIN u : first(u) = u[i]
    <3> HIDE DEF first, answering
    <3>1. PICK i \in DOMAIN u : first(u) = u[i] /\ read[u[i].id].ok
      BY <2>8
    <3>2. u[i] \in ToSet(Endpoints) /\ u[i].id \in DOMAIN Endpoints
      BY <2>4, <2>7, UnitsAre
    <3> QED BY <1>0, <3>1, <3>2
  <2> HIDE DEF gives, first, answering
  <2>10. IsFiniteSet(readings) /\ Cardinality(readings) <= Cardinality(answering)
    <3>1. (\A x \in answering : gives[x] \in readings) /\ \A y \in readings : \E x \in answering : y = gives[x]
      BY <2>5
    <3> QED BY <2>7, <3>1, Mapped
  <2>11. Cardinality(readings) \in Nat /\ Cardinality(readings) >= Required /\ readings # {}
    <3>1. Required \in Nat /\ Required >= 2 /\ Cardinality(readings) \in Nat
      BY <2>10, FS_CardinalityType, EndpointsAssumption
    <3>2. Cardinality(readings) # 0
      BY <2>2, <3>1
    <3>3. readings # {}
      BY <3>2, FS_EmptySet
    <3> DEFINE c == Cardinality(readings)
    <3>4. c \in Nat /\ ~ (c < Required) => c >= Required
      BY <3>1
    <3> HIDE DEF c
    <3>5. c \in Nat /\ ~ (c < Required)
      BY <2>2, <3>1 DEF c
    <3> QED BY <3>3, <3>4, <3>5 DEF c
  <2>12. \A x \in readings : x.value = any
    <3> DEFINE values == {x.value : x \in readings}
               valueOf == [x \in readings |-> x.value]
    <3>1. (\A x \in readings : valueOf[x] \in values) /\ \A y \in values : \E x \in readings : y = valueOf[x]
      OBVIOUS
    <3>2. IsFiniteSet(values)
      <4> HIDE DEF values, valueOf
      <4> QED BY <3>1, <2>10, Mapped
    <3>3. any \in values
      BY <2>11
    <3>4. \A x \in readings : x.value \in values
      OBVIOUS
    <3>5. ~ (Cardinality(values) > 1)
      BY <2>2
    <3> HIDE DEF values, any
    <3> QED BY <3>2, <3>3, <3>4, <3>5, OnlyOne
  <2> HIDE DEF any
  <2>13. \A x \in readings : \E u \in answering : x = gives[u] /\ x.witness = first(u)
    BY <2>5, <2>6
  <2>14. any.pin = pin
    <3>1. PICK u \in answering : gives[u] \in readings
      BY <2>5, <2>11
    <3>2. any = read[first(u).id].value
      BY <2>6, <2>12, <3>1
    <3> QED BY <2>9, <3>2, ReadPin
  <2>15. AtPin(r, log)
    <3>1. finalityBasisStands(Mode, pin.height)
      <4>1. PICK u \in answering : gives[u] \in readings
        BY <2>5, <2>11
      <4>2. PICK i \in DOMAIN u : first(u) = u[i]
        BY <2>9
      <4>3. u[i].id \in ids
        BY <2>4, <2>7, UnitsAre
      <4> QED BY <4>3 DEF ids, probeDeployment
    <3> QED BY <1>0, <2>3, <2>14, <2>19, <3>1, PinHolds DEF AtPin
  <2>16. IsFiniteSet(r.witnesses) /\ Cardinality(r.witnesses) >= Required
    <3> DEFINE witnessOf == [x \in readings |-> x.witness]
               readingBy == [w \in r.witnesses |-> [witness |-> w, value |-> any]]
    <3>1. /\ \A x \in readings : witnessOf[x] \in r.witnesses
          /\ \A y \in r.witnesses : \E x \in readings : y = witnessOf[x]
      BY <2>3
    <3>2. IsFiniteSet(r.witnesses)
      <4> HIDE DEF witnessOf
      <4> QED BY <2>10, <3>1, Mapped
    <3>3. \A x \in readings : x = [witness |-> x.witness, value |-> x.value]
      <4>1. \A u \in answering : gives[u] = [witness |-> first(u), value |-> read[first(u).id].value]
        BY DEF gives
      <4> QED BY <2>5, <4>1
    <3>4. /\ \A w \in r.witnesses : readingBy[w] \in readings
          /\ \A x \in readings : \E w \in r.witnesses : x = readingBy[w]
      <4>1. \A x \in readings : x.witness \in r.witnesses /\ readingBy[x.witness] = x
        BY <2>3, <2>12, <3>3
      <4>2. \A w \in r.witnesses : \E x \in readings : x.witness = w
        BY <2>3
      <4> HIDE DEF readingBy
      <4>3. \A w \in r.witnesses : readingBy[w] \in readings
        BY <4>1, <4>2
      <4> QED BY <4>1, <4>3
    <3> HIDE DEF readingBy
    <3>5. Cardinality(readings) <= Cardinality(r.witnesses)
      BY <3>2, <3>4, Mapped
    <3> QED BY <2>11, <3>2, <3>5, FS_CardinalityType, EndpointsAssumption
  <2>17. Witnessed(r)
    <3>1. \A e \in r.witnesses : \E u \in answering : e = first(u)
      BY <2>3, <2>13
    <3>2. \A u, v \in answering : u # v =>
            /\ first(u).providerGroup # first(v).providerGroup
            /\ first(u).trustDomain # first(v).trustDomain
      BY <2>4, <2>7, <2>9, UnitsAre
    <3>3. \A e, f \in r.witnesses : e # f =>
            e.providerGroup # f.providerGroup /\ e.trustDomain # f.trustDomain
      BY <3>1, <3>2
    <3>4. r.witnesses \subseteq ToSet(Endpoints)
      BY <2>9, <3>1
    <3> QED BY <2>16, <3>3, <3>4 DEF Witnessed
  <2>18. ASSUME ~ (Cardinality(LyingDomains(units, behaviour)) >= Required)
         PROVE  Honest(side, r, log)
    <3> DEFINE lying == LyingDomains(units, behaviour)
    <3>1. PICK u \in answering : u \notin lying
      <4> SUFFICES ASSUME answering \subseteq lying PROVE FALSE
        OBVIOUS
      <4>1. IsFiniteSet(lying)
        BY <2>4, UnitsAre, FS_Subset DEF LyingDomains
      <4> HIDE DEF lying
      <4>2. Cardinality(answering) <= Cardinality(lying) /\ Cardinality(lying) \in Nat /\ Cardinality(answering) \in Nat
        BY <2>7, <4>1, FS_Subset, FS_CardinalityType
      <4> QED BY <2>10, <2>11, <2>18, <4>2, EndpointsAssumption DEF lying
    <3>2. behaviour[first(u).id] \in Behaviours \ Lies
      <4>1. first(u) \in ToSet(u)
        BY <2>9 DEF ToSet
      <4>2. behaviour[first(u).id] \notin Lies
        BY <3>1, <4>1, <2>7 DEF LyingDomains
      <4> QED BY <2>9, <4>2
    <3>3. any = read[first(u).id].value
      <4>1. gives[u] \in readings
        BY <2>5
      <4> QED BY <2>6, <2>12, <4>1
    <3>4. pin.height \in 0..Len(log)
      BY <1>0, PinHolds
    <3>5. Honest(side, any, log)
      BY <2>9, <3>2, <3>3, <3>4, ReadTruly
    <3> QED BY <2>3, <3>5 DEF Honest
  <2>20. Roughly(side, r, log)
    <3>1. PICK u \in answering : gives[u] \in readings
      BY <2>5, <2>11
    <3>2. any = read[first(u).id].value
      BY <2>6, <2>12, <3>1
    <3>3. pin.height \in 0..Len(log)
      BY <1>0, PinHolds
    <3>4. Roughly(side, any, log)
      BY <2>9, <3>2, <3>3, ReadRoughly
    <3> QED BY <2>3, <3>4 DEF Roughly
  <2> QED BY <2>3, <2>15, <2>17, <2>18, <2>20
<1> QED BY <1>1, <1>2

---------------------------------------------------------------------------
\* The inductive invariant.

BundleOf(s, c) ==
  LET route == assessRoute(s)
      in    == proofInput(s, route, c.ages, c.expected)
  IN  buildBundle(bundleCore(s, route, in, replayProof(in)))

ResultOf(s, c) == upheld(BundleOf(s, c), findings(Checks(BundleOf(s, c))))

Truly(side, r, log, lied) ==
  r.ok => Witnessed(r) /\ AtPin(r, log) /\ Roughly(side, r, log) /\ (~lied => Honest(side, r, log))

ReadingInv == \A side \in Sides : /\ reading[side].ok \in BOOLEAN
                                  /\ Truly(side, reading[side], LogOf(side), outvoted)

Concluded ==
  (\A side \in Sides : reading[side].ok) =>
    \/ decodable(reading) /\ \E c \in Circumstances : result = ResultOf(decodedSides(reading), c)
    \/ ~decodable(reading) /\ result = unknown({"undecodable-observation"})

CInv ==
  /\ RouteInv
  /\ phase \in {"home", "remote", "assemble", "done"}
  /\ DOMAIN reading = Sides /\ ReadingInv
  /\ phase = "done" => Concluded

LEMMA CStarts == Init => CInv
<1> SUFFICES ASSUME Init PROVE CInv
  OBVIOUS
<1>1. RouteInv
  BY RouteStarts DEF Init
<1>2. phase = "home" /\ DOMAIN reading = Sides /\ \A side \in Sides : reading[side].ok = FALSE
  BY DEF Init, Refusal
<1>3. ReadingInv
  BY <1>2 DEF ReadingInv, Truly
<1> QED BY <1>1, <1>2, <1>3 DEF CInv

LEMMA StaysTrue ==
  ASSUME NEW side, NEW r, NEW log \in Seq(Events), NEW more, Grown(log, more), NEW lied,
         Truly(side, r, log, lied)
  PROVE  Truly(side, r, more, lied)
<1> SUFFICES ASSUME r.ok
             PROVE Witnessed(r) /\ AtPin(r, more) /\ Roughly(side, r, more) /\ (~lied => Honest(side, r, more))
  BY DEF Truly
<1>1. Witnessed(r) /\ AtPin(r, log) /\ Roughly(side, r, log) /\ (~lied => Honest(side, r, log))
  BY DEF Truly
<1>2. r.pin.height \in 0..Len(log)
  BY <1>1 DEF AtPin
<1>3. Prefix(more, r.pin.height) = Prefix(log, r.pin.height) /\ r.pin.height \in 0..Len(more)
  BY <1>2, PrefixStays
<1>4. Roughly(side, r, more)
  BY <1>1, <1>3 DEF Roughly
<1> QED BY <1>1, <1>3, <1>4 DEF AtPin, Honest

LEMMA ChainKeeps ==
  ASSUME CInv, ChainStep
  PROVE  CInv'
<1>1. RouteInv' /\ Grown(home, home') /\ Grown(remote, remote')
  BY RouteSteps DEF CInv, ChainStep
<1>2. phase' = phase /\ reading' = reading /\ outvoted' = outvoted /\ result' = result /\ phase # "done"
  BY DEF ChainStep
<1>3. home \in Seq(Events) /\ remote \in Seq(Events)
  BY DEF CInv, RouteInv, Ordered
<1>4. ReadingInv'
  <2> SUFFICES ASSUME NEW side \in Sides
               PROVE  reading[side].ok \in BOOLEAN /\ Truly(side, reading[side], LogOf(side)', outvoted)
    BY <1>2 DEF ReadingInv
  <2>1. reading[side].ok \in BOOLEAN /\ Truly(side, reading[side], LogOf(side), outvoted)
    BY DEF CInv, ReadingInv
  <2>2. LogOf(side) \in Seq(Events) /\ Grown(LogOf(side), LogOf(side)')
    BY <1>1, <1>3 DEF LogOf
  <2> QED BY <2>1, <2>2, StaysTrue
<1> QED BY <1>1, <1>2, <1>4 DEF CInv

LEMMA CollectKeeps ==
  ASSUME CInv, NEW side \in Sides, CollectSide(side)
  PROVE  CInv'
<1> DEFINE log == LogOf(side)
<1>1. PICK behaviour \in BehaviourChoices :
       \E pin \in {choosePin(log, behaviour)} :
       \E units \in {eligibleUnits(log, behaviour, pin)} :
       \E read \in {[i \in DOMAIN Endpoints |-> readChain(side, behaviour[i], log, pin)]} :
       \E readings \in {readingsOf(units, read)} :
         /\ reading' = [reading EXCEPT ![side] = collectSide(pin, readings, exceeded(units, read))]
         /\ outvoted' = (outvoted \/ Cardinality(LyingDomains(units, behaviour)) >= Required)
  BY DEF CollectSide
<1> DEFINE pin == choosePin(log, behaviour)
           units == eligibleUnits(log, behaviour, pin)
           read == [i \in DOMAIN Endpoints |-> readChain(side, behaviour[i], log, pin)]
           readings == readingsOf(units, read)
           bounded == exceeded(units, read)
           r == collectSide(pin, readings, bounded)
<1>2. /\ reading' = [reading EXCEPT ![side] = r]
      /\ outvoted' = (outvoted \/ Cardinality(LyingDomains(units, behaviour)) >= Required)
  BY <1>1
<1>3. behaviour \in [DOMAIN Endpoints -> Behaviours]
  BY DEF BehaviourChoices
<1>4. log \in Seq(Events)
  BY DEF CInv, RouteInv, Ordered, LogOf
<1>5. /\ r.ok \in BOOLEAN
      /\ r.ok => /\ Witnessed(r) /\ AtPin(r, log) /\ Roughly(side, r, log)
                 /\ ~ (Cardinality(LyingDomains(units, behaviour)) >= Required) => Honest(side, r, log)
  <2> DEFINE p == pin
             u == units
             d == read
             s == readings
             b == bounded
             x == r
  <2>1. Collects(side, log, behaviour, p, u, d, s, b, x)
    BY DEF Collects
  <2> HIDE DEF p, u, d, s, b, x
  <2>2. /\ x.ok \in BOOLEAN
        /\ x.ok => /\ Witnessed(x) /\ AtPin(x, log) /\ Roughly(side, x, log)
                   /\ ~ (Cardinality(LyingDomains(u, behaviour)) >= Required) => Honest(side, x, log)
    BY <1>3, <1>4, <2>1, CollectedSide
  <2> QED BY <2>2 DEF p, u, d, s, b, x
<1> HIDE DEF pin, units, read, readings, bounded, r
<1>6. home' = home /\ remote' = remote /\ phase' \in {"remote", "assemble"} /\ result' = result
  BY DEF CollectSide, chains
<1>7. RouteInv'
  BY <1>6 DEF CInv, RouteInv
<1>8. DOMAIN reading' = Sides /\ reading'[side] = r /\ \A x \in Sides : x # side => reading'[x] = reading[x]
  BY <1>2 DEF CInv
<1>9. ReadingInv'
  <2> SUFFICES ASSUME NEW x \in Sides
               PROVE  reading'[x].ok \in BOOLEAN /\ Truly(x, reading'[x], LogOf(x), outvoted')
    BY <1>6 DEF ReadingInv, LogOf
  <2>1. CASE x = side
    BY <1>2, <1>5, <1>8, <2>1 DEF Truly
  <2>2. CASE x # side
    BY <1>2, <1>8, <2>2 DEF Truly, CInv, ReadingInv
  <2> QED BY <2>1, <2>2
<1> QED BY <1>6, <1>7, <1>8, <1>9 DEF CInv

LEMMA AssembleKeeps ==
  ASSUME CInv, Assemble
  PROVE  CInv'
<1>1. /\ home' = home /\ remote' = remote /\ reading' = reading /\ outvoted' = outvoted
      /\ phase' = "done" /\ DOMAIN reading = Sides
  BY DEF Assemble, chains, CInv
<1>2. RouteInv' /\ ReadingInv'
  BY <1>1 DEF CInv, RouteInv, ReadingInv, LogOf
<1>3. Concluded'
  <2> SUFFICES ASSUME \A side \in Sides : reading[side].ok
               PROVE  \/ decodable(reading) /\ \E c \in Circumstances : result' = ResultOf(decodedSides(reading), c)
                      \/ ~decodable(reading) /\ result' = unknown({"undecodable-observation"})
    BY <1>1 DEF Concluded
  <2>1. \/ ~decodable(reading) /\ result' = unknown({"undecodable-observation"})
        \/ decodable(reading) /\ AssembleDecoded(decodedSides(reading))
    BY DEF Assemble
  <2>2. ASSUME NEW sides, AssembleDecoded(sides)
        PROVE  \E c \in Circumstances : result' = ResultOf(sides, c)
    BY <2>2 DEF AssembleDecoded, ResultOf, BundleOf
  <2> QED BY <2>1, <2>2
<1> QED BY <1>1, <1>2, <1>3 DEF CInv

THEOREM CollectionInvariant == Spec => []CInv
<1>1. Init => CInv
  BY CStarts
<1>2. CInv /\ [Next]_vars => CInv'
  <2> SUFFICES ASSUME CInv, [Next]_vars PROVE CInv'
    OBVIOUS
  <2>1. CASE ChainStep
    BY <2>1, ChainKeeps
  <2>2. ASSUME NEW side \in Sides, CollectSide(side) PROVE CInv'
    BY <2>2, CollectKeeps
  <2>3. CASE Assemble
    BY <2>3, AssembleKeeps
  <2>4. CASE UNCHANGED vars
    BY <2>4 DEF vars, chains, CInv, RouteInv, ReadingInv, Concluded, LogOf
  <2> QED BY <2>1, <2>2, <2>3, <2>4 DEF Next
<1> QED BY <1>1, <1>2, PTL DEF Spec

---------------------------------------------------------------------------
\* Decoding what the contracts write.

LEMMA Addresses ==
  /\ isAddress(ContractOf["home"]) /\ isAddress(ContractOf["remote"]) /\ isAddress(Somebody)
  /\ \A side \in Sides : isAddress(ContractOf[side]) /\ Others(side) \in Sides
BY EncodingAssumption DEF Sides, Others, ContractOf

LEMMA SentDecodes ==
  ASSUME NEW m, NEW to \in Sides, NEW amount
  PROVE  decodeLog(TokensLog("tokensSent", <<m, Somebody>>, to, amount))
           = Decoded([messageId |-> m, chain |-> ChainOf[to], transferrer |-> ContractOf[to], amount |-> amount])
<1> DEFINE log == TokensLog("tokensSent", <<m, Somebody>>, to, amount)
<1>1. /\ log.name = "tokensSent" /\ log.topics = <<m, Somebody>>
      /\ log.data.length = 32 * 9
      /\ log.data.words = <<ChainOf[to], ContractOf[to], Somebody, Somebody, 0, 0, 0, Somebody, amount>>
  BY DEF TokensLog, Log, Data
<1> HIDE DEF log
<1>2. /\ wordAt(log.data, 0) = ChainOf[to] /\ wordAt(log.data, 1) = ContractOf[to]
      /\ wordAt(log.data, 2) = Somebody /\ wordAt(log.data, 7) = Somebody /\ wordAt(log.data, 8) = amount
  BY <1>1 DEF wordAt
<1>3. log.topics[1] = m /\ log.topics[2] = Somebody /\ Len(log.topics) = 2
  BY <1>1
<1>4. expectTopics(log, "tokensSent") /\ exactWords(log.data, 9)
  BY <1>1, <1>3 DEF expectTopics, Indexed, exactWords
<1>5. decodeTokensSent(log) = Decoded([messageId |-> m, chain |-> ChainOf[to], transferrer |-> ContractOf[to], amount |-> amount])
  BY <1>2, <1>3, <1>4, Addresses DEF decodeTokensSent
<1> QED BY <1>1, <1>5 DEF decodeLog, log

LEMMA RoutedDecodes ==
  ASSUME NEW m
  PROVE  decodeLog(TokensLog("tokensRouted", <<m>>, "remote", 1))
           = Decoded([messageId |-> m, chain |-> ChainOf.remote, transferrer |-> ContractOf.remote, amount |-> 1])
<1> DEFINE log == TokensLog("tokensRouted", <<m>>, "remote", 1)
<1>1. /\ log.name = "tokensRouted" /\ log.topics = <<m>>
      /\ log.data.length = 32 * 9
      /\ log.data.words = <<ChainOf["remote"], ContractOf["remote"], Somebody, Somebody, 0, 0, 0, Somebody, 1>>
  BY DEF TokensLog, Log, Data
<1> HIDE DEF log
<1>2. /\ wordAt(log.data, 0) = ChainOf.remote /\ wordAt(log.data, 1) = ContractOf.remote
      /\ wordAt(log.data, 8) = 1
  BY <1>1 DEF wordAt
<1>3. log.topics[1] = m /\ Len(log.topics) = 1
  BY <1>1
<1>4. expectTopics(log, "tokensRouted") /\ exactWords(log.data, 9)
  BY <1>1, <1>3 DEF expectTopics, Indexed, exactWords
<1>5. decodeTokensRouted(log) = Decoded([messageId |-> m, chain |-> ChainOf.remote, transferrer |-> ContractOf.remote, amount |-> 1])
  BY <1>2, <1>3, <1>4, Addresses DEF decodeTokensRouted
<1> QED BY <1>1, <1>5 DEF decodeLog, log

CallLog(m) == Log("tokensAndCallSent", <<m, Somebody>>, <<64, 1, ChainOf.remote, ContractOf.remote, Somebody>>)

LEMMA CallDecodes ==
  ASSUME NEW m
  PROVE  decodeLog(CallLog(m))
           = Decoded([messageId |-> m, chain |-> ChainOf.remote, transferrer |-> ContractOf.remote, amount |-> 1])
<1> DEFINE log == CallLog(m)
<1>1. /\ log.name = "tokensAndCallSent" /\ log.topics = <<m, Somebody>>
      /\ log.data.length = 32 * 5
      /\ log.data.words = <<64, 1, ChainOf.remote, ContractOf.remote, Somebody>>
  BY DEF CallLog, Log, Data
<1> HIDE DEF log
<1>2. /\ wordAt(log.data, 0) = 64 /\ wordAt(log.data, 1) = 1
      /\ wordAt(log.data, 2) = ChainOf.remote /\ wordAt(log.data, 3) = ContractOf.remote
  BY <1>1 DEF wordAt
<1>3. log.topics[1] = m /\ Len(log.topics) = 2
  BY <1>1
<1>4. expectTopics(log, "tokensAndCallSent") /\ readable(log.data, 1) /\ readable(log.data, 3)
      /\ offsetHolds(64, log.data) /\ 64 \div 32 = 2
  BY <1>1, <1>3 DEF expectTopics, Indexed, readable, offsetHolds
<1>5. decodeTokensAndCall(log) = Decoded([messageId |-> m, chain |-> ChainOf.remote, transferrer |-> ContractOf.remote, amount |-> 1])
  BY <1>2, <1>3, <1>4, Addresses DEF decodeTokensAndCall
<1> QED BY <1>1, <1>5 DEF decodeLog, log

RegisteredLog(contract) == Log("remoteRegistered", <<ChainOf.remote, contract>>, <<0, RemoteDecimals>>)

LEMMA RegisteredDecodes ==
  ASSUME NEW contract, isAddress(contract)
  PROVE  decodeLog(RegisteredLog(contract))
           = Decoded([chain |-> ChainOf.remote, transferrer |-> contract, decimals |-> RemoteDecimals])
<1> DEFINE log == RegisteredLog(contract)
<1>1. /\ log.name = "remoteRegistered" /\ log.topics = <<ChainOf.remote, contract>>
      /\ log.data.length = 32 * 2
      /\ log.data.words = <<0, RemoteDecimals>>
  BY DEF RegisteredLog, Log, Data
<1> HIDE DEF log
<1>2. wordAt(log.data, 1) = RemoteDecimals /\ RemoteDecimals <= 255
  BY <1>1, RouteAssumption DEF wordAt, MAX_TOKEN_DECIMALS
<1>3. log.topics[1] = ChainOf.remote /\ log.topics[2] = contract /\ Len(log.topics) = 2
  BY <1>1
<1>4. expectTopics(log, "remoteRegistered") /\ exactWords(log.data, 2)
  BY <1>1, <1>3 DEF expectTopics, Indexed, exactWords
<1>5. decodeRemoteRegistered(log) = Decoded([chain |-> ChainOf.remote, transferrer |-> contract, decimals |-> RemoteDecimals])
  BY <1>2, <1>3, <1>4 DEF decodeRemoteRegistered
<1> QED BY <1>1, <1>5 DEF decodeLog, log

LEMMA OutcomeDecodes ==
  ASSUME NEW m, NEW source, NEW name \in {"messageExecuted", "messageExecutionFailed"},
         NEW words, words = IF name = "messageExecuted" THEN <<>> ELSE << 0 >>
  PROVE  decodeLog(Log(name, <<m, source>>, words)) = Decoded([messageId |-> m, source |-> source])
<1> DEFINE log == Log(name, <<m, source>>, words)
<1>1. /\ log.name = name /\ log.topics = <<m, source>> /\ log.data.length = 32 * Len(words)
  BY DEF Log, Data
<1> HIDE DEF log
<1>2. log.topics[1] = m /\ log.topics[2] = source /\ Len(log.topics) = 2
  BY <1>1
<1>3. name = "messageExecuted" => Len(words) = 0
  OBVIOUS
<1>4. expectTopics(log, name) /\ (name = "messageExecuted" => exactWords(log.data, 0))
  BY <1>1, <1>2, <1>3 DEF expectTopics, Indexed, exactWords
<1>5. decodeOutcome(log) = Decoded([messageId |-> m, source |-> source])
  BY <1>1, <1>2, <1>4 DEF decodeOutcome
<1> QED BY <1>1, <1>5 DEF decodeLog, log

\* A delivery: thirteen words and the message, a `bytes` value at word 10 of the struct.
LEMMA DeliveryDecodes ==
  ASSUME NEW W, Int \subseteq W, NEW m \in W, NEW origin \in Int, isAddress(origin), NEW side \in Sides,
         NEW message \in Seq(W), NEW source, NEW n \in Nat, n = Len(message)
  PROVE  decodeReceiveCrossChainMessage(
           Log("receiveCrossChainMessage", <<m, source, Somebody>>,
               <<Somebody, 64, m, origin, ChainOf[side], ContractOf[side], 0, 256, 288, 320,
                 0, 0, 32 * n>> \o message))
         = Decoded([messageId |-> m, source |-> source, origin |-> origin,
                    destination |-> ContractOf[side], message |-> Data(message)])
<1> DEFINE head == <<Somebody, 64, m, origin, ChainOf[side], ContractOf[side], 0, 256, 288, 320,
                     0, 0, 32 * n>>
           words == head \o message
           log == Log("receiveCrossChainMessage", <<m, source, Somebody>>, words)
<1>1. head \in Seq(W) /\ Len(head) = 13
  BY DEF Sides, ChainOf, ContractOf, Somebody
<1>2. /\ head[1] = Somebody /\ head[2] = 64 /\ head[4] = origin /\ head[6] = ContractOf[side]
      /\ head[8] = 256 /\ head[9] = 288 /\ head[10] = 320 /\ head[13] = 32 * n
  OBVIOUS
<1> HIDE DEF head
<1>3. /\ words \in Seq(W) /\ Len(words) = 13 + n
      /\ \A i \in 1..13 : words[i] = head[i]
      /\ \A i \in 1..n : words[13 + i] = message[i]
  <2>1. /\ words \in Seq(W) /\ Len(words) = Len(head) + Len(message)
        /\ \A i \in 1..Len(head) : words[i] = head[i]
        /\ \A i \in 1..Len(message) : words[Len(head) + i] = message[i]
    <3> DEFINE s == head
    <3>1. s \in Seq(W) /\ message \in Seq(W)
      BY <1>1
    <3> HIDE DEF s
    <3>2. s \o message \in Seq(W) /\ Len(s \o message) = Len(s) + Len(message)
      BY <3>1
    <3>3. \A i \in 1..Len(s) : (s \o message)[i] = s[i]
      BY <3>1
    <3>4. \A i \in 1..Len(message) : (s \o message)[Len(s) + i] = message[i]
      BY <3>1
    <3> QED BY <3>2, <3>3, <3>4 DEF s
  <2> HIDE DEF words
  <2> QED BY <1>1, <2>1
<1> HIDE DEF words
<1>4. /\ log.name = "receiveCrossChainMessage" /\ log.topics = <<m, source, Somebody>>
      /\ log.data.length = 32 * (13 + n) /\ log.data.words = words
  BY <1>3 DEF Log, Data
<1> HIDE DEF log
<1> DEFINE struct == from(log.data, 64)
           inner == SubSeq(words, 3, 13 + n)
<1>5. struct.words = inner /\ struct.length = 32 * (11 + n)
  <2>1. 64 \div 32 + 1 = 3
    OBVIOUS
  <2>2. 32 * (13 + n) - 64 = 32 * (11 + n)
    OBVIOUS
  <2> QED BY <1>3, <1>4, <2>1, <2>2 DEF from
<1>6. /\ inner \in Seq(W) /\ Len(inner) = 11 + n
      /\ \A i \in 1..(11 + n) : inner[i] = words[i + 2]
  BY <1>3
<1> HIDE DEF struct, inner
<1>7. /\ wordAt(log.data, 0) = Somebody /\ wordAt(log.data, 1) = 64
      /\ wordAt(struct, 1) = origin /\ wordAt(struct, 3) = ContractOf[side]
      /\ wordAt(struct, 5) = 256 /\ wordAt(struct, 6) = 288 /\ wordAt(struct, 7) = 320
      /\ wordAt(struct, 10) = 32 * n
  <2>1. /\ words[1] = Somebody /\ words[2] = 64 /\ words[4] = origin /\ words[6] = ContractOf[side]
        /\ words[8] = 256 /\ words[9] = 288 /\ words[10] = 320 /\ words[13] = 32 * n
    <3>1. \A i \in 1..13 : words[i] = head[i]
      BY <1>3
    <3> QED BY <1>2, <3>1
  <2>2. \A i \in 1..11 : inner[i] = words[i + 2]
    BY <1>6
  <2>3. /\ inner[2] = words[4] /\ inner[4] = words[6] /\ inner[6] = words[8] /\ inner[7] = words[9]
        /\ inner[8] = words[10] /\ inner[11] = words[13]
    BY <2>2
  <2> QED BY <1>4, <1>5, <2>1, <2>3 DEF wordAt
<1>8. wordsFor(32 * n) = n /\ 320 \div 32 = 10
  BY DEF wordsFor
<1>9. SubSeq(inner, 12, 11 + n) = message
  <2> DEFINE sub == SubSeq(inner, 12, 11 + n)
  <2>1. sub \in Seq(W) /\ Len(sub) = n /\ \A i \in 1..n : sub[i] = inner[i + 11]
    BY <1>6
  <2>2. \A i \in 1..n : inner[i + 11] = message[i]
    <3> SUFFICES ASSUME NEW i \in 1..n PROVE inner[i + 11] = message[i]
      OBVIOUS
    <3>1. i + 11 \in 1..(11 + n) /\ (i + 11) + 2 = 13 + i
      OBVIOUS
    <3> QED BY <1>3, <1>6, <3>1
  <2> HIDE DEF sub
  <2>3. sub = message
    BY <2>1, <2>2
  <2> QED BY <2>3 DEF sub
<1>10. dynamicBytes(struct, 320) = Data(message)
  <2>1. 320 \div 32 + 2 = 12 /\ 320 \div 32 + 1 + n = 11 + n
    BY <1>8
  <2>2. dynamicBytes(struct, 320) = [words |-> SubSeq(inner, 12, 11 + n), length |-> 32 * n]
    <3> DEFINE length == 32 * n
    <3>1. wordAt(struct, 320 \div 32) = length /\ wordsFor(length) = n
      BY <1>7, <1>8
    <3> HIDE DEF length
    <3>2. dynamicBytes(struct, 320)
            = [words |-> SubSeq(struct.words, 320 \div 32 + 2, 320 \div 32 + 1 + n), length |-> length]
      BY <3>1, Zenon DEF dynamicBytes
    <3> QED BY <1>5, <2>1, <3>2 DEF length
  <2> QED BY <1>9, <2>2 DEF Data
<1>11. bytesHold(struct, 320)
  BY <1>5, <1>7, <1>8 DEF bytesHold, readable
<1>12. /\ expectTopics(log, "receiveCrossChainMessage") /\ readable(log.data, 1)
       /\ offsetHolds(64, log.data) /\ readable(struct, 7)
       /\ offsetHolds(256, struct) /\ offsetHolds(288, struct) /\ offsetHolds(320, struct)
  BY <1>4, <1>5 DEF expectTopics, Indexed, readable, offsetHolds
<1>13. log.topics[1] = m /\ log.topics[2] = source
  BY <1>4
<1>14. \A i \in 5..7 : offsetHolds(wordAt(struct, i), struct)
  BY <1>7, <1>12
<1>15. \A i \in {1, 3} : isAddress(wordAt(struct, i))
  BY <1>7, Addresses
<1>16. decodeReceiveCrossChainMessage(log)
         = Decoded([messageId |-> m, source |-> source, origin |-> origin,
                    destination |-> ContractOf[side], message |-> Data(message)])
  BY <1>7, <1>10, <1>11, <1>12, <1>13, <1>14, <1>15, Addresses DEF decodeReceiveCrossChainMessage, struct
<1> QED BY <1>16 DEF log, words, head

\* (type, payload) opened: the struct after its offset.
Opens(d, s, words, n, W) ==
  /\ d.length = 32 * n /\ wordAt(d, 0) = 32 /\ s = from(d, wordAt(d, 0)) /\ s.length = 32 * n - 32
  /\ s.words \in Seq(W) /\ Len(s.words) = n - 1
  /\ \A i \in 0..(n - 2) : wordAt(s, i) = words[i + 2]

LEMMA StructOf ==
  ASSUME NEW W, NEW words \in Seq(W), NEW n \in Nat, Len(words) = n, n >= 1, words[1] = 32
  PROVE  Opens(Data(words), from(Data(words), 32), words, n, W)
<1> DEFINE inner == SubSeq(words, 2, n)
<1>1. inner \in Seq(W) /\ Len(inner) = n - 1 /\ \A i \in 1..(n - 1) : inner[i] = words[i + 1]
  OBVIOUS
<1>2. \A i \in 0..(n - 2) : inner[i + 1] = words[i + 2]
  <2> SUFFICES ASSUME NEW i \in 0..(n - 2) PROVE inner[i + 1] = words[i + 2]
    OBVIOUS
  <2>1. i + 1 \in 1..(n - 1) /\ (i + 1) + 1 = i + 2
    OBVIOUS
  <2> HIDE DEF inner
  <2> QED BY <1>1, <2>1
<1>3. 32 \div 32 + 1 = 2
  OBVIOUS
<1>4. from(Data(words), 32) = [words |-> inner, length |-> 32 * n - 32]
  BY <1>3 DEF from, Data
<1> HIDE DEF inner
<1>5. wordAt(Data(words), 0) = 32 /\ Data(words).length = 32 * n
  BY DEF wordAt, Data
<1> DEFINE d == Data(words)
           s == from(d, 32)
<1>6. s.words = inner /\ s.length = 32 * n - 32 /\ wordAt(d, 0) = 32 /\ d.length = 32 * n
  BY <1>4, <1>5
<1>7. s = from(d, wordAt(d, 0))
  BY <1>6
<1> HIDE DEF d, s
<1>8. Opens(d, s, words, n, W)
  BY <1>1, <1>2, <1>6, <1>7 DEF Opens, wordAt
<1> QED BY <1>8 DEF d, s

LEMMA SendDecodes ==
  ASSUME NEW amount
  PROVE  /\ decodeTransferrerMessage(Data(SendMessage(1, amount)))
              = Decoded([type |-> "SINGLE_HOP_SEND", amount |-> amount])
         /\ ~ decodeTransferrerMessage(Data(SendMessage(5, amount))).ok
<1> DEFINE W == Int \cup {amount}
<1>1. ASSUME NEW type \in {1, 5}
      PROVE  /\ SendMessage(type, amount) \in Seq(W) /\ Len(SendMessage(type, amount)) = 6
             /\ SendMessage(type, amount)[1] = 32 /\ SendMessage(type, amount)[2] = type
             /\ SendMessage(type, amount)[3] = 64 /\ SendMessage(type, amount)[4] = 64
             /\ SendMessage(type, amount)[5] = Somebody /\ SendMessage(type, amount)[6] = amount
  BY DEF SendMessage, Somebody
<1> HIDE DEF W
<1> DEFINE message(type) == Data(SendMessage(type, amount))
           struct(type) == from(message(type), wordAt(message(type), 0))
<1>2. ASSUME NEW type \in {1, 5}
      PROVE  /\ message(type).length = 192 /\ wordAt(message(type), 0) = 32 /\ struct(type).length = 160
             /\ struct(type).words \in Seq(W) /\ Len(struct(type).words) = 5
             /\ wordAt(struct(type), 0) = type /\ wordAt(struct(type), 1) = 64 /\ wordAt(struct(type), 2) = 64
             /\ wordAt(struct(type), 3) = Somebody /\ wordAt(struct(type), 4) = amount
  <2> DEFINE words == SendMessage(type, amount)
  <2>1. /\ words \in Seq(W) /\ Len(words) = 6 /\ words[1] = 32
        /\ words[2] = type /\ words[3] = 64 /\ words[4] = 64 /\ words[5] = Somebody /\ words[6] = amount
    BY <1>1
  <2> HIDE DEF words
  <2>2. Opens(Data(words), from(Data(words), 32), words, 6, W)
    <3>1. 6 \in Nat /\ 6 >= 1
      OBVIOUS
    <3> QED BY <2>1, <3>1, StructOf, Zenon
  <2>5. wordAt(Data(words), 0) = 32
    BY <2>2 DEF Opens
  <2>6. struct(type) = from(Data(words), 32) /\ message(type) = Data(words)
    BY <2>5 DEF words
  <2>3. \A i \in 0..4 : wordAt(struct(type), i) = words[i + 2]
    <3>1. \A i \in 0..(6 - 2) : wordAt(struct(type), i) = words[i + 2]
      BY <2>2, <2>6, Zenon DEF Opens
    <3> QED BY <3>1
  <2>4. /\ message(type).length = 192 /\ wordAt(message(type), 0) = 32 /\ struct(type).length = 160
        /\ struct(type).words \in Seq(W) /\ Len(struct(type).words) = 5
    BY <2>2, <2>6 DEF Opens
  <2> HIDE DEF struct, message
  <2> QED BY <2>1, <2>3, <2>4
<1> HIDE DEF struct, message
<1>3. Len(TRANSFERRER_MESSAGE_TYPES) = 5 /\ TRANSFERRER_MESSAGE_TYPES[2] = "SINGLE_HOP_SEND"
  BY DEF TRANSFERRER_MESSAGE_TYPES
<1>4. ~ decodeTransferrerMessage(message(5)).ok
  <2>1. ~ (wordAt(struct(5), 0) < Len(TRANSFERRER_MESSAGE_TYPES))
    BY <1>2, <1>3
  <2>2. decodeTransferrerMessage(message(5)) = Undecodable
    BY <2>1, Zenon DEF decodeTransferrerMessage, struct
  <2> QED BY <2>2 DEF Undecodable
<1>5. decodeTransferrerMessage(message(1)) = Decoded([type |-> "SINGLE_HOP_SEND", amount |-> amount])
  <2> DEFINE s == struct(1)
             d == message(1)
             payload == dynamicBytes(s, 64)
  <2>1. /\ d.length = 192 /\ wordAt(d, 0) = 32 /\ s.length = 160
        /\ s.words \in Seq(W) /\ Len(s.words) = 5
        /\ wordAt(s, 0) = 1 /\ wordAt(s, 1) = 64 /\ wordAt(s, 2) = 64
        /\ wordAt(s, 3) = Somebody /\ wordAt(s, 4) = amount /\ s = from(d, wordAt(d, 0))
    BY <1>2 DEF struct
  <2> HIDE DEF s, d
  <2>2. wordsFor(64) = 2 /\ 64 \div 32 = 2 /\ 64 % 32 = 0 /\ 32 % 32 = 0
    BY DEF wordsFor
  <2>3. payload = [words |-> SubSeq(s.words, 4, 5), length |-> 64]
    <3>1. wordAt(s, 64 \div 32) = 64
      BY <2>1, <2>2
    <3> DEFINE length == 64
    <3>2. wordAt(s, 64 \div 32) = length /\ wordsFor(length) = 2
      BY <2>2, <3>1
    <3> HIDE DEF length
    <3>3. dynamicBytes(s, 64)
            = [words |-> SubSeq(s.words, 64 \div 32 + 2, 64 \div 32 + 1 + 2), length |-> length]
      BY <3>2, Zenon DEF dynamicBytes
    <3>4. 64 \div 32 + 2 = 4 /\ 64 \div 32 + 1 + 2 = 5
      OBVIOUS
    <3> QED BY <3>3, <3>4 DEF length
  <2>4. s.words[4] = Somebody /\ s.words[5] = amount
    BY <2>1 DEF wordAt
  <2>5. SubSeq(s.words, 4, 5)[1] = s.words[4] /\ SubSeq(s.words, 4, 5)[2] = s.words[5]
    BY <2>1
  <2>6. wordAt(payload, 0) = Somebody /\ wordAt(payload, 1) = amount /\ exactWords(payload, 2)
    BY <2>3, <2>4, <2>5 DEF wordAt, exactWords
  <2> HIDE DEF payload
  <2>7. /\ readable(d, 3) /\ offsetHolds(32, d) /\ readable(s, 1) /\ offsetHolds(64, s) /\ bytesHold(s, 64)
    BY <2>1, <2>2 DEF readable, offsetHolds, bytesHold
  <2>8. wordAt(s, 0) < Len(TRANSFERRER_MESSAGE_TYPES) /\ TRANSFERRER_MESSAGE_TYPES[wordAt(s, 0) + 1] = "SINGLE_HOP_SEND"
    BY <1>3, <2>1
  <2>9. dynamicBytes(s, wordAt(s, 1)) = payload
    BY <2>1 DEF payload
  <2>10. decodeTransferrerMessage(d) = Decoded([type |-> "SINGLE_HOP_SEND", amount |-> amount])
    BY <2>1, <2>6, <2>7, <2>8, <2>9, Addresses DEF decodeTransferrerMessage
  <2> QED BY <2>10 DEF d
<1> QED BY <1>4, <1>5 DEF message

LEMMA CalledDecodes ==
  decodeTransferrerMessage(Data(<<32, 2, 64, 96, Somebody, 32, 0>>))
    = Decoded([type |-> "SINGLE_HOP_CALL", amount |-> NoAmount])
<1> DEFINE words == <<32, 2, 64, 96, Somebody, 32, 0>>
           d == Data(words)
           s == from(d, wordAt(d, 0))
<1>1. words \in Seq(Int) /\ Len(words) = 7 /\ words[1] = 32 /\ words[2] = 2 /\ words[3] = 64 /\ words[4] = 96
  BY DEF Somebody
<1> HIDE DEF words
<1>10. Opens(Data(words), from(Data(words), 32), words, 7, Int)
  <2>1. 7 \in Nat /\ 7 >= 1
    OBVIOUS
  <2> QED BY <1>1, <2>1, StructOf, Zenon
<1>11. wordAt(d, 0) = 32 /\ s = from(Data(words), 32)
  <2>1. wordAt(Data(words), 0) = 32
    BY <1>10 DEF Opens
  <2> QED BY <2>1
<1>2. /\ d.length = 32 * 7 /\ wordAt(d, 0) = 32 /\ s.length = 32 * 7 - 32
      /\ \A i \in 0..(7 - 2) : wordAt(s, i) = words[i + 2]
  BY <1>10, <1>11, Zenon DEF Opens
<1>12. s = from(d, wordAt(d, 0))
  BY <1>11
<1> HIDE DEF s, d
<1>3. wordAt(s, 0) = 2 /\ wordAt(s, 1) = 64 /\ wordAt(s, 2) = 96 /\ d.length = 224 /\ s.length = 192
  BY <1>1, <1>2
<1>4. wordsFor(96) = 3 /\ 64 \div 32 = 2 /\ 64 % 32 = 0 /\ 32 % 32 = 0
  BY DEF wordsFor
<1>5. Len(TRANSFERRER_MESSAGE_TYPES) = 5 /\ TRANSFERRER_MESSAGE_TYPES[3] = "SINGLE_HOP_CALL"
  BY DEF TRANSFERRER_MESSAGE_TYPES
<1>6. readable(d, 3) /\ offsetHolds(32, d) /\ readable(s, 1) /\ offsetHolds(64, s) /\ bytesHold(s, 64)
  BY <1>3, <1>4 DEF readable, offsetHolds, bytesHold
<1>7. wordAt(s, 0) < Len(TRANSFERRER_MESSAGE_TYPES) /\ TRANSFERRER_MESSAGE_TYPES[wordAt(s, 0) + 1] = "SINGLE_HOP_CALL"
  BY <1>3, <1>5
<1>9. decodeTransferrerMessage(d) = Decoded([type |-> "SINGLE_HOP_CALL", amount |-> NoAmount])
  BY <1>2, <1>3, <1>6, <1>7, <1>12 DEF decodeTransferrerMessage
<1> QED BY <1>9 DEF d, words

---------------------------------------------------------------------------
\* The facts of a block.

Told(name, fields) == [name |-> name, fields |-> fields]

SentFields(side, e) ==
  [messageId |-> e.msg, chain |-> ChainOf[Others(side)], transferrer |-> ContractOf[Others(side)], amount |-> e.amount]
Towards(m) ==
  [messageId |-> m, chain |-> ChainOf.remote, transferrer |-> ContractOf.remote, amount |-> 1]
RegisteredFields(contract) ==
  [chain |-> ChainOf.remote, transferrer |-> contract, decimals |-> RemoteDecimals]
OutcomeFields(side, e) == [messageId |-> e.msg, source |-> ChainOf[Others(side)]]
DeliveryFields(e) ==
  [messageId |-> e.msg,
   payload |-> IF e.kind = "called" THEN [type |-> "SINGLE_HOP_CALL", amount |-> NoAmount]
               ELSE [type |-> "SINGLE_HOP_SEND", amount |-> e.amount]]

EventFacts(side, e) ==
  CASE e.kind = "sent"       -> {Told("tokensSent", SentFields(side, e))}
    [] e.kind = "routed"     -> {Told("tokensRouted", Towards(e.msg))}
    [] e.kind = "callSent"   -> {Told("tokensAndCallSent", Towards(e.msg))}
    [] e.kind = "registered" -> {Told("remoteRegistered", RegisteredFields(ContractOf.remote))}
    [] e.kind = "untracked"  -> {Told("remoteRegistered", RegisteredFields(Somebody))}
    [] e.kind \in {"executed", "called"} -> {Told("messageExecuted", OutcomeFields(side, e))}
    [] e.kind = "failed"     -> {Told("messageExecutionFailed", OutcomeFields(side, e))}
    [] OTHER                 -> {}

DeliveryFacts(e) ==
  IF e.delivers /\ e.kind # "foreign" THEN {Told("receiveCrossChainMessage", DeliveryFields(e))} ELSE {}

Facts(side, e) == EventFacts(side, e) \cup DeliveryFacts(e)

LEMMA OneFact ==
  ASSUME NEW side, NEW log, NEW fields, log.name # "receiveCrossChainMessage", decodeLog(log) = Decoded(fields)
  PROVE  decodedFact(side, log) = Decoded({Told(log.name, fields)})
<1>1. decodeLog(log).ok /\ decodeLog(log).fields = fields
  BY DEF Decoded
<1>2. decodedFact(side, log) = Decoded(FactNamed(log, decodeLog(log).fields))
  BY <1>1, Zenon DEF decodedFact
<1> QED BY <1>1, <1>2 DEF FactNamed, Told

LEMMA EventTold ==
  ASSUME NEW side \in Sides, NEW e \in Events, Shaped(side, e)
  PROVE  \/ EventLogs(side, e) = {} /\ EventFacts(side, e) = {}
         \/ \E log : EventLogs(side, e) = {log} /\ decodedFact(side, log) = Decoded(EventFacts(side, e))
<1> DEFINE to == Others(side)
           Goal == \E log : EventLogs(side, e) = {log} /\ decodedFact(side, log) = Decoded(EventFacts(side, e))
<1>0. to \in Sides
  BY Addresses
<1> HIDE DEF to
<1>1. CASE e.kind = "sent"
  <2> DEFINE log == TokensLog("tokensSent", <<e.msg, Somebody>>, to, e.amount)
             fields == [messageId |-> e.msg, chain |-> ChainOf[to], transferrer |-> ContractOf[to], amount |-> e.amount]
  <2>1. decodeLog(log) = Decoded(fields) /\ log.name = "tokensSent"
    BY <1>0, SentDecodes DEF TokensLog, Log
  <2>2. EventLogs(side, e) = {log}
    BY <1>1 DEF EventLogs, to
  <2>3. EventFacts(side, e) = {Told("tokensSent", fields)}
    BY <1>1 DEF EventFacts, SentFields, to
  <2> HIDE DEF log, fields
  <2>4. decodedFact(side, log) = Decoded({Told(log.name, fields)})
    BY <2>1, OneFact
  <2> QED BY <2>1, <2>2, <2>3, <2>4
<1>2. CASE e.kind = "routed"
  <2> DEFINE log == TokensLog("tokensRouted", <<e.msg>>, "remote", 1)
             fields == Towards(e.msg)
  <2>1. decodeLog(log) = Decoded(fields) /\ log.name = "tokensRouted"
    BY RoutedDecodes DEF TokensLog, Log, Towards
  <2>2. EventLogs(side, e) = {log} /\ EventFacts(side, e) = {Told("tokensRouted", fields)}
    BY <1>2 DEF EventLogs, EventFacts
  <2> HIDE DEF log, fields
  <2>4. decodedFact(side, log) = Decoded({Told(log.name, fields)})
    BY <2>1, OneFact
  <2> QED BY <2>1, <2>2, <2>4
<1>3. CASE e.kind = "callSent"
  <2> DEFINE log == CallLog(e.msg)
             fields == Towards(e.msg)
  <2>1. decodeLog(log) = Decoded(fields) /\ log.name = "tokensAndCallSent"
    BY CallDecodes DEF CallLog, Log, Towards
  <2>2. EventLogs(side, e) = {log} /\ EventFacts(side, e) = {Told("tokensAndCallSent", fields)}
    BY <1>3 DEF EventLogs, EventFacts, CallLog
  <2> HIDE DEF log, fields
  <2>4. decodedFact(side, log) = Decoded({Told(log.name, fields)})
    BY <2>1, OneFact
  <2> QED BY <2>1, <2>2, <2>4
<1>4. CASE e.kind \in {"registered", "untracked"}
  <2> DEFINE contract == IF e.kind = "registered" THEN ContractOf.remote ELSE Somebody
             log == RegisteredLog(contract)
             fields == RegisteredFields(contract)
  <2>1. isAddress(contract)
    BY EncodingAssumption
  <2>2. EventLogs(side, e) = {log} /\ EventFacts(side, e) = {Told("remoteRegistered", fields)}
    BY <1>4 DEF EventLogs, EventFacts, RegisteredLog
  <2> HIDE DEF contract
  <2>3. decodeLog(log) = Decoded(fields) /\ log.name = "remoteRegistered"
    BY <2>1, RegisteredDecodes DEF RegisteredLog, Log, RegisteredFields
  <2> HIDE DEF log, fields
  <2>4. decodedFact(side, log) = Decoded({Told(log.name, fields)})
    BY <2>3, OneFact
  <2> QED BY <2>2, <2>3, <2>4
<1>5. CASE e.kind \in {"executed", "called", "failed"}
  <2> DEFINE name == IF e.kind = "failed" THEN "messageExecutionFailed" ELSE "messageExecuted"
             words == IF name = "messageExecuted" THEN <<>> ELSE <<0>>
             log == Log(name, <<e.msg, ChainOf[to]>>, words)
             fields == OutcomeFields(side, e)
  <2>1. name \in {"messageExecuted", "messageExecutionFailed"}
    OBVIOUS
  <2>2. EventLogs(side, e) = {log}
    <3>1. CASE e.kind = "failed"
      BY <3>1 DEF EventLogs, to
    <3>2. CASE e.kind \in {"executed", "called"}
      BY <3>2 DEF EventLogs, to
    <3> QED BY <1>5, <3>1, <3>2
  <2>5. EventFacts(side, e) = {Told(name, fields)}
    BY <1>5 DEF EventFacts
  <2>6. fields = [messageId |-> e.msg, source |-> ChainOf[to]]
    BY DEF OutcomeFields, to
  <2> HIDE DEF fields, name
  <2>3. decodeLog(log) = Decoded(fields)
    BY <2>1, <2>6, OutcomeDecodes
  <2>7. log.name = name
    BY DEF Log
  <2> HIDE DEF log
  <2>8. log.name # "receiveCrossChainMessage"
    BY <2>1, <2>7
  <2>4. decodedFact(side, log) = Decoded({Told(log.name, fields)})
    BY <2>3, <2>8, OneFact
  <2> QED BY <2>2, <2>4, <2>5, <2>7
<1>6. CASE e.kind \notin {"sent", "routed", "callSent", "registered", "untracked", "executed", "called", "failed"}
  BY <1>6 DEF EventLogs, EventFacts
<1> QED BY <1>1, <1>2, <1>3, <1>4, <1>5, <1>6

\* A delivery, once its message is known to be words.
LEMMA DeliveryLogDecodes ==
  ASSUME NEW side \in Sides, NEW e \in Events, NEW message, message = PayloadOf(e),
         NEW W, Int \subseteq W, e.msg \in W, message \in Seq(W)
  PROVE  /\ DeliveryLog(side, e).name = "receiveCrossChainMessage"
         /\ decodeLog(DeliveryLog(side, e))
              = Decoded([messageId |-> e.msg, source |-> ChainOf[Others(side)],
                         origin |-> IF e.kind = "foreign" THEN Somebody ELSE ContractOf[Others(side)],
                         destination |-> ContractOf[side], message |-> Data(message)])
<1> DEFINE to == Others(side)
           origin == IF e.kind = "foreign" THEN Somebody ELSE ContractOf[to]
           source == ChainOf[to]
           m == e.msg
           n == Len(message)
           log == Log("receiveCrossChainMessage", <<m, source, Somebody>>,
               <<Somebody, 64, m, origin, ChainOf[side], ContractOf[side], 0, 256, 288, 320,
                 0, 0, 32 * n>> \o message)
<1>1. DeliveryLog(side, e) = log
  BY DEF DeliveryLog
<1>2. origin \in Int /\ isAddress(origin) /\ n \in Nat /\ m \in W
  <2>1. to \in Sides
    BY Addresses
  <2>2. isAddress(ContractOf[to]) /\ ContractOf[to] \in Int /\ isAddress(Somebody) /\ Somebody \in Int
    BY <2>1, Addresses DEF ContractOf, Sides, Somebody
  <2> QED BY <2>2
<1>3. log.name = "receiveCrossChainMessage"
  BY DEF Log
<1> HIDE DEF to, origin, source, m, n
<1>4. decodeReceiveCrossChainMessage(log)
        = Decoded([messageId |-> m, source |-> source, origin |-> origin,
                   destination |-> ContractOf[side], message |-> Data(message)])
  BY <1>2, DeliveryDecodes DEF n
<1> HIDE DEF log
<1>5. decodeLog(log) = decodeReceiveCrossChainMessage(log)
  BY <1>3 DEF decodeLog
<1> QED BY <1>1, <1>3, <1>4, <1>5 DEF origin, source, m, to

LEMMA DeliveryTold ==
  ASSUME NEW side \in Sides, NEW e \in Events, Shaped(side, e), e.delivers
  PROVE  /\ e.kind # "unknown" => decodedFact(side, DeliveryLog(side, e)) = Decoded(DeliveryFacts(e))
         /\ e.kind = "unknown" => decodedFact(side, DeliveryLog(side, e)) = Undecodable
<1> DEFINE log == DeliveryLog(side, e)
           W == Int \cup {e.msg}
           message == PayloadOf(e)
           received == [messageId |-> e.msg, source |-> ChainOf[Others(side)],
                         origin |-> IF e.kind = "foreign" THEN Somebody ELSE ContractOf[Others(side)],
                         destination |-> ContractOf[side], message |-> Data(message)]
           payload == decodeTransferrerMessage(received.message)
<1>1. message \in Seq(W)
  <2>1. e.amount \in Int
    BY DEF Events
  <2>2. \A type \in {1, 5} : SendMessage(type, e.amount) \in Seq(W)
    <3> SUFFICES ASSUME NEW type \in {1, 5} PROVE SendMessage(type, e.amount) \in Seq(W)
      OBVIOUS
    <3>1. type \in W /\ 32 \in W /\ 64 \in W /\ Somebody \in W /\ e.amount \in W
      BY <2>1 DEF Somebody
    <3> HIDE DEF W
    <3> QED BY <3>1 DEF SendMessage
  <2>3. <<32, 2, 64, 96, Somebody, 32, 0>> \in Seq(W) /\ <<Somebody>> \in Seq(W)
    <3>1. 32 \in W /\ 2 \in W /\ 64 \in W /\ 96 \in W /\ Somebody \in W /\ 0 \in W
      BY DEF Somebody
    <3> HIDE DEF W
    <3> QED BY <3>1
  <2> HIDE DEF W
  <2> QED BY <2>2, <2>3 DEF PayloadOf
<1>2. log.name = "receiveCrossChainMessage" /\ decodeLog(log) = Decoded(received)
  <2>1. Int \subseteq W /\ e.msg \in W
    OBVIOUS
  <2> HIDE DEF W, message
  <2>2. message = PayloadOf(e)
    BY DEF message
  <2> QED BY <1>1, <2>1, <2>2, DeliveryLogDecodes
<1>3. decodedFact(side, log) = deliveries(side, log, received)
  <2> HIDE DEF received, log
  <2>1. decodeLog(log).ok /\ decodeLog(log).fields = received
    BY <1>2 DEF Decoded
  <2> QED BY <1>2, <2>1, Zenon DEF decodedFact
<1>4. /\ received.destination = ContractOf[side] /\ received.messageId = e.msg
      /\ received.message = Data(message)
      /\ e.kind = "foreign" => received.origin # ContractOf[Others(side)]
      /\ e.kind # "foreign" => received.origin = ContractOf[Others(side)]
  BY DEF Somebody, ContractOf, Sides, Others
<1> HIDE DEF log, received
<1>5. CASE e.kind = "foreign"
  <2>1. deliveries(side, log, received) = Decoded({})
    BY <1>4, <1>5, Zenon DEF deliveries
  <2> QED BY <1>3, <1>5, <2>1 DEF DeliveryFacts, log
<1>6. CASE e.kind = "unknown"
  <2>1. message = SendMessage(5, e.amount)
    BY <1>6 DEF PayloadOf
  <2>2. ~ payload.ok
    BY <1>4, <2>1, SendDecodes
  <2>3. deliveries(side, log, received) = Undecodable
    BY <1>4, <1>6, <2>2, Zenon DEF deliveries
  <2> QED BY <1>3, <1>6, <2>3 DEF log
<1>7. CASE e.kind \notin {"foreign", "unknown"}
  <2>1. payload = Decoded(DeliveryFields(e).payload)
    <3>1. CASE e.kind = "called"
      <4>1. message = <<32, 2, 64, 96, Somebody, 32, 0>>
        BY <3>1 DEF PayloadOf
      <4>2. DeliveryFields(e).payload = [type |-> "SINGLE_HOP_CALL", amount |-> NoAmount]
        BY <3>1 DEF DeliveryFields
      <4> QED BY <1>4, <4>1, <4>2, CalledDecodes
    <3>2. CASE e.kind # "called"
      <4>1. message = SendMessage(1, e.amount)
        BY <1>7, <3>2 DEF PayloadOf
      <4>2. DeliveryFields(e).payload = [type |-> "SINGLE_HOP_SEND", amount |-> e.amount]
        BY <3>2 DEF DeliveryFields
      <4> QED BY <1>4, <4>1, <4>2, SendDecodes
    <3> QED BY <3>1, <3>2
  <2>2. payload.ok /\ payload.fields = DeliveryFields(e).payload
    BY <2>1 DEF Decoded
  <2>3. deliveries(side, log, received)
          = Decoded(FactNamed(log, [messageId |-> received.messageId, payload |-> payload.fields]))
    BY <1>4, <1>7, <2>2, Zenon DEF deliveries
  <2>4. [messageId |-> received.messageId, payload |-> payload.fields] = DeliveryFields(e)
    BY <1>4, <2>2 DEF DeliveryFields
  <2>5. FactNamed(log, DeliveryFields(e)) = DeliveryFacts(e)
    BY <1>2, <1>7 DEF FactNamed, DeliveryFacts, Told
  <2> QED BY <1>3, <1>7, <2>3, <2>4, <2>5 DEF log
<1> QED BY <1>5, <1>6, <1>7

LEMMA EventsArePossible ==
  ASSUME NEW side \in Sides, NEW e \in Events, Shaped(side, e)
  PROVE  e \in PossibleEvents
<1> DEFINE x == Event(e.kind, e.msg, e.amount, e.delivers)
           amounts == {Amount[m] : m \in Outbound \cup Inbound} \cup {Amount[m] + 1 : m \in Outbound}
           A == {Event(kind, m, amount, delivers) :
                   kind \in {"sent", "executed", "failed"}, m \in Outbound \cup Inbound,
                   amount \in amounts, delivers \in BOOLEAN}
           B == {Plain(kind) : kind \in {"registered", "untracked", "minted", "drained"} \cup Uninterpreted}
           C == {Event(kind, NoMessage, 0, TRUE) : kind \in Strange \cup {"called"}}
<1>1. e = x
  BY DEF Event, Events
<1>2. PossibleEvents = A \cup B \cup C
  BY DEF PossibleEvents
<1>3. CASE e.kind \in {"sent", "executed", "failed"}
  <2>1. e.msg \in Outbound \cup Inbound /\ e.amount \in amounts /\ e.delivers \in BOOLEAN
    BY <1>3 DEF Shaped, Outgoing, Incoming, Sides, Events, Uninterpreted, Strange
  <2> HIDE DEF amounts
  <2>2. x \in A
    BY <1>3, <2>1
  <2> HIDE DEF A, B, C, x
  <2> QED BY <1>1, <1>2, <2>2
<1>4. CASE e.kind \notin {"sent", "executed", "failed"} /\ ~ e.delivers
  <2>1. /\ e.kind \in {"registered", "untracked", "minted", "drained"} \cup Uninterpreted
        /\ e.msg = NoMessage /\ e.amount = 0 /\ e.delivers = FALSE
    BY <1>4 DEF Shaped, Events
  <2>2. x = Plain(e.kind)
    BY <2>1 DEF Plain
  <2>3. x \in B
    BY <2>1, <2>2
  <2> HIDE DEF A, B, C, x
  <2> QED BY <1>1, <1>2, <2>3
<1>5. CASE e.kind \notin {"sent", "executed", "failed"} /\ e.delivers
  <2>1. e.kind \in Strange \cup {"called"} /\ e.msg = NoMessage /\ e.amount = 0 /\ e.delivers = TRUE
    BY <1>5 DEF Shaped, Events
  <2>2. x \in C
    BY <2>1
  <2> HIDE DEF A, B, C, x
  <2> QED BY <1>1, <1>2, <2>2
<1> QED BY <1>3, <1>4, <1>5

\* What a block of a chain is decoded to; nothing of an unknown version is.
LEMMA FactsAre ==
  ASSUME NEW side \in Sides, NEW e \in Events, Shaped(side, e)
  PROVE  /\ (\A f \in factsOf[side][e] : f.ok) => e.kind # "unknown"
         /\ e.kind # "unknown" =>
              /\ \A f \in factsOf[side][e] : f.ok
              /\ UNION {f.fields : f \in factsOf[side][e]} = Facts(side, e)
<1> DEFINE logs == LogsOf(side, e)
           facts == {decodedFact(side, log) : log \in logs}
           delivery == DeliveryLog(side, e)
           d == decodedFact(side, delivery)
<1>1. factsOf[side][e] = facts
  BY EventsArePossible DEF factsOf
<1>2. logs = EventLogs(side, e) \cup (IF e.delivers THEN {delivery} ELSE {})
  BY DEF LogsOf
<1>3. CASE e.kind = "unknown"
  <2>1. e.delivers
    BY <1>3 DEF Shaped, Uninterpreted
  <2>2. d \in facts
    BY <1>2, <2>1
  <2>3. d = Undecodable
    BY <1>3, <2>1, DeliveryTold
  <2>4. ~ d.ok
    BY <2>3 DEF Undecodable
  <2> QED BY <1>1, <1>3, <2>2, <2>4
<1>4. CASE e.kind # "unknown"
  <2> DEFINE x == Decoded(EventFacts(side, e))
             y == Decoded(DeliveryFacts(e))
  <2>0. x.ok /\ x.fields = EventFacts(side, e) /\ y.ok /\ y.fields = DeliveryFacts(e)
    BY DEF Decoded
  <2>1. e.delivers => d = y
    BY <1>4, DeliveryTold
  <2>2. ~e.delivers => DeliveryFacts(e) = {}
    BY DEF DeliveryFacts
  <2>3. \/ EventLogs(side, e) = {} /\ EventFacts(side, e) = {}
        \/ \E log : EventLogs(side, e) = {log} /\ decodedFact(side, log) = x
    BY EventTold
  <2> HIDE DEF x, y, d, delivery
  <2>4. \/ EventFacts(side, e) = {} /\ facts = IF e.delivers THEN {y} ELSE {}
        \/ facts = {x} \cup IF e.delivers THEN {y} ELSE {}
    <3>1. CASE EventLogs(side, e) = {} /\ EventFacts(side, e) = {}
      BY <1>2, <2>1, <3>1 DEF d
    <3>2. ASSUME NEW log, EventLogs(side, e) = {log}, decodedFact(side, log) = x
          PROVE  facts = {x} \cup IF e.delivers THEN {y} ELSE {}
      BY <1>2, <2>1, <3>2 DEF d
    <3> QED BY <2>3, <3>1, <3>2
  <2> HIDE DEF facts
  <2>5. \A f \in facts : f.ok
    BY <2>0, <2>4
  <2>6. UNION {f.fields : f \in facts} = Facts(side, e)
    <3>1. CASE EventFacts(side, e) = {} /\ facts = IF e.delivers THEN {y} ELSE {}
      BY <2>0, <2>2, <3>1 DEF Facts
    <3>2. CASE facts = {x} \cup IF e.delivers THEN {y} ELSE {}
      BY <2>0, <2>2, <3>2 DEF Facts
    <3> QED BY <2>4, <3>1, <3>2
  <2> QED BY <1>1, <1>4, <2>5, <2>6
<1> QED BY <1>3, <1>4

---------------------------------------------------------------------------
\* Facts by their name.

\* The facts hold one of the name, with these fields, or none.
Tells(facts, name, holds, fields) ==
  /\ (\E f \in facts : f.name = name) <=> holds
  /\ holds => (CHOOSE f \in facts : f.name = name).fields = fields

LEMMA OneTold ==
  ASSUME NEW facts, NEW name, NEW holds \in BOOLEAN, NEW fields,
         \A f \in facts : f.name = name => holds /\ f = Told(name, fields),
         holds => Told(name, fields) \in facts
  PROVE  Tells(facts, name, holds, fields)
<1>1. Told(name, fields).name = name /\ Told(name, fields).fields = fields
  BY DEF Told
<1>2. (\E f \in facts : f.name = name) <=> holds
  BY <1>1
<1>3. holds => (CHOOSE f \in facts : f.name = name) = Told(name, fields)
  BY <1>1
<1> QED BY <1>1, <1>2, <1>3 DEF Tells

LEMMA Tales ==
  ASSUME NEW side, NEW e \in Events
  PROVE  /\ Tells(Facts(side, e), "tokensSent", e.kind = "sent", SentFields(side, e))
         /\ Tells(Facts(side, e), "tokensRouted", e.kind = "routed", Towards(e.msg))
         /\ Tells(Facts(side, e), "tokensAndCallSent", e.kind = "callSent", Towards(e.msg))
         /\ Tells(Facts(side, e), "remoteRegistered", e.kind \in {"registered", "untracked"},
                  RegisteredFields(IF e.kind = "registered" THEN ContractOf.remote ELSE Somebody))
         /\ Tells(Facts(side, e), "messageExecuted", e.kind \in {"executed", "called"}, OutcomeFields(side, e))
         /\ Tells(Facts(side, e), "messageExecutionFailed", e.kind = "failed", OutcomeFields(side, e))
         /\ Tells(Facts(side, e), "receiveCrossChainMessage", e.delivers /\ e.kind # "foreign", DeliveryFields(e))
<1> DEFINE facts == Facts(side, e)
           registered == RegisteredFields(IF e.kind = "registered" THEN ContractOf.remote ELSE Somebody)
<1>1. \A f \in facts :
        \/ f = Told("tokensSent", SentFields(side, e)) /\ e.kind = "sent"
        \/ f = Told("tokensRouted", Towards(e.msg)) /\ e.kind = "routed"
        \/ f = Told("tokensAndCallSent", Towards(e.msg)) /\ e.kind = "callSent"
        \/ f = Told("remoteRegistered", registered) /\ e.kind \in {"registered", "untracked"}
        \/ f = Told("messageExecuted", OutcomeFields(side, e)) /\ e.kind \in {"executed", "called"}
        \/ f = Told("messageExecutionFailed", OutcomeFields(side, e)) /\ e.kind = "failed"
        \/ f = Told("receiveCrossChainMessage", DeliveryFields(e)) /\ e.delivers /\ e.kind # "foreign"
  <2> SUFFICES ASSUME NEW f \in facts
               PROVE  \/ f = Told("tokensSent", SentFields(side, e)) /\ e.kind = "sent"
                      \/ f = Told("tokensRouted", Towards(e.msg)) /\ e.kind = "routed"
                      \/ f = Told("tokensAndCallSent", Towards(e.msg)) /\ e.kind = "callSent"
                      \/ f = Told("remoteRegistered", registered) /\ e.kind \in {"registered", "untracked"}
                      \/ f = Told("messageExecuted", OutcomeFields(side, e)) /\ e.kind \in {"executed", "called"}
                      \/ f = Told("messageExecutionFailed", OutcomeFields(side, e)) /\ e.kind = "failed"
                      \/ f = Told("receiveCrossChainMessage", DeliveryFields(e)) /\ e.delivers /\ e.kind # "foreign"
    OBVIOUS
  <2>1. f \in EventFacts(side, e) \/ f \in DeliveryFacts(e)
    BY DEF Facts
  <2>2. CASE f \in DeliveryFacts(e)
    BY <2>2 DEF DeliveryFacts
  <2>3. CASE f \in EventFacts(side, e)
    BY <2>3 DEF EventFacts
  <2> QED BY <2>1, <2>2, <2>3
<1>2. /\ e.kind = "sent" => Told("tokensSent", SentFields(side, e)) \in facts
      /\ e.kind = "routed" => Told("tokensRouted", Towards(e.msg)) \in facts
      /\ e.kind = "callSent" => Told("tokensAndCallSent", Towards(e.msg)) \in facts
      /\ e.kind \in {"registered", "untracked"} => Told("remoteRegistered", registered) \in facts
      /\ e.kind \in {"executed", "called"} => Told("messageExecuted", OutcomeFields(side, e)) \in facts
      /\ e.kind = "failed" => Told("messageExecutionFailed", OutcomeFields(side, e)) \in facts
      /\ e.delivers /\ e.kind # "foreign" => Told("receiveCrossChainMessage", DeliveryFields(e)) \in facts
  BY DEF Facts, EventFacts, DeliveryFacts
<1> HIDE DEF facts, registered
<1>3. \A f \in facts : \A name \in {"tokensSent", "tokensRouted", "tokensAndCallSent", "remoteRegistered", "messageExecuted",
                                    "messageExecutionFailed", "receiveCrossChainMessage"} : \A fields :
        f = Told(name, fields) => f.name = name
  BY DEF Told
<1>4. \A f \in facts :
        /\ f.name = "tokensSent" => f = Told("tokensSent", SentFields(side, e)) /\ e.kind = "sent"
        /\ f.name = "tokensRouted" => f = Told("tokensRouted", Towards(e.msg)) /\ e.kind = "routed"
        /\ f.name = "tokensAndCallSent" => f = Told("tokensAndCallSent", Towards(e.msg)) /\ e.kind = "callSent"
        /\ f.name = "remoteRegistered" => f = Told("remoteRegistered", registered) /\ e.kind \in {"registered", "untracked"}
        /\ f.name = "messageExecuted" => f = Told("messageExecuted", OutcomeFields(side, e)) /\ e.kind \in {"executed", "called"}
        /\ f.name = "messageExecutionFailed" => f = Told("messageExecutionFailed", OutcomeFields(side, e)) /\ e.kind = "failed"
        /\ f.name = "receiveCrossChainMessage" =>
             f = Told("receiveCrossChainMessage", DeliveryFields(e)) /\ e.delivers /\ e.kind # "foreign"
  <2>1. ASSUME NEW name, NEW fields PROVE Told(name, fields).name = name
    BY DEF Told
  <2> QED BY <1>1, <2>1
<1>5. e.delivers \in BOOLEAN
  BY DEF Events
<1>6. Tells(facts, "tokensSent", e.kind = "sent", SentFields(side, e))
  BY <1>2, <1>4, OneTold
<1>7. Tells(facts, "tokensRouted", e.kind = "routed", Towards(e.msg))
  BY <1>2, <1>4, OneTold
<1>8. Tells(facts, "tokensAndCallSent", e.kind = "callSent", Towards(e.msg))
  BY <1>2, <1>4, OneTold
<1>9. Tells(facts, "remoteRegistered", e.kind \in {"registered", "untracked"}, registered)
  <2> DEFINE holds == e.kind \in {"registered", "untracked"}
  <2>1. /\ holds \in BOOLEAN
        /\ \A f \in facts : f.name = "remoteRegistered" => holds /\ f = Told("remoteRegistered", registered)
        /\ holds => Told("remoteRegistered", registered) \in facts
    BY <1>2, <1>4
  <2> HIDE DEF holds
  <2>2. Tells(facts, "remoteRegistered", holds, registered)
    BY <2>1, OneTold
  <2> QED BY <2>2 DEF holds
<1>10. Tells(facts, "messageExecuted", e.kind \in {"executed", "called"}, OutcomeFields(side, e))
  <2> DEFINE holds == e.kind \in {"executed", "called"}
  <2>1. /\ holds \in BOOLEAN
        /\ \A f \in facts : f.name = "messageExecuted" => holds /\ f = Told("messageExecuted", OutcomeFields(side, e))
        /\ holds => Told("messageExecuted", OutcomeFields(side, e)) \in facts
    BY <1>2, <1>4
  <2> HIDE DEF holds
  <2>2. Tells(facts, "messageExecuted", holds, OutcomeFields(side, e))
    BY <2>1, OneTold
  <2> QED BY <2>2 DEF holds
<1>11. Tells(facts, "messageExecutionFailed", e.kind = "failed", OutcomeFields(side, e))
  BY <1>2, <1>4, OneTold
<1>12. Tells(facts, "receiveCrossChainMessage", e.delivers /\ e.kind # "foreign", DeliveryFields(e))
  BY <1>2, <1>4, <1>5, OneTold
<1> QED BY <1>6, <1>7, <1>8, <1>9, <1>10, <1>11, <1>12 DEF facts, registered

---------------------------------------------------------------------------
\* A decoded side says what happened up to its pin.
Shows(side, v, log) ==
  /\ Ordered(side, log)
  /\ \A i \in DOMAIN log : log[i].kind # "unknown"
  /\ DOMAIN v.log = DOMAIN log /\ \A i \in DOMAIN log : v.log[i] = Facts(side, log[i])
  /\ v.first = 0 /\ v.pin.height = Len(log) /\ v.pin.hash \in Hashes
  /\ finalityBasisStands(Mode, v.pin.height)
  /\ v.calls = Balanced(side, log)
  /\ Witnessed(v)

LEMMA Shown ==
  ASSUME CInv, ~outvoted, \A side \in Sides : reading[side].ok, decodable(reading), NEW side \in Sides
  PROVE  Shows(side, decodedSides(reading)[side], At(side))
<1> DEFINE r == reading[side]
           v == decodedSides(reading)[side]
           log == At(side)
           facts == [i \in DOMAIN r.log |-> UNION {f.fields : f \in factsOf[side][r.log[i]]}]
<1>1. Witnessed(r) /\ AtPin(r, LogOf(side)) /\ Honest(side, r, LogOf(side)) /\ Ordered(side, LogOf(side))
  <2>1. Truly(side, r, LogOf(side), outvoted)
    BY DEF CInv, ReadingInv
  <2>2. Ordered(side, LogOf(side))
    BY DEF CInv, RouteInv, LogOf, Sides
  <2> QED BY <2>1, <2>2 DEF Truly
<1>2. r.pin.height \in 0..Len(LogOf(side)) /\ LogOf(side) \in Seq(Events)
  BY <1>1 DEF AtPin, Ordered
<1>3. Ordered(side, log) /\ Len(log) = r.pin.height /\ log \in Seq(Events)
  BY <1>1, <1>2, PrefixOrdered, PrefixIs DEF At
<1>4. r.log = log /\ r.first = 0 /\ r.calls = Balanced(side, log)
  BY <1>1 DEF Honest, At
<1>5. v = [r EXCEPT !.log = facts]
  BY DEF decodedSides
<1>6. /\ v.witnesses = r.witnesses /\ v.pin = r.pin /\ v.log = facts /\ v.first = r.first /\ v.calls = r.calls
  <2>1. r = [ok |-> TRUE, witnesses |-> r.witnesses, pin |-> r.pin, log |-> r.log, first |-> r.first, calls |-> r.calls]
    BY <1>1 DEF AtPin
  <2>2. {"witnesses", "pin", "log", "first", "calls"} \subseteq DOMAIN r
    <3> DEFINE w == r.witnesses
               p == r.pin
               l == r.log
               a == r.first
               c == r.calls
    <3>1. r = [ok |-> TRUE, witnesses |-> w, pin |-> p, log |-> l, first |-> a, calls |-> c]
      BY <2>1
    <3> HIDE DEF w, p, l, a, c, r
    <3> QED BY <3>1
  <2> HIDE DEF facts, r, v
  <2> QED BY <1>5, <2>2
<1>7. \A i \in DOMAIN log : log[i] \in Events /\ Shaped(side, log[i]) /\ \A f \in factsOf[side][log[i]] : f.ok
  <2>1. \A i \in DOMAIN log : Shaped(side, log[i])
    BY <1>3 DEF Ordered
  <2>2. \A i \in DOMAIN log : log[i] \in Events
    BY <1>3
  <2>3. \A i \in DOMAIN r.log : \A f \in factsOf[side][r.log[i]] : f.ok
    BY DEF decodable
  <2> QED BY <1>4, <2>1, <2>2, <2>3
<1>8. \A i \in DOMAIN log : log[i].kind # "unknown" /\ facts[i] = Facts(side, log[i])
  <2> SUFFICES ASSUME NEW i \in DOMAIN log PROVE log[i].kind # "unknown" /\ facts[i] = Facts(side, log[i])
    OBVIOUS
  <2>1. log[i].kind # "unknown"
    BY <1>7, FactsAre
  <2>2. UNION {f.fields : f \in factsOf[side][log[i]]} = Facts(side, log[i])
    BY <1>7, <2>1, FactsAre
  <2> QED BY <1>4, <2>1, <2>2
<1>9. DOMAIN facts = DOMAIN log
  BY <1>4
<1> HIDE DEF r, v, facts, log
<1>10. Witnessed(v)
  BY <1>1, <1>6 DEF Witnessed
<1>11. v.pin.hash \in Hashes /\ finalityBasisStands(Mode, v.pin.height)
  BY <1>1, <1>6 DEF AtPin
<1>12. Shows(side, v, log)
  BY <1>3, <1>4, <1>6, <1>8, <1>9, <1>10, <1>11 DEF Shows
<1> QED BY <1>12 DEF v, log

\* The names and the fields the decoded side gives the blocks of the history.
Reads(side, v, log) ==
  /\ \A name : Named(v, name) \subseteq DOMAIN log
  /\ \A i \in DOMAIN log :
       /\ i \in Named(v, "tokensSent") <=> log[i].kind = "sent"
       /\ log[i].kind = "sent" => FieldsAt(v, "tokensSent", i) = SentFields(side, log[i])
       /\ i \in Named(v, "tokensRouted") <=> log[i].kind = "routed"
       /\ log[i].kind = "routed" => FieldsAt(v, "tokensRouted", i) = Towards(log[i].msg)
       /\ i \in Named(v, "tokensAndCallSent") <=> log[i].kind = "callSent"
       /\ log[i].kind = "callSent" => FieldsAt(v, "tokensAndCallSent", i) = Towards(log[i].msg)
       /\ i \in Named(v, "remoteRegistered") <=> log[i].kind \in {"registered", "untracked"}
       /\ log[i].kind \in {"registered", "untracked"} =>
            FieldsAt(v, "remoteRegistered", i)
              = RegisteredFields(IF log[i].kind = "registered" THEN ContractOf.remote ELSE Somebody)
       /\ i \in Named(v, "messageExecuted") <=> log[i].kind \in {"executed", "called"}
       /\ log[i].kind \in {"executed", "called"} =>
            FieldsAt(v, "messageExecuted", i) = OutcomeFields(side, log[i])
       /\ i \in Named(v, "messageExecutionFailed") <=> log[i].kind = "failed"
       /\ log[i].kind = "failed" => FieldsAt(v, "messageExecutionFailed", i) = OutcomeFields(side, log[i])
       /\ i \in Named(v, "receiveCrossChainMessage") <=> log[i].delivers /\ log[i].kind # "foreign"
       /\ log[i].delivers /\ log[i].kind # "foreign" =>
            FieldsAt(v, "receiveCrossChainMessage", i) = DeliveryFields(log[i])

LEMMA SideReads ==
  ASSUME NEW side, NEW v, NEW log, Shows(side, v, log)
  PROVE  Reads(side, v, log)
<1>1. \A name : Named(v, name) \subseteq DOMAIN log
  BY DEF Named, Shows
<1>2. \A i \in DOMAIN log : log[i] \in Events
  BY DEF Shows, Ordered
<1> SUFFICES ASSUME NEW i \in DOMAIN log
             PROVE
       /\ i \in Named(v, "tokensSent") <=> log[i].kind = "sent"
       /\ log[i].kind = "sent" => FieldsAt(v, "tokensSent", i) = SentFields(side, log[i])
       /\ i \in Named(v, "tokensRouted") <=> log[i].kind = "routed"
       /\ log[i].kind = "routed" => FieldsAt(v, "tokensRouted", i) = Towards(log[i].msg)
       /\ i \in Named(v, "tokensAndCallSent") <=> log[i].kind = "callSent"
       /\ log[i].kind = "callSent" => FieldsAt(v, "tokensAndCallSent", i) = Towards(log[i].msg)
       /\ i \in Named(v, "remoteRegistered") <=> log[i].kind \in {"registered", "untracked"}
       /\ log[i].kind \in {"registered", "untracked"} =>
            FieldsAt(v, "remoteRegistered", i)
              = RegisteredFields(IF log[i].kind = "registered" THEN ContractOf.remote ELSE Somebody)
       /\ i \in Named(v, "messageExecuted") <=> log[i].kind \in {"executed", "called"}
       /\ log[i].kind \in {"executed", "called"} =>
            FieldsAt(v, "messageExecuted", i) = OutcomeFields(side, log[i])
       /\ i \in Named(v, "messageExecutionFailed") <=> log[i].kind = "failed"
       /\ log[i].kind = "failed" => FieldsAt(v, "messageExecutionFailed", i) = OutcomeFields(side, log[i])
       /\ i \in Named(v, "receiveCrossChainMessage") <=> log[i].delivers /\ log[i].kind # "foreign"
       /\ log[i].delivers /\ log[i].kind # "foreign" =>
            FieldsAt(v, "receiveCrossChainMessage", i) = DeliveryFields(log[i])
  BY <1>1, Zenon DEF Reads
<1> DEFINE e == log[i]
<1>3. /\ Tells(Facts(side, e), "tokensSent", e.kind = "sent", SentFields(side, e))
      /\ Tells(Facts(side, e), "tokensRouted", e.kind = "routed", Towards(e.msg))
      /\ Tells(Facts(side, e), "tokensAndCallSent", e.kind = "callSent", Towards(e.msg))
      /\ Tells(Facts(side, e), "remoteRegistered", e.kind \in {"registered", "untracked"},
               RegisteredFields(IF e.kind = "registered" THEN ContractOf.remote ELSE Somebody))
      /\ Tells(Facts(side, e), "messageExecuted", e.kind \in {"executed", "called"}, OutcomeFields(side, e))
      /\ Tells(Facts(side, e), "messageExecutionFailed", e.kind = "failed", OutcomeFields(side, e))
      /\ Tells(Facts(side, e), "receiveCrossChainMessage", e.delivers /\ e.kind # "foreign", DeliveryFields(e))
  BY <1>2, Tales
<1>11. i \in DOMAIN v.log /\ v.log[i] = Facts(side, e)
  BY DEF Shows
<1> HIDE DEF e
<1>4. (i \in Named(v, "tokensSent") <=> e.kind = "sent") /\ (e.kind = "sent" => FieldsAt(v, "tokensSent", i) = SentFields(side, e))
  BY <1>3, <1>11 DEF Tells, Named, FieldsAt
<1>5. (i \in Named(v, "tokensRouted") <=> e.kind = "routed") /\ (e.kind = "routed" => FieldsAt(v, "tokensRouted", i) = Towards(e.msg))
  BY <1>3, <1>11 DEF Tells, Named, FieldsAt
<1>6. (i \in Named(v, "tokensAndCallSent") <=> e.kind = "callSent")
      /\ (e.kind = "callSent" => FieldsAt(v, "tokensAndCallSent", i) = Towards(e.msg))
  BY <1>3, <1>11 DEF Tells, Named, FieldsAt
<1>7. (i \in Named(v, "remoteRegistered") <=> e.kind \in {"registered", "untracked"})
      /\ (e.kind \in {"registered", "untracked"} =>
            FieldsAt(v, "remoteRegistered", i)
              = RegisteredFields(IF e.kind = "registered" THEN ContractOf.remote ELSE Somebody))
  BY <1>3, <1>11 DEF Tells, Named, FieldsAt
<1>8. (i \in Named(v, "messageExecuted") <=> e.kind \in {"executed", "called"})
      /\ (e.kind \in {"executed", "called"} => FieldsAt(v, "messageExecuted", i) = OutcomeFields(side, e))
  BY <1>3, <1>11 DEF Tells, Named, FieldsAt
<1>9. (i \in Named(v, "messageExecutionFailed") <=> e.kind = "failed")
      /\ (e.kind = "failed" => FieldsAt(v, "messageExecutionFailed", i) = OutcomeFields(side, e))
  BY <1>3, <1>11 DEF Tells, Named, FieldsAt
<1>10. (i \in Named(v, "receiveCrossChainMessage") <=> e.delivers /\ e.kind # "foreign")
      /\ (e.delivers /\ e.kind # "foreign" => FieldsAt(v, "receiveCrossChainMessage", i) = DeliveryFields(e))
  BY <1>3, <1>11 DEF Tells, Named, FieldsAt
<1> QED BY <1>4, <1>5, <1>6, <1>7, <1>8, <1>9, <1>10 DEF e

---------------------------------------------------------------------------
\* What is read of a message.

SentAt(log, m)      == {i \in DOMAIN log : log[i].kind = "sent" /\ log[i].msg = m}
ExecutedAt(log, m)  == {i \in DOMAIN log : log[i].kind = "executed" /\ log[i].msg = m}
DeliveredAt(log, m) == {i \in DOMAIN log : IsDelivery(log[i]) /\ log[i].msg = m}

LEMMA MessageReads ==
  ASSUME NEW side \in Sides, NEW v, NEW log, Shows(side, v, log), NEW m
  PROVE  /\ FactsOf(v, "tokensSent", m) = SentAt(log, m)
         /\ FactsOf(v, "messageExecuted", m)
              = {i \in DOMAIN log : log[i].kind \in {"executed", "called"} /\ log[i].msg = m}
         /\ FactsOf(v, "messageExecutionFailed", m) = {i \in DOMAIN log : log[i].kind = "failed" /\ log[i].msg = m}
         /\ DeliveriesOf(v, m) = {i \in DOMAIN log : log[i].delivers /\ log[i].kind # "foreign" /\ log[i].msg = m}
<1>1. Reads(side, v, log)
  BY SideReads
<1>2. \A e : /\ SentFields(side, e).messageId = e.msg /\ OutcomeFields(side, e).messageId = e.msg
             /\ DeliveryFields(e).messageId = e.msg
  BY DEF SentFields, OutcomeFields, DeliveryFields
<1>3. FactsOf(v, "tokensSent", m) = SentAt(log, m)
  <2>1. \A name : Named(v, name) \subseteq DOMAIN log
    BY <1>1 DEF Reads
  <2>2. \A i \in DOMAIN log : /\ i \in Named(v, "tokensSent") <=> log[i].kind = "sent"
                              /\ log[i].kind = "sent" => FieldsAt(v, "tokensSent", i) = SentFields(side, log[i])
    BY <1>1 DEF Reads
  <2> QED BY <1>2, <2>1, <2>2 DEF FactsOf, SentAt
<1>4. FactsOf(v, "messageExecuted", m)
        = {i \in DOMAIN log : log[i].kind \in {"executed", "called"} /\ log[i].msg = m}
  <2>1. \A name : Named(v, name) \subseteq DOMAIN log
    BY <1>1 DEF Reads
  <2>2. \A i \in DOMAIN log :
          /\ i \in Named(v, "messageExecuted") <=> log[i].kind \in {"executed", "called"}
          /\ log[i].kind \in {"executed", "called"} =>
               FieldsAt(v, "messageExecuted", i) = OutcomeFields(side, log[i])
    BY <1>1 DEF Reads
  <2> QED BY <1>2, <2>1, <2>2 DEF FactsOf
<1>5. FactsOf(v, "messageExecutionFailed", m) = {i \in DOMAIN log : log[i].kind = "failed" /\ log[i].msg = m}
  <2>1. \A name : Named(v, name) \subseteq DOMAIN log
    BY <1>1 DEF Reads
  <2>2. \A i \in DOMAIN log :
          /\ i \in Named(v, "messageExecutionFailed") <=> log[i].kind = "failed"
          /\ log[i].kind = "failed" => FieldsAt(v, "messageExecutionFailed", i) = OutcomeFields(side, log[i])
    BY <1>1 DEF Reads
  <2> QED BY <1>2, <2>1, <2>2 DEF FactsOf
<1>6. DeliveriesOf(v, m) = {i \in DOMAIN log : log[i].delivers /\ log[i].kind # "foreign" /\ log[i].msg = m}
  <2>1. \A name : Named(v, name) \subseteq DOMAIN log
    BY <1>1 DEF Reads
  <2>2. \A i \in DOMAIN log :
          /\ i \in Named(v, "receiveCrossChainMessage") <=> log[i].delivers /\ log[i].kind # "foreign"
          /\ log[i].delivers /\ log[i].kind # "foreign" =>
               FieldsAt(v, "receiveCrossChainMessage", i) = DeliveryFields(log[i])
    BY <1>1 DEF Reads
  <2> QED BY <1>2, <2>1, <2>2 DEF FactsOf, DeliveriesOf
<1> QED BY <1>3, <1>4, <1>5, <1>6

\* What a message of the route can be on a chain.
LEMMA MessageMoves ==
  ASSUME NEW side \in Sides, NEW log, Ordered(side, log), NEW m \in Messages
  PROVE  /\ {i \in DOMAIN log : log[i].kind \in {"executed", "called"} /\ log[i].msg = m} = ExecutedAt(log, m)
         /\ {i \in DOMAIN log : log[i].delivers /\ log[i].kind # "foreign" /\ log[i].msg = m} = DeliveredAt(log, m)
         /\ ExecutedAt(log, m) # {} => DeliveredAt(log, m) # {}
         /\ \A i, j \in SentAt(log, m) : i = j
         /\ \A i, j \in DeliveredAt(log, m) : i = j
         /\ SentAt(log, m) # {} => m \in Outgoing(side)
         /\ ExecutedAt(log, m) # {} \/ DeliveredAt(log, m) # {} => m \in Incoming(side)
         /\ \A i \in SentAt(log, m) : log[i].amount = Amount[m]
<1>1. NoMessage \notin Messages
  BY RouteAssumption DEF Messages
<1>2. \A i \in DOMAIN log : Shaped(side, log[i]) /\ log[i] \in Events
  BY DEF Ordered
<1>3. ASSUME NEW i \in DOMAIN log, log[i].msg = m
      PROVE  /\ log[i].kind \in {"sent", "executed", "failed"} /\ log[i].delivers \in BOOLEAN
             /\ log[i].kind = "sent" => m \in Outgoing(side) /\ ~log[i].delivers /\ log[i].amount = Amount[m]
             /\ log[i].kind # "sent" => m \in Incoming(side)
  <2>1. log[i].msg # NoMessage /\ Shaped(side, log[i]) /\ log[i].delivers \in BOOLEAN
    BY <1>1, <1>2, <1>3 DEF Events
  <2> QED BY <1>3, <2>1 DEF Shaped
<1>4. \A i \in DOMAIN log : log[i].kind = "executed" =>
       \E j \in 1..i : IsDelivery(log[j]) /\ log[j].msg = log[i].msg
  BY DEF Ordered
<1>5. DOMAIN log = 1..Len(log) /\ Len(log) \in Nat
  BY DEF Ordered
<1>6. ExecutedAt(log, m) # {} => DeliveredAt(log, m) # {}
  <2> SUFFICES ASSUME NEW i \in ExecutedAt(log, m) PROVE DeliveredAt(log, m) # {}
    OBVIOUS
  <2>1. i \in DOMAIN log /\ log[i].kind = "executed" /\ log[i].msg = m
    BY DEF ExecutedAt
  <2>2. PICK j \in 1..i : IsDelivery(log[j]) /\ log[j].msg = m
    BY <1>4, <2>1
  <2>3. j \in DOMAIN log
    BY <1>5, <2>1
  <2> QED BY <2>2, <2>3 DEF DeliveredAt
<1>7. {i \in DOMAIN log : log[i].kind \in {"executed", "called"} /\ log[i].msg = m} = ExecutedAt(log, m)
  BY <1>3 DEF ExecutedAt
<1>8. {i \in DOMAIN log : log[i].delivers /\ log[i].kind # "foreign" /\ log[i].msg = m} = DeliveredAt(log, m)
  BY <1>3 DEF DeliveredAt, IsDelivery
<1>9. (\A i, j \in SentAt(log, m) : i = j) /\ \A i, j \in DeliveredAt(log, m) : i = j
  <2>1. \A i, j \in DOMAIN log :
       i # j /\ log[i].msg = log[j].msg =>
         /\ log[i].kind = log[j].kind => log[i].kind \notin {"sent", "failed"}
         /\ ~ (IsDelivery(log[i]) /\ IsDelivery(log[j]))
    BY DEF Ordered
  <2> QED BY <2>1 DEF SentAt, DeliveredAt
<1>10. /\ SentAt(log, m) # {} => m \in Outgoing(side)
       /\ ExecutedAt(log, m) # {} \/ DeliveredAt(log, m) # {} => m \in Incoming(side)
       /\ \A i \in SentAt(log, m) : log[i].amount = Amount[m]
  BY <1>3 DEF SentAt, ExecutedAt, DeliveredAt, IsDelivery
<1> QED BY <1>6, <1>7, <1>8, <1>9, <1>10

---------------------------------------------------------------------------
\* The directions.

Cut(h, r, side) == IF side = "home" THEN h ELSE r

Showing(s, h, r) == \A side \in Sides : Shows(side, s[side], Cut(h, r, side))

LEMMA DirectionIs ==
  ASSUME NEW direction \in Directions
  PROVE  LET d == Directed(direction)
         IN  /\ d.src \in Sides /\ d.dst \in Sides /\ d.dst = Others(d.src) /\ d.src = Others(d.dst)
             /\ Outgoing(d.src) \subseteq d.messages /\ d.messages \subseteq Outgoing(d.src) \cup {NoMessage}
             /\ Incoming(d.dst) = Outgoing(d.src) /\ Outgoing(d.src) \subseteq Messages
             /\ NoMessage \in d.messages => d.src = "home"
             /\ direction = IF d.src = "home" THEN "home-to-remote" ELSE "remote-to-home"
BY RouteAssumption DEF Directions, Directed, Sides, Others, Outgoing, Incoming, Messages

LEMMA MessageSeen ==
  ASSUME NEW s, NEW h, NEW r, Showing(s, h, r), NEW direction \in Directions,
         NEW d, d = Directed(direction), NEW m \in Outgoing(d.src)
  PROVE  /\ SendsOf(d, s, m) = SentAt(Cut(h, r, d.src), m)
         /\ DeliveriesOf(s[d.dst], m) = DeliveredAt(Cut(h, r, d.dst), m)
         /\ FactsOf(s[d.dst], "messageExecuted", m) = ExecutedAt(Cut(h, r, d.dst), m)
         /\ Credited(d, s, m) <=> ExecutedAt(Cut(h, r, d.dst), m) # {}
         /\ \A i \in SentAt(Cut(h, r, d.src), m) : AmountSent(d, s, i) = Amount[m]
         /\ \A i \in DeliveredAt(Cut(h, r, d.dst), m) :
              PayloadAt(s[d.dst], i).amount = Cut(h, r, d.dst)[i].amount
<1>1. /\ d.src \in Sides /\ d.dst \in Sides /\ d.dst = Others(d.src) /\ m \in Messages
  BY DirectionIs
<1> DEFINE source == Cut(h, r, d.src)
           target == Cut(h, r, d.dst)
           v == s[d.src]
           w == s[d.dst]
<1>2. Shows(d.src, v, source) /\ Shows(d.dst, w, target)
  BY <1>1 DEF Showing
<1>3. Ordered(d.src, source) /\ Ordered(d.dst, target) /\ Reads(d.src, v, source) /\ Reads(d.dst, w, target)
  BY <1>2, SideReads DEF Shows
<1>4. FactsOf(v, "tokensSent", m) = SentAt(source, m)
  BY <1>1, <1>2, MessageReads
<1>5. FactsOf(w, "messageExecuted", m) = ExecutedAt(target, m)
  <2>1. FactsOf(w, "messageExecuted", m)
          = {i \in DOMAIN target : target[i].kind \in {"executed", "called"} /\ target[i].msg = m}
    BY <1>1, <1>2, MessageReads
  <2>2. {i \in DOMAIN target : target[i].kind \in {"executed", "called"} /\ target[i].msg = m} = ExecutedAt(target, m)
    BY <1>1, <1>3, MessageMoves
  <2> QED BY <2>1, <2>2
<1>6. DeliveriesOf(w, m) = DeliveredAt(target, m)
  <2>1. DeliveriesOf(w, m)
          = {i \in DOMAIN target : target[i].delivers /\ target[i].kind # "foreign" /\ target[i].msg = m}
    BY <1>1, <1>2, MessageReads
  <2>2. {i \in DOMAIN target : target[i].delivers /\ target[i].kind # "foreign" /\ target[i].msg = m}
          = DeliveredAt(target, m)
    BY <1>1, <1>3, MessageMoves
  <2> QED BY <2>1, <2>2
<1>7. \A i \in SentAt(source, m) : /\ FieldsAt(v, "tokensSent", i) = SentFields(d.src, source[i])
                                   /\ source[i].amount = Amount[m]
  <2>1. \A i \in DOMAIN source : source[i].kind = "sent" => FieldsAt(v, "tokensSent", i) = SentFields(d.src, source[i])
    BY <1>3 DEF Reads
  <2>2. \A i \in SentAt(source, m) : source[i].amount = Amount[m]
    BY <1>1, <1>3, MessageMoves
  <2> QED BY <2>1, <2>2 DEF SentAt
<1>8. \A i \in DeliveredAt(target, m) : FieldsAt(w, "receiveCrossChainMessage", i) = DeliveryFields(target[i])
  <2>1. \A i \in DOMAIN target : target[i].delivers /\ target[i].kind # "foreign" =>
            FieldsAt(w, "receiveCrossChainMessage", i) = DeliveryFields(target[i])
    BY <1>3 DEF Reads
  <2> QED BY <2>1 DEF DeliveredAt, IsDelivery
<1>9. \A i \in SentAt(source, m) : LET sent == FieldsAt(v, "tokensSent", i)
                                   IN  /\ sent.chain = ChainOf[d.dst] /\ sent.transferrer = ContractOf[d.dst]
                                       /\ sent.amount = Amount[m]
  <2>1. \A e : /\ SentFields(d.src, e).chain = ChainOf[d.dst] /\ SentFields(d.src, e).transferrer = ContractOf[d.dst]
               /\ SentFields(d.src, e).amount = e.amount
    BY <1>1 DEF SentFields
  <2> SUFFICES ASSUME NEW i \in SentAt(source, m)
               PROVE  /\ FieldsAt(v, "tokensSent", i).chain = ChainOf[d.dst]
                      /\ FieldsAt(v, "tokensSent", i).transferrer = ContractOf[d.dst]
                      /\ FieldsAt(v, "tokensSent", i).amount = Amount[m]
    OBVIOUS
  <2>2. FieldsAt(v, "tokensSent", i) = SentFields(d.src, source[i]) /\ source[i].amount = Amount[m]
    BY <1>7
  <2> HIDE DEF source, v
  <2> QED BY <2>1, <2>2
<1>10. SendsOf(d, s, m) = SentAt(source, m)
  BY <1>4, <1>9 DEF SendsOf
<1>11. Credited(d, s, m) <=> ExecutedAt(target, m) # {}
  <2>1. ExecutedAt(target, m) # {} => DeliveredAt(target, m) # {}
    BY <1>1, <1>3, MessageMoves
  <2> QED BY <1>5, <1>6, <2>1 DEF Credited
<1>12. \A i \in SentAt(source, m) : AmountSent(d, s, i) = Amount[m]
  BY <1>9 DEF AmountSent
<1>13. \A i \in DeliveredAt(target, m) : PayloadAt(w, i).amount = target[i].amount
  <2>1. \A i \in DeliveredAt(target, m) : DeliveryFields(target[i]).payload.amount = target[i].amount
    BY DEF DeliveryFields, DeliveredAt, IsDelivery
  <2> QED BY <1>8, <2>1 DEF PayloadAt
<1> QED BY <1>5, <1>6, <1>10, <1>11, <1>12, <1>13

\* What is no message was never sent, and is credited when a call was delivered.
LEMMA NoMessageSeen ==
  ASSUME NEW s, NEW h, NEW r, Showing(s, h, r), NEW direction \in Directions,
         NEW d, d = Directed(direction), NoMessage \in d.messages
  PROVE  /\ SendsOf(d, s, NoMessage) = {}
         /\ Credited(d, s, NoMessage) => \E i \in DOMAIN r : r[i].kind = "called"
<1>1. NoMessage \notin Messages
  BY RouteAssumption DEF Messages
<1>2. d.src = "home" /\ d.dst = "remote"
  BY DirectionIs DEF Others
<1>3. Shows("home", s["home"], h) /\ Shows("remote", s["remote"], r)
  BY DEF Showing, Cut, Sides
<1>4. /\ FactsOf(s["home"], "tokensSent", NoMessage) = SentAt(h, NoMessage)
      /\ FactsOf(s["remote"], "messageExecuted", NoMessage)
           = {i \in DOMAIN r : r[i].kind \in {"executed", "called"} /\ r[i].msg = NoMessage}
  BY <1>3, MessageReads DEF Sides
<1>5. /\ \A i \in DOMAIN h : h[i].kind = "sent" => h[i].msg \in Messages
      /\ \A i \in DOMAIN r : r[i].kind = "executed" => r[i].msg \in Messages
  <2>1. /\ \A i \in DOMAIN h : Shaped("home", h[i])
        /\ \A i \in DOMAIN r : Shaped("remote", r[i])
    BY <1>3 DEF Shows, Ordered
  <2> QED BY <2>1 DEF Shaped, Outgoing, Incoming, Messages, Uninterpreted, Strange
<1>6. SentAt(h, NoMessage) = {}
  BY <1>1, <1>5 DEF SentAt
<1>7. SendsOf(d, s, NoMessage) = {}
  BY <1>2, <1>4, <1>6 DEF SendsOf
<1>8. Credited(d, s, NoMessage) => \E i \in DOMAIN r : r[i].kind = "called"
  BY <1>1, <1>2, <1>4, <1>5 DEF Credited
<1> QED BY <1>7, <1>8

---------------------------------------------------------------------------
\* The route at two pins.

LEMMA AtMostOne ==
  ASSUME NEW S, IsFiniteSet(S), \A x, y \in S : x = y
  PROVE  ~ (Cardinality(S) > 1) /\ (S # {} => Cardinality(S) = 1)
<1>1. CASE S = {}
  BY <1>1, FS_EmptySet
<1>2. CASE S # {}
  <2>1. PICK x \in S : S = {x}
    BY <1>2
  <2> QED BY <1>2, <2>1, FS_Singleton
<1> QED BY <1>1, <1>2

LEMMA FiniteMoves ==
  ASSUME NEW side, NEW log, Ordered(side, log), NEW m
  PROVE  IsFiniteSet(SentAt(log, m)) /\ IsFiniteSet(ExecutedAt(log, m)) /\ IsFiniteSet(DeliveredAt(log, m))
<1>1. DOMAIN log = 1..Len(log) /\ Len(log) \in Nat
  BY DEF Ordered
<1>2. IsFiniteSet(DOMAIN log)
  BY <1>1, FS_Interval
<1>3. SentAt(log, m) \subseteq DOMAIN log /\ ExecutedAt(log, m) \subseteq DOMAIN log /\ DeliveredAt(log, m) \subseteq DOMAIN log
  BY DEF SentAt, ExecutedAt, DeliveredAt
<1> QED BY <1>2, <1>3, FS_Subset

LEMMA RouteIs ==
  ASSUME NEW s
  PROVE  /\ \A x : x \in assessRoute(s).open <=> \E d \in Directions : x \in openEdges(Directed(d), s)
         /\ \A x : x \in assessRoute(s).effects <=> \E d \in Directions : x \in effectsOf(Directed(d), s)
         /\ \A x : x \in assessRoute(s).pending <=> \E d \in Directions : x \in pendingIn(d, s)
         /\ assessRoute(s).unsupported = unsupportedTraffic(s)
<1> DEFINE both == {assessDirection(d, s) : d \in Directions}
           route == assessRoute(s)
<1>1. /\ route.open = UNION {a.open : a \in both} /\ route.effects = UNION {a.effects : a \in both}
      /\ route.pending = UNION {a.pending : a \in both} /\ route.unsupported = unsupportedTraffic(s)
  BY DEF assessRoute
<1>2. \A d \in Directions : /\ assessDirection(d, s).open = openEdges(Directed(d), s)
                            /\ assessDirection(d, s).effects = effectsOf(Directed(d), s)
                            /\ assessDirection(d, s).pending = pendingIn(d, s)
  BY DEF assessDirection
<1> HIDE DEF route
<1> QED BY <1>1, <1>2 DEF route

\* Everything executed in one prefix was sent in the other.
Closed(h, r) ==
  \A side \in Sides : \A m \in Incoming(side) :
    ExecutedAt(Cut(h, r, side), m) # {} => SentAt(Cut(h, r, Others(side)), m) # {}

LEMMA OpenIs ==
  ASSUME NEW s, NEW h, NEW r, Showing(s, h, r)
  PROVE  /\ assessRoute(s).open = {} => Closed(h, r)
         /\ Closed(h, r) /\ ~ (\E i \in DOMAIN r : r[i].kind = "called") => assessRoute(s).open = {}
<1>1. ASSUME assessRoute(s).open = {} PROVE Closed(h, r)
  <2> SUFFICES ASSUME NEW side \in Sides, NEW m \in Incoming(side), ExecutedAt(Cut(h, r, side), m) # {}
               PROVE  SentAt(Cut(h, r, Others(side)), m) # {}
    BY DEF Closed
  <2> DEFINE direction == IF side = "remote" THEN "home-to-remote" ELSE "remote-to-home"
             d == Directed(direction)
  <2>1. direction \in Directions /\ d.dst = side /\ d.src = Others(side)
    BY DEF Directions, Directed, Sides, Others
  <2> HIDE DEF direction
  <2>2. m \in Outgoing(d.src) /\ m \in d.messages
    BY <2>1, DirectionIs
  <2> HIDE DEF d
  <2>3. SendsOf(d, s, m) = SentAt(Cut(h, r, Others(side)), m) /\ Credited(d, s, m)
    <3>1. d = Directed(direction)
      BY DEF d
    <3> QED BY <2>1, <2>2, <3>1, MessageSeen
  <2>4. m \notin openEdges(d, s)
    BY <1>1, <2>1, RouteIs DEF d
  <2> QED BY <2>2, <2>3, <2>4 DEF openEdges
<1>2. ASSUME Closed(h, r), ~ (\E i \in DOMAIN r : r[i].kind = "called") PROVE assessRoute(s).open = {}
  <2> SUFFICES ASSUME NEW direction \in Directions, NEW m, m \in openEdges(Directed(direction), s) PROVE FALSE
    BY RouteIs
  <2> DEFINE d == Directed(direction)
  <2>1. m \in d.messages /\ Credited(d, s, m) /\ SendsOf(d, s, m) = {}
    BY DEF openEdges
  <2>2. d.messages \subseteq Outgoing(d.src) \cup {NoMessage} /\ d.dst \in Sides /\ Incoming(d.dst) = Outgoing(d.src)
        /\ d.src = Others(d.dst)
    BY DirectionIs
  <2>0. d = Directed(direction)
    OBVIOUS
  <2> HIDE DEF d
  <2>3. CASE m \in Outgoing(d.src)
    <3>1. SendsOf(d, s, m) = SentAt(Cut(h, r, d.src), m) /\ ExecutedAt(Cut(h, r, d.dst), m) # {}
      BY <2>0, <2>1, <2>3, MessageSeen
    <3> QED BY <1>2, <2>1, <2>2, <2>3, <3>1 DEF Closed
  <2>4. CASE m = NoMessage
    BY <1>2, <2>0, <2>1, <2>4, NoMessageSeen
  <2> QED BY <2>1, <2>2, <2>3, <2>4
<1> QED BY <1>1, <1>2

---------------------------------------------------------------------------
\* Effects.

EffectOf(d, s, m) ==
  LET sent      == SendsOf(d, s, m)
      delivered == DeliveriesOf(s[d.dst], m)
      amount    == PayloadAt(s[d.dst], CHOOSE i \in delivered : TRUE).amount
  IN  [key |-> m, remote |-> "remote", amount |-> amount,
       uniqueSource |-> Cardinality(sent) = 1,
       routeMatches |-> Cardinality(sent) = 1 /\ \A i \in sent : AmountSent(d, s, i) = amount,
       duplicate    |-> Cardinality(FactsOf(s[d.dst], "messageExecuted", m)) > 1
                          \/ Cardinality(delivered) > 1,
       sourceFact   |-> IF Cardinality(sent) = 1
                          THEN Fact(d.src, s[d.src], CHOOSE i \in sent : TRUE) ELSE Absent]

LEMMA EffectsAre ==
  ASSUME NEW d, NEW s
  PROVE  effectsOf(d, s) = {EffectOf(d, s, m) : m \in {x \in d.messages : Credited(d, s, x) /\ SendsOf(d, s, x) # {}}}
BY DEF effectsOf, EffectOf

\* No message is executed twice.
Once(h, r) == \A side \in Sides : \A m \in Incoming(side) : \A i, j \in ExecutedAt(Cut(h, r, side), m) : i = j

\* No message is executed for another amount.
Rightly(h, r) ==
  \A side \in Sides : \A m \in Incoming(side) : \A i \in ExecutedAt(Cut(h, r, side), m) :
    Cut(h, r, side)[i].amount = Amount[m]

LEMMA FactIsThere ==
  ASSUME NEW side \in Sides, NEW v, NEW log, Shows(side, v, log), NEW i \in DOMAIN log
  PROVE  Fact(side, v, i) # Absent
<1>1. v.first = 0 /\ v.pin.hash \in Hashes /\ DOMAIN log = 1..Len(log) /\ Len(log) \in Nat
  BY DEF Shows, Ordered
<1>2. heightOf(v, i) \in Int
  BY <1>1 DEF heightOf
<1>3. Fact(side, v, i) \in [chain : Sides, height : Int, hash : Hashes]
  BY <1>1, <1>2 DEF Fact, FactAt, Hashes
<1> QED BY <1>3, AbsentIsNoReading

LEMMA EffectFacts ==
  ASSUME NEW s, NEW h, NEW r, Showing(s, h, r), NEW direction \in Directions,
         NEW d, d = Directed(direction), NEW m \in Outgoing(d.src),
         Credited(d, s, m), SendsOf(d, s, m) # {}
  PROVE  /\ EffectOf(d, s, m).uniqueSource /\ EffectOf(d, s, m).sourceFact # Absent
         /\ EffectOf(d, s, m).duplicate <=> Cardinality(ExecutedAt(Cut(h, r, d.dst), m)) > 1
         /\ EffectOf(d, s, m).routeMatches <=>
              \A i \in DeliveredAt(Cut(h, r, d.dst), m) : Cut(h, r, d.dst)[i].amount = Amount[m]
<1> DEFINE source == Cut(h, r, d.src)
           target == Cut(h, r, d.dst)
           v == s[d.src]
           w == s[d.dst]
           sent == SendsOf(d, s, m)
           delivered == DeliveriesOf(w, m)
           i0 == CHOOSE i \in delivered : TRUE
           amount == PayloadAt(w, i0).amount
           e == EffectOf(d, s, m)
<1>1. /\ d.src \in Sides /\ d.dst \in Sides /\ m \in Messages
  BY DirectionIs
<1>2. Shows(d.src, v, source) /\ Shows(d.dst, w, target) /\ Ordered(d.src, source) /\ Ordered(d.dst, target)
  BY <1>1 DEF Showing, Shows
<1>3. /\ sent = SentAt(source, m) /\ delivered = DeliveredAt(target, m)
      /\ FactsOf(w, "messageExecuted", m) = ExecutedAt(target, m)
      /\ ExecutedAt(target, m) # {}
      /\ \A i \in sent : AmountSent(d, s, i) = Amount[m]
      /\ \A i \in delivered : PayloadAt(w, i).amount = target[i].amount
  BY MessageSeen
<1>4. IsFiniteSet(sent) /\ IsFiniteSet(delivered)
  BY <1>2, <1>3, FiniteMoves
<1>5. /\ \A i, j \in sent : i = j
      /\ \A i, j \in delivered : i = j
      /\ delivered # {}
  BY <1>1, <1>2, <1>3, MessageMoves
<1>6. e.uniqueSource = (Cardinality(sent) = 1)
  BY DEF EffectOf
<1>7. e.routeMatches = (Cardinality(sent) = 1 /\ \A i \in sent : AmountSent(d, s, i) = amount)
  BY DEF EffectOf
<1>8. e.duplicate = (Cardinality(FactsOf(w, "messageExecuted", m)) > 1 \/ Cardinality(delivered) > 1)
  BY DEF EffectOf
<1>9. e.sourceFact = IF Cardinality(sent) = 1 THEN Fact(d.src, v, CHOOSE i \in sent : TRUE) ELSE Absent
  BY DEF EffectOf
<1> HIDE DEF sent, delivered, e, w, v
<1>10. Cardinality(sent) = 1 /\ ~ (Cardinality(delivered) > 1) /\ sent # {}
  <2>1. sent # {}
    BY DEF sent
  <2> QED BY <1>4, <1>5, <2>1, AtMostOne
<1>11. e.sourceFact # Absent
  <2>1. (CHOOSE i \in sent : TRUE) \in sent
    BY <1>10
  <2>2. (CHOOSE i \in sent : TRUE) \in DOMAIN source
    BY <1>3, <2>1 DEF SentAt
  <2>3. Fact(d.src, v, CHOOSE i \in sent : TRUE) # Absent
    BY <1>1, <1>2, <2>2, FactIsThere
  <2> QED BY <1>9, <1>10, <2>3
<1>12. i0 \in delivered /\ amount = target[i0].amount
  BY <1>3, <1>5
<1> HIDE DEF i0, amount, source, target
<1>13. e.routeMatches <=> \A i \in delivered : target[i].amount = Amount[m]
  <2>1. e.routeMatches <=> amount = Amount[m]
    BY <1>3, <1>7, <1>10
  <2>2. \A i \in delivered : i = i0
    BY <1>5, <1>12
  <2> QED BY <1>12, <2>1, <2>2
<1>14. e.duplicate <=> Cardinality(ExecutedAt(target, m)) > 1
  BY <1>3, <1>8, <1>10
<1> QED BY <1>3, <1>6, <1>10, <1>11, <1>13, <1>14 DEF e, target

\* Of a history without fault no effect is doubted.
LEMMA EffectsHold ==
  ASSUME NEW s, NEW h, NEW r, Showing(s, h, r), Once(h, r), Rightly(h, r), NEW e \in assessRoute(s).effects
  PROVE  e.uniqueSource /\ ~e.duplicate /\ e.routeMatches /\ e.sourceFact # Absent
<1>1. PICK direction \in Directions : e \in effectsOf(Directed(direction), s)
  BY RouteIs
<1> DEFINE d == Directed(direction)
           target == Cut(h, r, d.dst)
<1>2. PICK m \in d.messages : e = EffectOf(d, s, m) /\ Credited(d, s, m) /\ SendsOf(d, s, m) # {}
  BY <1>1, EffectsAre
<1>3. /\ d.dst \in Sides /\ d.messages \subseteq Outgoing(d.src) \cup {NoMessage}
      /\ Incoming(d.dst) = Outgoing(d.src) /\ Outgoing(d.src) \subseteq Messages
  BY DirectionIs
<1>0. d = Directed(direction)
  OBVIOUS
<1> HIDE DEF d
<1>4. m \in Outgoing(d.src)
  BY <1>0, <1>2, <1>3, NoMessageSeen
<1>5. /\ e.uniqueSource /\ e.sourceFact # Absent
      /\ e.duplicate <=> Cardinality(ExecutedAt(target, m)) > 1
      /\ e.routeMatches <=> \A i \in DeliveredAt(target, m) : target[i].amount = Amount[m]
  BY <1>0, <1>2, <1>4, EffectFacts
<1>6. Ordered(d.dst, target)
  BY <1>3 DEF Showing, Shows
<1>7. ~ (Cardinality(ExecutedAt(target, m)) > 1)
  <2>1. IsFiniteSet(ExecutedAt(target, m))
    BY <1>6, FiniteMoves
  <2>2. \A i, j \in ExecutedAt(target, m) : i = j
    BY <1>3, <1>4 DEF Once
  <2> QED BY <2>1, <2>2, AtMostOne
<1>8. \A i \in DeliveredAt(target, m) : target[i].amount = Amount[m]
  <2> SUFFICES ASSUME NEW i \in DeliveredAt(target, m) PROVE target[i].amount = Amount[m]
    OBVIOUS
  <2>1. i \in DOMAIN target /\ target[i].msg = m /\ target[i].kind \in {"executed", "failed"} /\ Shaped(d.dst, target[i])
    BY <1>6 DEF DeliveredAt, IsDelivery, Ordered
  <2>2. CASE target[i].kind = "executed"
    BY <1>3, <1>4, <2>1, <2>2 DEF Rightly, ExecutedAt
  <2>3. CASE target[i].kind = "failed"
    BY <2>1, <2>3 DEF Shaped, Uninterpreted, Strange
  <2> QED BY <2>1, <2>2, <2>3
<1> QED BY <1>5, <1>7, <1>8

\* No doubted effect: no message was executed twice.
LEMMA EffectsTell ==
  ASSUME NEW s, NEW h, NEW r, Showing(s, h, r), Closed(h, r), \A e \in assessRoute(s).effects : ~e.duplicate
  PROVE  Once(h, r)
<1> SUFFICES ASSUME NEW side \in Sides, NEW m \in Incoming(side),
                    NEW i \in ExecutedAt(Cut(h, r, side), m), NEW j \in ExecutedAt(Cut(h, r, side), m)
             PROVE  i = j
  BY DEF Once
<1> DEFINE direction == IF side = "remote" THEN "home-to-remote" ELSE "remote-to-home"
           d == Directed(direction)
<1>1. direction \in Directions /\ d.dst = side /\ d.src = Others(side)
  BY DEF Directions, Directed, Sides, Others
<1>2. d = Directed(direction)
  OBVIOUS
<1> HIDE DEF direction
<1>3. m \in Outgoing(d.src) /\ m \in d.messages
  BY <1>1, DirectionIs
<1> HIDE DEF d
<1>4. Credited(d, s, m) /\ SendsOf(d, s, m) # {}
  <2>1. ExecutedAt(Cut(h, r, d.dst), m) # {} /\ SentAt(Cut(h, r, d.src), m) # {}
    BY <1>1 DEF Closed
  <2> QED BY <1>1, <1>2, <1>3, <2>1, MessageSeen
<1>5. EffectOf(d, s, m) \in assessRoute(s).effects
  <2>1. EffectOf(d, s, m) \in effectsOf(d, s)
    BY <1>3, <1>4, EffectsAre
  <2> QED BY <1>1, <1>2, <2>1, RouteIs
<1>6. ~ (Cardinality(ExecutedAt(Cut(h, r, side), m)) > 1)
  BY <1>1, <1>2, <1>3, <1>4, <1>5, EffectFacts
<1>7. Ordered(side, Cut(h, r, side))
  BY DEF Showing, Shows
<1>8. IsFiniteSet(ExecutedAt(Cut(h, r, side), m))
  BY <1>7, FiniteMoves
<1> QED BY <1>6, <1>8, OnlyOne

---------------------------------------------------------------------------
\* Balances, message by message.

\* The messages in some order.
Lists(ms, k) ==
  /\ k \in Nat /\ \A j \in 1..k : ms[j] \in Messages
  /\ \A i, j \in 1..k : ms[i] = ms[j] => i = j
  /\ \A m \in Messages : \E j \in 1..k : ms[j] = m

LEMMA Listed == \E ms, k : Lists(ms, k)
<1>1. IsFiniteSet(Messages)
  BY RouteAssumption DEF Messages
<1>2. PICK k \in Nat : ExistsBijection(1..k, Messages)
  BY <1>1, FS_NatBijection
<1>3. PICK ms : ms \in Bijection(1..k, Messages)
  BY <1>2 DEF ExistsBijection
<1>4. ms \in [1..k -> Messages]
  BY <1>3 DEF Bijection, Injection
<1>5. \A i, j \in 1..k : ms[i] = ms[j] => i = j
  BY <1>3, <1>4 DEF Bijection, Injection, IsInjective
<1>6. \A m \in Messages : \E j \in 1..k : ms[j] = m
  BY <1>3 DEF Bijection, Surjection
<1> QED BY <1>2, <1>4, <1>5, <1>6 DEF Lists

Of(a, log, m, n) == [i \in 1..n |-> IF log[i].msg = m THEN a[i] ELSE 0]

PerMessage(a, log, ms, n, k) == [j \in 1..k |-> SumOf(Of(a, log, ms[j], n), n)]

\* A sum over events is the sum over messages of the sums over their events.
LEMMA ByMessage ==
  ASSUME NEW ms, NEW k, Lists(ms, k), NEW n \in Nat, NEW a, NEW log,
         \A i \in 1..n : a[i] \in Int /\ (a[i] # 0 => log[i].msg \in Messages)
  PROVE  SumOf(a, n) = SumOf(PerMessage(a, log, ms, n, k), k)
<1> DEFINE b == [i \in 1..n |-> [j \in 1..k |-> IF log[i].msg = ms[j] THEN a[i] ELSE 0]]
<1>0. k \in Nat
  BY DEF Lists
<1>1. \A i \in 1..n : \A j \in 1..k : b[i][j] \in Int
  OBVIOUS
<1>2. \A i \in 1..n : SumOf(b[i], k) = a[i]
  <2> SUFFICES ASSUME NEW i \in 1..n PROVE SumOf(b[i], k) = a[i]
    OBVIOUS
  <2>1. CASE log[i].msg \in Messages
    <3>1. PICK p \in 1..k : ms[p] = log[i].msg
      BY <2>1 DEF Lists
    <3>2. \A j \in 1..k : j # p => b[i][j] = 0
      BY <3>1 DEF Lists
    <3>3. b[i][p] = a[i] /\ a[i] \in Int
      BY <3>1
    <3> DEFINE c == b[i]
    <3>4. c[p] \in Int /\ \A j \in 1..k : j # p => c[j] = 0
      BY <3>2, <3>3
    <3> HIDE DEF c
    <3>5. SumOf(c, k) = c[p]
      BY <1>0, <3>4, SumOfOne
    <3> QED BY <3>3, <3>5 DEF c
  <2>2. CASE log[i].msg \notin Messages
    <3>1. \A j \in 1..k : b[i][j] = 0
      BY <2>2 DEF Lists
    <3> DEFINE c == b[i]
    <3>2. \A j \in 1..k : c[j] = 0
      BY <3>1
    <3> HIDE DEF c
    <3>3. SumOf(c, k) = 0
      BY <1>0, <3>2, SumOfZeros
    <3> QED BY <2>2, <3>3 DEF c
  <2> QED BY <2>1, <2>2
<1> DEFINE rows == [i \in 1..n |-> SumOf(b[i], k)]
           columns == [j \in 1..k |-> SumOf([i \in 1..n |-> b[i][j]], n)]
<1>3. SumOf(rows, n) = SumOf(columns, k)
  <2> HIDE DEF b
  <2> QED BY <1>0, <1>1, SumExchanged
<1>4. SumOf(rows, n) = SumOf(a, n)
  <2>1. \A i \in 1..n : rows[i] = a[i]
    BY <1>2
  <2> HIDE DEF rows
  <2> QED BY <2>1, SumOfSame
<1>5. \A j \in 1..k : columns[j] = SumOf(Of(a, log, ms[j], n), n)
  <2> SUFFICES ASSUME NEW j \in 1..k
               PROVE  SumOf([i \in 1..n |-> b[i][j]], n) = SumOf(Of(a, log, ms[j], n), n)
    OBVIOUS
  <2> DEFINE x == [i \in 1..n |-> b[i][j]]
             y == Of(a, log, ms[j], n)
  <2>1. \A i \in 1..n : x[i] = y[i]
    BY DEF Of
  <2> HIDE DEF x, y
  <2>2. SumOf(x, n) = SumOf(y, n)
    BY <2>1, SumOfSame
  <2> QED BY <2>2 DEF x, y
<1>6. SumOf(columns, k) = SumOf(PerMessage(a, log, ms, n, k), k)
  <2> DEFINE y == PerMessage(a, log, ms, n, k)
  <2>1. \A j \in 1..k : columns[j] = y[j]
    BY <1>5 DEF PerMessage
  <2> HIDE DEF columns, y
  <2>2. SumOf(columns, k) = SumOf(y, k)
    BY <1>0, <2>1, SumOfSame
  <2> QED BY <2>2 DEF y
<1> QED BY <1>3, <1>4, <1>6

\* No sum of naturals is zero when one of them is not.
LEMMA SumOfSome ==
  ASSUME NEW a, NEW n \in Nat, \A i \in 1..n : a[i] \in Nat
  PROVE  SumOf(a, n) >= 0 /\ \A p \in 1..n : SumOf(a, n) >= a[p]
<1>1. SumOf(a, n) \in Int
  BY SumOfType
<1>2. SumOf(a, n) >= 0
  <2> DEFINE z == [i \in 1..n |-> 0]
  <2>1. (\A i \in 1..n : z[i] \in Int /\ a[i] \in Int /\ z[i] <= a[i]) /\ \A i \in 1..n : z[i] = 0
    OBVIOUS
  <2> HIDE DEF z
  <2>2. SumOf(z, n) <= SumOf(a, n)
    BY <2>1, SumOfGrows
  <2>3. SumOf(z, n) = 0
    BY <2>1, SumOfZeros
  <2> QED BY <1>1, <2>2, <2>3
<1>3. ASSUME NEW p \in 1..n PROVE SumOf(a, n) >= a[p]
  <2> DEFINE z == [i \in 1..n |-> IF i = p THEN a[p] ELSE 0]
  <2>1. \A i \in 1..n : z[i] \in Int /\ a[i] \in Int /\ z[i] <= a[i]
    OBVIOUS
  <2>2. z[p] = a[p] /\ z[p] \in Int /\ \A i \in 1..n : i # p => z[i] = 0
    OBVIOUS
  <2> HIDE DEF z
  <2>3. SumOf(z, n) <= SumOf(a, n)
    BY <2>1, SumOfGrows
  <2>4. SumOf(z, n) = z[p]
    BY <2>2, SumOfOne
  <2> QED BY <1>1, <2>2, <2>3, <2>4
<1> QED BY <1>2, <1>3

---------------------------------------------------------------------------
\* What a message moves on a chain, out of it being counted positive.
Moved(e) == IF e.kind = "sent" THEN e.amount ELSE IF e.kind = "executed" THEN -e.amount ELSE 0

Moves(log)     == [i \in 1..Len(log) |-> Moved(log[i])]
Mints(log)     == [i \in 1..Len(log) |-> IF log[i].kind = "minted" THEN 2 ELSE 0]
FlowOf(log, m) == SumOf(Of(Moves(log), log, m, Len(log)), Len(log))

LEMMA MovesAre ==
  ASSUME NEW side, NEW log, Ordered(side, log)
  PROVE  /\ Len(log) \in Nat /\ DOMAIN log = 1..Len(log)
         /\ \A i \in 1..Len(log) : /\ Moves(log)[i] \in Int /\ Mints(log)[i] \in Nat
                                   /\ Moves(log)[i] # 0 => log[i].msg \in Messages
<1>1. Len(log) \in Nat /\ DOMAIN log = 1..Len(log) /\ \A i \in DOMAIN log : log[i] \in Events /\ Shaped(side, log[i])
  BY DEF Ordered
<1>2. ASSUME NEW i \in 1..Len(log)
      PROVE  /\ Moved(log[i]) \in Int /\ (Moved(log[i]) # 0 => log[i].msg \in Messages)
  <2>1. log[i].amount \in Nat /\ Shaped(side, log[i])
    BY <1>1 DEF Events
  <2>2. log[i].kind \in {"sent", "executed"} => log[i].msg \in Messages
    BY <2>1 DEF Shaped, Outgoing, Incoming, Messages, Uninterpreted, Strange
  <2> QED BY <2>1, <2>2 DEF Moved
<1>3. \A i \in 1..Len(log) : /\ Moves(log)[i] = Moved(log[i])
                             /\ Mints(log)[i] \in Nat
  BY DEF Moves, Mints
<1> QED BY <1>1, <1>2, <1>3

\* A chain's moves are the moves of the messages.
LEMMA FlowsAddUp ==
  ASSUME NEW ms, NEW k, Lists(ms, k), NEW side, NEW log, Ordered(side, log)
  PROVE  /\ SumOf(Moves(log), Len(log)) = SumOf(PerMessage(Moves(log), log, ms, Len(log), k), k)
         /\ \A m : FlowOf(log, m) \in Int
<1> DEFINE n == Len(log)
           a == Moves(log)
<1>1. /\ n \in Nat /\ \A i \in 1..n : a[i] \in Int /\ (a[i] # 0 => log[i].msg \in Messages)
  BY MovesAre
<1>3. ASSUME NEW m PROVE FlowOf(log, m) \in Int
  <2> DEFINE b == Of(a, log, m, n)
  <2>1. \A i \in 1..n : b[i] \in Int
    BY <1>1 DEF Of
  <2> HIDE DEF b
  <2>2. SumOf(b, n) \in Int
    BY <1>1, <2>1, SumOfType
  <2> QED BY <2>2 DEF b, FlowOf
<1> HIDE DEF n, a
<1>2. SumOf(a, n) = SumOf(PerMessage(a, log, ms, n, k), k)
  BY <1>1, ByMessage
<1> QED BY <1>2, <1>3 DEF n, a

\* What a message moves where it leaves, and where it arrives.
LEMMA FlowOut ==
  ASSUME NEW side \in Sides, NEW log, Ordered(side, log), NEW m \in Outgoing(side)
  PROVE  FlowOf(log, m) = IF SentAt(log, m) # {} THEN Amount[m] ELSE 0
<1> DEFINE n == Len(log)
           b == Of(Moves(log), log, m, n)
<1>1. /\ n \in Nat /\ DOMAIN log = 1..n /\ \A i \in DOMAIN log : Shaped(side, log[i])
  BY DEF Ordered
<1>2. m \in Messages /\ m \notin Incoming(side) /\ m # NoMessage
  BY RouteAssumption DEF Messages, Outgoing, Incoming
<1>3. \A i \in 1..n : b[i] = IF log[i].msg = m THEN Moved(log[i]) ELSE 0
  BY DEF Of, Moves
<1>4. \A i \in 1..n : log[i].msg = m => log[i].kind = "sent" /\ log[i].amount = Amount[m]
  BY <1>1, <1>2 DEF Shaped
<1>5. \A i \in 1..n : /\ i \in SentAt(log, m) => b[i] = Amount[m]
                      /\ i \notin SentAt(log, m) => b[i] = 0
  BY <1>1, <1>3, <1>4 DEF SentAt, Moved
<1>6. (\A i, j \in SentAt(log, m) : i = j) /\ SentAt(log, m) \subseteq 1..n
  <2>1. \A i, j \in SentAt(log, m) : i = j
    BY <1>2, MessageMoves
  <2>2. SentAt(log, m) \subseteq DOMAIN log
    BY DEF SentAt
  <2> QED BY <1>1, <2>1, <2>2
<1>7. Amount[m] \in Int
  BY <1>2, RouteAssumption DEF Messages
<1>8. FlowOf(log, m) = SumOf(b, n)
  BY DEF FlowOf
<1> HIDE DEF n, b
<1>9. CASE SentAt(log, m) = {}
  <2>1. \A i \in 1..n : b[i] = 0
    BY <1>5, <1>9
  <2> QED BY <1>1, <1>8, <1>9, <2>1, SumOfZeros
<1>10. CASE SentAt(log, m) # {}
  <2>1. PICK p \in 1..n : p \in SentAt(log, m)
    BY <1>6, <1>10
  <2>2. b[p] = Amount[m] /\ \A i \in 1..n : i # p => b[i] = 0
    BY <1>5, <1>6, <2>1
  <2>3. SumOf(b, n) = b[p]
    BY <1>1, <1>7, <2>2, SumOfOne
  <2> QED BY <1>8, <1>10, <2>2, <2>3
<1> QED BY <1>9, <1>10

LEMMA FlowIn ==
  ASSUME NEW side, NEW log, Ordered(side, log), NEW m \in Incoming(side),
         \A i, j \in ExecutedAt(log, m) : i = j
  PROVE  /\ ExecutedAt(log, m) = {} => FlowOf(log, m) = 0
         /\ \A p \in ExecutedAt(log, m) : FlowOf(log, m) = -log[p].amount
<1> DEFINE n == Len(log)
           b == Of(Moves(log), log, m, n)
<1>0. /\ n \in Nat /\ DOMAIN log = 1..n /\ \A i \in DOMAIN log : Shaped(side, log[i]) /\ log[i] \in Events
  BY DEF Ordered
<1>1. /\ n \in Nat /\ DOMAIN log = 1..n /\ \A i \in DOMAIN log : Shaped(side, log[i]) /\ log[i].amount \in Nat
  BY <1>0 DEF Events
<1>2. m \in Messages /\ m \notin Outgoing(side) /\ m # NoMessage
  BY RouteAssumption DEF Messages, Outgoing, Incoming
<1>3. \A i \in 1..n : b[i] = IF log[i].msg = m THEN Moved(log[i]) ELSE 0
  BY DEF Of, Moves
<1>4. \A i \in 1..n : log[i].msg = m => log[i].kind \in {"executed", "failed"}
  BY <1>1, <1>2 DEF Shaped
<1>5. \A i \in 1..n : /\ i \in ExecutedAt(log, m) => b[i] = -log[i].amount
                      /\ i \notin ExecutedAt(log, m) => b[i] = 0
  BY <1>1, <1>3, <1>4 DEF ExecutedAt, Moved
<1>6. ExecutedAt(log, m) \subseteq 1..n
  BY <1>1 DEF ExecutedAt
<1>8. FlowOf(log, m) = SumOf(b, n)
  BY DEF FlowOf
<1> HIDE DEF n, b
<1>9. ASSUME ExecutedAt(log, m) = {} PROVE FlowOf(log, m) = 0
  <2>1. \A i \in 1..n : b[i] = 0
    BY <1>5, <1>9
  <2> QED BY <1>1, <1>8, <2>1, SumOfZeros
<1>10. ASSUME NEW p \in ExecutedAt(log, m) PROVE FlowOf(log, m) = -log[p].amount
  <2>1. p \in 1..n /\ log[p].amount \in Nat
    BY <1>1, <1>6
  <2>2. b[p] = -log[p].amount /\ \A i \in 1..n : i # p => b[i] = 0
    BY <1>5, <2>1
  <2>3. SumOf(b, n) = b[p]
    BY <1>1, <2>1, <2>2, SumOfOne
  <2> QED BY <1>8, <2>2, <2>3
<1> QED BY <1>9, <1>10

---------------------------------------------------------------------------
\* The ledger of the route at two pins.

\* Nothing but single-hop sends, out of the home and delivered at the remote.
Plainly(h, r) ==
  /\ \A i \in DOMAIN h : h[i].kind \notin Uninterpreted
  /\ \A i \in DOMAIN r : r[i].kind # "called"

LEMMA HomeMoves ==
  ASSUME NEW h, Ordered("home", h), \A i \in DOMAIN h : h[i].kind \notin Uninterpreted
  PROVE  transferredBalance(h) = SumOf(Moves(h), Len(h))
<1> DEFINE a == [i \in DOMAIN h |-> obligationBy(h[i])]
           n == Len(h)
<1>1. n \in Nat /\ DOMAIN h = 1..n
  BY DEF Ordered
<1>2. \A i \in 1..n : a[i] = Moves(h)[i]
  BY <1>1 DEF Moves, Moved, obligationBy
<1>3. transferredBalance(h) = SumOf(a, n)
  BY DEF transferredBalance
<1> HIDE DEF a, n
<1>4. SumOf(a, n) = SumOf(Moves(h), n)
  BY <1>1, <1>2, SumOfSame
<1> QED BY <1>3, <1>4 DEF n

LEMMA RemoteMoves ==
  ASSUME NEW r, Ordered("remote", r), \A i \in DOMAIN r : r[i].kind # "called"
  PROVE  /\ totalSupply(r) + SumOf(Moves(r), Len(r)) = SumOf(Mints(r), Len(r))
         /\ totalSupply(r) \in Int /\ SumOf(Moves(r), Len(r)) \in Int
<1> DEFINE a == [i \in DOMAIN r |-> supplyBy(r[i])]
           b == Moves(r)
           c == Mints(r)
           n == Len(r)
<1>1. n \in Nat /\ DOMAIN r = 1..n /\ \A i \in 1..n : b[i] \in Int
  BY MovesAre
<1>2. \A i \in 1..n : r[i].amount \in Nat
  <2>1. \A i \in 1..n : r[i] \in Events
    BY <1>1 DEF Ordered
  <2> QED BY <2>1 DEF Events
<1>3. \A i \in 1..n : a[i] \in Int /\ c[i] = a[i] + b[i]
  BY <1>1, <1>2 DEF Moves, Mints, Moved, supplyBy
<1>4. totalSupply(r) = SumOf(a, n)
  BY DEF totalSupply
<1> HIDE DEF a, b, c, n
<1>5. SumOf(c, n) = SumOf(a, n) + SumOf(b, n)
  BY <1>1, <1>3, SumOfBoth
<1>6. SumOf(a, n) \in Int /\ SumOf(b, n) \in Int
  BY <1>1, <1>3, SumOfType
<1> QED BY <1>4, <1>5, <1>6 DEF b, c, n

\* Where a message comes from and where it goes.
From(h, r, m) == IF m \in Outbound THEN h ELSE r
To(h, r, m)   == IF m \in Outbound THEN r ELSE h

\* In flight between the two pins, and executed for more than was sent.
Flying(h, r, m) ==
  IF SentAt(From(h, r, m), m) # {} /\ ExecutedAt(To(h, r, m), m) = {} THEN Amount[m] ELSE 0
Over(h, r, m) == Flying(h, r, m) - (FlowOf(h, m) + FlowOf(r, m))

LEMMA OverIs ==
  ASSUME NEW h, NEW r, Ordered("home", h), Ordered("remote", r), Closed(h, r), Once(h, r), NEW m \in Messages
  PROVE  /\ Flying(h, r, m) \in Nat /\ Over(h, r, m) \in Nat
         /\ FlowOf(h, m) \in Int /\ FlowOf(r, m) \in Int
         /\ Over(h, r, m) = 0 <=> \A i \in ExecutedAt(To(h, r, m), m) : To(h, r, m)[i].amount = Amount[m]
<1> DEFINE src == IF m \in Outbound THEN "home" ELSE "remote"
           dst == IF m \in Outbound THEN "remote" ELSE "home"
           a == From(h, r, m)
           b == To(h, r, m)
<1>1. /\ src \in Sides /\ dst \in Sides /\ src = Others(dst) /\ m \in Outgoing(src) /\ m \in Incoming(dst)
      /\ a = Cut(h, r, src) /\ b = Cut(h, r, dst) /\ Amount[m] \in Nat
  BY RouteAssumption DEF Sides, Others, Messages, Outgoing, Incoming, From, To, Cut
<1>2. Ordered(src, a) /\ Ordered(dst, b)
  BY DEF From, To
<1>3. \A i, j \in ExecutedAt(b, m) : i = j
  BY <1>1 DEF Once
<1>4. ExecutedAt(b, m) # {} => SentAt(a, m) # {}
  BY <1>1 DEF Closed
<1>5. FlowOf(a, m) = IF SentAt(a, m) # {} THEN Amount[m] ELSE 0
  BY <1>1, <1>2, FlowOut
<1>6. /\ ExecutedAt(b, m) = {} => FlowOf(b, m) = 0
      /\ \A p \in ExecutedAt(b, m) : FlowOf(b, m) = -b[p].amount
  BY <1>1, <1>2, <1>3, FlowIn
<1>7. \A p \in ExecutedAt(b, m) : b[p].amount \in {Amount[m], Amount[m] + 1}
  <2>1. \A p \in DOMAIN b : Shaped(dst, b[p])
    BY <1>2 DEF Ordered
  <2> QED BY <2>1 DEF ExecutedAt, Shaped, Uninterpreted, Strange
<1>8. FlowOf(h, m) + FlowOf(r, m) = FlowOf(a, m) + FlowOf(b, m)
      /\ FlowOf(h, m) \in Int /\ FlowOf(r, m) \in Int
  <2>1. (a = h /\ b = r) \/ (a = r /\ b = h)
    BY DEF From, To
  <2>2. FlowOf(a, m) \in Int /\ FlowOf(b, m) \in Int
    BY <1>1, <1>5, <1>6, <1>7
  <2> HIDE DEF a, b
  <2> QED BY <2>1, <2>2
<1>9. Flying(h, r, m) = IF SentAt(a, m) # {} /\ ExecutedAt(b, m) = {} THEN Amount[m] ELSE 0
  BY DEF Flying
<1>10. Over(h, r, m) = Flying(h, r, m) - (FlowOf(a, m) + FlowOf(b, m))
  BY <1>8 DEF Over
<1> HIDE DEF a, b, src, dst
<1>11. CASE ExecutedAt(b, m) = {}
  <2>1. FlowOf(b, m) = 0 /\ FlowOf(a, m) = Flying(h, r, m) /\ Flying(h, r, m) \in Nat
    BY <1>1, <1>5, <1>6, <1>9, <1>11
  <2>2. Over(h, r, m) = 0 /\ FlowOf(a, m) \in Int /\ FlowOf(b, m) \in Int
    BY <1>10, <2>1
  <2> QED BY <1>8, <1>11, <2>1, <2>2 DEF b
<1>12. CASE ExecutedAt(b, m) # {}
  <2>1. PICK p : p \in ExecutedAt(b, m)
    BY <1>12
  <2>2. FlowOf(b, m) = -b[p].amount /\ b[p].amount \in {Amount[m], Amount[m] + 1}
    BY <1>6, <1>7, <2>1
  <2>3. FlowOf(a, m) = Amount[m] /\ Flying(h, r, m) = 0
    BY <1>4, <1>5, <1>9, <1>12
  <2>4. Over(h, r, m) = b[p].amount - Amount[m]
    BY <1>1, <1>10, <2>2, <2>3
  <2>5. Over(h, r, m) = 0 <=> \A i \in ExecutedAt(b, m) : b[i].amount = Amount[m]
    BY <1>1, <1>3, <2>1, <2>2, <2>4
  <2> QED BY <1>1, <1>8, <2>2, <2>3, <2>4, <2>5 DEF b
<1> QED BY <1>11, <1>12

Flights(h, r, ms, k) == [j \in 1..k |-> Flying(h, r, ms[j])]
Overs(h, r, ms, k)   == [j \in 1..k |-> Over(h, r, ms[j])]

\* What the home owes is what the remote has and what is in flight, less what was minted
\* and what was executed for more than was sent.
LEMMA LedgerHolds ==
  ASSUME NEW h, NEW r, Ordered("home", h), Ordered("remote", r), Closed(h, r), Once(h, r), Plainly(h, r),
         NEW ms, NEW k, Lists(ms, k)
  PROVE  /\ transferredBalance(h) \in Int /\ totalSupply(r) \in Int
         /\ SumOf(Flights(h, r, ms, k), k) \in Int /\ SumOf(Overs(h, r, ms, k), k) \in Int
         /\ SumOf(Mints(r), Len(r)) \in Int
         /\ transferredBalance(h) - totalSupply(r)
              = SumOf(Flights(h, r, ms, k), k) - SumOf(Overs(h, r, ms, k), k) - SumOf(Mints(r), Len(r))
<1> DEFINE a == PerMessage(Moves(h), h, ms, Len(h), k)
           b == PerMessage(Moves(r), r, ms, Len(r), k)
           both == [j \in 1..k |-> a[j] + b[j]]
           flights == Flights(h, r, ms, k)
           overs == Overs(h, r, ms, k)
<1>0. k \in Nat /\ \A j \in 1..k : ms[j] \in Messages
  BY DEF Lists
<1>1. /\ \A j \in 1..k : a[j] = FlowOf(h, ms[j]) /\ b[j] = FlowOf(r, ms[j]) /\ both[j] = a[j] + b[j]
  BY DEF PerMessage, FlowOf
<1>2. \A j \in 1..k : flights[j] = Flying(h, r, ms[j]) /\ overs[j] = Over(h, r, ms[j])
  BY DEF Flights, Overs
<1> HIDE DEF both, flights, overs, a, b
<1>3. \A j \in 1..k : /\ a[j] \in Int /\ b[j] \in Int /\ both[j] = a[j] + b[j]
                      /\ flights[j] \in Int /\ overs[j] \in Int /\ both[j] \in Int
                      /\ flights[j] = overs[j] + both[j]
  <2> SUFFICES ASSUME NEW j \in 1..k
               PROVE  /\ a[j] \in Int /\ b[j] \in Int /\ both[j] = a[j] + b[j]
                      /\ flights[j] \in Int /\ overs[j] \in Int /\ both[j] \in Int
                      /\ flights[j] = overs[j] + both[j]
    OBVIOUS
  <2> DEFINE m == ms[j]
  <2>1. m \in Messages
    BY <1>0
  <2> HIDE DEF m
  <2>2. /\ Flying(h, r, m) \in Nat /\ Over(h, r, m) \in Nat
        /\ FlowOf(h, m) \in Int /\ FlowOf(r, m) \in Int
    BY <2>1, OverIs
  <2>3. Over(h, r, m) = Flying(h, r, m) - (FlowOf(h, m) + FlowOf(r, m))
    BY DEF Over
  <2>4. a[j] = FlowOf(h, m) /\ b[j] = FlowOf(r, m) /\ both[j] = a[j] + b[j]
        /\ flights[j] = Flying(h, r, m) /\ overs[j] = Over(h, r, m)
    BY <1>1, <1>2 DEF m
  <2> QED BY <2>2, <2>3, <2>4
<1>4. SumOf(both, k) = SumOf(a, k) + SumOf(b, k)
  BY <1>0, <1>3, SumOfBoth
<1>5. SumOf(flights, k) = SumOf(overs, k) + SumOf(both, k)
  BY <1>0, <1>3, SumOfBoth
<1>6. SumOf(a, k) \in Int /\ SumOf(b, k) \in Int /\ SumOf(overs, k) \in Int
  BY <1>0, <1>3, SumOfType
<1>7. SumOf(Moves(h), Len(h)) = SumOf(a, k) /\ SumOf(Moves(r), Len(r)) = SumOf(b, k)
  BY FlowsAddUp DEF a, b
<1>8. transferredBalance(h) = SumOf(Moves(h), Len(h))
  BY HomeMoves DEF Plainly
<1>9. totalSupply(r) + SumOf(Moves(r), Len(r)) = SumOf(Mints(r), Len(r)) /\ totalSupply(r) \in Int
  BY RemoteMoves DEF Plainly
<1>10. /\ transferredBalance(h) \in Int /\ SumOf(Mints(r), Len(r)) \in Int /\ SumOf(flights, k) \in Int
       /\ transferredBalance(h) - totalSupply(r)
            = SumOf(flights, k) - SumOf(overs, k) - SumOf(Mints(r), Len(r))
  BY <1>4, <1>5, <1>6, <1>7, <1>8, <1>9
<1> QED BY <1>6, <1>9, <1>10 DEF flights, overs

\* Without a fault the home owes no less than the remote has.
LEMMA NoExcess ==
  ASSUME NEW h, NEW r, Ordered("home", h), Ordered("remote", r), Closed(h, r), Once(h, r), Plainly(h, r),
         Rightly(h, r), \A i \in DOMAIN r : r[i].kind # "minted"
  PROVE  /\ transferredBalance(h) \in Int /\ totalSupply(r) \in Int
         /\ totalSupply(r) <= transferredBalance(h)
<1>1. PICK ms, k : Lists(ms, k)
  BY Listed
<1> DEFINE flights == Flights(h, r, ms, k)
           overs == Overs(h, r, ms, k)
           mints == Mints(r)
<1>2. k \in Nat /\ \A j \in 1..k : ms[j] \in Messages
  BY <1>1 DEF Lists
<1>3. \A j \in 1..k : flights[j] \in Nat /\ overs[j] = 0
  <2> SUFFICES ASSUME NEW m \in Messages PROVE Flying(h, r, m) \in Nat /\ Over(h, r, m) = 0
    BY <1>2 DEF Flights, Overs
  <2>1. m \in Incoming(IF m \in Outbound THEN "remote" ELSE "home")
        /\ To(h, r, m) = Cut(h, r, IF m \in Outbound THEN "remote" ELSE "home")
    BY RouteAssumption DEF Messages, Incoming, To, Cut
  <2>2. \A i \in ExecutedAt(To(h, r, m), m) : To(h, r, m)[i].amount = Amount[m]
    BY <2>1 DEF Rightly, Sides
  <2> QED BY <2>2, OverIs
<1>4. Len(r) \in Nat /\ \A i \in 1..Len(r) : mints[i] = 0
  BY MovesAre DEF Mints
<1>5. SumOf(mints, Len(r)) = 0
  <2> HIDE DEF mints
  <2> QED BY <1>4, SumOfZeros
<1>6. SumOf(overs, k) = 0
  <2> HIDE DEF overs
  <2> QED BY <1>2, <1>3, SumOfZeros
<1>7. SumOf(flights, k) >= 0
  <2> HIDE DEF flights
  <2> QED BY <1>2, <1>3, SumOfSome
<1>8. /\ transferredBalance(h) \in Int /\ totalSupply(r) \in Int /\ SumOf(flights, k) \in Int
      /\ transferredBalance(h) - totalSupply(r) = SumOf(flights, k) - SumOf(overs, k) - SumOf(mints, Len(r))
  BY <1>1, LedgerHolds
<1> HIDE DEF flights, overs, mints
<1> QED BY <1>5, <1>6, <1>7, <1>8

\* When what is in flight accounts for the difference, nothing was minted and nothing
\* executed for more than was sent.
LEMMA AllAccounted ==
  ASSUME NEW h, NEW r, Ordered("home", h), Ordered("remote", r), Closed(h, r), Once(h, r), Plainly(h, r),
         NEW ms, NEW k, Lists(ms, k),
         transferredBalance(h) - totalSupply(r) = SumOf(Flights(h, r, ms, k), k)
  PROVE  /\ totalSupply(r) <= transferredBalance(h) /\ Rightly(h, r) /\ \A i \in DOMAIN r : r[i].kind # "minted"
<1> DEFINE flights == Flights(h, r, ms, k)
           overs == Overs(h, r, ms, k)
           mints == Mints(r)
           n == Len(r)
<1>2. k \in Nat /\ \A j \in 1..k : ms[j] \in Messages
  BY DEF Lists
<1>3. \A j \in 1..k : flights[j] \in Nat /\ overs[j] \in Nat
  BY <1>2, OverIs DEF Flights, Overs
<1>4. n \in Nat /\ DOMAIN r = 1..n /\ \A i \in 1..n : mints[i] \in Nat
  BY MovesAre
<1>5. /\ transferredBalance(h) \in Int /\ totalSupply(r) \in Int /\ SumOf(flights, k) \in Int
      /\ SumOf(overs, k) \in Int /\ SumOf(mints, n) \in Int
      /\ transferredBalance(h) - totalSupply(r) = SumOf(flights, k) - SumOf(overs, k) - SumOf(mints, n)
  BY LedgerHolds
<1> HIDE DEF flights, overs, mints, n
<1>6. SumOf(flights, k) >= 0
  BY <1>2, <1>3, SumOfSome
<1>7. SumOf(overs, k) >= 0 /\ \A p \in 1..k : SumOf(overs, k) >= overs[p]
  BY <1>2, <1>3, SumOfSome
<1>8. SumOf(mints, n) >= 0 /\ \A p \in 1..n : SumOf(mints, n) >= mints[p]
  BY <1>4, SumOfSome
<1>9. transferredBalance(h) - totalSupply(r) = SumOf(flights, k)
  BY DEF flights
<1>10. totalSupply(r) <= transferredBalance(h) /\ SumOf(overs, k) = 0 /\ SumOf(mints, n) = 0
  BY <1>5, <1>6, <1>7, <1>8, <1>9
<1>11. (\A j \in 1..k : overs[j] = 0) /\ \A i \in 1..n : mints[i] = 0
  BY <1>3, <1>4, <1>7, <1>8, <1>10
<1>12. \A i \in DOMAIN r : r[i].kind # "minted"
  BY <1>4, <1>11 DEF mints, Mints, n
<1>13. Rightly(h, r)
  <2> SUFFICES ASSUME NEW side \in Sides, NEW m \in Incoming(side), NEW i \in ExecutedAt(Cut(h, r, side), m)
               PROVE  Cut(h, r, side)[i].amount = Amount[m]
    BY DEF Rightly
  <2>1. m \in Messages /\ Cut(h, r, side) = To(h, r, m)
    BY RouteAssumption DEF Sides, Incoming, Messages, Cut, To
  <2>2. PICK j \in 1..k : ms[j] = m
    BY <2>1 DEF Lists
  <2>3. Over(h, r, m) = 0
    BY <1>11, <2>2 DEF overs, Overs
  <2> QED BY <2>1, <2>3, OverIs
<1> QED BY <1>10, <1>12, <1>13

\* Undrained, the escrow covers what the home owes.
LEMMA EscrowCovers ==
  ASSUME NEW h, Ordered("home", h), \A i \in DOMAIN h : h[i].kind # "drained"
  PROVE  /\ transferredBalance(h) \in Int /\ escrowBalance(h) \in Int
         /\ transferredBalance(h) * Multiplier <= escrowBalance(h)
<1> DEFINE a == [i \in DOMAIN h |-> obligationBy(h[i])]
           b == [i \in DOMAIN h |-> escrowBy(h[i])]
           c == [i \in DOMAIN h |-> Multiplier * a[i]]
           n == Len(h)
<1>1. n \in Nat /\ DOMAIN h = 1..n /\ \A i \in DOMAIN h : h[i] \in Events /\ Shaped("home", h[i])
  BY DEF Ordered
<1>2. Multiplier \in Nat
  BY EncodingAssumption
<1>3. ASSUME NEW e \in Events, Shaped("home", e), e.kind # "drained"
      PROVE  /\ obligationBy(e) \in Int /\ escrowBy(e) \in Int /\ Multiplier * obligationBy(e) <= escrowBy(e)
  <2>1. e.amount \in Nat
    BY DEF Events
  <2> DEFINE x == Multiplier
  <2>2. x \in Nat
    BY <1>2
  <2> HIDE DEF x
  <2>3. obligationBy(e) \in Int /\ escrowBy(e) \in Int
    BY <1>3, ByType
  <2>4. CASE e.kind = "sent"
    <3>1. Dust[e.msg] \in Nat
      <4>1. e.msg \in Outbound
        BY <1>3, <2>4 DEF Shaped, Outgoing, Uninterpreted
      <4> QED BY <1>2, <4>1, RouteAssumption, EncodingAssumption DEF Multiplier
    <3>2. obligationBy(e) = e.amount /\ escrowBy(e) = e.amount * x + Dust[e.msg]
      <4>1. obligationBy(e) = e.amount
        BY <2>4 DEF obligationBy, Uninterpreted
      <4>2. escrowBy(e) = e.amount * Multiplier + Dust[e.msg]
        BY <2>4 DEF escrowBy, Uninterpreted
      <4> QED BY <4>1, <4>2 DEF x
    <3>3. x * e.amount = e.amount * x /\ e.amount * x \in Int
      BY <2>1, <2>2
    <3>4. x * obligationBy(e) <= escrowBy(e)
      BY <3>1, <3>2, <3>3
    <3> QED BY <2>3, <3>4 DEF x
  <2>5. CASE e.kind \in Uninterpreted
    <3>1. obligationBy(e) = 1 /\ escrowBy(e) = x
      BY <2>5 DEF obligationBy, escrowBy, x, Uninterpreted
    <3>2. x * obligationBy(e) <= escrowBy(e)
      BY <2>2, <3>1
    <3> QED BY <2>3, <3>2 DEF x
  <2>6. CASE e.kind = "executed"
    <3>1. obligationBy(e) = -e.amount /\ escrowBy(e) = -(e.amount * x)
      BY <2>6 DEF obligationBy, escrowBy, x, Uninterpreted
    <3>2. x * (-e.amount) = -(e.amount * x) /\ e.amount * x \in Int
      BY <2>1, <2>2
    <3>3. x * obligationBy(e) <= escrowBy(e)
      BY <3>1, <3>2
    <3> QED BY <2>3, <3>3 DEF x
  <2>7. CASE e.kind \notin {"sent", "executed"} \cup Uninterpreted
    <3>1. obligationBy(e) = 0 /\ escrowBy(e) = 0
      BY <1>3, <2>7 DEF obligationBy, escrowBy
    <3>2. x * obligationBy(e) <= escrowBy(e)
      BY <2>2, <3>1
    <3> QED BY <2>3, <3>2 DEF x
  <2> QED BY <2>4, <2>5, <2>6, <2>7
<1>4. \A i \in 1..n : a[i] \in Int /\ b[i] \in Int /\ Multiplier * a[i] <= b[i]
  BY <1>1, <1>3
<1>5. \A i \in 1..n : c[i] = Multiplier * a[i]
  BY <1>1
<1>6. transferredBalance(h) = SumOf(a, n) /\ escrowBalance(h) = SumOf(b, n)
  BY DEF transferredBalance, escrowBalance
<1> DEFINE x == Multiplier
<1>7. x \in Int /\ (\A i \in 1..n : a[i] \in Int /\ b[i] \in Int /\ c[i] = x * a[i] /\ c[i] <= b[i])
  <2> HIDE DEF a, b, c, n
  <2>1. \A i \in 1..n : a[i] \in Int /\ b[i] \in Int /\ x * a[i] <= b[i] /\ c[i] = x * a[i]
    BY <1>4, <1>5
  <2>2. x \in Int
    BY <1>2
  <2> HIDE DEF x
  <2> QED BY <2>1, <2>2
<1>8. transferredBalance(h) * Multiplier = SumOf(a, n) * x
  BY <1>6
<1> HIDE DEF a, b, c, n, x
<1>9. \A i \in 1..n : c[i] \in Int
  BY <1>7
<1>10. SumOf(c, n) = x * SumOf(a, n)
  BY <1>1, <1>7, SumOfScaled
<1>11. SumOf(c, n) <= SumOf(b, n)
  BY <1>1, <1>7, <1>9, SumOfGrows
<1>12. SumOf(a, n) \in Int /\ SumOf(b, n) \in Int
  BY <1>1, <1>7, SumOfType
<1>13. x * SumOf(a, n) = SumOf(a, n) * x
  BY <1>7, <1>12
<1> QED BY <1>6, <1>8, <1>10, <1>11, <1>12, <1>13

---------------------------------------------------------------------------
\* The sum over a set of records, one element after the other.
Pick(s) == CHOOSE x \in s : TRUE
FoldsTo(f, S) == f = [s \in SUBSET S |-> IF s = {} THEN 0 ELSE Pick(s).amount + f[s \ {Pick(s)}]]

LEMMA SetSumIs ==
  ASSUME NEW S
  PROVE  MapThenSumSet(LAMBDA p : p.amount, S) = (CHOOSE f : FoldsTo(f, S))[S]
BY DEF MapThenSumSet, MapThenFoldSet, FoldsTo, Pick

LEMMA FoldsAgree ==
  ASSUME NEW S, IsFiniteSet(S), NEW f, NEW g, FoldsTo(f, S), FoldsTo(g, S)
  PROVE  f[S] = g[S]
<1> DEFINE Off == {n \in Nat : \E s \in SUBSET S : Cardinality(s) = n /\ f[s] # g[s]}
<1> SUFFICES ASSUME f[S] # g[S] PROVE FALSE
  OBVIOUS
<1>1. \A s \in SUBSET S : IsFiniteSet(s) /\ Cardinality(s) \in Nat
  BY FS_Subset, FS_CardinalityType
<1>2. Cardinality(S) \in Off
  BY <1>1
<1>3. PICK n \in Off : \A l \in Off : n <= l
  BY <1>2, LeastOfSome
<1>4. PICK s \in SUBSET S : Cardinality(s) = n /\ f[s] # g[s]
  BY <1>3
<1>5. /\ f[s] = IF s = {} THEN 0 ELSE Pick(s).amount + f[s \ {Pick(s)}]
      /\ g[s] = IF s = {} THEN 0 ELSE Pick(s).amount + g[s \ {Pick(s)}]
  BY DEF FoldsTo
<1>6. s # {}
  BY <1>4, <1>5
<1>7. Pick(s) \in s
  BY <1>6 DEF Pick
<1> DEFINE t == s \ {Pick(s)}
<1>8. t \in SUBSET S /\ Cardinality(t) = n - 1 /\ n - 1 \in Nat
  <2>1. IsFiniteSet(s)
    BY <1>1
  <2>2. Cardinality(t) = Cardinality(s) - 1
    BY <1>7, <2>1, FS_RemoveElement
  <2>3. Cardinality(t) \in Nat
    BY <1>1
  <2> QED BY <1>4, <2>2, <2>3
<1>9. n - 1 \notin Off
  BY <1>3, <1>8
<1>10. f[t] = g[t]
  BY <1>8, <1>9
<1> QED BY <1>4, <1>5, <1>6, <1>10

\* The amounts of some messages, by their place in the list.
Share(S, ms, k) == [j \in 1..k |-> IF \E p \in S : p.key = ms[j] THEN Amount[ms[j]] ELSE 0]

\* Records of distinct messages, each with the amount of its message.
Accounts(S) ==
  /\ IsFiniteSet(S)
  /\ \A p \in S : p.key \in Messages /\ p.amount = Amount[p.key]
  /\ \A p, q \in S : p.key = q.key => p = q

LEMMA ShareGrows ==
  ASSUME NEW ms, NEW k, Lists(ms, k), NEW S, Accounts(S), NEW p \in S
  PROVE  SumOf(Share(S, ms, k), k) = p.amount + SumOf(Share(S \ {p}, ms, k), k)
<1> DEFINE one == [j \in 1..k |-> IF ms[j] = p.key THEN p.amount ELSE 0]
           rest == Share(S \ {p}, ms, k)
           all == Share(S, ms, k)
<1>1. k \in Nat /\ \A j \in 1..k : ms[j] \in Messages /\ Amount[ms[j]] \in Nat
  BY RouteAssumption DEF Lists, Messages
<1>2. p.key \in Messages /\ p.amount = Amount[p.key] /\ p.amount \in Int
  BY RouteAssumption DEF Accounts, Messages
<1>3. PICK i \in 1..k : ms[i] = p.key
  BY <1>2 DEF Lists
<1>4. \A j \in 1..k : j # i => ms[j] # p.key
  BY <1>3 DEF Lists
<1>5. ASSUME NEW j \in 1..k
      PROVE  one[j] \in Int /\ rest[j] \in Int /\ all[j] = one[j] + rest[j]
  <2>1. /\ one[j] = IF ms[j] = p.key THEN p.amount ELSE 0
        /\ rest[j] = IF \E q \in S \ {p} : q.key = ms[j] THEN Amount[ms[j]] ELSE 0
        /\ all[j] = IF \E q \in S : q.key = ms[j] THEN Amount[ms[j]] ELSE 0
    BY DEF Share
  <2>2. CASE ms[j] = p.key
    <3>1. ~ \E q \in S \ {p} : q.key = ms[j]
      BY <2>2 DEF Accounts
    <3>2. one[j] = p.amount /\ rest[j] = 0 /\ all[j] = p.amount
      BY <1>2, <2>1, <2>2, <3>1
    <3> HIDE DEF one, rest, all
    <3> QED BY <1>2, <3>2
  <2>3. CASE ms[j] # p.key
    <3>1. (\E q \in S \ {p} : q.key = ms[j]) <=> \E q \in S : q.key = ms[j]
      BY <2>3
    <3>2. one[j] = 0 /\ rest[j] = all[j] /\ rest[j] \in Int
      BY <1>1, <2>1, <2>3, <3>1
    <3> HIDE DEF one, rest, all
    <3> QED BY <3>2
  <2> QED BY <2>2, <2>3
<1>6. one[i] = p.amount /\ \A j \in 1..k : j # i => one[j] = 0
  BY <1>3, <1>4
<1> HIDE DEF one, rest, all
<1>7. SumOf(all, k) = SumOf(one, k) + SumOf(rest, k)
  BY <1>1, <1>5, SumOfBoth
<1>8. SumOf(one, k) = one[i]
  BY <1>1, <1>2, <1>6, SumOfOne
<1> QED BY <1>6, <1>7, <1>8 DEF rest, all

LEMMA SetSumShares ==
  ASSUME NEW ms, NEW k, Lists(ms, k), NEW S, Accounts(S)
  PROVE  MapThenSumSet(LAMBDA p : p.amount, S) = SumOf(Share(S, ms, k), k)
<1> DEFINE g == [s \in SUBSET S |-> SumOf(Share(s, ms, k), k)]
           total == MapThenSumSet(LAMBDA p : p.amount, S)
<1>0. k \in Nat
  BY DEF Lists
<1>1. ASSUME NEW s \in SUBSET S
      PROVE  g[s] = IF s = {} THEN 0 ELSE Pick(s).amount + g[s \ {Pick(s)}]
  <2>1. CASE s = {}
    <3> DEFINE none == Share(s, ms, k)
    <3>1. \A j \in 1..k : none[j] = 0
      BY <2>1 DEF Share
    <3>2. g[s] = SumOf(none, k)
      OBVIOUS
    <3> HIDE DEF none, g
    <3>3. SumOf(none, k) = 0
      BY <1>0, <3>1, SumOfZeros
    <3> QED BY <2>1, <3>2, <3>3
  <2>2. CASE s # {}
    <3>1. Pick(s) \in s
      BY <2>2 DEF Pick
    <3>2. Accounts(s)
      BY FS_Subset DEF Accounts
    <3> DEFINE p == Pick(s)
               t == s \ {p}
    <3>3. t \in SUBSET S /\ p \in s
      BY <3>1
    <3>4. g[s] = SumOf(Share(s, ms, k), k) /\ g[t] = SumOf(Share(t, ms, k), k)
      BY <3>3
    <3> HIDE DEF g, p
    <3>5. SumOf(Share(s, ms, k), k) = p.amount + SumOf(Share(t, ms, k), k)
      BY <3>2, <3>3, ShareGrows
    <3>6. g[s] = p.amount + g[t]
      BY <3>4, <3>5
    <3> QED BY <2>2, <3>6 DEF p
  <2> QED BY <2>1, <2>2
<1>2. FoldsTo(g, S)
  BY <1>1 DEF FoldsTo
<1>3. FoldsTo(CHOOSE f : FoldsTo(f, S), S)
  BY <1>2
<1>4. total = (CHOOSE f : FoldsTo(f, S))[S]
  BY SetSumIs
<1>5. IsFiniteSet(S)
  BY DEF Accounts
<1> DEFINE f == CHOOSE x : FoldsTo(x, S)
<1>6. FoldsTo(f, S) /\ total = f[S]
  BY <1>3, <1>4
<1>7. g[S] = SumOf(Share(S, ms, k), k)
  OBVIOUS
<1> HIDE DEF g, f
<1>8. f[S] = g[S]
  BY <1>2, <1>5, <1>6, FoldsAgree
<1> QED BY <1>6, <1>7, <1>8

---------------------------------------------------------------------------
\* What is in flight.

PendingFact(direction, d, s, m) ==
  LET i == CHOOSE x \in SendsOf(d, s, m) : TRUE
  IN  [key |-> m, direction |-> direction, remote |-> "remote",
       amount |-> AmountSent(d, s, i),
       age |-> s[d.src].pin.height - heightOf(s[d.src], i)]

PendingAt(pending, direction) == {p \in pending : p.remote = "remote" /\ p.direction = direction}

LEMMA PendingFactIs ==
  ASSUME NEW direction, NEW d, NEW s, NEW m
  PROVE  LET p == PendingFact(direction, d, s, m)
         IN  /\ p.key = m /\ p.direction = direction /\ p.remote = "remote"
             /\ p.amount = AmountSent(d, s, CHOOSE x \in SendsOf(d, s, m) : TRUE)
BY DEF PendingFact

LEMMA PendingIs ==
  ASSUME NEW s, NEW direction \in Directions
  PROVE  /\ PendingAt(assessRoute(s).pending, direction) = pendingIn(direction, s)
         /\ pendingIn(direction, s)
              = {PendingFact(direction, Directed(direction), s, m) : m \in InFlight(Directed(direction), s)}
<1>1. \A x \in Directions :
        pendingIn(x, s) = {PendingFact(x, Directed(x), s, m) : m \in InFlight(Directed(x), s)}
  BY DEF pendingIn, PendingFact
<1>2. \A x \in Directions : \A p \in pendingIn(x, s) : p.remote = "remote" /\ p.direction = x
  <2> SUFFICES ASSUME NEW x \in Directions, NEW p \in pendingIn(x, s)
               PROVE  p.remote = "remote" /\ p.direction = x
    OBVIOUS
  <2>1. PICK m : p = PendingFact(x, Directed(x), s, m)
    BY <1>1
  <2> QED BY <2>1, PendingFactIs
<1>3. \A p : p \in assessRoute(s).pending <=> \E x \in Directions : p \in pendingIn(x, s)
  BY RouteIs
<1>4. PendingAt(assessRoute(s).pending, direction) = pendingIn(direction, s)
  <2> DEFINE all == assessRoute(s).pending
  <2>1. \A p : p \in all <=> \E x \in Directions : p \in pendingIn(x, s)
    BY <1>3
  <2> HIDE DEF all
  <2>2. PendingAt(all, direction) = pendingIn(direction, s)
    BY <1>2, <2>1 DEF PendingAt
  <2> QED BY <2>2 DEF all
<1> QED BY <1>1, <1>4

\* The messages in flight in one direction.
LEMMA FlyingIn ==
  ASSUME NEW s, NEW h, NEW r, Showing(s, h, r), NEW direction \in Directions, NEW d, d = Directed(direction)
  PROVE  /\ InFlight(d, s) \subseteq Outgoing(d.src)
         /\ \A m \in Outgoing(d.src) :
              /\ m \in InFlight(d, s) <=> SentAt(From(h, r, m), m) # {} /\ ExecutedAt(To(h, r, m), m) = {}
              /\ m \in InFlight(d, s) => PendingFact(direction, d, s, m).amount = Amount[m]
<1>1. /\ d.src \in Sides /\ d.dst = Others(d.src) /\ Outgoing(d.src) \subseteq d.messages
      /\ d.messages \subseteq Outgoing(d.src) \cup {NoMessage} /\ Outgoing(d.src) \subseteq Messages
  BY DirectionIs
<1>2. \A m \in Outgoing(d.src) : From(h, r, m) = Cut(h, r, d.src) /\ To(h, r, m) = Cut(h, r, d.dst)
  BY <1>1, RouteAssumption DEF Outgoing, Sides, Others, From, To, Cut
<1>3. InFlight(d, s) \subseteq Outgoing(d.src)
  <2> SUFFICES ASSUME NEW m \in InFlight(d, s) PROVE m \in Outgoing(d.src)
    OBVIOUS
  <2>1. m \in d.messages /\ SendsOf(d, s, m) # {}
    BY DEF InFlight
  <2> QED BY <1>1, <2>1, NoMessageSeen
<1>4. ASSUME NEW m \in Outgoing(d.src)
      PROVE  /\ m \in InFlight(d, s) <=> SentAt(From(h, r, m), m) # {} /\ ExecutedAt(To(h, r, m), m) = {}
             /\ m \in InFlight(d, s) => PendingFact(direction, d, s, m).amount = Amount[m]
  <2>1. /\ SendsOf(d, s, m) = SentAt(Cut(h, r, d.src), m)
        /\ Credited(d, s, m) <=> ExecutedAt(Cut(h, r, d.dst), m) # {}
        /\ \A i \in SentAt(Cut(h, r, d.src), m) : AmountSent(d, s, i) = Amount[m]
    BY <1>4, MessageSeen
  <2>2. m \in InFlight(d, s) <=> SentAt(From(h, r, m), m) # {} /\ ExecutedAt(To(h, r, m), m) = {}
    BY <1>1, <1>2, <1>4, <2>1 DEF InFlight
  <2>3. m \in InFlight(d, s) => PendingFact(direction, d, s, m).amount = Amount[m]
    <3> SUFFICES ASSUME m \in InFlight(d, s) PROVE PendingFact(direction, d, s, m).amount = Amount[m]
      OBVIOUS
    <3> DEFINE i == CHOOSE x \in SendsOf(d, s, m) : TRUE
    <3>1. SendsOf(d, s, m) # {}
      BY DEF InFlight
    <3>2. i \in SentAt(Cut(h, r, d.src), m)
      BY <2>1, <3>1
    <3> HIDE DEF i
    <3>3. AmountSent(d, s, i) = Amount[m]
      BY <2>1, <3>2
    <3> QED BY <3>3, PendingFactIs DEF i
  <2> QED BY <2>2, <2>3
<1> QED BY <1>3, <1>4

LEMMA PendingAccounts ==
  ASSUME NEW s, NEW h, NEW r, Showing(s, h, r), NEW direction \in Directions, NEW d, d = Directed(direction)
  PROVE  /\ Accounts(PendingAt(assessRoute(s).pending, direction))
         /\ \A m : (\E p \in PendingAt(assessRoute(s).pending, direction) : p.key = m) <=>
                     /\ m \in Outgoing(d.src)
                     /\ SentAt(From(h, r, m), m) # {} /\ ExecutedAt(To(h, r, m), m) = {}
<1> DEFINE S == PendingAt(assessRoute(s).pending, direction)
           M == InFlight(d, s)
           f == [m \in M |-> PendingFact(direction, d, s, m)]
<1>1. S = {PendingFact(direction, d, s, m) : m \in M}
  BY PendingIs
<1>2. M \subseteq Outgoing(d.src) /\ Outgoing(d.src) \subseteq Messages
  BY FlyingIn, DirectionIs
<1>3. \A m \in M : PendingFact(direction, d, s, m).key = m /\ PendingFact(direction, d, s, m).amount = Amount[m]
  <2> SUFFICES ASSUME NEW m \in M
               PROVE  PendingFact(direction, d, s, m).key = m /\ PendingFact(direction, d, s, m).amount = Amount[m]
    OBVIOUS
  <2>1. PendingFact(direction, d, s, m).key = m
    BY PendingFactIs
  <2>2. PendingFact(direction, d, s, m).amount = Amount[m]
    BY <1>2, FlyingIn
  <2> QED BY <2>1, <2>2
<1>4. IsFiniteSet(M)
  <2>1. IsFiniteSet(Messages)
    BY RouteAssumption DEF Messages
  <2> QED BY <1>2, <2>1, FS_Subset
<1>5. (\A m \in M : f[m] \in S) /\ \A p \in S : \E m \in M : p = f[m]
  BY <1>1
<1> HIDE DEF S, M, f
<1>6. IsFiniteSet(S)
  BY <1>4, <1>5, Mapped
<1>7. (\A p \in S : p.key \in Messages /\ p.amount = Amount[p.key]) /\ \A p, q \in S : p.key = q.key => p = q
  BY <1>1, <1>2, <1>3
<1>8. \A m : (\E p \in S : p.key = m) <=> m \in M
  BY <1>1, <1>3
<1>9. \A m : m \in M <=> /\ m \in Outgoing(d.src)
                         /\ SentAt(From(h, r, m), m) # {} /\ ExecutedAt(To(h, r, m), m) = {}
  BY FlyingIn DEF M
<1>10. Accounts(S)
  BY <1>6, <1>7 DEF Accounts
<1> QED BY <1>8, <1>9, <1>10 DEF S

InFlightSum(pending, direction) == MapThenSumSet(LAMBDA p : p.amount, PendingAt(pending, direction))

\* What is in flight, both ways, message by message.
LEMMA PendingSums ==
  ASSUME NEW s, NEW h, NEW r, Showing(s, h, r), NEW ms, NEW k, Lists(ms, k)
  PROVE  InFlightSum(assessRoute(s).pending, "home-to-remote") + InFlightSum(assessRoute(s).pending, "remote-to-home")
           = SumOf(Flights(h, r, ms, k), k)
<1> DEFINE S == PendingAt(assessRoute(s).pending, "home-to-remote")
           T == PendingAt(assessRoute(s).pending, "remote-to-home")
           a == Share(S, ms, k)
           b == Share(T, ms, k)
           c == Flights(h, r, ms, k)
<1>1. k \in Nat /\ \A j \in 1..k : ms[j] \in Messages /\ Amount[ms[j]] \in Nat
  BY RouteAssumption DEF Lists, Messages
<1>2. /\ "home-to-remote" \in Directions /\ "remote-to-home" \in Directions
      /\ Directed("home-to-remote").src = "home" /\ Directed("remote-to-home").src = "remote"
  BY DEF Directions, Directed
<1>3. /\ Accounts(S)
      /\ \A m : (\E p \in S : p.key = m) <=>
                  /\ m \in Outbound
                  /\ SentAt(From(h, r, m), m) # {} /\ ExecutedAt(To(h, r, m), m) = {}
  BY <1>2, PendingAccounts DEF Outgoing
<1>4. /\ Accounts(T)
      /\ \A m : (\E p \in T : p.key = m) <=>
                  /\ m \in Inbound
                  /\ SentAt(From(h, r, m), m) # {} /\ ExecutedAt(To(h, r, m), m) = {}
  BY <1>2, PendingAccounts DEF Outgoing
<1>5. /\ InFlightSum(assessRoute(s).pending, "home-to-remote") = MapThenSumSet(LAMBDA p : p.amount, S)
      /\ InFlightSum(assessRoute(s).pending, "remote-to-home") = MapThenSumSet(LAMBDA p : p.amount, T)
  BY DEF InFlightSum
<1> HIDE DEF S, T
<1>6. MapThenSumSet(LAMBDA p : p.amount, S) = SumOf(a, k)
  BY <1>3, SetSumShares
<1>7. MapThenSumSet(LAMBDA p : p.amount, T) = SumOf(b, k)
  BY <1>4, SetSumShares
<1>8. ASSUME NEW j \in 1..k PROVE a[j] \in Int /\ b[j] \in Int /\ c[j] = a[j] + b[j]
  <2> DEFINE m == ms[j]
             inFlight == SentAt(From(h, r, m), m) # {} /\ ExecutedAt(To(h, r, m), m) = {}
  <2>1. /\ a[j] = IF \E p \in S : p.key = m THEN Amount[m] ELSE 0
        /\ b[j] = IF \E p \in T : p.key = m THEN Amount[m] ELSE 0
        /\ c[j] = IF inFlight THEN Amount[m] ELSE 0
    BY DEF Share, Flights, Flying
  <2>2. /\ Amount[m] \in Nat /\ (m \in Outbound \/ m \in Inbound) /\ ~ (m \in Outbound /\ m \in Inbound)
    BY <1>1, RouteAssumption DEF Messages
  <2>3. /\ (\E p \in S : p.key = m) <=> m \in Outbound /\ inFlight
        /\ (\E p \in T : p.key = m) <=> m \in Inbound /\ inFlight
    BY <1>3, <1>4
  <2> HIDE DEF a, b, c, m, inFlight
  <2> QED BY <2>1, <2>2, <2>3
<1> HIDE DEF a, b, c
<1>9. SumOf(c, k) = SumOf(a, k) + SumOf(b, k)
  BY <1>1, <1>8, SumOfBoth
<1> QED BY <1>5, <1>6, <1>7, <1>9 DEF c

---------------------------------------------------------------------------
\* What the proof input says of the route.

LEMMA SideIs ==
  ASSUME NEW s, NEW h, NEW r, Showing(s, h, r)
  PROVE  /\ Shows("home", s.home, h) /\ Shows("remote", s.remote, r)
         /\ Reads("home", s.home, h) /\ Reads("remote", s.remote, r)
         /\ Ordered("home", h) /\ Ordered("remote", r)
<1>1. Shows("home", s["home"], h) /\ Shows("remote", s["remote"], r)
  BY DEF Showing, Cut, Sides
<1>2. Shows("home", s.home, h) /\ Shows("remote", s.remote, r)
  BY <1>1
<1> QED BY <1>2, SideReads DEF Shows

\* Only single-hop traffic is supported, and all of it is.
LEMMA TrafficIs ==
  ASSUME NEW s, NEW h, NEW r, Showing(s, h, r)
  PROVE  ~unsupportedTraffic(s) <=> Plainly(h, r)
<1>1. /\ Reads("home", s.home, h) /\ Reads("remote", s.remote, r)
      /\ Ordered("home", h) /\ Ordered("remote", r)
  BY SideIs
<1>2. /\ \A i \in DOMAIN h : Shaped("home", h[i]) /\ h[i] \in Events
      /\ \A i \in DOMAIN r : Shaped("remote", r[i]) /\ r[i] \in Events
  BY <1>1 DEF Ordered
<1>3. /\ \A e : /\ Towards(e.msg).chain = ChainOf.remote /\ Towards(e.msg).transferrer = ContractOf.remote
                /\ SentFields("remote", e).chain = ChainOf.home
                /\ DeliveryFields(e).payload.type = IF e.kind = "called" THEN "SINGLE_HOP_CALL" ELSE "SINGLE_HOP_SEND"
  BY DEF Towards, SentFields, DeliveryFields, Others
<1>4. ASSUME unsupportedTraffic(s) PROVE ~Plainly(h, r)
  <2>1. ASSUME NEW i \in Named(s.home, "tokensRouted") PROVE ~Plainly(h, r)
    <3>1. i \in DOMAIN h /\ h[i].kind = "routed"
      BY <1>1, <2>1 DEF Reads
    <3> QED BY <3>1 DEF Plainly, Uninterpreted
  <2>2. ASSUME NEW i \in Named(s.home, "tokensAndCallSent") PROVE ~Plainly(h, r)
    <3>1. i \in DOMAIN h /\ h[i].kind = "callSent"
      BY <1>1, <2>2 DEF Reads
    <3> QED BY <3>1 DEF Plainly, Uninterpreted
  <2>3. Named(s.remote, "tokensAndCallSent") = {}
    <3>1. ASSUME NEW i \in Named(s.remote, "tokensAndCallSent") PROVE FALSE
      <4>1. i \in DOMAIN r /\ r[i].kind = "callSent"
        BY <1>1, <3>1 DEF Reads
      <4> QED BY <1>2, <4>1 DEF Shaped, Strange, Uninterpreted
    <3> QED BY <3>1
  <2>4. \A i \in Named(s.remote, "tokensSent") : FieldsAt(s.remote, "tokensSent", i).chain = ChainOf.home
    <3> SUFFICES ASSUME NEW i \in Named(s.remote, "tokensSent")
                 PROVE  FieldsAt(s.remote, "tokensSent", i).chain = ChainOf.home
      OBVIOUS
    <3>1. i \in DOMAIN r /\ FieldsAt(s.remote, "tokensSent", i) = SentFields("remote", r[i])
      BY <1>1 DEF Reads
    <3> QED BY <1>3, <3>1
  <2>5. ASSUME NEW side \in Sides, NEW i \in Named(s[side], "receiveCrossChainMessage"),
               PayloadAt(s[side], i).type # "SINGLE_HOP_SEND"
        PROVE  ~Plainly(h, r)
    <3> DEFINE v == s[side]
               log == Cut(h, r, side)
    <3>1. Reads(side, v, log)
      BY SideReads DEF Showing
    <3>2. i \in DOMAIN log /\ FieldsAt(v, "receiveCrossChainMessage", i) = DeliveryFields(log[i])
      BY <2>5, <3>1 DEF Reads
    <3>3. log[i].kind = "called"
      BY <1>3, <2>5, <3>2 DEF PayloadAt
    <3>4. Shaped(side, log[i])
      BY <1>2, <3>2 DEF Cut, Sides
    <3>5. side = "remote"
      BY <3>3, <3>4 DEF Shaped, Uninterpreted, Strange
    <3> QED BY <3>2, <3>3, <3>5 DEF Plainly, Cut
  <2> QED BY <1>4, <2>1, <2>2, <2>3, <2>4, <2>5 DEF unsupportedTraffic
<1>5. ASSUME ~Plainly(h, r) PROVE unsupportedTraffic(s)
  <2>1. ASSUME NEW i \in DOMAIN h, h[i].kind = "routed" PROVE unsupportedTraffic(s)
    <3>1. i \in Named(s.home, "tokensRouted") /\ FieldsAt(s.home, "tokensRouted", i) = Towards(h[i].msg)
      BY <1>1, <2>1 DEF Reads
    <3> QED BY <1>3, <3>1 DEF unsupportedTraffic
  <2>2. ASSUME NEW i \in DOMAIN h, h[i].kind = "callSent" PROVE unsupportedTraffic(s)
    <3>1. i \in Named(s.home, "tokensAndCallSent") /\ FieldsAt(s.home, "tokensAndCallSent", i) = Towards(h[i].msg)
      BY <1>1, <2>2 DEF Reads
    <3> QED BY <1>3, <3>1 DEF unsupportedTraffic
  <2>3. ASSUME NEW i \in DOMAIN r, r[i].kind = "called" PROVE unsupportedTraffic(s)
    <3>1. r[i].delivers
      BY <1>2, <2>3 DEF Shaped, Uninterpreted
    <3>2. /\ i \in Named(s.remote, "receiveCrossChainMessage")
          /\ FieldsAt(s.remote, "receiveCrossChainMessage", i) = DeliveryFields(r[i])
      BY <1>1, <2>3, <3>1 DEF Reads
    <3>3. PayloadAt(s.remote, i).type # "SINGLE_HOP_SEND"
      BY <1>3, <2>3, <3>2 DEF PayloadAt
    <3>4. s["remote"] = s.remote
      OBVIOUS
    <3> QED BY <3>2, <3>3, <3>4 DEF unsupportedTraffic, Sides
  <2> QED BY <1>5, <2>1, <2>2, <2>3 DEF Plainly, Uninterpreted
<1> QED BY <1>4, <1>5

LEMMA RegistrationsAre ==
  ASSUME NEW s, NEW h, NEW r, Showing(s, h, r)
  PROVE  /\ Registrations(s) = {i \in DOMAIN h : h[i].kind = "registered"}
         /\ UnknownRemotes(s) = {} <=> \A i \in DOMAIN h : h[i].kind # "untracked"
         /\ \A i \in Registrations(s) : FieldsAt(s.home, "remoteRegistered", i).decimals = RemoteDecimals
<1>1. Reads("home", s.home, h)
  BY SideIs
<1>2. /\ Named(s.home, "remoteRegistered") = {i \in DOMAIN h : h[i].kind \in {"registered", "untracked"}}
      /\ \A i \in DOMAIN h : h[i].kind \in {"registered", "untracked"} =>
           FieldsAt(s.home, "remoteRegistered", i)
             = RegisteredFields(IF h[i].kind = "registered" THEN ContractOf.remote ELSE Somebody)
  BY <1>1 DEF Reads
<1>3. /\ \A contract : RegisteredFields(contract).transferrer = contract
      /\ \A contract : RegisteredFields(contract).decimals = RemoteDecimals
      /\ ContractOf.remote # Somebody
  BY DEF RegisteredFields, ContractOf, Somebody
<1>4. \A i \in Named(s.home, "remoteRegistered") :
        /\ i \in DOMAIN h /\ h[i].kind \in {"registered", "untracked"}
        /\ IsApproved(s, i) <=> h[i].kind = "registered"
        /\ FieldsAt(s.home, "remoteRegistered", i).decimals = RemoteDecimals
  <2> SUFFICES ASSUME NEW i \in Named(s.home, "remoteRegistered")
               PROVE  /\ i \in DOMAIN h /\ h[i].kind \in {"registered", "untracked"}
                      /\ IsApproved(s, i) <=> h[i].kind = "registered"
                      /\ FieldsAt(s.home, "remoteRegistered", i).decimals = RemoteDecimals
    OBVIOUS
  <2>1. i \in DOMAIN h /\ h[i].kind \in {"registered", "untracked"}
    BY <1>2
  <2>2. FieldsAt(s.home, "remoteRegistered", i)
             = RegisteredFields(IF h[i].kind = "registered" THEN ContractOf.remote ELSE Somebody)
    BY <1>2, <2>1
  <2> QED BY <1>3, <2>1, <2>2 DEF IsApproved
<1>5. Registrations(s) = {i \in DOMAIN h : h[i].kind = "registered"}
  BY <1>2, <1>4 DEF Registrations
<1>6. UnknownRemotes(s) = {} <=> \A i \in DOMAIN h : h[i].kind # "untracked"
  BY <1>2, <1>4 DEF UnknownRemotes
<1>7. \A i \in Registrations(s) : FieldsAt(s.home, "remoteRegistered", i).decimals = RemoteDecimals
  BY <1>4 DEF Registrations
<1> QED BY <1>5, <1>6, <1>7

---------------------------------------------------------------------------
\* What the home says of the remote, and what the rule is given of the balances.

LEMMA SettingsAre ==
  ASSUME NEW h
  PROVE  LET settings == decodeRemoteSettingsResult(SettingsResult(h)).fields
         IN  /\ settings.registered <=> Has(h, "registered", NoMessage)
             /\ settings.collateralNeeded = 0 /\ settings.multiplyOnRemote = FALSE
             /\ settings.registered => settings.tokenMultiplier = Multiplier
             /\ settings.tokenMultiplier \in Nat
             /\ decodeRemoteSettingsResult(SettingsResult(h)).ok
<1> DEFINE encoded == SettingsResult(h)
<1>1. Multiplier \in Nat
  BY EncodingAssumption
<1>2. CASE Has(h, "registered", NoMessage)
  <2>1. encoded.words = <<1, 0, Multiplier, 0>> /\ encoded.length = 32 * 4
    BY <1>2 DEF SettingsResult, Data
  <2>2. wordAt(encoded, 0) = 1 /\ wordAt(encoded, 1) = 0 /\ wordAt(encoded, 2) = Multiplier /\ wordAt(encoded, 3) = 0
    BY <2>1 DEF wordAt
  <2>3. exactWords(encoded, 4) /\ isBool(1) /\ isBool(0)
    BY <2>1 DEF exactWords, isBool
  <2> HIDE DEF encoded
  <2>4. decodeRemoteSettingsResult(encoded)
          = Decoded([registered |-> 1 = 1, collateralNeeded |-> 0, tokenMultiplier |-> Multiplier, multiplyOnRemote |-> 0 = 1])
    BY <2>2, <2>3 DEF decodeRemoteSettingsResult
  <2> DEFINE settings == decodeRemoteSettingsResult(encoded).fields
  <2>5. settings.registered = (1 = 1) /\ settings.collateralNeeded = 0 /\ settings.multiplyOnRemote = (0 = 1)
        /\ settings.tokenMultiplier = Multiplier /\ decodeRemoteSettingsResult(encoded).ok = TRUE
    BY <2>4 DEF Decoded
  <2> HIDE DEF settings
  <2>6. settings.multiplyOnRemote = FALSE /\ settings.registered = TRUE
    <3>1. (1 = 1) = TRUE /\ (0 = 1) = FALSE
      OBVIOUS
    <3> QED BY Zenon, <2>5, <3>1
  <2>7. /\ settings.registered <=> Has(h, "registered", NoMessage)
        /\ settings.collateralNeeded = 0 /\ settings.multiplyOnRemote = FALSE
        /\ settings.registered => settings.tokenMultiplier = Multiplier
        /\ settings.tokenMultiplier \in Nat
        /\ decodeRemoteSettingsResult(encoded).ok
    BY <1>1, <1>2, <2>5, <2>6
  <2> QED BY <2>7 DEF settings, encoded
<1>3. CASE ~Has(h, "registered", NoMessage)
  <2>1. encoded.words = <<0, 0, 0, 0>> /\ encoded.length = 32 * 4
    BY <1>3 DEF SettingsResult, Data
  <2>2. wordAt(encoded, 0) = 0 /\ wordAt(encoded, 1) = 0 /\ wordAt(encoded, 2) = 0 /\ wordAt(encoded, 3) = 0
    BY <2>1 DEF wordAt
  <2>3. exactWords(encoded, 4) /\ isBool(0)
    BY <2>1 DEF exactWords, isBool
  <2> HIDE DEF encoded
  <2>4. decodeRemoteSettingsResult(encoded)
          = Decoded([registered |-> 0 = 1, collateralNeeded |-> 0, tokenMultiplier |-> 0, multiplyOnRemote |-> 0 = 1])
    BY <2>2, <2>3 DEF decodeRemoteSettingsResult
  <2> DEFINE settings == decodeRemoteSettingsResult(encoded).fields
  <2>5. settings.registered = (0 = 1) /\ settings.collateralNeeded = 0 /\ settings.multiplyOnRemote = (0 = 1)
        /\ settings.tokenMultiplier = 0 /\ decodeRemoteSettingsResult(encoded).ok = TRUE
    BY <2>4 DEF Decoded
  <2> HIDE DEF settings
  <2>6. settings.multiplyOnRemote = FALSE /\ settings.registered = FALSE
    <3>1. (0 = 1) = FALSE
      OBVIOUS
    <3> QED BY Zenon, <2>5, <3>1
  <2>7. /\ settings.registered <=> Has(h, "registered", NoMessage)
        /\ settings.collateralNeeded = 0 /\ settings.multiplyOnRemote = FALSE
        /\ settings.registered => settings.tokenMultiplier = Multiplier
        /\ settings.tokenMultiplier \in Nat
        /\ decodeRemoteSettingsResult(encoded).ok
    BY <1>3, <2>5, <2>6
  <2> QED BY <2>7 DEF settings, encoded
<1> QED BY <1>2, <1>3

\* The scale is established when the remote is registered and the manifest agrees.
LEMMA ScaleIs ==
  ASSUME NEW s, NEW h, NEW r, Showing(s, h, r), NEW expected \in {RemoteDecimals, RemoteDecimals + 1}
  PROVE  scaleEstablished(s, expected) <=> Has(h, "registered", NoMessage) /\ expected = RemoteDecimals
<1> DEFINE settings == decodeRemoteSettingsResult(s.home.calls.settings).fields
           derived == deriveTokenMultiplierValues(HomeDecimals, expected)
<1>1. s.home.calls.settings = SettingsResult(h)
  <2>1. s.home.calls = homeQueries(h, 0)
    BY SideIs DEF Shows, Balanced
  <2> QED BY <2>1 DEF homeQueries
<1>2. /\ settings.registered <=> Has(h, "registered", NoMessage)
      /\ settings.collateralNeeded = 0 /\ settings.multiplyOnRemote = FALSE
      /\ settings.registered => settings.tokenMultiplier = Multiplier
  BY <1>1, SettingsAre
<1>3. scaleEstablished(s, expected)
        <=> /\ settings.registered /\ settings.collateralNeeded = 0
            /\ derived.ok
            /\ derived.tokenMultiplier = settings.tokenMultiplier
            /\ derived.multiplyOnRemote = settings.multiplyOnRemote
            /\ \E i \in Registrations(s) :
                 /\ \A j \in Registrations(s) : i <= j
                 /\ FieldsAt(s.home, "remoteRegistered", i).decimals = expected
  BY DEF scaleEstablished
<1>4. /\ Registrations(s) = {i \in DOMAIN h : h[i].kind = "registered"}
      /\ \A i \in Registrations(s) : FieldsAt(s.home, "remoteRegistered", i).decimals = RemoteDecimals
  BY RegistrationsAre
<1>5. RemoteDecimals \in 0..18 /\ HomeDecimals \in RemoteDecimals..255
  BY RouteAssumption DEF MAX_TOKEN_DECIMALS
<1> HIDE DEF settings
<1>6. ASSUME scaleEstablished(s, expected)
      PROVE  Has(h, "registered", NoMessage) /\ expected = RemoteDecimals
  <2> HIDE DEF derived
  <2> QED BY <1>2, <1>3, <1>4, <1>6
<1>7. ASSUME Has(h, "registered", NoMessage), expected = RemoteDecimals
      PROVE  scaleEstablished(s, expected)
  <2>1. /\ ~ (RemoteDecimals > HomeDecimals) /\ HomeDecimals \in 0..255 /\ RemoteDecimals \in 0..18
    BY <1>5
  <2>2. derived.ok /\ derived.tokenMultiplier = Multiplier /\ derived.multiplyOnRemote = FALSE
    <3> DEFINE power == 10 ^ (HomeDecimals - RemoteDecimals)
    <3>1. derived = deriveTokenMultiplierValues(HomeDecimals, RemoteDecimals)
      BY Zenon, <1>7
    <3> DEFINE onRemote == RemoteDecimals > HomeDecimals
               otherPower == 10 ^ (RemoteDecimals - HomeDecimals)
    <3>2. ~onRemote /\ HomeDecimals \in 0..255 /\ RemoteDecimals \in 0..MAX_TOKEN_DECIMALS
      BY <2>1 DEF MAX_TOKEN_DECIMALS
    <3>3. derived = IF HomeDecimals \notin 0..255 \/ RemoteDecimals \notin 0..MAX_TOKEN_DECIMALS THEN NoScale
                     ELSE [ok |-> TRUE, multiplyOnRemote |-> onRemote,
                           tokenMultiplier |-> IF onRemote THEN otherPower ELSE power]
      BY Zenon, <3>1 DEF deriveTokenMultiplierValues
    <3>4. power = Multiplier
      BY DEF Multiplier
    <3> HIDE DEF power, otherPower, onRemote, derived
    <3>5. derived = [ok |-> TRUE, multiplyOnRemote |-> onRemote, tokenMultiplier |-> power]
      BY Zenon, <3>2, <3>3
    <3> QED BY <3>2, <3>4, <3>5
  <2> HIDE DEF derived
  <2>3. \E i \in Registrations(s) : \A j \in Registrations(s) : i <= j
    <3>1. Registrations(s) \in SUBSET Nat
      <4>1. DOMAIN h = 1..Len(h) /\ Len(h) \in Nat
        BY SideIs DEF Ordered
      <4> QED BY <1>4, <4>1
    <3>2. Registrations(s) # {}
      BY <1>4, <1>7 DEF Has
    <3> QED BY <3>1, <3>2, LeastOfSome
  <2> QED BY <1>2, <1>3, <1>4, <1>7, <2>2, <2>3
<1> QED BY <1>6, <1>7

\* What the rule is given of the balances.
Observes(o, h, r, expected) ==
  /\ o.remote = "remote" /\ o.D = transferredBalance(h) /\ o.S = totalSupply(r)
  /\ o.D \in Nat /\ o.S \in Nat
  /\ o.multiplier \in Nat /\ o.multiplyOnRemote = FALSE
  /\ o.established <=> Has(h, "registered", NoMessage) /\ expected = RemoteDecimals
  /\ Has(h, "registered", NoMessage) => o.multiplier = Multiplier
  /\ o.remoteDecimals = expected
  /\ o.homePin # Absent /\ o.remotePin # Absent
  /\ o.fingerprint = TRUE /\ o.canonical = TRUE /\ o.imbalance = 0

LEMMA ObservedIs ==
  ASSUME NEW s, NEW h, NEW r, Showing(s, h, r), NEW route, NEW expected \in {RemoteDecimals, RemoteDecimals + 1}
  PROVE  /\ Observes(remoteObservation(s, route, expected), h, r, expected)
         /\ remoteObservation(s, route, expected).singleHop = ~route.unsupported
<1> DEFINE o == remoteObservation(s, route, expected)
           settings == decodeRemoteSettingsResult(s.home.calls.settings).fields
<1>1. /\ o.remote = "remote" /\ o.D = s.home.calls.D /\ o.S = s.remote.calls.S
      /\ o.multiplier = settings.tokenMultiplier /\ o.multiplyOnRemote = settings.multiplyOnRemote
      /\ o.established = scaleEstablished(s, expected) /\ o.remoteDecimals = expected
      /\ o.homePin = PinOf("home", s.home) /\ o.remotePin = PinOf("remote", s.remote)
      /\ o.fingerprint = TRUE /\ o.canonical = TRUE /\ o.imbalance = 0 /\ o.singleHop = ~route.unsupported
  BY Zenon DEF remoteObservation
<1>2. s.home.calls = homeQueries(h, 0) /\ s.remote.calls = remoteQueries(r, 0)
  BY SideIs DEF Shows, Balanced
<1>3. Ordered("home", h) /\ Ordered("remote", r)
  BY SideIs
<1>4. transferredBalance(h) \in Nat /\ totalSupply(r) \in Nat
  <2>1. /\ h \in Seq(Events) /\ r \in Seq(Events)
        /\ ObligationTo(h, Len(h)) \in Int /\ ObligationTo(h, Len(h)) >= 0
        /\ SupplyTo(r, Len(r)) \in Int /\ SupplyTo(r, Len(r)) >= 0
    BY <1>3, BalancesOf
  <2>2. transferredBalance(h) = ObligationTo(h, Len(h)) /\ totalSupply(r) = SupplyTo(r, Len(r))
    BY <2>1, Balances
  <2> QED BY <2>1, <2>2
<1>5. s.home.calls.D = transferredBalance(h) + 0 /\ s.remote.calls.S = totalSupply(r) + 0
      /\ s.home.calls.settings = SettingsResult(h)
  BY <1>2 DEF homeQueries, remoteQueries
<1>6. /\ settings.registered <=> Has(h, "registered", NoMessage)
      /\ settings.multiplyOnRemote = FALSE
      /\ settings.registered => settings.tokenMultiplier = Multiplier
      /\ settings.tokenMultiplier \in Nat
  BY <1>5, SettingsAre
<1>7. scaleEstablished(s, expected) <=> Has(h, "registered", NoMessage) /\ expected = RemoteDecimals
  BY ScaleIs
<1>8. PinOf("home", s.home) # Absent /\ PinOf("remote", s.remote) # Absent
  <2>1. /\ s.home.pin.height = Len(h) /\ s.home.pin.hash \in Hashes /\ Len(h) \in Int
        /\ s.remote.pin.height = Len(r) /\ s.remote.pin.hash \in Hashes /\ Len(r) \in Int
    BY SideIs DEF Shows, Ordered
  <2>2. /\ PinOf("home", s.home) \in [chain : Sides, height : Int, hash : Hashes]
        /\ PinOf("remote", s.remote) \in [chain : Sides, height : Int, hash : Hashes]
    BY <2>1 DEF PinOf, Sides
  <2> QED BY <2>2, AbsentIsNoReading
<1> HIDE DEF o, settings
<1>9. o.D = transferredBalance(h) /\ o.S = totalSupply(r)
  BY <1>1, <1>4, <1>5
<1>10. Observes(o, h, r, expected)
  BY <1>1, <1>4, <1>6, <1>7, <1>8, <1>9 DEF Observes
<1> QED BY <1>1, <1>10 DEF o

---------------------------------------------------------------------------
\* What the rule is given.

InputOf(s, c)    == proofInput(s, assessRoute(s), c.ages, c.expected)
ObservedOf(s, c) == remoteObservation(s, assessRoute(s), c.expected)

LEMMA InputIs ==
  ASSUME NEW s, NEW h, NEW r, Showing(s, h, r), NEW c \in Circumstances
  PROVE  LET in == InputOf(s, c)
         IN  /\ in.family = "canonical-erc20" /\ in.remotes = {ObservedOf(s, c)}
             /\ Absent \notin {in.manifestHash, in.policyHash} /\ Absent \notin {in.sourceLock, in.adapter}
             /\ in.pending = assessRoute(s).pending /\ in.effects = assessRoute(s).effects
             /\ in.cut = "closed" <=> assessRoute(s).open = {}
             /\ in.fresh <=> isFresh(c.ages)
             /\ in.fresh \in BOOLEAN
             /\ in.census = "complete" <=> Registrations(s) # {} /\ UnknownRemotes(s) = {}
             /\ in.untracked = UnknownRemotes(s)
             /\ in.witnesses \in Nat /\ in.required \in Nat /\ in.witnesses >= in.required
             /\ in.escrow = escrowBalance(h) /\ in.homePin # Absent
<1> DEFINE in == InputOf(s, c)
           route == assessRoute(s)
           counts == {Cardinality(s[side].witnesses) : side \in Sides}
           fresh == isFresh(c.ages)
           whole == Registrations(s) # {} /\ UnknownRemotes(s) = {}
           fewest == CHOOSE n \in counts : \A k \in counts : n <= k
<1>1. /\ in.family = "canonical-erc20" /\ in.remotes = {ObservedOf(s, c)}
      /\ in.manifestHash = "manifest" /\ in.policyHash = "policy"
      /\ in.sourceLock = "pinned-commit" /\ in.adapter = "adapter"
      /\ in.pending = route.pending /\ in.effects = route.effects
      /\ in.cut = IF route.open # {} THEN "open" ELSE "closed"
      /\ in.fresh = fresh
      /\ in.census = IF whole THEN "complete" ELSE "partial"
      /\ in.untracked = UnknownRemotes(s)
      /\ in.witnesses = fewest /\ in.required = Required
      /\ in.escrow = s.home.calls.escrow /\ in.homePin = PinOf("home", s.home)
  BY Zenon DEF InputOf, ObservedOf, proofInput
<1>2. fresh \in BOOLEAN
  BY DEF isFresh
<1>3. fewest \in Nat /\ fewest >= Required
  <2>1. \A side \in Sides : Cardinality(s[side].witnesses) \in Nat /\ Cardinality(s[side].witnesses) >= Required
    BY FS_CardinalityType DEF Showing, Shows, Witnessed
  <2>2. counts \in SUBSET Nat /\ counts # {} /\ \A n \in counts : n >= Required
    BY <2>1 DEF Sides
  <2> HIDE DEF counts
  <2>3. \E n \in counts : \A k \in counts : n <= k
    BY <2>2, LeastOfSome
  <2>4. fewest \in counts
    BY <2>3
  <2> QED BY <2>2, <2>4
<1>4. Required \in Nat
  BY EndpointsAssumption
<1>5. s.home.calls = homeQueries(h, 0) /\ s.home.pin.height = Len(h) /\ s.home.pin.hash \in Hashes /\ Len(h) \in Int
  BY SideIs DEF Shows, Balanced, Ordered
<1>6. s.home.calls.escrow = escrowBalance(h)
  BY <1>5 DEF homeQueries
<1>7. PinOf("home", s.home) # Absent
  <2>1. PinOf("home", s.home) \in [chain : Sides, height : Int, hash : Hashes]
    BY <1>5 DEF PinOf, Sides
  <2> QED BY <2>1, AbsentIsNoReading
<1> HIDE DEF in, fresh, whole, fewest, counts
<1>8. in.fresh <=> fresh
  BY <1>1, <1>2
<1>9. in.census = "complete" <=> whole
  BY <1>1
<1>10. in.cut = "closed" <=> route.open = {}
  BY <1>1
<1>11. Absent \notin {in.manifestHash, in.policyHash} /\ Absent \notin {in.sourceLock, in.adapter}
  BY <1>1, AbsentIsNoReading
<1>12. in.fresh \in BOOLEAN
  BY Zenon, <1>1, <1>2
<1> QED BY <1>1, <1>3, <1>4, <1>6, <1>7, <1>8, <1>9, <1>10, <1>11, <1>12 DEF in, fresh, whole

---------------------------------------------------------------------------
\* What the rule finds missing or unsupported.

LEMMA WhenNot == ASSUME NEW condition, NEW reason PROVE When(condition, reason) = {} <=> ~condition
BY DEF When

LEMMA Expectations ==
  ASSUME NEW c \in Circumstances
  PROVE  c.expected \in {RemoteDecimals, RemoteDecimals + 1}
BY DEF Circumstances

LEMMA ObservedFacts ==
  ASSUME NEW s, NEW h, NEW r, Showing(s, h, r), NEW c \in Circumstances
  PROVE  /\ Observes(ObservedOf(s, c), h, r, c.expected)
         /\ ObservedOf(s, c).singleHop = ~assessRoute(s).unsupported
<1>1. c.expected \in {RemoteDecimals, RemoteDecimals + 1}
  BY Expectations
<1> QED BY <1>1, ObservedIs DEF ObservedOf

\* Nothing is missing from the input exactly when the cut is closed, the readings are
\* fresh, the census is complete and the scale is established.
LEMMA MissingIs ==
  ASSUME NEW s, NEW h, NEW r, Showing(s, h, r), NEW c \in Circumstances
  PROVE  missingInputReasons(InputOf(s, c)) = {} <=>
           /\ assessRoute(s).open = {} /\ isFresh(c.ages)
           /\ Has(h, "registered", NoMessage) /\ c.expected = RemoteDecimals
           /\ \A i \in DOMAIN h : h[i].kind # "untracked"
<1> DEFINE in == InputOf(s, c)
           o == ObservedOf(s, c)
           none == \A i \in DOMAIN h : h[i].kind # "untracked"
           registered == Has(h, "registered", NoMessage)
           open == assessRoute(s).open
           fresh == isFresh(c.ages)
           agrees == c.expected = RemoteDecimals
<1>1. /\ in.remotes = {o}
      /\ Absent \notin {in.manifestHash, in.policyHash} /\ Absent \notin {in.sourceLock, in.adapter}
      /\ in.cut = "closed" <=> open = {}
      /\ in.fresh <=> fresh
      /\ in.census = "complete" <=> Registrations(s) # {} /\ UnknownRemotes(s) = {}
      /\ in.untracked = UnknownRemotes(s)
      /\ in.witnesses \in Nat /\ in.required \in Nat /\ in.witnesses >= in.required
  BY InputIs
<1>2. /\ o.D \in Nat /\ o.S \in Nat
      /\ o.established <=> registered /\ agrees
      /\ o.homePin # Absent /\ o.remotePin # Absent
  BY ObservedFacts DEF Observes
<1>3. /\ UnknownRemotes(s) = {} <=> none
      /\ registered => Registrations(s) # {}
  BY RegistrationsAre DEF Has
<1>4. Absent \notin {o.D, o.S} /\ Absent \notin {o.homePin, o.remotePin}
  BY <1>2, AbsentIsNoNumber
<1> HIDE DEF in, o, none, registered, open, fresh, agrees
<1>5. missingInputReasons(in) = {} <=>
           /\ When(Absent \in {in.manifestHash, in.policyHash}, "I01") = {}
           /\ When(Absent \in {in.sourceLock, in.adapter}, "I02") = {}
           /\ When(in.census # "complete", "I03") = {}
           /\ When(in.untracked # {}, "B02") = {}
           /\ When(in.cut # "closed", "I05") = {}
           /\ When(~in.fresh, "I06") = {}
           /\ When(in.witnesses < in.required, "I04") = {}
           /\ When(in.remotes = {}, "I07") = {}
           /\ \A x \in in.remotes : /\ When(Absent \in {x.D, x.S}, "I07") = {}
                                    /\ When(Absent \in {x.homePin, x.remotePin}, "I04") = {}
                                    /\ When(~x.established, "I08") = {}
  <2> DEFINE a == When(Absent \in {in.manifestHash, in.policyHash}, "I01")
             b == When(Absent \in {in.sourceLock, in.adapter}, "I02")
             d == When(in.census # "complete", "I03")
             e == When(in.untracked # {}, "B02")
             f == When(in.cut # "closed", "I05")
             g == When(~in.fresh, "I06")
             k == When(in.witnesses < in.required, "I04")
             l == When(in.remotes = {}, "I07")
             u(x) == When(Absent \in {x.D, x.S}, "I07")
             v(x) == When(Absent \in {x.homePin, x.remotePin}, "I04")
             w(x) == When(~x.established, "I08")
  <2>1. missingInputReasons(in)
          = a \cup b \cup d \cup e \cup f \cup g \cup k \cup l
              \cup UNION {u(x) \cup v(x) \cup w(x) : x \in in.remotes}
    BY Zenon DEF missingInputReasons
  <2> HIDE DEF a, b, d, e, f, g, k, l, u, v, w
  <2>2. UNION {u(x) \cup v(x) \cup w(x) : x \in in.remotes} = {} <=>
          \A x \in in.remotes : u(x) = {} /\ v(x) = {} /\ w(x) = {}
    OBVIOUS
  <2>3. missingInputReasons(in) = {} <=>
          /\ a = {} /\ b = {} /\ d = {} /\ e = {} /\ f = {} /\ g = {} /\ k = {} /\ l = {}
          /\ \A x \in in.remotes : u(x) = {} /\ v(x) = {} /\ w(x) = {}
    BY <2>1, <2>2
  <2> QED BY Zenon, <2>3 DEF a, b, d, e, f, g, k, l, u, v, w
<1>6. missingInputReasons(in) = {} <=>
           /\ in.census = "complete" /\ in.untracked = {} /\ in.cut = "closed" /\ in.fresh
           /\ ~ (in.witnesses < in.required)
           /\ o.established
  BY <1>1, <1>4, <1>5, WhenNot
<1>7. missingInputReasons(in) = {} <=> open = {} /\ fresh /\ registered /\ agrees /\ none
  BY <1>1, <1>2, <1>3, <1>6
<1> QED BY <1>7 DEF in, none, registered, open, fresh, agrees

LEMMA UnsupportedIs ==
  ASSUME NEW s, NEW h, NEW r, Showing(s, h, r), NEW c \in Circumstances
  PROVE  unsupportedReasons(InputOf(s, c)) = {} <=> Plainly(h, r)
<1> DEFINE in == InputOf(s, c)
           o == ObservedOf(s, c)
           plain == Plainly(h, r)
           odd == assessRoute(s).unsupported
<1>1. in.family = "canonical-erc20" /\ in.remotes = {o}
  BY InputIs
<1>2. o.fingerprint = TRUE /\ o.canonical = TRUE /\ o.imbalance = 0 /\ o.singleHop = ~odd
  BY ObservedFacts DEF Observes
<1>3. ~odd <=> plain
  BY RouteIs, TrafficIs
<1> HIDE DEF in, o, plain, odd
<1>4. unsupportedReasons(in) = {} <=>
           /\ When(in.family # "canonical-erc20", "U01") = {}
           /\ \A x \in in.remotes : /\ When(~x.fingerprint, "U02") = {} /\ When(~x.canonical, "U03") = {}
                                    /\ When(~x.singleHop, "U04") = {} /\ When(x.imbalance # 0, "U01") = {}
  <2> DEFINE a == When(in.family # "canonical-erc20", "U01")
             u(x) == When(~x.fingerprint, "U02")
             v(x) == When(~x.canonical, "U03")
             w(x) == When(~x.singleHop, "U04")
             z(x) == When(x.imbalance # 0, "U01")
  <2>1. unsupportedReasons(in) = a \cup UNION {u(x) \cup v(x) \cup w(x) \cup z(x) : x \in in.remotes}
    BY Zenon DEF unsupportedReasons
  <2> HIDE DEF a, u, v, w, z
  <2>2. UNION {u(x) \cup v(x) \cup w(x) \cup z(x) : x \in in.remotes} = {} <=>
          \A x \in in.remotes : u(x) = {} /\ v(x) = {} /\ w(x) = {} /\ z(x) = {}
    OBVIOUS
  <2>3. unsupportedReasons(in) = {} <=>
          a = {} /\ \A x \in in.remotes : u(x) = {} /\ v(x) = {} /\ w(x) = {} /\ z(x) = {}
    BY <2>1, <2>2
  <2> QED BY Zenon, <2>3 DEF a, u, v, w, z
<1>5. o.singleHop <=> ~odd
  BY <1>2
<1>6. unsupportedReasons(in) = {} <=> o.singleHop
  BY <1>1, <1>2, <1>4, WhenNot
<1> QED BY <1>3, <1>5, <1>6 DEF in, plain

---------------------------------------------------------------------------
\* What the rule's answer becomes.

LEMMA ReplayIs ==
  ASSUME NEW in
  PROVE  LET e == evaluateCanonicalErc20(in)
         IN  replayProof(in).verdict = aggregate(aggregationOf(in, e))
<1> DEFINE e == evaluateCanonicalErc20(in)
           v == aggregate(aggregationOf(in, e))
           answer == [evaluation |-> e, verdict |-> v]
           answers == {[evaluation |-> x, verdict |-> aggregate(aggregationOf(in, x))] : x \in {e}}
<1>1. replayProof(in) = CHOOSE x \in answers : TRUE
  BY Zenon DEF replayProof
<1>2. answers = {answer}
  <2> DEFINE A(x) == aggregate(aggregationOf(in, x))
  <2>1. answers = {[evaluation |-> x, verdict |-> A(x)] : x \in {e}} /\ answer = [evaluation |-> e, verdict |-> A(e)]
    BY Zenon
  <2> HIDE DEF e, A
  <2> QED BY <2>1
<1> HIDE DEF answers
<1>3. (CHOOSE x \in answers : TRUE) = answer
  <2> HIDE DEF answer
  <2> QED BY <1>2
<1>4. replayProof(in) = answer
  BY Zenon, <1>1, <1>3
<1>5. answer.verdict = v
  <2> HIDE DEF e, v
  <2> QED OBVIOUS
<1> QED BY Zenon, <1>4, <1>5

LEMMA AnswerIs ==
  ASSUME NEW in
  PROVE  LET e == evaluateCanonicalErc20(in)
             a == evaluateGateA(in)
             b == evaluateGateB(in, a.outcome = "pass")
         IN  /\ e.critical = a.critical /\ a.critical \in BOOLEAN
             /\ a.critical <=> a.outcome = "fail"
             /\ e.result = combine(a, b) /\ e.verdict = verdictFor(e.result, e.critical)
             /\ e.result \in {"UNSUPPORTED", "UNKNOWN", "FAIL", "PASS"}
             /\ e.result = "FAIL" /\ ~e.critical => a.outcome = "pass" /\ b.outcome = "fail"
             /\ e.result = "PASS" => a.outcome = "pass" /\ b.outcome \notin {"fail", "unknown"}
<1> DEFINE e == evaluateCanonicalErc20(in)
           a == evaluateGateA(in)
           b == evaluateGateB(in, a.outcome = "pass")
<1>1. a.outcome \in {"unsupported", "unknown", "fail", "pass"}
  BY DEF evaluateGateA, Refused
<1>2. a.critical \in BOOLEAN /\ (a.critical <=> a.outcome = "fail")
  BY DEF evaluateGateA, Refused
<1>3. e.critical = a.critical /\ e.result = combine(a, b) /\ e.verdict = verdictFor(combine(a, b), a.critical)
  BY Zenon DEF evaluateCanonicalErc20
<1> HIDE DEF e, a, b
<1>4. combine(a, b) \in {"UNSUPPORTED", "UNKNOWN", "FAIL", "PASS"}
  BY DEF combine
<1>5. combine(a, b) = "FAIL" => a.outcome = "fail" \/ b.outcome = "fail"
  BY DEF combine
<1>6. combine(a, b) = "FAIL" => a.outcome \notin {"unsupported", "unknown"}
  BY DEF combine
<1>7. combine(a, b) = "PASS" => a.outcome = "pass" /\ b.outcome \notin {"fail", "unknown"}
  BY <1>1 DEF combine
<1> QED BY <1>1, <1>2, <1>3, <1>4, <1>5, <1>6, <1>7 DEF e, a, b

\* The status a bundle carries is the rule's own answer, one contribution aggregated.
LEMMA StatusIs ==
  ASSUME NEW in
  PROVE  LET status == replayProof(in).verdict.protocolStatus
             a      == evaluateGateA(in)
         IN  /\ evaluateCanonicalErc20(in).verdict = "CRITICAL" => status = "CRITICAL"
             /\ status = "CRITICAL" => a.outcome = "fail"
             /\ status = "WARN" =>
                  a.outcome = "pass" /\ evaluateGateB(in, a.outcome = "pass").outcome = "fail"
             /\ status = "OK" => /\ evaluateCanonicalErc20(in).verdict = "OK"
                                /\ evaluateGateB(in, a.outcome = "pass").outcome \notin {"fail", "unknown"}
<1> DEFINE e == evaluateCanonicalErc20(in)
           a == evaluateGateA(in)
           b == evaluateGateB(in, a.outcome = "pass")
           g == aggregationOf(in, e)
           status == replayProof(in).verdict.protocolStatus
           mode == IF e.result = "UNKNOWN" THEN "INDETERMINATE"
                   ELSE IF e.result = "UNSUPPORTED" THEN "UNSUPPORTED" ELSE "CAUSAL_EXACT"
           k == [rule |-> "ACC-ERC20-CANONICAL", result |-> e.result, critical |-> e.critical,
                 required |-> TRUE, reasons |-> e.reasons, claimMode |-> mode]
<1>1. /\ e.critical = a.critical /\ a.critical \in BOOLEAN
      /\ a.critical <=> a.outcome = "fail"
      /\ e.verdict = verdictFor(e.result, e.critical)
      /\ e.result \in {"UNSUPPORTED", "UNKNOWN", "FAIL", "PASS"}
      /\ e.result = "FAIL" /\ ~e.critical => a.outcome = "pass" /\ b.outcome = "fail"
      /\ e.result = "PASS" => a.outcome = "pass" /\ b.outcome \notin {"fail", "unknown"}
  BY AnswerIs
<1>2. g.contributions = {k}
  BY Zenon DEF aggregationOf
<1>3. replayProof(in).verdict = aggregate(g)
  BY ReplayIs
<1>4. k.result = e.result /\ k.critical = e.critical /\ k.required = TRUE
  <2> HIDE DEF e, mode
  <2> QED OBVIOUS
<1> HIDE DEF e, a, b, g, k
<1>5. status = IF criticalRules(g.contributions) # {} THEN "CRITICAL"
               ELSE IF hasBlockingUnknown(g) THEN "UNKNOWN"
               ELSE IF \E c \in g.contributions : c.result = "FAIL" /\ ~c.critical THEN "WARN"
               ELSE "OK"
  <2> DEFINE answer == IF criticalRules(g.contributions) # {} THEN "CRITICAL"
                       ELSE IF hasBlockingUnknown(g) THEN "UNKNOWN"
                       ELSE IF \E c \in g.contributions : c.result = "FAIL" /\ ~c.critical THEN "WARN"
                       ELSE "OK"
  <2>1. aggregate(g).protocolStatus = answer
    BY Zenon DEF aggregate
  <2> HIDE DEF answer
  <2>2. status = answer
    BY Zenon, <1>3, <2>1
  <2> QED BY <2>2 DEF answer
<1>6. criticalRules(g.contributions) # {} <=> k.critical
  BY <1>2 DEF criticalRules
<1>7. k.result \in {"UNKNOWN", "UNSUPPORTED"} => hasBlockingUnknown(g)
  <2> SUFFICES ASSUME k.result \in {"UNKNOWN", "UNSUPPORTED"} PROVE unknownRules(g.contributions) # {}
    BY DEF hasBlockingUnknown
  <2> QED BY <1>2, <1>4 DEF unknownRules
<1>8. (\E c \in g.contributions : c.result = "FAIL" /\ ~c.critical) <=> k.result = "FAIL" /\ ~k.critical
  BY <1>2
<1> HIDE DEF status
<1>9. e.critical <=> a.outcome = "fail"
  BY <1>1
<1>10. /\ status = "CRITICAL" => e.critical
       /\ e.critical => status = "CRITICAL"
       /\ status = "WARN" => e.result = "FAIL" /\ ~e.critical
       /\ status = "OK" => ~e.critical /\ e.result \notin {"UNKNOWN", "UNSUPPORTED", "FAIL"}
  BY <1>4, <1>5, <1>6, <1>7, <1>8
<1>11. e.verdict = "CRITICAL" => e.critical
  BY <1>1 DEF verdictFor
<1>12. e.result = "PASS" => e.verdict = "OK"
  BY <1>1 DEF verdictFor
<1> QED BY <1>1, <1>9, <1>10, <1>11, <1>12 DEF e, a, b, status

---------------------------------------------------------------------------
\* What an emitted bundle says.

LEMMA BundleIs ==
  ASSUME NEW s, NEW c
  PROVE  /\ BundleOf(s, c).core.input = InputOf(s, c)
         /\ BundleOf(s, c).core.verdict = replayProof(InputOf(s, c)).verdict
<1> DEFINE in == InputOf(s, c)
           replayed == replayProof(in)
           core == bundleCore(s, assessRoute(s), in, replayed)
<1>1. BundleOf(s, c) = buildBundle(core)
  BY Zenon DEF BundleOf, InputOf
<1>2. core.input = in /\ core.verdict = replayed.verdict
  BY Zenon DEF bundleCore
<1>3. buildBundle(core).core = core
  <2> HIDE DEF core
  <2> QED BY DEF buildBundle
<1> HIDE DEF core
<1> QED BY <1>1, <1>2, <1>3

\* Evidence is only emitted when its input was fresh.
LEMMA EmittedIsFresh ==
  ASSUME NEW s, NEW c, ResultOf(s, c).status = "evidence"
  PROVE  /\ ResultOf(s, c).bundle = BundleOf(s, c) /\ InputOf(s, c).fresh
<1> DEFINE bundle == BundleOf(s, c)
           checks == Checks(bundle)
<1>1. ResultOf(s, c) = IF findings(checks) = {} THEN [status |-> "evidence", bundle |-> bundle]
                       ELSE [status |-> "unknown", reasons |-> findings(checks)]
  BY Zenon DEF ResultOf, upheld, unknown
<1>2. findings(checks) = {} /\ ResultOf(s, c).bundle = bundle
  <2> DEFINE f == findings(checks)
             x == ResultOf(s, c)
  <2>1. x = IF f = {} THEN [status |-> "evidence", bundle |-> bundle] ELSE [status |-> "unknown", reasons |-> f]
    BY <1>1
  <2>2. x.status = "evidence"
    OBVIOUS
  <2> HIDE DEF f, x, bundle
  <2>3. f = {} /\ x.bundle = bundle
    BY <2>1, <2>2
  <2> QED BY <2>3 DEF f, x
<1>3. "freshness" \in DOMAIN checks
  BY Zenon DEF Checks
<1>4. checks.freshness => bundle.core.input.fresh
  BY Zenon DEF Checks
<1> HIDE DEF checks
<1>5. checks.freshness
  BY <1>2, <1>3 DEF findings
<1> QED BY <1>2, <1>4, <1>5, BundleIs

---------------------------------------------------------------------------
\* What a collection concludes.

\* What the two pins show, and what the emitted bundle was computed from.
LEMMA Emission ==
  ASSUME CInv, Sound, Emitted
  PROVE  \E s, c : /\ c \in Circumstances /\ Showing(s, At("home"), At("remote"))
                   /\ InputOf(s, c).fresh
                   /\ result.bundle.core.input = InputOf(s, c)
                   /\ Status = replayProof(InputOf(s, c)).verdict.protocolStatus
<1> DEFINE s == decodedSides(reading)
<1>1. /\ \A side \in Sides : reading[side].ok
      /\ phase = "done" /\ ~outvoted
  BY DEF Sound
<1>2. decodable(reading) /\ \E c \in Circumstances : result = ResultOf(s, c)
  <2>1. result.status # "unknown"
    BY DEF Emitted
  <2>2. result # unknown({"undecodable-observation"})
    BY <2>1 DEF unknown
  <2> QED BY <1>1, <2>2 DEF CInv, Concluded
<1>3. PICK c \in Circumstances : result = ResultOf(s, c)
  BY <1>2
<1>4. Showing(s, At("home"), At("remote"))
  <2> SUFFICES ASSUME NEW side \in Sides PROVE Shows(side, s[side], Cut(At("home"), At("remote"), side))
    BY DEF Showing
  <2>1. Cut(At("home"), At("remote"), side) = At(side)
    BY DEF Cut, Sides
  <2> HIDE DEF s
  <2>2. Shows(side, s[side], At(side))
    BY <1>1, <1>2, Shown DEF s
  <2> QED BY <2>1, <2>2
<1> HIDE DEF s
<1>5. result.bundle = BundleOf(s, c) /\ InputOf(s, c).fresh
  BY <1>3, EmittedIsFresh DEF Emitted
<1>6. /\ result.bundle.core.input = InputOf(s, c)
      /\ result.bundle.core.verdict = replayProof(InputOf(s, c)).verdict
  BY <1>5, BundleIs
<1>7. Status = replayProof(InputOf(s, c)).verdict.protocolStatus
  BY <1>6 DEF Status
<1> QED BY <1>4, <1>5, <1>6, <1>7

\* The properties' words for the two prefixes, in the words of the lemmas.
LEMMA CutsAre ==
  ASSUME NEW h, NEW r, Ordered("home", h), Ordered("remote", r)
  PROVE  /\ Closed(h, r) <=>
              /\ \A m \in Outbound : Has(r, "executed", m) => Has(h, "sent", m)
              /\ \A m \in Inbound  : Has(h, "executed", m) => Has(r, "sent", m)
         /\ (Plainly(h, r) /\ \A i \in DOMAIN h : h[i].kind # "untracked") <=>
              /\ ~Has(h, "untracked", NoMessage)
              /\ \A kind \in Uninterpreted : ~Has(h, kind, NoMessage)
              /\ ~Has(r, "called", NoMessage)
<1>1. \A log, m : /\ ExecutedAt(log, m) # {} <=> Has(log, "executed", m)
                  /\ SentAt(log, m) # {} <=> Has(log, "sent", m)
  BY DEF ExecutedAt, SentAt, Has
<1>2. Closed(h, r) <=>
              /\ \A m \in Outbound : Has(r, "executed", m) => Has(h, "sent", m)
              /\ \A m \in Inbound  : Has(h, "executed", m) => Has(r, "sent", m)
  BY <1>1 DEF Closed, Sides, Incoming, Cut, Others
<1>3. \A i \in DOMAIN h : h[i].kind \in Uninterpreted \cup {"untracked"} => h[i].msg = NoMessage
  <2> SUFFICES ASSUME NEW i \in DOMAIN h, h[i].kind \in Uninterpreted \cup {"untracked"} PROVE h[i].msg = NoMessage
    OBVIOUS
  <2>1. Shaped("home", h[i])
    BY DEF Ordered
  <2> QED BY <2>1 DEF Shaped, Uninterpreted, Strange
<1>4. \A i \in DOMAIN r : r[i].kind = "called" => r[i].msg = NoMessage
  <2> SUFFICES ASSUME NEW i \in DOMAIN r, r[i].kind = "called" PROVE r[i].msg = NoMessage
    OBVIOUS
  <2>1. Shaped("remote", r[i])
    BY DEF Ordered
  <2> QED BY <2>1 DEF Shaped, Uninterpreted, Strange
<1>5. /\ (\A i \in DOMAIN h : h[i].kind # "untracked") <=> ~Has(h, "untracked", NoMessage)
      /\ (\A i \in DOMAIN h : h[i].kind \notin Uninterpreted) <=> \A kind \in Uninterpreted : ~Has(h, kind, NoMessage)
      /\ (\A i \in DOMAIN r : r[i].kind # "called") <=> ~Has(r, "called", NoMessage)
  BY <1>3, <1>4 DEF Has
<1> QED BY <1>2, <1>5 DEF Plainly

LEMMA ForgedIs ==
  ASSUME NEW h, NEW r, Ordered("home", h), Ordered("remote", r)
  PROVE  ~Forged(h, r) <=> /\ Once(h, r) /\ Rightly(h, r)
                           /\ \A i \in DOMAIN r : r[i].kind # "minted"
<1>1. \A log, m : Executions(log, m) = Cardinality(ExecutedAt(log, m))
  BY DEF Executions, ExecutedAt
<1>2. \A side \in Sides : \A m \in Messages : m \notin Incoming(side) => ExecutedAt(Cut(h, r, side), m) = {}
  <2> SUFFICES ASSUME NEW side \in Sides, NEW m \in Messages, NEW i \in ExecutedAt(Cut(h, r, side), m)
               PROVE  m \in Incoming(side)
    OBVIOUS
  <2>1. Ordered(side, Cut(h, r, side))
    BY DEF Sides, Cut
  <2>2. Shaped(side, Cut(h, r, side)[i]) /\ Cut(h, r, side)[i].kind = "executed" /\ Cut(h, r, side)[i].msg = m
    BY <2>1 DEF Ordered, ExecutedAt
  <2> QED BY <2>2 DEF Shaped, Uninterpreted, Strange
<1>3. \A side \in Sides : \A m : IsFiniteSet(ExecutedAt(Cut(h, r, side), m))
  <2> SUFFICES ASSUME NEW side \in Sides, NEW m PROVE IsFiniteSet(ExecutedAt(Cut(h, r, side), m))
    OBVIOUS
  <2>1. Ordered(side, Cut(h, r, side))
    BY DEF Sides, Cut
  <2> QED BY <2>1, FiniteMoves
<1>4. ASSUME NEW S, IsFiniteSet(S)
      PROVE  ~ (Cardinality(S) > 1) <=> \A i, j \in S : i = j
  <2>1. ASSUME ~ (Cardinality(S) > 1) PROVE \A i, j \in S : i = j
    BY <1>4, <2>1, OnlyOne
  <2> QED BY <1>4, <2>1, AtMostOne
<1> DEFINE minted == \E i \in DOMAIN r : r[i].kind = "minted"
           Twice(log, m) == Executions(log, m) > 1
           Wrong(log, m) == \E i \in ExecutedAt(log, m) : log[i].amount # Amount[m]
<1>5. Forged(h, r) <=> minted \/ \E side \in Sides, m \in Messages : Twice(Cut(h, r, side), m) \/ Wrong(Cut(h, r, side), m)
  <2>1. Forged(h, r) <=> minted \/ \E log \in {h, r}, m \in Messages : Twice(log, m) \/ Wrong(log, m)
    BY DEF Forged, Messages, ExecutedAt
  <2> HIDE DEF Twice, Wrong, minted
  <2> QED BY <2>1 DEF Sides, Cut
<1>6. \A side \in Sides, m \in Messages : ~Twice(Cut(h, r, side), m) <=>
         \A i, j \in ExecutedAt(Cut(h, r, side), m) : i = j
  BY <1>1, <1>3, <1>4
<1> HIDE DEF Twice, minted
<1>7. \A side \in Sides : Incoming(side) \subseteq Messages
  BY DEF Incoming, Messages
<1>8. (\A side \in Sides, m \in Messages : ~Twice(Cut(h, r, side), m)) <=> Once(h, r)
  BY <1>2, <1>6, <1>7 DEF Once
<1>9. (\A side \in Sides, m \in Messages : ~Wrong(Cut(h, r, side), m)) <=> Rightly(h, r)
  BY <1>2, <1>7 DEF Rightly
<1> HIDE DEF Wrong
<1> QED BY <1>5, <1>8, <1>9 DEF minted

\* Balances at the pins the contracts can have: a balance is a uint256.
Representable ==
  /\ transferredBalance(At("home")) <= MaxUint /\ totalSupply(At("remote")) <= MaxUint
  /\ Multiplier <= MaxUint

LEMMA ExcessIsFound ==
  ASSUME CInv, Representable
  PROVE  ExcessIsCritical
<1> DEFINE h == At("home")
           r == At("remote")
<1> SUFFICES ASSUME Sound, Emitted, totalSupply(r) > transferredBalance(h), ClosedCut,
                    Has(h, "registered", NoMessage), Interpretable, ManifestAgrees
             PROVE  Status = "CRITICAL"
  BY DEF ExcessIsCritical
<1>1. PICK s, c : /\ c \in Circumstances /\ Showing(s, h, r) /\ InputOf(s, c).fresh
                  /\ result.bundle.core.input = InputOf(s, c)
                  /\ Status = replayProof(InputOf(s, c)).verdict.protocolStatus
  BY Emission
<1> DEFINE in == InputOf(s, c)
           o == ObservedOf(s, c)
<1>2. Ordered("home", h) /\ Ordered("remote", r)
  BY <1>1, SideIs
<1>3. Closed(h, r) /\ Plainly(h, r) /\ \A i \in DOMAIN h : h[i].kind # "untracked"
  BY <1>2, CutsAre DEF ClosedCut, Interpretable
<1> DEFINE registered == Has(h, "registered", NoMessage)
<1>4. /\ o.D = transferredBalance(h) /\ o.S = totalSupply(r) /\ o.D \in Nat /\ o.S \in Nat
      /\ o.multiplier \in Nat /\ (registered => o.multiplier = Multiplier) /\ o.remoteDecimals = c.expected
  <2>1. Observes(o, h, r, c.expected)
    BY <1>1, ObservedFacts
  <2> HIDE DEF h, r, o
  <2> QED BY <2>1 DEF Observes
<1>5. in.remotes = {o} /\ (in.fresh <=> isFresh(c.ages))
  BY <1>1, InputIs
<1>6. registered /\ transferredBalance(h) <= MaxUint /\ totalSupply(r) <= MaxUint /\ Multiplier <= MaxUint
  BY DEF Representable
<1> HIDE DEF h, r, in, o, registered
<1>7. c.expected = RemoteDecimals
  BY <1>1, <1>4, <1>5 DEF ManifestAgrees, in
<1>8. assessRoute(s).open = {}
  BY <1>1, <1>3, OpenIs DEF Plainly
<1>9. missingInputReasons(in) = {} /\ unsupportedReasons(in) = {}
  BY <1>1, <1>3, <1>5, <1>6, <1>7, <1>8, MissingIs, UnsupportedIs DEF in, registered
<1>10. \A x \in in.remotes : inRange(x.D) /\ inRange(x.S) /\ inRange(x.multiplier)
  BY <1>4, <1>5, <1>6, MaxUintAssumption DEF inRange
<1>11. o \in in.remotes /\ o.S > o.D
  BY <1>4, <1>5 DEF h, r
<1>12. evaluateCanonicalErc20(in).verdict = "CRITICAL"
  BY <1>9, <1>10, <1>11, ExcessIsAlwaysCritical
<1> QED BY <1>1, <1>12, StatusIs DEF in

---------------------------------------------------------------------------
\* Gate B with one remote.

CeilsTo(f, S) ==
  f = [s \in SUBSET S |-> IF s = {} THEN 0 ELSE homeUnits(Pick(s)).ceil + f[s \ {Pick(s)}]]

LEMMA CeilOfOne ==
  ASSUME NEW o, homeUnits(o).ceil \in Int
  PROVE  MapThenSumSet(LAMBDA r : homeUnits(r).ceil, {o}) = homeUnits(o).ceil
<1> DEFINE total == MapThenSumSet(LAMBDA r : homeUnits(r).ceil, {o})
           f == CHOOSE g : CeilsTo(g, {o})
           n == homeUnits(o).ceil
           w == [s \in SUBSET {o} |-> IF s = {} THEN 0 ELSE n]
<1>1. total = f[{o}]
  BY DEF MapThenSumSet, MapThenFoldSet, CeilsTo, Pick
<1>2. \A s \in SUBSET {o} : s # {} => Pick(s) = o /\ s \ {Pick(s)} = {}
  BY DEF Pick
<1>3. CeilsTo(w, {o})
  <2>1. \A s \in SUBSET {o} : w[s] = IF s = {} THEN 0 ELSE homeUnits(Pick(s)).ceil + w[s \ {Pick(s)}]
    <3> SUFFICES ASSUME NEW s \in SUBSET {o}, s # {}
                 PROVE  w[s] = homeUnits(Pick(s)).ceil + w[s \ {Pick(s)}]
      OBVIOUS
    <3>1. w[s] = n /\ w[{}] = 0 /\ Pick(s) = o /\ s \ {Pick(s)} = {}
      BY <1>2
    <3> HIDE DEF w
    <3>2. homeUnits(Pick(s)).ceil = n /\ w[s \ {Pick(s)}] = 0
      BY <3>1
    <3> HIDE DEF n
    <3>3. n \in Int
      BY DEF n
    <3> QED BY <3>1, <3>2, <3>3
  <2> HIDE DEF n
  <2> QED BY <2>1 DEF CeilsTo
<1> HIDE DEF w
<1>4. CeilsTo(f, {o})
  BY <1>3
<1> HIDE DEF f
<1>5. f[{o}] = homeUnits(Pick({o})).ceil + f[{o} \ {Pick({o})}] /\ f[{}] = 0
  BY <1>4 DEF CeilsTo
<1>6. Pick({o}) = o /\ {o} \ {Pick({o})} = {}
  BY <1>2
<1>7. f[{o}] = n + 0
  BY <1>5, <1>6
<1> HIDE DEF total
<1>8. n \in Int
  OBVIOUS
<1> HIDE DEF n
<1>9. total = n
  BY <1>1, <1>7, <1>8
<1> QED BY <1>9 DEF total, n

\* Gate B passes exactly the escrow that covers the obligation.
LEMMA GateBIs ==
  ASSUME NEW in, NEW o, in.remotes = {o}, o.D \in Nat, o.multiplier \in Nat, o.multiplyOnRemote = FALSE,
         in.escrow \in Int, NEW passed
  PROVE  LET b == evaluateGateB(in, passed).outcome
         IN  /\ b = "fail" => in.escrow < o.D * o.multiplier
             /\ b \notin {"fail", "unknown"} => in.escrow >= o.D * o.multiplier
<1> DEFINE b == evaluateGateB(in, passed).outcome
           units == homeUnits(o)
           ceilSum == MapThenSumSet(LAMBDA r : homeUnits(r).ceil, in.remotes)
           floorSum == MapThenSumSet(LAMBDA r : homeUnits(r).floor, in.remotes)
           owed == o.D * o.multiplier
<1>1. owed \in Nat
  OBVIOUS
<1>2. units.ok => units.ceil = owed
  BY <1>1 DEF homeUnits, toHomeUnits, ScaleFailure
<1>3. ceilSum = MapThenSumSet(LAMBDA r : homeUnits(r).ceil, {o})
  OBVIOUS
<1>4. units.ok => ceilSum = owed
  <2> SUFFICES ASSUME units.ok PROVE ceilSum = owed
    OBVIOUS
  <2>1. units.ceil \in Int
    BY <1>1, <1>2
  <2>2. MapThenSumSet(LAMBDA r : homeUnits(r).ceil, {o}) = units.ceil
    BY <2>1, CeilOfOne
  <2> HIDE DEF units, owed, ceilSum
  <2> QED BY <1>2, <1>3, <2>2
<1>5. /\ b \in {"unknown", "pass", "fail"}
      /\ b # "unknown" => units.ok
      /\ b = "pass" => in.escrow - ceilSum >= 0
      /\ b = "fail" => ~ (in.escrow - ceilSum >= 0)
  <2> HIDE DEF ceilSum, units
  <2>1. (\E x \in in.remotes : ~homeUnits(x).ok) <=> ~units.ok
    BY DEF units
  <2> QED BY <2>1 DEF evaluateGateB, GateB, ceilSum
<1> HIDE DEF b, units, ceilSum, owed
<1> QED BY <1>1, <1>4, <1>5 DEF b, owed

---------------------------------------------------------------------------
\* What the two gates are told.

LEMMA EffectReasonsAre ==
  ASSUME NEW in
  PROVE  effectReasons(in) = {} <=>
           \A e \in in.effects : ~e.duplicate /\ e.uniqueSource /\ e.sourceFact # Absent /\ e.routeMatches
<1> DEFINE u(e) == When(e.duplicate, "A03")
           v(e) == When(~e.uniqueSource \/ e.sourceFact = Absent, "A04")
           w(e) == When(~e.routeMatches, "A05")
<1>1. effectReasons(in) = UNION {u(e) \cup v(e) \cup w(e) : e \in in.effects}
  BY Zenon DEF effectReasons
<1>2. \A e : /\ u(e) = {} <=> ~e.duplicate
             /\ v(e) = {} <=> e.uniqueSource /\ e.sourceFact # Absent
             /\ w(e) = {} <=> e.routeMatches
  BY WhenNot
<1> HIDE DEF u, v, w
<1>3. UNION {u(e) \cup v(e) \cup w(e) : e \in in.effects} = {} <=>
        \A e \in in.effects : u(e) = {} /\ v(e) = {} /\ w(e) = {}
  OBVIOUS
<1> QED BY <1>1, <1>2, <1>3

LEMMA GateAFails ==
  ASSUME NEW in, evaluateGateA(in).outcome = "fail"
  PROVE  /\ unsupportedReasons(in) = {} /\ missingInputReasons(in) = {}
         /\ effectReasons(in) # {} \/ \E x \in in.remotes : x.D - x.S < 0
<1>1. unsupportedReasons(in) = {} /\ missingInputReasons(in) = {}
  BY GateAAnswers
<1>2. effectReasons(in) # {} \/ \E p \in {reconcileRemote(x, in) : x \in in.remotes} : p.delta < 0
  BY DEF evaluateGateA, Refused
<1>3. \A x : reconcileRemote(x, in).delta = x.D - x.S
  BY DEF reconcileRemote
<1> QED BY <1>1, <1>2, <1>3

LEMMA NoPhantomFound ==
  ASSUME CInv
  PROVE  NoPhantomBreach
<1> DEFINE h == At("home")
           r == At("remote")
<1> SUFFICES ASSUME Sound, Emitted, Status \in {"CRITICAL", "WARN"}, ~Faulty(h, r)
             PROVE  FALSE
  BY DEF NoPhantomBreach
<1>1. PICK s, c : /\ c \in Circumstances /\ Showing(s, h, r) /\ InputOf(s, c).fresh
                  /\ result.bundle.core.input = InputOf(s, c)
                  /\ Status = replayProof(InputOf(s, c)).verdict.protocolStatus
  BY Emission
<1> DEFINE in == InputOf(s, c)
           o == ObservedOf(s, c)
           a == evaluateGateA(in).outcome
           b == evaluateGateB(in, a = "pass").outcome
           registered == Has(h, "registered", NoMessage)
<1>2. Ordered("home", h) /\ Ordered("remote", r)
  BY <1>1, SideIs
<1>3. ~Forged(h, r) /\ \A i \in DOMAIN h : h[i].kind # "drained"
  BY DEF Faulty, Drained
<1>4. Once(h, r) /\ Rightly(h, r) /\ \A i \in DOMAIN r : r[i].kind # "minted"
  BY <1>2, <1>3, ForgedIs
<1>5. /\ o.D = transferredBalance(h) /\ o.S = totalSupply(r) /\ o.D \in Nat /\ o.S \in Nat
      /\ o.multiplier \in Nat /\ o.multiplyOnRemote = FALSE /\ (registered => o.multiplier = Multiplier)
  <2>1. Observes(o, h, r, c.expected)
    BY <1>1, ObservedFacts
  <2> HIDE DEF h, r, o
  <2> QED BY <2>1 DEF Observes
<1>6. in.remotes = {o} /\ in.effects = assessRoute(s).effects /\ in.escrow = escrowBalance(h)
  BY <1>1, InputIs
<1>7. /\ Status = "CRITICAL" => a = "fail"
      /\ Status = "WARN" => a = "pass" /\ b = "fail"
  BY <1>1, StatusIs
<1> HIDE DEF h, r, in, o, a, b, registered
<1>8. ASSUME a \in {"pass", "fail"}
      PROVE  assessRoute(s).open = {} /\ registered /\ Plainly(h, r)
  <2>1. unsupportedReasons(in) = {} /\ missingInputReasons(in) = {}
    BY <1>8, GateAAnswers DEF a
  <2> QED BY <1>1, <2>1, MissingIs, UnsupportedIs DEF in, registered
<1>9. CASE Status = "CRITICAL"
  <2>1. Closed(h, r) /\ Plainly(h, r)
    BY <1>1, <1>7, <1>8, <1>9, OpenIs
  <2>2. totalSupply(r) <= transferredBalance(h)
    BY <1>2, <1>4, <2>1, NoExcess
  <2>3. effectReasons(in) = {}
    <3>1. \A e \in assessRoute(s).effects : e.uniqueSource /\ ~e.duplicate /\ e.routeMatches /\ e.sourceFact # Absent
      BY <1>1, <1>4, EffectsHold
    <3> QED BY <1>6, <3>1, EffectReasonsAre
  <2>4. \E x \in in.remotes : x.D - x.S < 0
    BY <1>7, <1>9, <2>3, GateAFails DEF a
  <2> QED BY <1>5, <1>6, <2>2, <2>4
<1>10. CASE Status = "WARN"
  <2>1. a = "pass" /\ b = "fail" /\ registered
    BY <1>7, <1>8, <1>10
  <2>2. /\ transferredBalance(h) \in Int /\ escrowBalance(h) \in Int
        /\ transferredBalance(h) * Multiplier <= escrowBalance(h)
    BY <1>2, <1>3, EscrowCovers
  <2>3. in.escrow < o.D * o.multiplier
    BY <1>5, <1>6, <2>1, <2>2, GateBIs DEF b
  <2>4. o.D * o.multiplier = transferredBalance(h) * Multiplier
    BY <1>5, <2>1
  <2>5. transferredBalance(h) * Multiplier \in Int
    BY <2>2, EncodingAssumption
  <2> DEFINE x == transferredBalance(h) * Multiplier
             y == escrowBalance(h)
  <2>6. y < x /\ x <= y /\ x \in Int /\ y \in Int
    BY <1>6, <2>2, <2>3, <2>4, <2>5
  <2> HIDE DEF x, y
  <2> QED BY <2>6
<1> QED BY <1>9, <1>10 DEF h, r

LEMMA OkIsFound ==
  ASSUME CInv
  PROVE  OkIsSound
<1> DEFINE h == At("home")
           r == At("remote")
<1> SUFFICES ASSUME Sound, Emitted, Status = "OK"
             PROVE  /\ ~Forged(h, r) /\ ClosedCut
                    /\ escrowBalance(h) >= transferredBalance(h) * Multiplier
                    /\ totalSupply(r) <= transferredBalance(h)
                    /\ Interpretable /\ ManifestAgrees
  BY DEF OkIsSound
<1>1. PICK s, c : /\ c \in Circumstances /\ Showing(s, h, r) /\ InputOf(s, c).fresh
                  /\ result.bundle.core.input = InputOf(s, c)
                  /\ Status = replayProof(InputOf(s, c)).verdict.protocolStatus
  BY Emission
<1> DEFINE in == InputOf(s, c)
           o == ObservedOf(s, c)
           passed == evaluateGateA(in).outcome = "pass"
           b == evaluateGateB(in, passed).outcome
           registered == Has(h, "registered", NoMessage)
           pending == assessRoute(s).pending
<1>2. Ordered("home", h) /\ Ordered("remote", r)
  BY <1>1, SideIs
<1>3. /\ o.remote = "remote"
      /\ o.D = transferredBalance(h) /\ o.S = totalSupply(r) /\ o.D \in Nat /\ o.S \in Nat
      /\ o.multiplier \in Nat /\ o.multiplyOnRemote = FALSE /\ (registered => o.multiplier = Multiplier)
      /\ o.remoteDecimals = c.expected
  <2>1. Observes(o, h, r, c.expected)
    BY <1>1, ObservedFacts
  <2> HIDE DEF h, r, o
  <2> QED BY <2>1 DEF Observes
<1>4. /\ in.remotes = {o} /\ in.effects = assessRoute(s).effects /\ in.escrow = escrowBalance(h)
      /\ in.pending = pending
  BY <1>1, InputIs
<1>5. evaluateCanonicalErc20(in).verdict = "OK" /\ b \notin {"fail", "unknown"}
  BY <1>1, StatusIs
<1> HIDE DEF h, r, in, o, b, registered, pending
<1>6. /\ unsupportedReasons(in) = {} /\ missingInputReasons(in) = {} /\ effectReasons(in) = {}
      /\ \A x \in in.remotes :
           x.D - x.S = pendingOf(in, x, "home-to-remote") + pendingOf(in, x, "remote-to-home")
  BY <1>5, OkIsEarned
<1>7. /\ assessRoute(s).open = {} /\ registered /\ c.expected = RemoteDecimals
      /\ \A i \in DOMAIN h : h[i].kind # "untracked"
  BY <1>1, <1>6, MissingIs DEF in, registered
<1>8. Closed(h, r) /\ Plainly(h, r)
  BY <1>1, <1>6, <1>7, OpenIs, UnsupportedIs DEF in
<1>9. Once(h, r)
  <2>1. \A e \in assessRoute(s).effects : ~e.duplicate
    BY <1>4, <1>6, EffectReasonsAre
  <2> QED BY <1>1, <1>8, <2>1, EffectsTell
<1>10. PICK ms, k : Lists(ms, k)
  BY Listed
<1>11. transferredBalance(h) - totalSupply(r) = SumOf(Flights(h, r, ms, k), k)
  <2>1. \A direction : pendingOf(in, o, direction) = InFlightSum(pending, direction)
    BY <1>3, <1>4 DEF pendingOf, InFlightSum, PendingAt
  <2>2. o.D - o.S = pendingOf(in, o, "home-to-remote") + pendingOf(in, o, "remote-to-home")
    BY <1>4, <1>6
  <2>3. InFlightSum(pending, "home-to-remote") + InFlightSum(pending, "remote-to-home") = SumOf(Flights(h, r, ms, k), k)
    BY <1>1, <1>10, PendingSums DEF pending
  <2> QED BY <1>3, <2>1, <2>2, <2>3
<1>12. totalSupply(r) <= transferredBalance(h) /\ Rightly(h, r) /\ \A i \in DOMAIN r : r[i].kind # "minted"
  BY <1>2, <1>8, <1>9, <1>10, <1>11, AllAccounted
<1>13. ~Forged(h, r)
  BY <1>2, <1>9, <1>12, ForgedIs
<1>14. ClosedCut /\ Interpretable
  BY <1>2, <1>7, <1>8, CutsAre DEF ClosedCut, Interpretable, h, r
<1>15. escrowBalance(h) >= transferredBalance(h) * Multiplier
  <2>1. escrowBalance(h) \in Int
    <3>1. h \in Seq(Events) /\ Len(h) \in 0..Len(h)
      BY <1>2, BalancesOf
    <3> QED BY <1>2, <3>1, Balances, BalanceTypes
  <2>2. in.escrow >= o.D * o.multiplier
    BY <1>3, <1>4, <1>5, <2>1, GateBIs DEF b
  <2> QED BY <1>3, <1>4, <1>7, <2>2
<1>16. ManifestAgrees
  BY <1>1, <1>3, <1>4, <1>7 DEF ManifestAgrees, in
<1> QED BY <1>12, <1>13, <1>14, <1>15, <1>16 DEF h, r

---------------------------------------------------------------------------
\* The theorems.

\* For every route, every set of endpoints and every interleaving of the two chains with
\* the two reads: what makes CRITICAL or WARN of two truly read pins is a fault in one of
\* the two histories, and never the skew between the pins, a lagging witness or a lie that
\* fewer failure domains than required tell (collect.ts 420-498, model.ts 139-236,
\* gate-a.ts 153-266, gate-b.ts 99-165).
THEOREM BreachIsReal == Spec => []NoPhantomBreach
<1>1. CInv => NoPhantomBreach
  BY NoPhantomFound
<1> QED BY <1>1, CollectionInvariant, PTL

\* For every route: OK is said of no two prefixes in which a unit was minted, executed
\* twice or executed for another amount, whose supply exceeds the obligation, whose
\* obligation the escrow does not cover, or which hold traffic or a remote the rule does
\* not know (gate-a.ts 153-266, gate-b.ts 99-165, collect.ts
\* 420-498, 639-652).
THEOREM OkIsReal == Spec => []OkIsSound
<1>1. CInv => OkIsSound
  BY OkIsFound
<1> QED BY <1>1, CollectionInvariant, PTL

\* For every route whose balances a uint256 holds: a supply above the obligation at two
\* closed pins is said to be CRITICAL, whatever is in flight (gate-a.ts 153-266,
\* engine.ts 166-239).
THEOREM ExcessIsSaid == Spec => [](Representable => ExcessIsCritical)
<1>1. CInv => (Representable => ExcessIsCritical)
  BY ExcessIsFound
<1> QED BY <1>1, CollectionInvariant, PTL

---------------------------------------------------------------------------
\* A failure domain counts once.

\* The witnesses a quorum counts are the observations' own, no two of which are linked.
LEMMA WitnessesApart ==
  ASSUME NEW W, IsFiniteSet(W), \A w \in W : w.id \in Nat
  PROVE  /\ Q!independentWitnesses(W) \subseteq W
         /\ \A x, y \in Q!independentWitnesses(W) : x # y => ~Linked(W, Sharing(W), x, y)
<1> DEFINE items == Q!SetToSeq(W)
           groups == Q!independenceGroups(items)
           Members(i) == Q!ToSet(groups[i])
           least(i) == CHOOSE o \in Members(i) : \A p \in Members(i) : o.id <= p.id
<1>1. Q!independentWitnesses(W) = {least(i) : i \in DOMAIN groups}
  BY DEF Q!independentWitnesses
<1>2. /\ Len(items) \in Nat /\ \A i \in 1..Len(items) : items[i] \in W
      /\ W = {items[i] : i \in 1..Len(items)}
  BY ListedOnce
<1> HIDE DEF items
<1>3. PICK c : GroupedBy(W, c, W, groups)
  BY <1>2, GroupsSeparate
<1>4. PICK n \in Nat : /\ Separate(W, c, n) /\ DOMAIN groups = 1..n
                       /\ \A w \in W : Placed(c, n, w)
                       /\ \A i \in 1..n : groups[i] = c[i].items
  BY <1>3 DEF GroupedBy
<1>5. /\ \A i \in 1..n : groups[i] \in Seq(Own(W, c[i])) /\ groups[i] # <<>>
      /\ \A i, j \in 1..n : i # j =>
           c[i].providers \cap c[j].providers = {} /\ c[i].domains \cap c[j].domains = {}
  <2>1. /\ \A i \in 1..n : c[i].items \in Seq(Own(W, c[i])) /\ c[i].items # <<>>
        /\ \A i, j \in 1..n : i # j =>
             c[i].providers \cap c[j].providers = {} /\ c[i].domains \cap c[j].domains = {}
    BY <1>4, Zenon DEF Separate
  <2> HIDE DEF groups
  <2>2. \A i \in 1..n : groups[i] = c[i].items
    BY <1>4
  <2> QED BY <2>1, <2>2
<1> HIDE DEF groups
<1>6. ASSUME NEW i \in 1..n PROVE least(i) \in Own(W, c[i])
  <2>1. groups[i] \in Seq(Own(W, c[i])) /\ groups[i] # <<>>
    BY <1>5
  <2>2. Members(i) # {} /\ Members(i) \subseteq Own(W, c[i])
    <3>1. \A V : \A t \in Seq(V) : t # <<>> => 1 \in DOMAIN t /\ \A k \in DOMAIN t : t[k] \in V
      OBVIOUS
    <3>2. 1 \in DOMAIN groups[i] /\ \A k \in DOMAIN groups[i] : groups[i][k] \in Own(W, c[i])
      BY <2>1, <3>1
    <3> QED BY <3>2 DEF Q!ToSet
  <2>3. \A o \in Members(i) : o.id \in Nat
    BY <2>2 DEF Own
  <2> DEFINE M == Members(i)
             Ids == {o.id : o \in M}
  <2> HIDE DEF M
  <2>4. Ids # {} /\ Ids \in SUBSET Nat
    BY <2>2, <2>3 DEF M
  <2>5. PICK k \in Ids : \A l \in Ids : k <= l
    BY <2>4, LeastOfSome
  <2>6. \E o \in M : \A p \in M : o.id <= p.id
    BY <2>5
  <2>7. (CHOOSE o \in M : \A p \in M : o.id <= p.id) \in M
    BY <2>6
  <2> QED BY <2>2, <2>7 DEF M
<1> HIDE DEF least
<1>7. Q!independentWitnesses(W) = {least(i) : i \in 1..n}
  BY <1>1, <1>4
<1>8. ASSUME NEW i \in 1..n, NEW j \in 1..n, i # j
      PROVE  ~Linked(W, Sharing(W), least(i), least(j))
  <2>1. least(i) \in Own(W, c[i]) /\ least(j) \in Own(W, c[j])
    BY <1>6
  <2>2. c[i].providers \cap c[j].providers = {} /\ c[i].domains \cap c[j].domains = {}
    BY <1>5, <1>8
  <2>3. least(j) \notin Own(W, c[i])
    BY <2>1, <2>2 DEF Own
  <2>4. ASSUME NEW x \in Own(W, c[i]), NEW y \in W, <<x, y>> \in Sharing(W) PROVE y \in Own(W, c[i])
    <3>1. PICK m \in 1..n : y.trustDomain \in c[m].domains /\ y.providerGroup \in c[m].providers
      BY <1>4 DEF Placed
    <3>2. x.trustDomain = y.trustDomain \/ x.providerGroup = y.providerGroup
      BY <2>4 DEF Sharing, Shares
    <3>3. x.trustDomain \in c[i].domains /\ x.providerGroup \in c[i].providers
      BY DEF Own
    <3>4. m = i
      BY <1>5, <3>1, <3>2, <3>3
    <3> QED BY <3>1, <3>4 DEF Own
  <2>5. Own(W, c[i]) \in SUBSET W
    BY DEF Own
  <2> QED BY <2>1, <2>3, <2>4, <2>5 DEF Linked
<1>9. \A i \in 1..n : least(i) \in W
  BY <1>6 DEF Own
<1> QED BY <1>7, <1>8, <1>9

LEMMA AgreedApart ==
  ASSUME NEW obs, IsFiniteSet(obs), \A o \in obs : o.id \in Nat /\ o.head \in Nat,
         Q!evaluateQuorum(obs, ThisChain, HeadPolicy, 0).outcome = "agreed"
  PROVE  Agreement(Q!evaluateQuorum(obs, ThisChain, HeadPolicy, 0), obs)
<1> DEFINE kept     == Q!notLagging(Q!admissible(obs, ThisChain, HeadPolicy, 0), HeadPolicy)
           withHash == {o \in kept : o.hash # Q!NoAnswer}
           hashes   == {o.hash : o \in withHash}
           agreeing == Q!independentWitnesses(withHash)
           quorum   == Q!evaluateQuorum(obs, ThisChain, HeadPolicy, 0)
           height   == Q!commonHeight(kept)
           hash     == CHOOSE h \in hashes : TRUE
<1>1. kept \subseteq obs /\ withHash \subseteq kept
  BY DEF Q!notLagging, Q!admissible
<1>2. /\ kept # {} /\ hashes # {} /\ ~ (Q!Cardinality(hashes) > 1)
      /\ ~ (Q!Cardinality(agreeing) < Required)
      /\ quorum.agreeing = agreeing /\ quorum.hash = hash /\ quorum.height = height
  <2> DEFINE none == "insufficient-witnesses"
             rest == IF Q!Cardinality(agreeing) < Required THEN none ELSE "agreed"
  <2>1. quorum = IF kept = {} THEN Q!Quorum(none, Q!NoAnswer, Q!NoAnswer, {})
                 ELSE IF hashes = {} THEN Q!Quorum("no-common-height", Q!NoAnswer, Q!NoAnswer, {})
                 ELSE IF Q!Cardinality(hashes) > 1 THEN Q!Quorum("disagreement", height, Q!NoAnswer, {})
                 ELSE Q!Quorum(rest, height, hash, agreeing)
    <3>1. HeadPolicy.minIndependent = Required
      BY DEF HeadPolicy
    <3> QED BY <3>1, Zenon DEF Q!evaluateQuorum
  <2>2. \A a, b, c, d : /\ Q!Quorum(a, b, c, d).outcome = a /\ Q!Quorum(a, b, c, d).height = b
                        /\ Q!Quorum(a, b, c, d).hash = c /\ Q!Quorum(a, b, c, d).agreeing = d
    BY DEF Q!Quorum
  <2>3. quorum.outcome = "agreed"
    OBVIOUS
  <2> HIDE DEF quorum, kept, hashes, height, hash, agreeing
  <2> QED BY <2>1, <2>2, <2>3
<1> HIDE DEF kept, withHash, agreeing, quorum, height
<1>3. IsFiniteSet(withHash) /\ \A w \in withHash : w.id \in Nat
  BY <1>1, FS_Subset
<1>4. /\ agreeing \subseteq withHash
      /\ \A x, y \in agreeing : x # y => ~Linked(withHash, Sharing(withHash), x, y)
  BY <1>3, WitnessesApart DEF agreeing
<1>5. Cardinality(agreeing) >= Required
  <2>1. Cardinality(agreeing) \in Nat
    BY <1>3, <1>4, FS_Subset, FS_CardinalityType
  <2>2. Q!Cardinality(agreeing) = Cardinality(agreeing)
    BY SameSize
  <2> QED BY <1>2, <2>1, <2>2, EndpointsAssumption
<1>7. ASSUME NEW x \in agreeing PROVE x.hash = hash
  <2> DEFINE hashOf == [w \in withHash |-> w.hash]
  <2>1. (\A w \in withHash : hashOf[w] \in hashes) /\ \A h \in hashes : \E w \in withHash : h = hashOf[w]
    OBVIOUS
  <2>2. x.hash \in hashes /\ hash \in hashes
    BY <1>4
  <2> HIDE DEF hashOf, hashes, hash
  <2>3. IsFiniteSet(hashes)
    BY <1>3, <2>1, Mapped
  <2>4. ~ (Cardinality(hashes) > 1)
    BY <1>2, SameSize
  <2> QED BY <2>2, <2>3, <2>4, OnlyOne
<1>8. ASSUME NEW x \in agreeing PROVE x.head >= height
  <2> DEFINE heads == {o.head : o \in kept}
  <2>1. heads # {} /\ heads \in SUBSET Nat
    BY <1>1, <1>2
  <2>2. \E h \in heads : \A o \in kept : h <= o.head
    <3>1. PICK h \in heads : \A k \in heads : h <= k
      BY <2>1, LeastOfSome
    <3> QED BY <3>1
  <2>3. height = CHOOSE h \in heads : \A o \in kept : h <= o.head
    BY DEF height, Q!commonHeight
  <2>4. height \in heads /\ \A o \in kept : height <= o.head
    <3> HIDE DEF heads
    <3> QED BY <2>2, <2>3
  <2>5. x \in kept /\ x.head \in Nat /\ height \in Nat
    BY <1>1, <1>4, <2>1, <2>4
  <2> QED BY <2>4, <2>5
<1> QED BY <1>2, <1>4, <1>5, <1>7, <1>8 DEF Agreement, quorum, withHash, kept

\* What is configured is a configuration, with the labels.
LEMMA Labelled ==
  ASSUME NEW domains, NEW providers, NEW secrets, NEW E, E = Configured(domains, providers, secrets)
  PROVE  /\ Configuration(E) /\ DOMAIN E = DOMAIN Endpoints /\ DOMAIN E = 1..Len(Endpoints)
         /\ Len(Endpoints) \in Nat
<1>1. /\ Len(Endpoints) \in Nat /\ DOMAIN Endpoints = 1..Len(Endpoints)
      /\ \A i \in DOMAIN Endpoints :
           /\ Endpoints[i].id = i
           /\ Endpoints[i] \in [id : Nat, trustDomain : Nat, providerGroup : STRING,
                                secretRef : Nat, host : STRING]
  <2> DEFINE R == [id : Nat, trustDomain : Nat, providerGroup : STRING, secretRef : Nat, host : STRING]
  <2>1. Endpoints \in Seq(R) /\ \A i \in DOMAIN Endpoints : Endpoints[i].id = i
    BY EndpointsAssumption
  <2> HIDE DEF R
  <2>2. /\ Len(Endpoints) \in Nat /\ DOMAIN Endpoints = 1..Len(Endpoints)
        /\ \A i \in DOMAIN Endpoints : Endpoints[i] \in R
    BY <2>1
  <2> QED BY <2>1, <2>2 DEF R
<1>2. \A i \in DOMAIN Endpoints :
        E[i] = [Endpoints[i] EXCEPT !.trustDomain = domains[i], !.providerGroup = providers[i],
                                    !.secretRef = secrets[i]]
  BY DEF Configured
<1>3. \A i \in DOMAIN Endpoints : E[i].id = i
  BY <1>1, <1>2
<1>4. Len(E) = Len(Endpoints) /\ DOMAIN E = DOMAIN Endpoints
  <2> DEFINE n == Len(Endpoints)
             S == {E[i] : i \in 1..n}
  <2>1. DOMAIN E = 1..n /\ E = [i \in 1..n |-> E[i]]
    BY <1>1 DEF Configured
  <2>2. E \in Seq(S)
    BY <1>1, <2>1
  <2> HIDE DEF S, n
  <2>3. Len(E) \in Nat /\ DOMAIN E = 1..Len(E)
    BY <2>2
  <2>4. n \in Nat
    BY <1>1 DEF n
  <2> QED BY <1>1, <2>1, <2>3, <2>4 DEF n
<1> QED BY <1>1, <1>3, <1>4 DEF Configuration

LEMMA QuorumCounts == QuorumCountsOnce
<1> SUFFICES ASSUME NEW domains \in Labels, NEW providers \in Labels,
                    NEW answer \in [DOMAIN Endpoints -> Answers]
             PROVE  \A endpoints \in {Configured(domains, providers, domains)} :
                    \A observations \in {{Observation(endpoints[i], answer[i]) : i \in DOMAIN Endpoints}} :
                    \A quorum \in {Q!evaluateQuorum(observations, ThisChain, HeadPolicy, 0)} :
                      quorum.outcome = "agreed" => Agreement(quorum, observations)
  BY Zenon DEF QuorumCountsOnce
<1> SUFFICES ASSUME NEW E, E = Configured(domains, providers, domains),
                    NEW obs, obs = {Observation(E[i], answer[i]) : i \in DOMAIN Endpoints},
                    NEW quorum, quorum = Q!evaluateQuorum(obs, ThisChain, HeadPolicy, 0),
                    quorum.outcome = "agreed"
             PROVE  Agreement(quorum, obs)
  OBVIOUS
<1>1. Configuration(E) /\ DOMAIN Endpoints = 1..Len(Endpoints) /\ DOMAIN E = DOMAIN Endpoints /\ Len(Endpoints) \in Nat
  BY Labelled
<1>2. \A a \in Answers : a.head \in Nat
  BY DEF Answers
<1>3. \A o \in obs : o.id \in Nat /\ o.head \in Nat
  <2>1. \A e, a : Observation(e, a).id = e.id /\ Observation(e, a).head = a.head
    BY DEF Observation
  <2>2. \A i \in DOMAIN Endpoints : E[i].id \in Nat /\ answer[i].head \in Nat
    BY <1>1, <1>2 DEF Configuration
  <2> QED BY <2>1, <2>2
<1>4. IsFiniteSet(obs)
  <2> DEFINE at == [i \in DOMAIN Endpoints |-> Observation(E[i], answer[i])]
  <2>1. (\A i \in DOMAIN Endpoints : at[i] \in obs) /\ \A o \in obs : \E i \in DOMAIN Endpoints : o = at[i]
    OBVIOUS
  <2>2. IsFiniteSet(DOMAIN Endpoints)
    <3>1. Len(Endpoints) \in Int /\ 1 \in Int
      BY <1>1
    <3> QED BY <1>1, <3>1, FS_Interval, Zenon
  <2> HIDE DEF at
  <2> QED BY <2>1, <2>2, Mapped
<1> QED BY <1>3, <1>4, AgreedApart

\* A reading is given by an endpoint of a failure domain; one per failure domain.
LEMMA ReadersCount == ReadersCountOnce
<1> DEFINE given(giving) == [i \in DOMAIN Endpoints |-> [ok |-> i \in giving, value |-> i]]
<1> SUFFICES ASSUME NEW domains \in Labels, NEW providers \in Labels, NEW secrets \in Labels,
                    NEW ids \in SUBSET DOMAIN Endpoints
             PROVE  \A endpoints \in {Configured(domains, providers, secrets)} :
                    \A units \in {unitsOf(endpoints, ids)}, giving \in SUBSET ids :
                      LET among == {endpoints[i] : i \in ids}
                          witnesses == {r.witness : r \in readingsOf(units, given(giving))}
                      IN  \A e, f \in witnesses : e # f => ~Linked(among, Joint(among), e, f)
  BY Zenon DEF ReadersCountOnce
<1> SUFFICES ASSUME NEW E, E = Configured(domains, providers, secrets),
                    NEW units, units = unitsOf(E, ids), NEW giving \in SUBSET ids,
                    NEW among, among = {E[i] : i \in ids},
                    NEW readings, readings = readingsOf(units, given(giving)),
                    NEW r \in readings, NEW s \in readings, r.witness # s.witness
             PROVE  ~Linked(among, Joint(among), r.witness, s.witness)
  <2> HIDE DEF given
  <2> QED OBVIOUS
<1> DEFINE read == given(giving)
           Answering(u) == {i \in DOMAIN u : read[u[i].id].ok}
           first(u) == u[CHOOSE i \in Answering(u) : \A j \in Answering(u) : i <= j]
<1>1. Configuration(E) /\ DOMAIN E = DOMAIN Endpoints /\ DOMAIN E = 1..Len(Endpoints)
  BY Labelled
<1>2. among = {e \in ToSet(E) : e.id \in ids}
  <2>1. ToSet(E) = {E[i] : i \in DOMAIN E}
    BY DEF ToSet
  <2> QED BY <1>1, <2>1 DEF Configuration
<1>13. PartsOf(units, among)
  BY <1>1, <1>2, UnitsOf
<1>3. \A u \in ToSet(units) : Len(u) \in Nat /\ DOMAIN u = 1..Len(u)
  BY <1>13 DEF PartsOf
<1>4. readings = {[witness |-> first(u), value |-> read[first(u).id].value]
                    : u \in {x \in ToSet(units) : Answering(x) # {}}}
  BY DEF readingsOf
<1>5. ASSUME NEW u \in ToSet(units), Answering(u) # {}
      PROVE  \E i \in DOMAIN u : first(u) = u[i]
  <2> DEFINE answers == Answering(u)
             least == CHOOSE i \in answers : \A j \in answers : i <= j
  <2>1. first(u) = u[least]
    OBVIOUS
  <2>2. answers # {} /\ answers \in SUBSET Nat /\ answers \subseteq DOMAIN u
    BY <1>3, <1>5
  <2> HIDE DEF answers
  <2>3. least \in answers
    BY <2>2, LeastOfSome
  <2> HIDE DEF least, first
  <2> QED BY <2>1, <2>2, <2>3
<1>6. \A x \in readings : \E u \in ToSet(units) : Answering(u) # {} /\ x.witness = first(u)
  <2> HIDE DEF first, Answering, read
  <2> QED BY <1>4
<1>7. PICK u \in ToSet(units) : Answering(u) # {} /\ r.witness = first(u)
  BY <1>6
<1>8. PICK v \in ToSet(units) : Answering(v) # {} /\ s.witness = first(v)
  BY <1>6
<1> HIDE DEF first, Answering, read
<1>9. u # v
  BY <1>7, <1>8
<1>10. PICK i \in DOMAIN u : first(u) = u[i]
  BY <1>5, <1>7
<1>11. PICK j \in DOMAIN v : first(v) = v[j]
  BY <1>5, <1>8
<1>12. ~Linked(among, Joint(among), u[i], v[j])
  BY <1>9, <1>13 DEF PartsOf
<1> QED BY <1>7, <1>8, <1>10, <1>11, <1>12

\* The witnesses of a reading that two failure domains or more agree on.
LEMMA LinkedFound ==
  ASSUME CInv
  PROVE  LinkedCountsOnce
<1>1. ASSUME NEW side \in Sides, reading[side].ok,
             NEW e \in reading[side].witnesses, NEW f \in reading[side].witnesses, e # f
      PROVE  ~Shares(e, f)
  <2>1. Witnessed(reading[side])
    BY <1>1 DEF CInv, ReadingInv, Truly
  <2> QED BY <1>1, <2>1 DEF Witnessed, Shares
<1> QED BY <1>1, QuorumCounts, ReadersCount DEF LinkedCountsOnce

\* However any number of endpoints are configured, and whichever of them fail, lag or lie:
\* of those that answer, two that a chain of shared provider groups, trust domains,
\* credentials and hosts links are never two witnesses of a reading, nor two of a quorum of
\* heads that a chain of groups and domains links; and what a quorum agrees on is one hash,
\* at a height all of its witnesses have reached (collect.ts 293-364, independence.ts
\* 32-94, quorum.ts 93-111, 168-316).
THEOREM LinkedIsOnce == Spec => []LinkedCountsOnce
<1>1. CInv => LinkedCountsOnce
  BY LinkedFound
<1> QED BY <1>1, CollectionInvariant, PTL

---------------------------------------------------------------------------
\* What two agreed readings show, whoever lied.

\* A decoded side says what happened between some block and its pin.
Fair(side, v, log) ==
  /\ Ordered(side, log) /\ Witnessed(v)
  /\ v.pin.height = Len(log) /\ v.pin.hash \in Hashes /\ finalityBasisStands(Mode, v.pin.height)
  /\ v.first \in 0..Len(log) /\ DOMAIN v.log = 1..(Len(log) - v.first)
  /\ \A i \in DOMAIN v.log : v.log[i] = Facts(side, log[v.first + i])
  /\ side = "home" => v.calls.D \in Int /\ v.calls.escrow \in Int
  /\ side = "remote" => v.calls.S \in Int

\* The logs of an agreed reading are events of the chain, and its struct is the contract's.
LEMMA AgreedReading ==
  ASSUME CInv, NEW side \in Sides, reading[side].ok
  PROVE  LET r   == reading[side]
             log == At(side)
         IN  /\ Witnessed(r) /\ AtPin(r, LogOf(side)) /\ Ordered(side, log) /\ Len(log) = r.pin.height
             /\ r.first \in 0..Len(log) /\ DOMAIN r.log = 1..(Len(log) - r.first)
             /\ \A i \in DOMAIN r.log :
                  /\ r.first + i \in DOMAIN log /\ r.log[i] = log[r.first + i]
                  /\ r.log[i] \in Events /\ Shaped(side, r.log[i])
             /\ \E skew \in {0, 1} : r.calls = Queried(side, log, skew)
<1> DEFINE r == reading[side]
           log == At(side)
<1>1. Witnessed(r) /\ AtPin(r, LogOf(side)) /\ Roughly(side, r, LogOf(side)) /\ Ordered(side, LogOf(side))
  <2>1. Truly(side, r, LogOf(side), outvoted)
    BY DEF CInv, ReadingInv
  <2>2. Ordered(side, LogOf(side))
    BY DEF CInv, RouteInv, LogOf, Sides
  <2> QED BY <2>1, <2>2 DEF Truly
<1>2. r.pin.height \in 0..Len(LogOf(side)) /\ LogOf(side) \in Seq(Events)
  BY <1>1 DEF AtPin, Ordered
<1>3. Ordered(side, log) /\ Len(log) = r.pin.height /\ log \in Seq(Events) /\ DOMAIN log = 1..Len(log)
  BY <1>1, <1>2, PrefixOrdered, PrefixIs DEF At
<1>4. /\ r.first \in 0..Len(log) /\ DOMAIN r.log = 1..(Len(log) - r.first)
      /\ \A i \in DOMAIN r.log : r.log[i] = log[r.first + i]
      /\ \E skew \in {0, 1} : r.calls = Queried(side, log, skew)
  BY <1>1, <1>3 DEF Roughly, At
<1> HIDE DEF r, log
<1>5. ASSUME NEW i \in DOMAIN r.log
      PROVE  r.first + i \in DOMAIN log /\ r.log[i] \in Events /\ Shaped(side, r.log[i])
  <2>1. r.first + i \in DOMAIN log
    BY <1>3, <1>4
  <2>2. log[r.first + i] \in Events /\ Shaped(side, log[r.first + i])
    BY <1>3, <2>1 DEF Ordered
  <2> QED BY <1>4, <2>1, <2>2
<1> QED BY <1>1, <1>3, <1>4, <1>5 DEF r, log

LEMMA FairlyRead ==
  ASSUME CInv, \A side \in Sides : reading[side].ok, decodable(reading), NEW side \in Sides
  PROVE  Fair(side, decodedSides(reading)[side], At(side))
<1> DEFINE r == reading[side]
           v == decodedSides(reading)[side]
           log == At(side)
           facts == [i \in DOMAIN r.log |-> UNION {f.fields : f \in factsOf[side][r.log[i]]}]
<1>1. /\ Witnessed(r) /\ AtPin(r, LogOf(side)) /\ Ordered(side, log) /\ Len(log) = r.pin.height
      /\ r.first \in 0..Len(log) /\ DOMAIN r.log = 1..(Len(log) - r.first)
      /\ \A i \in DOMAIN r.log :
           /\ r.first + i \in DOMAIN log /\ r.log[i] = log[r.first + i]
           /\ r.log[i] \in Events /\ Shaped(side, r.log[i])
      /\ \E skew \in {0, 1} : r.calls = Queried(side, log, skew)
  BY AgreedReading
<1>5. v = [r EXCEPT !.log = facts]
  BY DEF decodedSides
<1>6. /\ v.witnesses = r.witnesses /\ v.pin = r.pin /\ v.log = facts /\ v.first = r.first /\ v.calls = r.calls
  <2>1. r = [ok |-> TRUE, witnesses |-> r.witnesses, pin |-> r.pin, log |-> r.log, first |-> r.first, calls |-> r.calls]
    BY <1>1 DEF AtPin
  <2>2. {"witnesses", "pin", "log", "first", "calls"} \subseteq DOMAIN r
    <3> DEFINE w == r.witnesses
               p == r.pin
               l == r.log
               a == r.first
               c == r.calls
    <3>1. r = [ok |-> TRUE, witnesses |-> w, pin |-> p, log |-> l, first |-> a, calls |-> c]
      BY <2>1
    <3> HIDE DEF w, p, l, a, c, r
    <3> QED BY <3>1
  <2> HIDE DEF facts, r, v
  <2> QED BY <1>5, <2>2
<1>7. \A i \in DOMAIN r.log : facts[i] = Facts(side, log[r.first + i])
  <2> SUFFICES ASSUME NEW i \in DOMAIN r.log PROVE facts[i] = Facts(side, log[r.first + i])
    OBVIOUS
  <2>1. \A f \in factsOf[side][r.log[i]] : f.ok
    BY DEF decodable
  <2>2. UNION {f.fields : f \in factsOf[side][r.log[i]]} = Facts(side, r.log[i])
    BY <1>1, <2>1, FactsAre
  <2> QED BY <1>1, <2>2
<1>8. DOMAIN facts = DOMAIN r.log
  OBVIOUS
<1> HIDE DEF r, v, facts, log
<1>9. Witnessed(v)
  BY <1>1, <1>6 DEF Witnessed
<1>10. v.pin.hash \in Hashes /\ finalityBasisStands(Mode, v.pin.height)
  BY <1>1, <1>6 DEF AtPin
<1>11. /\ side = "home" => r.calls.D \in Int /\ r.calls.escrow \in Int
       /\ side = "remote" => r.calls.S \in Int
  <2>1. log \in Seq(Events) /\ Len(log) \in 0..Len(log)
    BY <1>1 DEF Ordered
  <2>2. /\ transferredBalance(log) \in Int /\ totalSupply(log) \in Int
        /\ side = "home" => escrowBalance(log) \in Int
    BY <1>1, <2>1, Balances, BalanceTypes
  <2>3. PICK skew \in {0, 1} : r.calls = Queried(side, log, skew)
    BY <1>1
  <2>4. CASE side = "home"
    <3>1. r.calls.D = transferredBalance(log) + skew /\ r.calls.escrow = escrowBalance(log)
      BY <2>3, <2>4 DEF Queried, homeQueries
    <3> QED BY <2>2, <2>4, <3>1
  <2>5. CASE side = "remote"
    <3>1. r.calls.S = totalSupply(log) + skew
      BY <2>3, <2>5 DEF Queried, remoteQueries
    <3> QED BY <2>2, <2>5, <3>1
  <2> QED BY <2>4, <2>5
<1>12. Fair(side, v, log)
  BY <1>1, <1>6, <1>7, <1>8, <1>9, <1>10, <1>11 DEF Fair
<1> QED BY <1>12 DEF v, log

\* Only a payload of an unknown version does not decode.
LEMMA Undecoded ==
  ASSUME CInv, \A side \in Sides : reading[side].ok, ~decodable(reading)
  PROVE  Has(At("remote"), "unknown", NoMessage)
<1>1. decodeRemoteSettingsResult(reading["home"].calls.settings).ok
  <2>1. PICK skew \in {0, 1} : reading["home"].calls = Queried("home", At("home"), skew)
    BY AgreedReading DEF Sides
  <2>2. reading["home"].calls.settings = SettingsResult(At("home"))
    BY <2>1 DEF Queried, homeQueries
  <2> QED BY <2>2, SettingsAre
<1>2. PICK side \in Sides : ~ \A i \in DOMAIN reading[side].log :
                                \A f \in factsOf[side][reading[side].log[i]] : f.ok
  BY <1>1 DEF decodable
<1> DEFINE r == reading[side]
           log == At(side)
<1>3. PICK i \in DOMAIN r.log : ~ \A f \in factsOf[side][r.log[i]] : f.ok
  BY <1>2
<1>4. r.first + i \in DOMAIN log /\ r.log[i] = log[r.first + i] /\ r.log[i] \in Events /\ Shaped(side, r.log[i])
  BY AgreedReading
<1>5. r.log[i].kind = "unknown"
  BY <1>3, <1>4, FactsAre
<1>6. side = "remote" /\ r.log[i].msg = NoMessage
  BY <1>4, <1>5 DEF Shaped, Uninterpreted, Strange
<1> QED BY <1>4, <1>5, <1>6 DEF Has

\* However many lied, a send is read once.
LEMMA SentOnce ==
  ASSUME NEW side, NEW v, NEW log, Fair(side, v, log), NEW m
  PROVE  /\ IsFiniteSet(FactsOf(v, "tokensSent", m))
         /\ \A i, j \in FactsOf(v, "tokensSent", m) : i = j
<1> DEFINE sent == FactsOf(v, "tokensSent", m)
<1>1. /\ v.first \in Nat /\ Len(log) \in Nat /\ DOMAIN log = 1..Len(log) /\ v.first <= Len(log)
      /\ DOMAIN v.log = 1..(Len(log) - v.first)
      /\ \A i \in DOMAIN log : log[i] \in Events
  BY DEF Fair, Ordered
<1>2. sent \subseteq DOMAIN v.log
  BY DEF FactsOf, Named
<1>3. ASSUME NEW i \in sent
      PROVE  v.first + i \in DOMAIN log /\ log[v.first + i].kind = "sent" /\ log[v.first + i].msg = m
  <2> DEFINE e == log[v.first + i]
  <2>1. i \in Named(v, "tokensSent") /\ FieldsAt(v, "tokensSent", i).messageId = m
    BY DEF FactsOf
  <2>2. v.first + i \in DOMAIN log
    BY <1>1, <1>2
  <2>3. v.log[i] = Facts(side, e) /\ e \in Events
    BY <1>1, <1>2, <2>2 DEF Fair
  <2>4. Tells(Facts(side, e), "tokensSent", e.kind = "sent", SentFields(side, e))
    BY <2>3, Tales
  <2> HIDE DEF e
  <2>5. e.kind = "sent"
    BY <2>1, <2>3, <2>4 DEF Named, Tells
  <2>6. FieldsAt(v, "tokensSent", i) = SentFields(side, e)
    BY <2>3, <2>4, <2>5 DEF FieldsAt, Tells
  <2>7. e.msg = m
    BY <2>1, <2>6 DEF SentFields
  <2> QED BY <2>2, <2>5, <2>7 DEF e
<1>4. IsFiniteSet(sent)
  <2>1. Len(log) - v.first \in Int /\ 1 \in Int
    BY <1>1
  <2>2. IsFiniteSet(DOMAIN v.log)
    BY <1>1, <2>1, FS_Interval, Zenon
  <2> QED BY <1>2, <2>2, FS_Subset
<1>5. ASSUME NEW i \in sent, NEW j \in sent PROVE i = j
  <2>1. i \in Int /\ j \in Int /\ v.first \in Int
    BY <1>1, <1>2
  <2>2. v.first + i = v.first + j
    BY <1>3 DEF Fair, Ordered
  <2> QED BY <2>1, <2>2
<1> QED BY <1>4, <1>5

BothFair(s, h, r) == \A side \in Sides : Fair(side, s[side], Cut(h, r, side))

---------------------------------------------------------------------------
\* The facts an evidence record cites.

LEMMA TracesAre ==
  ASSUME NEW s
  PROVE  \A t : t \in assessRoute(s).traces <=>
           \E direction \in Directions :
             \E m \in {x \in Directed(direction).messages : Credited(Directed(direction), s, x)}
                        \cup InFlight(Directed(direction), s) :
               t = traceOf(Directed(direction), s, m)
<1> DEFINE both == {assessDirection(d, s) : d \in Directions}
           TracesIn(d) == {traceOf(Directed(d), s, m) :
                             m \in {x \in Directed(d).messages : Credited(Directed(d), s, x)}
                                     \cup InFlight(Directed(d), s)}
<1>1. assessRoute(s).traces = UNION {a.traces : a \in both}
  BY DEF assessRoute
<1>2. \A d \in Directions : assessDirection(d, s).traces = TracesIn(d)
  BY DEF assessDirection
<1>3. \A t : t \in assessRoute(s).traces <=> \E d \in Directions : t \in assessDirection(d, s).traces
  BY <1>1
<1>4. \A t : t \in assessRoute(s).traces <=> \E d \in Directions : t \in TracesIn(d)
  BY <1>2, <1>3
<1> QED BY <1>4

\* A fact is the coordinate of a block that was read.
Sited(s, f) == \E side \in Sides : \E i \in DOMAIN s[side].log : f = Fact(side, s[side], i)

LEMMA FactsAreSited ==
  ASSUME NEW s, NEW f \in usedFacts(s, assessRoute(s))
  PROVE  Sited(s, f)
<1>1. \A v, name : Named(v, name) \subseteq DOMAIN v.log
  BY DEF Named
<1>2. CASE f \in {Fact("home", s.home, i) : i \in Registrations(s)}
  <2>1. Registrations(s) \subseteq DOMAIN s.home.log
    BY <1>1 DEF Registrations
  <2>2. PICK i \in DOMAIN s.home.log : f = Fact("home", s.home, i)
    BY <1>2, <2>1
  <2>3. s.home = s["home"] /\ "home" \in Sides
    BY DEF Sides
  <2> QED BY <2>2, <2>3 DEF Sited
<1>3. ASSUME NEW t \in assessRoute(s).traces, f \in t.facts
      PROVE  Sited(s, f)
  <2>1. PICK direction \in Directions :
          \E m \in {x \in Directed(direction).messages : Credited(Directed(direction), s, x)}
                     \cup InFlight(Directed(direction), s) :
            t = traceOf(Directed(direction), s, m)
    BY TracesAre
  <2> DEFINE d == Directed(direction)
  <2>2. d.src \in Sides /\ d.dst \in Sides
    BY DirectionIs
  <2> HIDE DEF d
  <2>3. PICK m : t = traceOf(d, s, m)
    BY <2>1 DEF d
  <2> DEFINE sent == SendsOf(d, s, m)
             executed == FactsOf(s[d.dst], "messageExecuted", m)
             failed == FactsOf(s[d.dst], "messageExecutionFailed", m)
             delivered == DeliveriesOf(s[d.dst], m)
  <2>4. sent \subseteq DOMAIN s[d.src].log
    BY <1>1 DEF SendsOf, FactsOf
  <2>5. executed \subseteq DOMAIN s[d.dst].log /\ failed \subseteq DOMAIN s[d.dst].log
        /\ delivered \subseteq DOMAIN s[d.dst].log
    BY <1>1 DEF DeliveriesOf, FactsOf
  <2>6. t.facts = {Fact(d.src, s[d.src], i) : i \in sent} \cup {Fact(d.dst, s[d.dst], i) : i \in failed}
                    \cup {Fact(d.dst, s[d.dst], i) : i \in delivered}
                    \cup (IF Credited(d, s, m) THEN {Fact(d.dst, s[d.dst], i) : i \in executed} ELSE {})
    BY <2>3 DEF traceOf
  <2> HIDE DEF sent, executed, failed, delivered
  <2>7. \/ \E i \in DOMAIN s[d.src].log : f = Fact(d.src, s[d.src], i)
        \/ \E i \in DOMAIN s[d.dst].log : f = Fact(d.dst, s[d.dst], i)
    BY <1>3, <2>4, <2>5, <2>6
  <2> QED BY <2>2, <2>7 DEF Sited
<1> QED BY <1>2, <1>3 DEF usedFacts

LEMMA FactIs ==
  ASSUME NEW s, NEW h, NEW r, BothFair(s, h, r), NEW f, Sited(s, f)
  PROVE  /\ f.chain \in Sides /\ f.height \in Int /\ s[f.chain].pin.height \in Int
         /\ f.height <= s[f.chain].pin.height
         /\ f.hash = IF f.height = s[f.chain].pin.height THEN s[f.chain].pin.hash ELSE "main"
<1>1. PICK side \in Sides : \E i \in DOMAIN s[side].log : f = Fact(side, s[side], i)
  BY DEF Sited
<1> DEFINE v == s[side]
           log == Cut(h, r, side)
<1>2. PICK i \in DOMAIN v.log : f = Fact(side, v, i)
  BY <1>1
<1>3. Fair(side, v, log)
  BY DEF BothFair
<1> HIDE DEF v, log
<1>4. /\ Len(log) \in Nat /\ v.pin.height = Len(log) /\ v.first \in 0..Len(log)
      /\ DOMAIN v.log = 1..(Len(log) - v.first)
  BY <1>3 DEF Fair, Ordered
<1>5. v.first + i \in Int /\ v.first + i <= v.pin.height
  BY <1>2, <1>4
<1> DEFINE hash == IF v.first + i = v.pin.height THEN v.pin.hash ELSE "main"
<1>6. f.chain = side /\ f.height = v.first + i /\ f.hash = hash
  <2>1. f = [chain |-> side, height |-> v.first + i, hash |-> hash]
    BY <1>2 DEF Fact, FactAt, heightOf
  <2> HIDE DEF hash
  <2> QED BY <2>1
<1> QED BY <1>4, <1>5, <1>6 DEF v

---------------------------------------------------------------------------
\* The votes for a block.

LEMMA VotesCount ==
  ASSUME NEW chain, NEW v, Witnessed(v), NEW hash
  PROVE  LET votes == votesOf(chain, v, hash)
         IN  /\ IsFiniteSet(votes) /\ Cardinality(votes) = Cardinality(v.witnesses)
             /\ Cardinality({x.id : x \in votes}) = Cardinality(v.witnesses)
             /\ \A x, y \in votes : x # y => x.trustDomain # y.trustDomain /\ x.providerGroup # y.providerGroup
<1> DEFINE votes == votesOf(chain, v, hash)
           ids == {x.id : x \in votes}
           W == v.witnesses
           vote == [e \in W |-> [id |-> e.id, trustDomain |-> e.trustDomain, providerGroup |-> e.providerGroup,
                                 chain |-> chain, hash |-> hash]]
           idOf == [x \in votes |-> x.id]
<1>1. IsFiniteSet(W) /\ W \subseteq ToSet(Endpoints)
      /\ \A e, f \in W : e # f => e.providerGroup # f.providerGroup /\ e.trustDomain # f.trustDomain
  BY DEF Witnessed
<1>2. \A e \in W : Endpoints[e.id] = e
  BY <1>1, EndpointsAssumption DEF ToSet
<1>3. votes = {vote[e] : e \in W}
  BY DEF votesOf
<1>4. \A e \in W : /\ vote[e].id = e.id /\ vote[e].trustDomain = e.trustDomain
                   /\ vote[e].providerGroup = e.providerGroup
  OBVIOUS
<1>5. (\A e \in W : vote[e] \in votes) /\ \A x \in votes : \E e \in W : x = vote[e]
  BY <1>3
<1>6. (\A x \in votes : idOf[x] \in ids) /\ \A y \in ids : \E x \in votes : y = idOf[x]
  OBVIOUS
<1>7. (\A y \in ids : Endpoints[y] \in W) /\ \A e \in W : \E y \in ids : e = Endpoints[y]
  <2> HIDE DEF votes, vote, W
  <2>1. \A y \in ids : \E e \in W : y = e.id
    BY <1>4, <1>5
  <2>2. \A e \in W : e.id \in ids
    BY <1>4, <1>5
  <2> HIDE DEF ids
  <2> QED BY <1>2, <2>1, <2>2
<1> HIDE DEF votes, ids, W, vote, idOf
<1>8. IsFiniteSet(votes) /\ Cardinality(votes) <= Cardinality(W)
  BY <1>1, <1>5, Mapped
<1>9. IsFiniteSet(ids) /\ Cardinality(ids) <= Cardinality(votes)
  BY <1>6, <1>8, Mapped
<1>10. Cardinality(W) <= Cardinality(ids)
  BY <1>7, <1>9, Mapped
<1>11. Cardinality(W) \in Nat /\ Cardinality(votes) \in Nat /\ Cardinality(ids) \in Nat
  BY <1>1, <1>8, <1>9, FS_CardinalityType
<1>12. Cardinality(votes) = Cardinality(W) /\ Cardinality(ids) = Cardinality(W)
  BY <1>8, <1>9, <1>10, <1>11
<1>13. \A x, y \in votes : x # y => x.trustDomain # y.trustDomain /\ x.providerGroup # y.providerGroup
  BY <1>1, <1>4, <1>5
<1> QED BY <1>8, <1>12, <1>13 DEF votes, ids, W

LEMMA SameList ==
  ASSUME NEW S
  PROVE  SetToSeq(S) = Q!SetToSeq(S)
BY DEF SetToSeq, Q!SetToSeq, IsInjective, Q!IsInjective, Cardinality, Q!Cardinality

\* The verifier counts as many independent votes as there are witnesses.
LEMMA VotesStandApart ==
  ASSUME NEW chain, NEW v, Witnessed(v), NEW hash
  PROVE  Len(Q!independenceGroups(SetToSeq(votesOf(chain, v, hash)))) = Cardinality(v.witnesses)
<1> DEFINE votes == votesOf(chain, v, hash)
           items == SetToSeq(votes)
<1>1. /\ IsFiniteSet(votes) /\ Cardinality(votes) = Cardinality(v.witnesses)
      /\ \A x, y \in votes : x # y => x.trustDomain # y.trustDomain /\ x.providerGroup # y.providerGroup
  BY VotesCount
<1> HIDE DEF votes
<1>2. /\ Len(items) = Cardinality(votes) /\ Cardinality(votes) \in Nat
      /\ items \in [1..Cardinality(votes) -> votes]
      /\ \A i, j \in 1..Cardinality(votes) : i # j => items[i] # items[j]
  BY <1>1, SameList, ListedOnce
<1> HIDE DEF items
<1>3. \A i \in 1..Len(items) : items[i] \in votes
  BY <1>2
<1>4. \A i, j \in 1..Len(items) : i # j =>
        /\ items[i].trustDomain # items[j].trustDomain
        /\ items[i].providerGroup # items[j].providerGroup
  BY <1>1, <1>2, <1>3
<1>5. Len(Q!independenceGroups(items)) = Len(items)
  BY <1>2, <1>4, GroupsApart
<1> QED BY <1>1, <1>2, <1>5 DEF items, votes

---------------------------------------------------------------------------
\* The verifier on what the collector assembles.

\* The input, as far as the verifier looks into it; o: its one remote.
Given(s, in, o) ==
  /\ in.remotes = {o} /\ in.required = Required /\ in.effects = assessRoute(s).effects
  /\ in.witnesses = CHOOSE n \in {Cardinality(s[side].witnesses) : side \in Sides} :
                      \A k \in {Cardinality(s[side].witnesses) : side \in Sides} : n <= k
  /\ in.escrow = s["home"].calls.escrow /\ in.homePin = PinOf("home", s["home"])
  /\ o.remote = "remote" /\ o.fingerprint = TRUE
  /\ o.D = s["home"].calls.D /\ o.S = s["remote"].calls.S
  /\ o.homePin = PinOf("home", s["home"]) /\ o.remotePin = PinOf("remote", s["remote"])

PinnedChain(s, side) ==
  [chain |-> side, height |-> s[side].pin.height, hash |-> s[side].pin.hash, basis |-> Mode]

\* The bundle's core, in being its input.
Bundled(s, in, core) ==
  /\ core.input = in
  /\ core.evaluation = replayProof(in).evaluation /\ core.verdict = replayProof(in).verdict
  /\ core.deployment = in.deployment
  /\ core.manifestHash = in.manifestHash /\ core.policyHash = in.policyHash
  /\ core.sourceLock = in.sourceLock /\ core.adapter = in.adapter
  /\ core.fingerprints = {[chain |-> "home", address |-> "tokenHome", recognised |-> TRUE],
                          [chain |-> "remote", address |-> "remote", recognised |-> TRUE]}
  /\ core.chains = {PinnedChain(s, side) : side \in Sides}
  /\ core.votes = UNION {votesOf(side, s[side], s[side].pin.hash) : side \in Sides}
  /\ core.independent = in.witnesses /\ core.required = Required
  /\ core.facts = usedFacts(s, assessRoute(s)) /\ core.history = historyOf(s, assessRoute(s))
  /\ core.calls = {stateCall("tokenAddress", "home", "tokenHome", s, 0),
                   stateCall("escrow", "home", "token", s, in.escrow),
                   stateCall("transferredBalance", "home", "tokenHome", s, s["home"].calls.D),
                   stateCall("remoteTotalSupply", "remote", "remote", s, s["remote"].calls.S)}
  /\ core.census = in.census /\ core.registered = {"remote"}
  /\ core.messages = assessRoute(s).traces
  /\ core.missing = {} /\ core.contradictory = {}

LEMMA GivenIs ==
  ASSUME NEW s, NEW c
  PROVE  Given(s, InputOf(s, c), ObservedOf(s, c))
<1> DEFINE in == InputOf(s, c)
           o == ObservedOf(s, c)
           counts == {Cardinality(s[side].witnesses) : side \in Sides}
<1>1. /\ in.remotes = {o} /\ in.required = Required /\ in.effects = assessRoute(s).effects
      /\ in.witnesses = CHOOSE n \in counts : \A k \in counts : n <= k
      /\ in.escrow = s.home.calls.escrow /\ in.homePin = PinOf("home", s.home)
  BY Zenon DEF InputOf, ObservedOf, proofInput
<1>2. /\ o.remote = "remote" /\ o.fingerprint = TRUE
      /\ o.D = s.home.calls.D /\ o.S = s.remote.calls.S
      /\ o.homePin = PinOf("home", s.home) /\ o.remotePin = PinOf("remote", s.remote)
  BY Zenon DEF ObservedOf, remoteObservation
<1> HIDE DEF in, o
<1> QED BY <1>1, <1>2 DEF Given, in, o

LEMMA BundledIs ==
  ASSUME NEW s, NEW c
  PROVE  /\ Bundled(s, InputOf(s, c), BundleOf(s, c).core)
         /\ BundleOf(s, c).contentHash = BundleOf(s, c).core
<1> DEFINE in == InputOf(s, c)
           route == assessRoute(s)
           replayed == replayProof(in)
           core == bundleCore(s, route, in, replayed)
<1>1. BundleOf(s, c) = buildBundle(core)
  BY Zenon DEF BundleOf, InputOf
<1>2. /\ core.input = in
      /\ core.evaluation = replayed.evaluation /\ core.verdict = replayed.verdict
      /\ core.deployment = in.deployment
      /\ core.manifestHash = in.manifestHash /\ core.policyHash = in.policyHash
      /\ core.sourceLock = in.sourceLock /\ core.adapter = in.adapter
      /\ core.independent = in.witnesses /\ core.required = Required
      /\ core.census = in.census /\ core.registered = {"remote"}
      /\ core.messages = route.traces
      /\ core.missing = {} /\ core.contradictory = {}
  BY Zenon DEF bundleCore
<1>3. /\ core.fingerprints = {[chain |-> "home", address |-> "tokenHome", recognised |-> TRUE],
                              [chain |-> "remote", address |-> "remote", recognised |-> TRUE]}
      /\ core.chains = {PinnedChain(s, side) : side \in Sides}
      /\ core.votes = UNION {votesOf(side, s[side], s[side].pin.hash) : side \in Sides}
      /\ core.facts = usedFacts(s, route) /\ core.history = historyOf(s, route)
      /\ core.calls = {stateCall("tokenAddress", "home", "tokenHome", s, 0),
                       stateCall("escrow", "home", "token", s, in.escrow),
                       stateCall("transferredBalance", "home", "tokenHome", s, s["home"].calls.D),
                       stateCall("remoteTotalSupply", "remote", "remote", s, s["remote"].calls.S)}
  BY Zenon DEF bundleCore, PinnedChain
<1>4. buildBundle(core).core = core /\ buildBundle(core).contentHash = core
  <2> HIDE DEF core
  <2> QED BY DEF buildBundle
<1> HIDE DEF core, in, replayed, route
<1>5. Bundled(s, in, core)
  BY <1>2, <1>3, Zenon DEF Bundled, route, replayed
<1> QED BY <1>1, <1>4, <1>5 DEF in

\* Both chains are in the bundle, and each has the votes of its own witnesses.
LEMMA ChainsAre ==
  ASSUME NEW s, NEW in, NEW core, Bundled(s, in, core)
  PROVE  /\ \A k \in core.chains : k.chain \in Sides /\ k = PinnedChain(s, k.chain)
         /\ \A side \in Sides : /\ PinnedChain(s, side) \in core.chains
                                /\ PinnedChain(s, side).chain = side
                                /\ PinnedChain(s, side).height = s[side].pin.height
                                /\ PinnedChain(s, side).hash = s[side].pin.hash
                                /\ PinnedChain(s, side).basis = Mode
<1>1. core.chains = {PinnedChain(s, side) : side \in Sides}
  BY DEF Bundled
<1>2. ASSUME NEW side
      PROVE  /\ PinnedChain(s, side).chain = side
             /\ PinnedChain(s, side).height = s[side].pin.height
             /\ PinnedChain(s, side).hash = s[side].pin.hash
             /\ PinnedChain(s, side).basis = Mode
  BY DEF PinnedChain
<1> QED BY <1>1, <1>2

LEMMA VotesAre ==
  ASSUME NEW s, NEW in, NEW core, Bundled(s, in, core), NEW side \in Sides
  PROVE  /\ {v \in core.votes : v.chain = side} = votesOf(side, s[side], s[side].pin.hash)
         /\ votesFor(core, PinnedChain(s, side)) = votesOf(side, s[side], s[side].pin.hash)
<1> DEFINE CastFor(x) == votesOf(x, s[x], s[x].pin.hash)
<1>1. \A v : v \in core.votes <=> \E x \in Sides : v \in CastFor(x)
  BY DEF Bundled
<1>2. \A x : \A v \in CastFor(x) : v.chain = x /\ v.hash = s[x].pin.hash
  BY DEF votesOf
<1> HIDE DEF CastFor
<1>3. {v \in core.votes : v.chain = side} = CastFor(side)
  BY <1>1, <1>2
<1>4. votesFor(core, PinnedChain(s, side)) = CastFor(side)
  <2>1. PinnedChain(s, side).chain = side /\ PinnedChain(s, side).hash = s[side].pin.hash
    BY DEF PinnedChain
  <2> QED BY <1>1, <1>2, <2>1 DEF votesFor
<1> QED BY <1>3, <1>4 DEF CastFor

---------------------------------------------------------------------------
\* Each thing the verifier asks for.

\* What the collector hands to it.
Assembled(s, h, r, in, o, core) == BothFair(s, h, r) /\ Given(s, in, o) /\ Bundled(s, in, core)

LEMMA SidesAre ==
  ASSUME NEW s, NEW h, NEW r, BothFair(s, h, r), NEW side \in Sides
  PROVE  /\ Witnessed(s[side]) /\ s[side].pin.height \in Int /\ s[side].pin.hash \in Hashes
         /\ finalityBasisStands(Mode, s[side].pin.height)
         /\ s["home"].calls.D \in Int /\ s["home"].calls.escrow \in Int /\ s["remote"].calls.S \in Int
<1>1. Fair(side, s[side], Cut(h, r, side)) /\ Fair("home", s["home"], Cut(h, r, "home"))
      /\ Fair("remote", s["remote"], Cut(h, r, "remote"))
  BY DEF BothFair, Sides
<1> QED BY <1>1 DEF Fair, Ordered

\* Every chain has the votes it needs, and the fewest is what the input says.
LEMMA QuorumHolds ==
  ASSUME NEW s, NEW h, NEW r, NEW in, NEW o, NEW core, Assembled(s, h, r, in, o, core)
  PROVE  /\ \A k \in core.chains : independentVotes(core, k) >= core.required
         /\ fewestVotes(core) = in.witnesses /\ fewestVotes(core) = core.independent
         /\ \A v \in core.votes : \E k \in core.chains : k.chain = v.chain
<1>0. BothFair(s, h, r) /\ Given(s, in, o) /\ Bundled(s, in, core)
  BY DEF Assembled
<1>1. ASSUME NEW side \in Sides
      PROVE  /\ independentVotes(core, PinnedChain(s, side)) = Cardinality(s[side].witnesses)
             /\ Cardinality(s[side].witnesses) >= Required
  <2>1. Witnessed(s[side])
    BY <1>0, SidesAre
  <2>2. votesFor(core, PinnedChain(s, side)) = votesOf(side, s[side], s[side].pin.hash)
    BY <1>0, VotesAre
  <2>3. Len(Q!independenceGroups(SetToSeq(votesOf(side, s[side], s[side].pin.hash)))) = Cardinality(s[side].witnesses)
    BY <2>1, VotesStandApart
  <2>4. independentVotes(core, PinnedChain(s, side)) = Cardinality(s[side].witnesses)
    BY <2>2, <2>3, Zenon DEF independentVotes
  <2> QED BY <2>1, <2>4 DEF Witnessed
<1>2. /\ core.chains = {PinnedChain(s, side) : side \in Sides} /\ core.required = Required
      /\ core.independent = in.witnesses
  BY <1>0 DEF Bundled
<1>3. \A k \in core.chains : independentVotes(core, k) >= core.required
  BY <1>1, <1>2
<1>4. fewestVotes(core) = in.witnesses
  <2> DEFINE votes == {independentVotes(core, k) : k \in core.chains}
             counts == {Cardinality(s[side].witnesses) : side \in Sides}
  <2>1. votes = counts
    BY <1>1, <1>2
  <2>2. fewestVotes(core) = CHOOSE n \in votes : \A k \in votes : n <= k
    BY Zenon DEF fewestVotes
  <2>3. in.witnesses = CHOOSE n \in counts : \A k \in counts : n <= k
    BY <1>0 DEF Given
  <2> HIDE DEF votes, counts
  <2> QED BY <2>1, <2>2, <2>3
<1>5. ASSUME NEW v \in core.votes PROVE \E k \in core.chains : k.chain = v.chain
  <2>1. PICK side \in Sides : v \in votesOf(side, s[side], s[side].pin.hash)
    BY <1>0 DEF Bundled
  <2>2. v.chain = side
    BY <2>1 DEF votesOf
  <2> QED BY <1>0, <2>2, ChainsAre
<1> QED BY <1>2, <1>3, <1>4, <1>5

LEMMA FinalityHolds ==
  ASSUME NEW s, NEW h, NEW r, NEW in, NEW o, NEW core, Assembled(s, h, r, in, o, core)
  PROVE  \A k \in core.chains : /\ k.basis \in {"accepted-quorum", "settled-quorum"}
                                /\ finalityBasisStands(k.basis, k.height)
<1> SUFFICES ASSUME NEW k \in core.chains
             PROVE  /\ k.basis \in {"accepted-quorum", "settled-quorum"}
                    /\ finalityBasisStands(k.basis, k.height)
  OBVIOUS
<1>1. BothFair(s, h, r) /\ Bundled(s, in, core)
  BY DEF Assembled
<1>2. PICK side \in Sides : k.height = s[side].pin.height /\ k.basis = Mode
  BY <1>1, ChainsAre
<1> QED BY <1>1, <1>2, SidesAre, EndpointsAssumption

\* A fact that is cited lies at or below the pin of its chain; below it the hash is the chain's.
LEMMA CitedFacts ==
  ASSUME NEW s, NEW h, NEW r, NEW in, NEW o, NEW core, Assembled(s, h, r, in, o, core)
  PROVE  /\ core.facts = usedFacts(s, assessRoute(s)) /\ core.history = historyOf(s, assessRoute(s))
         /\ \A f \in core.facts :
              /\ f.chain \in Sides /\ f.height \in Int /\ s[f.chain].pin.height \in Int
              /\ f.height <= s[f.chain].pin.height
              /\ f.hash = IF f.height = s[f.chain].pin.height THEN s[f.chain].pin.hash ELSE "main"
<1>1. BothFair(s, h, r) /\ core.facts = usedFacts(s, assessRoute(s)) /\ core.history = historyOf(s, assessRoute(s))
  BY DEF Assembled, Bundled
<1>2. \A f \in core.facts : Sited(s, f)
  BY <1>1, FactsAreSited
<1> QED BY <1>1, <1>2, FactIs

LEMMA HistoryIs ==
  ASSUME NEW s, NEW h, NEW r, NEW in, NEW o, NEW core, Assembled(s, h, r, in, o, core), NEW b
  PROVE  b \in core.history <=>
           \E f \in core.facts :
             /\ f.height < s[f.chain].pin.height
             /\ b = [chain |-> f.chain, height |-> f.height, hash |-> f.hash,
                     votes |-> votesOf(f.chain, s[f.chain], f.hash)]
<1>1. core.facts = usedFacts(s, assessRoute(s)) /\ core.history = historyOf(s, assessRoute(s))
  BY CitedFacts
<1> DEFINE Block(f) == [chain |-> f.chain, height |-> f.height, hash |-> f.hash,
                        votes |-> votesOf(f.chain, s[f.chain], f.hash)]
           below == {g \in core.facts : g.height < s[g.chain].pin.height}
<1>2. core.history = {Block(f) : f \in below}
  BY <1>1 DEF historyOf
<1> HIDE DEF Block
<1>3. b \in core.history <=> \E f \in core.facts : f.height < s[f.chain].pin.height /\ b = Block(f)
  BY <1>2
<1> QED BY <1>3 DEF Block

\* The blocks below the pins carry the votes of their chain's witnesses.
LEMMA HistoryHolds ==
  ASSUME NEW s, NEW h, NEW r, NEW in, NEW o, NEW core, Assembled(s, h, r, in, o, core)
  PROVE  /\ \A b \in core.history : historyHolds(core, b)
         /\ \A a, b \in core.history : a.chain = b.chain /\ a.height = b.height => a = b
<1>0. BothFair(s, h, r) /\ Bundled(s, in, core)
  BY DEF Assembled
<1>1. ASSUME NEW b \in core.history
      PROVE  \E side \in Sides : \E height \in Int :
               /\ height < s[side].pin.height /\ s[side].pin.height \in Int
               /\ b = [chain |-> side, height |-> height, hash |-> "main",
                       votes |-> votesOf(side, s[side], "main")]
  <2>1. PICK f \in core.facts :
          /\ f.height < s[f.chain].pin.height
          /\ b = [chain |-> f.chain, height |-> f.height, hash |-> f.hash,
                  votes |-> votesOf(f.chain, s[f.chain], f.hash)]
    BY HistoryIs
  <2>2. f.chain \in Sides /\ f.height \in Int /\ s[f.chain].pin.height \in Int /\ f.hash = "main"
    BY <2>1, CitedFacts
  <2> QED BY <2>1, <2>2
<1>2. ASSUME NEW b \in core.history PROVE historyHolds(core, b)
  <2>1. PICK side \in Sides, height \in Int :
          /\ height < s[side].pin.height
          /\ b = [chain |-> side, height |-> height, hash |-> "main",
                  votes |-> votesOf(side, s[side], "main")]
    BY <1>1
  <2> DEFINE witnesses == {v \in core.votes : v.chain = b.chain}
             cast == votesOf(side, s[side], "main")
             pinned == votesOf(side, s[side], s[side].pin.hash)
  <2>2. b.chain = side /\ b.height = height /\ b.hash = "main" /\ b.votes = cast
    <3> HIDE DEF cast
    <3> QED BY <2>1 DEF cast
  <2>3. witnesses = pinned
    BY <1>0, <2>2, VotesAre
  <2>4. Witnessed(s[side])
    BY <1>0, SidesAre
  <2>5. Cardinality(cast) = Cardinality(pinned) /\ Cardinality({v.id : v \in cast}) = Cardinality(pinned)
    BY <2>4, VotesCount
  <2>6. \A v \in cast : /\ v.hash = "main" /\ v.chain = side
                        /\ \E w \in pinned : w.id = v.id /\ w.trustDomain = v.trustDomain
                                               /\ w.providerGroup = v.providerGroup
    <3> DEFINE vote(e, hash) == [id |-> e.id, trustDomain |-> e.trustDomain, providerGroup |-> e.providerGroup,
                                 chain |-> side, hash |-> hash]
    <3>1. \A e, hash : /\ vote(e, hash).id = e.id /\ vote(e, hash).trustDomain = e.trustDomain
                       /\ vote(e, hash).providerGroup = e.providerGroup
                       /\ vote(e, hash).chain = side /\ vote(e, hash).hash = hash
      OBVIOUS
    <3>2. /\ cast = {vote(e, "main") : e \in s[side].witnesses}
          /\ pinned = {vote(e, s[side].pin.hash) : e \in s[side].witnesses}
      BY DEF votesOf
    <3> HIDE DEF vote, cast, pinned
    <3>3. \A v \in cast : \E e \in s[side].witnesses : v = vote(e, "main") /\ vote(e, s[side].pin.hash) \in pinned
      BY <3>2
    <3> QED BY <3>1, <3>3
  <2>7. \E k \in core.chains : k.chain = side /\ height < k.height
    BY <1>0, <2>1, ChainsAre
  <2> HIDE DEF witnesses, cast, pinned
  <2>8. /\ \E k \in core.chains : k.chain = b.chain /\ b.height < k.height
        /\ Cardinality(b.votes) = Cardinality(witnesses)
        /\ \A v \in b.votes : /\ v.hash = b.hash /\ v.chain = b.chain
                              /\ \E w \in witnesses : w.id = v.id /\ w.trustDomain = v.trustDomain
                                                      /\ w.providerGroup = v.providerGroup
        /\ Cardinality({v.id : v \in b.votes}) = Cardinality(witnesses)
    BY <2>2, <2>3, <2>5, <2>6, <2>7
  <2> QED BY <2>8, Zenon DEF historyHolds, witnesses
<1>3. ASSUME NEW a \in core.history, NEW b \in core.history, a.chain = b.chain, a.height = b.height
      PROVE  a = b
  <2> DEFINE Block(side, height) == [chain |-> side, height |-> height, hash |-> "main",
                                     votes |-> votesOf(side, s[side], "main")]
  <2>1. (\E side, height : a = Block(side, height)) /\ (\E side, height : b = Block(side, height))
    BY <1>1
  <2>2. \A side, height : Block(side, height).chain = side /\ Block(side, height).height = height
    OBVIOUS
  <2> HIDE DEF Block
  <2> QED BY <1>3, <2>1, <2>2
<1> QED BY <1>2, <1>3

LEMMA FactsHold ==
  ASSUME NEW s, NEW h, NEW r, NEW in, NEW o, NEW core, Assembled(s, h, r, in, o, core)
  PROVE  \A f \in core.facts : factHolds(core, f)
<1> SUFFICES ASSUME NEW f \in core.facts PROVE factHolds(core, f)
  OBVIOUS
<1>1. /\ f.chain \in Sides /\ f.height \in Int /\ s[f.chain].pin.height \in Int
      /\ f.height <= s[f.chain].pin.height
      /\ f.hash = IF f.height = s[f.chain].pin.height THEN s[f.chain].pin.hash ELSE "main"
  BY CitedFacts
<1>2. CASE f.height = s[f.chain].pin.height
  <2>1. Bundled(s, in, core) /\ f.hash = s[f.chain].pin.hash
    BY <1>1, <1>2 DEF Assembled
  <2>2. \E k \in core.chains : k.chain = f.chain /\ k.hash = f.hash /\ k.height = f.height
    BY <1>1, <1>2, <2>1, ChainsAre
  <2> QED BY <2>2 DEF factHolds
<1>3. CASE f.height < s[f.chain].pin.height
  <2> DEFINE b == [chain |-> f.chain, height |-> f.height, hash |-> f.hash,
                   votes |-> votesOf(f.chain, s[f.chain], f.hash)]
  <2>1. b \in core.history
    BY <1>3, HistoryIs
  <2>2. b.chain = f.chain /\ b.hash = f.hash /\ b.height = f.height
    OBVIOUS
  <2> HIDE DEF b
  <2> QED BY <2>1, <2>2 DEF factHolds
<1> QED BY <1>1, <1>2, <1>3

LEMMA CallIs ==
  ASSUME NEW path, NEW chain, NEW target, NEW s, NEW amount
  PROVE  LET c == stateCall(path, chain, target, s, amount)
         IN  /\ c.path = path /\ c.chain = chain /\ c.target = target /\ c.holder = "tokenHome"
             /\ c.height = s[chain].pin.height /\ c.hash = s[chain].pin.hash /\ c.amount = amount
             /\ c.address = IF path = "tokenAddress" THEN "token" ELSE "none"
BY DEF stateCall

\* Each call is asked of a recognised contract, or of the token that one names.
LEMMA CallsHold ==
  ASSUME NEW s, NEW h, NEW r, NEW in, NEW o, NEW core, Assembled(s, h, r, in, o, core)
  PROVE  /\ \A a, b \in core.calls : a.path = b.path => a = b
         /\ \A c \in core.calls : /\ recognised(core, c.chain, c.target) \/ escrowBound(core, c)
                                  /\ Pinned(core, c.chain, c.height, c.hash)
<1> DEFINE t == stateCall("tokenAddress", "home", "tokenHome", s, 0)
           e == stateCall("escrow", "home", "token", s, in.escrow)
           d == stateCall("transferredBalance", "home", "tokenHome", s, s["home"].calls.D)
           u == stateCall("remoteTotalSupply", "remote", "remote", s, s["remote"].calls.S)
<1>1. Bundled(s, in, core) /\ core.calls = {t, e, d, u}
  BY DEF Assembled, Bundled
<1>2. /\ t.path = "tokenAddress" /\ e.path = "escrow" /\ d.path = "transferredBalance"
      /\ u.path = "remoteTotalSupply"
  BY CallIs
<1>3. /\ t.chain = "home" /\ e.chain = "home" /\ d.chain = "home" /\ u.chain = "remote"
      /\ t.target = "tokenHome" /\ e.target = "token" /\ d.target = "tokenHome" /\ u.target = "remote"
  BY CallIs
<1>4. t.address = "token" /\ e.holder = "tokenHome"
  BY CallIs
<1>5. \A c \in {t, e, d, u} : /\ c.chain \in Sides /\ c.height = s[c.chain].pin.height
                              /\ c.hash = s[c.chain].pin.hash
  <2>1. \A c \in {t, e, d} : c.height = s["home"].pin.height /\ c.hash = s["home"].pin.hash
    BY CallIs
  <2>2. u.height = s["remote"].pin.height /\ u.hash = s["remote"].pin.hash
    BY CallIs
  <2> HIDE DEF t, e, d, u
  <2> QED BY <1>3, <2>1, <2>2 DEF Sides
<1> HIDE DEF t, e, d, u
<1>6. \A a, b \in core.calls : a.path = b.path => a = b
  BY <1>1, <1>2
<1>7. \A c \in core.calls : Pinned(core, c.chain, c.height, c.hash)
  BY <1>1, <1>5, ChainsAre DEF Pinned
<1>8. recognised(core, "home", "tokenHome") /\ recognised(core, "remote", "remote")
  <2> DEFINE f == [chain |-> "home", address |-> "tokenHome", recognised |-> TRUE]
             g == [chain |-> "remote", address |-> "remote", recognised |-> TRUE]
  <2>1. f \in core.fingerprints /\ g \in core.fingerprints
    BY <1>1 DEF Bundled
  <2>2. f.chain = "home" /\ f.address = "tokenHome" /\ f.recognised = TRUE
        /\ g.chain = "remote" /\ g.address = "remote" /\ g.recognised = TRUE
    OBVIOUS
  <2> HIDE DEF f, g
  <2> QED BY <2>1, <2>2 DEF recognised
<1>9. escrowBound(core, e)
  <2>1. <<t.chain, t.height, t.hash>> = <<e.chain, e.height, e.hash>>
    BY <1>3, <1>5
  <2>2. /\ t \in core.calls /\ t.path = "tokenAddress" /\ recognised(core, t.chain, t.target)
        /\ t.address = e.target /\ e.holder = t.target /\ e.path = "escrow"
    BY <1>1, <1>2, <1>3, <1>4, <1>8
  <2> QED BY <2>1, <2>2, Zenon DEF escrowBound
<1>10. \A c \in core.calls : recognised(core, c.chain, c.target) \/ escrowBound(core, c)
  BY <1>1, <1>3, <1>8, <1>9
<1> QED BY <1>6, <1>7, <1>10

\* What was asked is what the rule was given.
LEMMA BalancesHold ==
  ASSUME NEW s, NEW h, NEW r, NEW in, NEW o, NEW core, Assembled(s, h, r, in, o, core)
  PROVE  balancesHold(core, in)
<1> DEFINE t == stateCall("tokenAddress", "home", "tokenHome", s, 0)
           e == stateCall("escrow", "home", "token", s, in.escrow)
           d == stateCall("transferredBalance", "home", "tokenHome", s, s["home"].calls.D)
           u == stateCall("remoteTotalSupply", "remote", "remote", s, s["remote"].calls.S)
<1>1. /\ BothFair(s, h, r) /\ Given(s, in, o) /\ core.calls = {t, e, d, u}
  BY DEF Assembled, Bundled
<1>2. /\ t.path = "tokenAddress" /\ e.path = "escrow" /\ d.path = "transferredBalance"
      /\ u.path = "remoteTotalSupply"
      /\ e.amount = in.escrow /\ d.amount = s["home"].calls.D /\ u.amount = s["remote"].calls.S
  BY CallIs
<1> HIDE DEF t, e, d, u
<1>3. ASSUME NEW c \in {t, e, d, u} PROVE observed(core, c.path) = c.amount
  <2> DEFINE calls == {x \in core.calls : x.path = c.path}
  <2>1. calls = {c}
    BY <1>1, <1>2
  <2>2. observed(core, c.path) = IF calls = {} THEN Absent ELSE (CHOOSE x \in calls : TRUE).amount
    BY Zenon DEF observed
  <2> HIDE DEF calls
  <2>3. (CHOOSE x \in calls : TRUE) = c /\ calls # {}
    BY <2>1
  <2> QED BY <2>2, <2>3
<1>4. /\ observed(core, "escrow") = in.escrow
      /\ observed(core, "transferredBalance") = s["home"].calls.D
      /\ observed(core, "remoteTotalSupply") = s["remote"].calls.S
  BY <1>2, <1>3
<1>5. in.remotes = {o} /\ o.D = s["home"].calls.D /\ o.S = s["remote"].calls.S
      /\ in.escrow = s["home"].calls.escrow
  BY <1>1 DEF Given
<1>6. o.D \in Int /\ o.S \in Int /\ in.escrow \in Int
  BY <1>1, <1>5, SidesAre DEF Sides
<1> QED BY <1>4, <1>5, <1>6, AbsentIsNoNumber DEF balancesHold

LEMMA PinsHold ==
  ASSUME NEW s, NEW h, NEW r, NEW in, NEW o, NEW core, Assembled(s, h, r, in, o, core)
  PROVE  LET pins == {x.homePin : x \in in.remotes} \cup {x.remotePin : x \in in.remotes} \cup {in.homePin}
         IN  /\ Absent \notin pins
             /\ \A p \in pins : Pinned(core, p.chain, p.height, p.hash)
<1> DEFINE pins == {x.homePin : x \in in.remotes} \cup {x.remotePin : x \in in.remotes} \cup {in.homePin}
<1>1. BothFair(s, h, r) /\ Given(s, in, o) /\ Bundled(s, in, core)
  BY DEF Assembled
<1>2. \A p \in pins : \E side \in Sides : p = PinOf(side, s[side])
  BY <1>1 DEF Given, Sides
<1>3. ASSUME NEW side \in Sides
      PROVE  /\ PinOf(side, s[side]).chain = side /\ PinOf(side, s[side]).height = s[side].pin.height
             /\ PinOf(side, s[side]).hash = s[side].pin.hash
             /\ PinOf(side, s[side]) \in [chain : Sides, height : Int, hash : Hashes]
  BY <1>1, SidesAre DEF PinOf
<1>4. \A side \in Sides : Pinned(core, side, s[side].pin.height, s[side].pin.hash)
  BY <1>1, ChainsAre DEF Pinned
<1> HIDE DEF pins
<1>5. Absent \notin pins
  BY <1>2, <1>3, AbsentIsNoReading
<1>6. \A p \in pins : Pinned(core, p.chain, p.height, p.hash)
  BY <1>2, <1>3, <1>4
<1> QED BY <1>5, <1>6 DEF pins

\* Every effect has one cause, and the bundle cites it.
LEMMA EffectsAreCaused ==
  ASSUME NEW s, NEW h, NEW r, NEW in, NEW o, NEW core, Assembled(s, h, r, in, o, core)
  PROVE  \A e \in in.effects : e.sourceFact # Absent /\ e.sourceFact \in core.facts
<1> SUFFICES ASSUME NEW e \in in.effects PROVE e.sourceFact # Absent /\ e.sourceFact \in core.facts
  OBVIOUS
<1>1. BothFair(s, h, r) /\ e \in assessRoute(s).effects /\ core.facts = usedFacts(s, assessRoute(s))
  BY DEF Assembled, Given, Bundled
<1>2. PICK direction \in Directions : e \in effectsOf(Directed(direction), s)
  BY <1>1, RouteIs
<1> DEFINE d == Directed(direction)
<1>3. PICK m \in d.messages : e = EffectOf(d, s, m) /\ Credited(d, s, m) /\ SendsOf(d, s, m) # {}
  BY <1>2, EffectsAre
<1>4. d.src \in Sides
  BY DirectionIs
<1>5. /\ traceOf(d, s, m) \in assessRoute(s).traces
      /\ \A i \in SendsOf(d, s, m) : Fact(d.src, s[d.src], i) \in traceOf(d, s, m).facts
  <2>1. traceOf(d, s, m) \in assessRoute(s).traces
    BY <1>3, TracesAre
  <2>2. \A i \in SendsOf(d, s, m) : Fact(d.src, s[d.src], i) \in traceOf(d, s, m).facts
    BY DEF traceOf
  <2> QED BY <2>1, <2>2
<1> HIDE DEF d
<1> DEFINE sent == SendsOf(d, s, m)
           i0 == CHOOSE i \in sent : TRUE
<1>6. Fair(d.src, s[d.src], Cut(h, r, d.src))
  BY <1>1, <1>4 DEF BothFair
<1>7. sent \subseteq FactsOf(s[d.src], "tokensSent", m)
  BY DEF SendsOf
<1>8. IsFiniteSet(sent) /\ \A i, j \in sent : i = j
  <2>1. /\ IsFiniteSet(FactsOf(s[d.src], "tokensSent", m))
        /\ \A i, j \in FactsOf(s[d.src], "tokensSent", m) : i = j
    BY <1>6, SentOnce
  <2> HIDE DEF sent
  <2> QED BY <1>7, <2>1, FS_Subset
<1>9. Cardinality(sent) = 1 /\ i0 \in sent
  BY <1>3, <1>8, AtMostOne
<1>10. e.sourceFact = Fact(d.src, s[d.src], i0)
  <2>1. EffectOf(d, s, m).sourceFact
          = IF Cardinality(sent) = 1 THEN Fact(d.src, s[d.src], i0) ELSE Absent
    BY DEF EffectOf
  <2> QED BY <1>3, <1>9, <2>1
<1>11. e.sourceFact \in core.facts
  <2>1. Fact(d.src, s[d.src], i0) \in traceOf(d, s, m).facts
    BY <1>5, <1>9
  <2>2. Fact(d.src, s[d.src], i0) \in usedFacts(s, assessRoute(s))
    BY <1>5, <2>1 DEF usedFacts
  <2> QED BY <1>1, <1>10, <2>2
<1>12. e.sourceFact # Absent
  <2>1. /\ e.sourceFact.chain \in Sides /\ e.sourceFact.height \in Int
        /\ s[e.sourceFact.chain].pin.hash \in Hashes
        /\ e.sourceFact.hash \in {s[e.sourceFact.chain].pin.hash, "main"}
    BY <1>1, <1>11, CitedFacts, SidesAre
  <2>2. e.sourceFact = [chain |-> e.sourceFact.chain, height |-> e.sourceFact.height, hash |-> e.sourceFact.hash]
    <3>1. \E x, y, z : e.sourceFact = [chain |-> x, height |-> y, hash |-> z]
      BY <1>10 DEF Fact, FactAt
    <3> QED BY <3>1
  <2>3. e.sourceFact.hash \in Hashes
    BY <2>1 DEF Hashes
  <2>4. e.sourceFact \in [chain : Sides, height : Int, hash : Hashes]
    BY <2>1, <2>2, <2>3
  <2> QED BY <2>4, AbsentIsNoReading
<1> QED BY <1>11, <1>12

\* Every message that is shown was seen.
LEMMA LineageHolds ==
  ASSUME NEW s, NEW t \in assessRoute(s).traces
  PROVE  t.facts # {}
<1>1. PICK direction \in Directions :
        \E m \in {x \in Directed(direction).messages : Credited(Directed(direction), s, x)}
                   \cup InFlight(Directed(direction), s) :
          t = traceOf(Directed(direction), s, m)
  BY TracesAre
<1> DEFINE d == Directed(direction)
<1>2. PICK m : /\ Credited(d, s, m) \/ m \in InFlight(d, s)
               /\ t = traceOf(d, s, m)
  BY <1>1
<1> HIDE DEF d
<1>3. SendsOf(d, s, m) # {} \/ DeliveriesOf(s[d.dst], m) # {}
  BY <1>2 DEF Credited, InFlight
<1>4. /\ \A i \in SendsOf(d, s, m) : Fact(d.src, s[d.src], i) \in t.facts
      /\ \A i \in DeliveriesOf(s[d.dst], m) : Fact(d.dst, s[d.dst], i) \in t.facts
  BY <1>2 DEF traceOf
<1> QED BY <1>3, <1>4

---------------------------------------------------------------------------
\* The verifier finds nothing but staleness and an empty collection.

LEMMA ReplayIsBound ==
  ASSUME NEW in
  PROVE  [evaluation |-> replayProof(in).evaluation, verdict |-> replayProof(in).verdict] = replayProof(in)
<1> DEFINE e == evaluateCanonicalErc20(in)
           Answer(x) == [evaluation |-> x, verdict |-> aggregate(aggregationOf(in, x))]
<1>1. replayProof(in) = CHOOSE x \in {Answer(y) : y \in {e}} : TRUE
  BY Zenon DEF replayProof
<1> HIDE DEF e
<1>2. replayProof(in) = Answer(e)
  <2> HIDE DEF Answer
  <2>1. {Answer(y) : y \in {e}} = {Answer(e)}
    OBVIOUS
  <2> QED BY <1>1, <2>1
<1> DEFINE v == aggregate(aggregationOf(in, e))
<1>3. replayProof(in) = [evaluation |-> e, verdict |-> v]
  BY <1>2
<1> HIDE DEF v, Answer
<1> QED BY <1>3

LEMMA TheRestHolds ==
  ASSUME NEW s, NEW h, NEW r, NEW in, NEW o, NEW core, Assembled(s, h, r, in, o, core)
  PROVE  /\ FactsCited(core) \subseteq core.facts
         /\ core.missing = {} /\ core.contradictory = {}
         /\ [evaluation |-> core.evaluation, verdict |-> core.verdict] = replayProof(in)
         /\ core.required >= 2 /\ core.required = in.required
         /\ \A f \in core.fingerprints : \E k \in core.chains : k.chain = f.chain
         /\ \A x \in in.remotes : \E f \in core.fingerprints :
              f.address = x.remote /\ f.recognised = x.fingerprint
         /\ core.registered = {x.remote : x \in in.remotes} /\ core.census = in.census
         /\ \A t \in core.messages : t.facts # {}
<1>1. Given(s, in, o) /\ Bundled(s, in, core)
  BY DEF Assembled
<1>2. /\ core.messages = assessRoute(s).traces /\ core.facts = usedFacts(s, assessRoute(s))
      /\ core.missing = {} /\ core.contradictory = {}
      /\ core.required = Required /\ core.registered = {"remote"} /\ core.census = in.census
      /\ core.evaluation = replayProof(in).evaluation /\ core.verdict = replayProof(in).verdict
  BY <1>1, Zenon DEF Bundled
<1>3. in.remotes = {o} /\ in.required = Required /\ o.remote = "remote" /\ o.fingerprint = TRUE
  BY <1>1, Zenon DEF Given
<1>4. FactsCited(core) \subseteq core.facts
  BY <1>2 DEF FactsCited, usedFacts
<1>5. [evaluation |-> core.evaluation, verdict |-> core.verdict] = replayProof(in)
  BY <1>2, ReplayIsBound
<1>6. core.required >= 2 /\ core.required = in.required
  BY <1>2, <1>3, EndpointsAssumption
<1> DEFINE f1 == [chain |-> "home", address |-> "tokenHome", recognised |-> TRUE]
           f2 == [chain |-> "remote", address |-> "remote", recognised |-> TRUE]
<1>7. core.fingerprints = {f1, f2}
  BY <1>1 DEF Bundled
<1>8. f1.chain = "home" /\ f2.chain = "remote" /\ f2.address = "remote" /\ f2.recognised = TRUE
  OBVIOUS
<1> HIDE DEF f1, f2
<1>9. \A f \in core.fingerprints : \E k \in core.chains : k.chain = f.chain
  BY <1>1, <1>7, <1>8, ChainsAre DEF Sides
<1>10. \A x \in in.remotes : \E f \in core.fingerprints : f.address = x.remote /\ f.recognised = x.fingerprint
  BY <1>3, <1>7, <1>8
<1>11. core.registered = {x.remote : x \in in.remotes}
  BY <1>2, <1>3
<1>12. \A t \in core.messages : t.facts # {}
  BY <1>2, LineageHolds
<1> QED BY <1>2, <1>4, <1>5, <1>6, <1>9, <1>10, <1>11, <1>12

LEMMA Verified ==
  ASSUME NEW s, NEW h, NEW r, NEW in, NEW o, NEW bundle, Assembled(s, h, r, in, o, bundle.core),
         bundle.contentHash = bundle.core
  PROVE  findings(Checks(bundle)) \subseteq {"freshness", "collections"}
<1> DEFINE core == bundle.core
           checks == Checks(bundle)
<1>1. core.input = in /\ Bundled(s, in, core)
  BY DEF Assembled, Bundled
<1>2. /\ core.deployment = in.deployment
      /\ core.manifestHash = in.manifestHash /\ core.policyHash = in.policyHash
      /\ core.sourceLock = in.sourceLock /\ core.adapter = in.adapter
  BY <1>1, Zenon DEF Bundled
<1>3. DOMAIN checks = {"hash", "references", "admitsNothingMissing", "replay", "provenance", "collections",
                       "threshold", "fingerprints", "finality", "quorum", "pins", "history", "facts", "calls",
                       "balances", "census", "freshness", "lineage", "effects"}
  BY DEF Checks
<1>4. /\ FactsCited(core) \subseteq core.facts
      /\ core.missing = {} /\ core.contradictory = {}
      /\ [evaluation |-> core.evaluation, verdict |-> core.verdict] = replayProof(core.input)
      /\ core.required >= 2 /\ core.required = core.input.required
      /\ \A f \in core.fingerprints : \E k \in core.chains : k.chain = f.chain
      /\ \A x \in core.input.remotes : \E f \in core.fingerprints :
           f.address = x.remote /\ f.recognised = x.fingerprint
      /\ core.registered = {x.remote : x \in core.input.remotes} /\ core.census = core.input.census
      /\ \A t \in core.messages : t.facts # {}
  BY <1>1, TheRestHolds
<1>5. checks.hash /\ checks.references /\ checks.admitsNothingMissing /\ checks.replay
  BY <1>4, Zenon DEF Checks
<1>6. checks.provenance /\ checks.threshold /\ checks.fingerprints
  BY <1>1, <1>2, <1>4, Zenon DEF Checks
<1>7. checks.census /\ checks.lineage
  BY <1>4, Zenon DEF Checks
<1>8. checks.finality /\ checks.quorum
  BY <1>1, FinalityHolds, QuorumHolds, Zenon DEF Checks
<1>9. checks.pins /\ checks.history /\ checks.facts
  <2> DEFINE pins == {x.homePin : x \in in.remotes} \cup {x.remotePin : x \in in.remotes} \cup {in.homePin}
  <2>1. Absent \notin pins /\ \A p \in pins : Pinned(core, p.chain, p.height, p.hash)
    BY PinsHold
  <2>2. /\ \A b \in core.history : historyHolds(core, b)
        /\ \A a, b \in core.history : a.chain = b.chain /\ a.height = b.height => a = b
    BY HistoryHolds
  <2>3. \A f \in core.facts : factHolds(core, f)
    BY FactsHold
  <2>4. checks.pins
    BY <1>1, <2>1, Zenon DEF Checks
  <2>5. checks.history
    BY <2>2, Zenon DEF Checks
  <2>6. checks.facts
    BY <2>3, Zenon DEF Checks
  <2> QED BY <2>4, <2>5, <2>6
<1>10. checks.calls /\ checks.balances /\ checks.effects
  <2>1. /\ \A a, b \in core.calls : a.path = b.path => a = b
        /\ \A c \in core.calls : /\ recognised(core, c.chain, c.target) \/ escrowBound(core, c)
                                 /\ Pinned(core, c.chain, c.height, c.hash)
    BY CallsHold
  <2>2. balancesHold(core, in)
    BY BalancesHold
  <2>3. \A e \in in.effects : e.sourceFact # Absent /\ e.sourceFact \in core.facts
    BY EffectsAreCaused
  <2>4. checks.calls
    BY <2>1, Zenon DEF Checks
  <2>5. checks.balances
    BY <1>1, <2>2, Zenon DEF Checks
  <2>6. checks.effects
    BY <1>1, <2>3, Zenon DEF Checks
  <2> QED BY <2>4, <2>5, <2>6
<1> HIDE DEF checks
<1>11. \A c \in DOMAIN checks : ~checks[c] => c \in {"freshness", "collections"}
  BY <1>3, <1>5, <1>6, <1>7, <1>8, <1>9, <1>10, Zenon
<1>12. findings(checks) \subseteq {"freshness", "collections"}
  BY <1>11 DEF findings
<1> QED BY <1>12 DEF checks

\* What two agreed readings show is refused for nothing but staleness and an empty
\* collection, or for a payload of an unknown version.
LEMMA EvidenceIsFound == CInv => EvidenceStands
<1> SUFFICES ASSUME CInv, phase = "done", \A side \in Sides : reading[side].ok, ~Emitted
             PROVE  \/ result.reasons \subseteq {"freshness", "collections"}
                    \/ /\ result.reasons = {"undecodable-observation"}
                       /\ Has(At("remote"), "unknown", NoMessage)
  BY DEF EvidenceStands
<1>1. \/ decodable(reading) /\ \E c \in Circumstances : result = ResultOf(decodedSides(reading), c)
      \/ ~decodable(reading) /\ result = unknown({"undecodable-observation"})
  BY DEF CInv, Concluded
<1>2. \A reasons : unknown(reasons).reasons = reasons
  BY DEF unknown
<1>3. CASE ~decodable(reading)
  <2>1. result.reasons = {"undecodable-observation"}
    BY <1>1, <1>2, <1>3
  <2> QED BY <1>3, <2>1, Undecoded
<1>4. CASE decodable(reading)
  <2> DEFINE s == decodedSides(reading)
  <2>1. PICK c \in Circumstances : result = ResultOf(s, c)
    BY <1>1, <1>4
  <2>2. BothFair(s, At("home"), At("remote"))
    <3>1. \A side \in Sides : Fair(side, s[side], At(side))
      BY <1>4, FairlyRead
    <3>2. \A side \in Sides : Cut(At("home"), At("remote"), side) = At(side)
      BY DEF Cut, Sides
    <3> HIDE DEF s
    <3> QED BY <3>1, <3>2 DEF BothFair
  <2> HIDE DEF s
  <2> DEFINE in == InputOf(s, c)
             o == ObservedOf(s, c)
             bundle == BundleOf(s, c)
             found == findings(Checks(bundle))
  <2>3. Assembled(s, At("home"), At("remote"), in, o, bundle.core) /\ bundle.contentHash = bundle.core
    BY <2>2, GivenIs, BundledIs DEF Assembled
  <2>4. result = upheld(bundle, found)
    BY <2>1, Zenon DEF ResultOf
  <2> HIDE DEF in, o, bundle
  <2>5. found \subseteq {"freshness", "collections"}
    BY <2>3, Verified
  <2> HIDE DEF found
  <2>6. CASE found = {}
    <3>1. result.status = "evidence"
      BY <2>4, <2>6 DEF upheld
    <3> QED BY <3>1 DEF Emitted
  <2>7. CASE found # {}
    <3>1. result = unknown(found)
      BY <2>4, <2>7 DEF upheld
    <3> QED BY <1>2, <2>5, <3>1
  <2> QED BY <2>6, <2>7
<1> QED BY <1>3, <1>4

\* For every route, every set of endpoints and however many of them lie: two agreed
\* readings are thrown away only as stale, as without any fact or message, or for a
\* payload of an unknown version on the route itself; whatever the collector assembles
\* passes every other check of its own verifier (collect.ts 389-411, 493-498, 940-948).
THEOREM EvidenceIsUpheld == Spec => []EvidenceStands
<1>1. CInv => EvidenceStands
  BY EvidenceIsFound
<1> QED BY <1>1, CollectionInvariant, PTL
=============================================================================
