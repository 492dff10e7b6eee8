------------------------------ MODULE IcttRoute ------------------------------
(***************************************************************************)
(* The two contracts the collector watches: one TokenHome and one canonical *)
(* ERC20 TokenRemote, joined by Teleporter.  None of this is code of the   *)
(* repository: it is what src/ assumes of the protocol (the comments of    *)
(* collector/src/model.ts and invariant-core/src/gate-a.ts, the event      *)
(* decoders of ictt-adapters/src/events.ts), and it is the truth the       *)
(* collector's verdict is compared with.                                   *)
(*                                                                         *)
(* A chain is the sequence of its events, one per block, so an event's     *)
(* index is its block height and its timestamp.  A balance at a height is  *)
(* a sum over the prefix.  At most one event of the whole history is a     *)
(* FAULT: something the contracts should never have let happen.            *)
(***************************************************************************)
EXTENDS Adapters, FiniteSets, SequencesExt

CONSTANTS
  Outbound,     \* messages sent from home to remote
  Inbound,      \* messages sent from remote to home
  Amount,       \* [Outbound \cup Inbound -> Nat \ {0}], remote base units
  Dust,         \* [Outbound -> Nat]: home units the scaling of a send truncates away
  HomeDecimals, \* decimals of the home token
  RemoteDecimals, \* decimals of the remote token, registered with the home
  FaultKinds,   \* the faults this history may contain
  MaxHeight     \* bound: blocks per chain

\* A message is sent one way, and no message is the delivery that is no message's.
NoMessage == 0

ASSUME RouteAssumption ==
  /\ IsFiniteSet(Outbound \cup Inbound)
  /\ Outbound \cap Inbound = {} /\ NoMessage \notin Outbound \cup Inbound
  /\ MaxHeight \in Nat \ {0}
  /\ Amount \in [Outbound \cup Inbound -> Nat \ {0}]
  /\ RemoteDecimals \in 0..MAX_TOKEN_DECIMALS /\ HomeDecimals \in RemoteDecimals..255
  /\ Dust \in [Outbound -> 0..(10 ^ (HomeDecimals - RemoteDecimals) - 1)]

VARIABLES home, remote
chains == <<home, remote>>

\* Home units per remote unit; the home is the side with more decimals here.
Multiplier == 10 ^ (HomeDecimals - RemoteDecimals)

\* delivers: the block carries the ReceiveCrossChainMessage of msg.
Event(kind, msg, amount, delivers) ==
  [kind |-> kind, msg |-> msg, amount |-> amount, delivers |-> delivers]

\* A fault is recorded by its kind; a wrong or repeated execution is an
\* "executed" event whose amount or number is not what was sent.
Plain(kind) == Event(kind, NoMessage, 0, FALSE)

---------------------------------------------------------------------------
\* Balances at a height.

\* The first n of some amounts, added up.
SumOf(amounts, n) ==
  LET sum[i \in 0..n] == IF i = 0 THEN 0 ELSE sum[i - 1] + amounts[i]
  IN  sum[n]

\* Transfers towards the remote that are no single-hop send: routed on from
\* another remote, or sent with a call.
Uninterpreted == {"routed", "callSent"}

\* What an event adds to each balance.
obligationBy(e) ==
  CASE e.kind = "sent" -> e.amount
    [] e.kind \in Uninterpreted -> 1
    [] e.kind = "executed" -> -e.amount
    [] OTHER -> 0
escrowBy(e) ==
  CASE e.kind = "sent" -> e.amount * Multiplier + Dust[e.msg]
    [] e.kind \in Uninterpreted -> Multiplier
    [] e.kind = "executed" -> -(e.amount * Multiplier)
    [] e.kind = "drained" -> -Multiplier
    [] OTHER -> 0
supplyBy(e) ==
  CASE e.kind = "sent" -> -e.amount
    [] e.kind = "executed" -> e.amount
    [] e.kind = "called" -> 1
    [] e.kind = "minted" -> 2
    [] OTHER -> 0

\* getTransferredBalance at home, in remote units.
transferredBalance(log) == SumOf([i \in DOMAIN log |-> obligationBy(log[i])], Len(log))

\* The home ERC20's balanceOf(TokenHome), in home units.
escrowBalance(log) == SumOf([i \in DOMAIN log |-> escrowBy(log[i])], Len(log))

\* The remote's totalSupply.
totalSupply(log) == SumOf([i \in DOMAIN log |-> supplyBy(log[i])], Len(log))

---------------------------------------------------------------------------
\* What the contracts do.

Has(log, kind, m) == \E i \in DOMAIN log : log[i].kind = kind /\ log[i].msg = m

Executions(log, m) == Cardinality({i \in DOMAIN log : log[i].kind = "executed" /\ log[i].msg = m})

\* What the histories never lose to a fault, of two prefixes: tokens at the remote that
\* nothing sent there stands for, and tokens of the home's escrow.
Forged(h, r) ==
  \/ \E i \in DOMAIN r : r[i].kind = "minted"
  \/ \E log \in {h, r}, m \in Outbound \cup Inbound :
       \/ Executions(log, m) > 1
       \/ \E i \in DOMAIN log : /\ log[i].kind = "executed" /\ log[i].msg = m
                                /\ log[i].amount # Amount[m]
Drained(h) == \E i \in DOMAIN h : h[i].kind = "drained"

Faulty(h, r) == Drained(h) \/ Forged(h, r)

FaultAllowed(kind) == kind \in FaultKinds /\ ~Faulty(home, remote)

\* The home has only the registration of the approved remote.
RouteInit == home = <<Plain("registered")>> /\ remote = <<>>

OnHome(e)   == Len(home) < MaxHeight /\ home' = Append(home, e) /\ UNCHANGED remote
OnRemote(e) == Len(remote) < MaxHeight /\ remote' = Append(remote, e) /\ UNCHANGED home

SendOut(m)  == ~Has(home, "sent", m) /\ OnHome(Event("sent", m, Amount[m], FALSE))
SendBack(m) ==
  /\ ~Has(remote, "sent", m)
  /\ totalSupply(remote) >= Amount[m]
  /\ OnRemote(Event("sent", m, Amount[m], FALSE))

\* A sent message executes once; a first execution that failed is retried.
MayExecute(source, log, m) == Has(source, "sent", m) /\ ~Has(log, "executed", m)

ReceiveAtRemote(m) ==
  /\ MayExecute(home, remote, m)
  /\ OnRemote(Event("executed", m, Amount[m], ~Has(remote, "failed", m)))

\* The home releases no more than it accounts for and holds, and reverts otherwise.
ReceiveAtHome(m) ==
  /\ MayExecute(remote, home, m)
  /\ transferredBalance(home) >= Amount[m] /\ escrowBalance(home) >= Amount[m] * Multiplier
  /\ OnHome(Event("executed", m, Amount[m], ~Has(home, "failed", m)))

FailAtRemote(m) ==
  /\ MayExecute(home, remote, m) /\ ~Has(remote, "failed", m)
  /\ OnRemote(Event("failed", m, Amount[m], TRUE))

FailAtHome(m) ==
  /\ MayExecute(remote, home, m) /\ ~Has(home, "failed", m)
  /\ OnHome(Event("failed", m, Amount[m], TRUE))

\* What the engine does not interpret, at most one of it in a history (a bound): a
\* transfer routed on or sent with a call, a remote nobody approved, and deliveries at
\* the remote that are no single-hop send.  A call that was sent is delivered.
Strange == {"unknown", "foreign"}
OddKinds == Uninterpreted \cup Strange \cup {"untracked"}
Odd == \E log \in {home, remote} : \E i \in DOMAIN log : log[i].kind \in OddKinds

RouteElsewhere  == ~Odd /\ \E kind \in Uninterpreted : OnHome(Plain(kind))
RegisterUnknown == ~Odd /\ OnHome(Plain("untracked"))
DeliverStrange  == ~Odd /\ \E kind \in Strange : OnRemote(Event(kind, NoMessage, 0, TRUE))
DeliverCall ==
  /\ Has(home, "callSent", NoMessage) /\ ~Has(remote, "called", NoMessage)
  /\ OnRemote(Event("called", NoMessage, 0, TRUE))

\* The faults.
Mint  == FaultAllowed("minted") /\ OnRemote(Plain("minted"))
Drain == FaultAllowed("drained") /\ escrowBalance(home) >= Multiplier /\ OnHome(Plain("drained"))
ExecuteTwice(m) ==
  /\ FaultAllowed("duplicate") /\ Has(remote, "executed", m)
  /\ OnRemote(Event("executed", m, Amount[m], FALSE))
ExecuteWrongly(m) ==
  /\ FaultAllowed("wrong") /\ MayExecute(home, remote, m)
  /\ OnRemote(Event("executed", m, Amount[m] + 1, ~Has(remote, "failed", m)))

RouteNext ==
  \/ \E m \in Outbound : SendOut(m) \/ ReceiveAtRemote(m) \/ FailAtRemote(m)
                           \/ ExecuteTwice(m) \/ ExecuteWrongly(m)
  \/ \E m \in Inbound : SendBack(m) \/ ReceiveAtHome(m) \/ FailAtHome(m)
  \/ RouteElsewhere \/ RegisterUnknown \/ DeliverStrange \/ DeliverCall
  \/ Mint \/ Drain
---------------------------------------------------------------------------
\* The logs and call results a node answers with: the ABI encoding of an event.

ChainOf    == [home |-> 21, remote |-> 22]
ContractOf == [home |-> 11, remote |-> 12]
Somebody   == 13
Others(side) == IF side = "home" THEN "remote" ELSE "home"

ASSUME EncodingAssumption ==
  /\ \A account \in {ContractOf.home, ContractOf.remote, Somebody} : isAddress(account)
  /\ Multiplier \in Nat \ {0}

Log(name, topics, words) == [name |-> name, topics |-> topics, data |-> Data(words)]

\* SendTokensInput, whose first two words are the destination, and the amount.
TokensLog(name, topics, to, amount) ==
  Log(name, topics, <<ChainOf[to], ContractOf[to], Somebody, Somebody, 0, 0, 0, Somebody, amount>>)

\* (type, payload) with its offset; the payload of a send is recipient and amount.
SendMessage(type, amount) == <<32, type, 64, 64, Somebody, amount>>

PayloadOf(e) ==
  CASE e.kind = "called"  -> <<32, 2, 64, 96, Somebody, 32, 0>>
    [] e.kind = "unknown" -> SendMessage(5, e.amount)
    [] e.kind = "foreign" -> <<Somebody>>
    [] OTHER              -> SendMessage(1, e.amount)

\* The delivery a block of `side` carries.
DeliveryLog(side, e) ==
  LET origin == IF e.kind = "foreign" THEN Somebody ELSE ContractOf[Others(side)]
      message == PayloadOf(e)
  IN  Log("receiveCrossChainMessage", <<e.msg, ChainOf[Others(side)], Somebody>>,
          <<Somebody, 64, e.msg, origin, ChainOf[side], ContractOf[side], 0, 256, 288, 320,
            0, 0, 32 * Len(message)>> \o message)

\* The other log of the event, if the collector's filters ask for it.
EventLogs(side, e) ==
  CASE e.kind = "sent"     -> {TokensLog("tokensSent", <<e.msg, Somebody>>, Others(side), e.amount)}
    [] e.kind = "routed"   -> {TokensLog("tokensRouted", <<e.msg>>, "remote", 1)}
    [] e.kind = "callSent" -> {Log("tokensAndCallSent", <<e.msg, Somebody>>,
                                   <<64, 1, ChainOf.remote, ContractOf.remote, Somebody>>)}
    [] e.kind = "registered" -> {Log("remoteRegistered", <<ChainOf.remote, ContractOf.remote>>,
                                     <<0, RemoteDecimals>>)}
    [] e.kind = "untracked"  -> {Log("remoteRegistered", <<ChainOf.remote, Somebody>>,
                                     <<0, RemoteDecimals>>)}
    [] e.kind \in {"executed", "called"} ->
         {Log("messageExecuted", <<e.msg, ChainOf[Others(side)]>>, <<>>)}
    [] e.kind = "failed" ->
         {Log("messageExecutionFailed", <<e.msg, ChainOf[Others(side)]>>, <<0>>)}
    [] OTHER -> {}

LogsOf(side, e) ==
  EventLogs(side, e) \cup (IF e.delivers THEN {DeliveryLog(side, e)} ELSE {})

\* getRemoteTokenTransferrerSettings(remote), fully collateralised.
SettingsResult(log) ==
  Data(IF Has(log, "registered", NoMessage) THEN <<1, 0, Multiplier, 0>> ELSE <<0, 0, 0, 0>>)
=============================================================================
