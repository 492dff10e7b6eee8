------------------------------ MODULE Adapters ------------------------------
(***************************************************************************)
(* packages/ictt-adapters: how the raw logs and call results of the pinned *)
(* contracts become facts (events.ts), and the token scale the home        *)
(* derives for a remote (scaling.ts).                                      *)
(*                                                                         *)
(* Data is a sequence of 32-byte words and a length in bytes; a word is a  *)
(* number.  A decoder either returns the fields or nothing: one word too   *)
(* many, an offset that is not aligned or runs past the end, a padding     *)
(* that is not zero, and the log is Undecodable, never the nearest value.  *)
(* The zero tail of a last, partial word is not modelled: every length the *)
(* contracts write is a whole number of words.                             *)
(***************************************************************************)
EXTENDS Integers, Sequences

CONSTANT AddressLimit   \* the words below it are zero-padded addresses (2^160)

ASSUME AddressAssumption == AddressLimit \in Nat

---------------------------------------------------------------------------
\* Words and data.

Data(words) == [words |-> words, length |-> 32 * Len(words)]

\* wordAt: the index-th word, counted from 0, when all of it is there.
readable(data, index) == index >= 0 /\ 32 * (index + 1) <= data.length
wordAt(data, index)   == data.words[index + 1]

isAddress(word) == word < AddressLimit
isBool(word)    == word \in {0, 1}

\* An offset that stays inside the data and is a whole number of words.
offsetHolds(word, data) == word <= data.length /\ word % 32 = 0

\* The data from a byte offset on.
from(data, offset) ==
  [words |-> SubSeq(data.words, offset \div 32 + 1, Len(data.words)),
   length |-> data.length - offset]

exactWords(data, n) == data.length = 32 * n

\* A `bytes` value whose length word is at byte offset `at`, with its padding.
wordsFor(length) == (length + 31) \div 32

bytesHold(data, at) ==
  /\ at % 32 = 0
  /\ readable(data, at \div 32)
  /\ LET length == wordAt(data, at \div 32)
     IN  length <= data.length /\ at + 32 + 32 * wordsFor(length) <= data.length

dynamicBytes(data, at) ==
  LET length == wordAt(data, at \div 32)
  IN  [words |-> SubSeq(data.words, at \div 32 + 2, at \div 32 + 1 + wordsFor(length)),
       length |-> length]

---------------------------------------------------------------------------
\* Events.  A log has its topic0 (name), its indexed words and its data.

Undecodable == [ok |-> FALSE]
Decoded(fields) == [ok |-> TRUE, fields |-> fields]

\* Indexed arguments of each event; those that are addresses.
Indexed == [tokensSent |-> 2, tokensAndCallSent |-> 2, tokensRouted |-> 1,
            remoteRegistered |-> 2, receiveCrossChainMessage |-> 3,
            messageExecuted |-> 2, messageExecutionFailed |-> 2]

expectTopics(log, name) == log.name = name /\ Len(log.topics) = Indexed[name]

\* TokensSent(id, sender, SendTokensInput, amount): nine static words.
decodeTokensSent(log) ==
  IF /\ expectTopics(log, "tokensSent")
     /\ exactWords(log.data, 9)
     /\ isAddress(log.topics[2])
     /\ \A i \in {1, 2, 7} : isAddress(wordAt(log.data, i))
    THEN Decoded([messageId |-> log.topics[1],
                  chain |-> wordAt(log.data, 0), transferrer |-> wordAt(log.data, 1),
                  amount |-> wordAt(log.data, 8)])
    ELSE Undecodable

decodeTokensRouted(log) ==
  IF /\ expectTopics(log, "tokensRouted")
     /\ exactWords(log.data, 9)
     /\ isAddress(wordAt(log.data, 1))
    THEN Decoded([messageId |-> log.topics[1],
                  chain |-> wordAt(log.data, 0), transferrer |-> wordAt(log.data, 1),
                  amount |-> wordAt(log.data, 8)])
    ELSE Undecodable

\* Send-and-call is read only far enough to know the route it touches.
decodeTokensAndCall(log) ==
  LET tuple == wordAt(log.data, 0) \div 32
  IN  IF /\ expectTopics(log, "tokensAndCallSent")
         /\ readable(log.data, 1)
         /\ offsetHolds(wordAt(log.data, 0), log.data)
         /\ readable(log.data, tuple + 1) /\ isAddress(wordAt(log.data, tuple + 1))
        THEN Decoded([messageId |-> log.topics[1],
                      chain |-> wordAt(log.data, tuple), transferrer |-> wordAt(log.data, tuple + 1),
                      amount |-> wordAt(log.data, 1)])
        ELSE Undecodable

decodeRemoteRegistered(log) ==
  IF /\ expectTopics(log, "remoteRegistered")
     /\ exactWords(log.data, 2)
     /\ wordAt(log.data, 1) <= 255
     /\ isAddress(log.topics[2])
    THEN Decoded([chain |-> log.topics[1], transferrer |-> log.topics[2],
                  decimals |-> wordAt(log.data, 1)])
    ELSE Undecodable

\* ReceiveCrossChainMessage: a redeemer, and a struct whose head has eight words,
\* the last three of them offsets, the last one that of the payload.
decodeReceiveCrossChainMessage(log) ==
  LET tuple  == wordAt(log.data, 1)
      struct == from(log.data, tuple)
  IN  IF /\ expectTopics(log, "receiveCrossChainMessage")
         /\ readable(log.data, 1)
         /\ isAddress(wordAt(log.data, 0))
         /\ offsetHolds(tuple, log.data)
         /\ readable(struct, 7)
         /\ \A i \in 5..7 : offsetHolds(wordAt(struct, i), struct)
         /\ \A i \in {1, 3} : isAddress(wordAt(struct, i))
         /\ bytesHold(struct, wordAt(struct, 7))
        THEN Decoded([messageId |-> log.topics[1], source |-> log.topics[2],
                      origin |-> wordAt(struct, 1), destination |-> wordAt(struct, 3),
                      message |-> dynamicBytes(struct, wordAt(struct, 7))])
        ELSE Undecodable

\* MessageExecuted carries no data; MessageExecutionFailed carries the message,
\* which is not read.
decodeOutcome(log) ==
  IF /\ expectTopics(log, log.name)
     /\ log.name = "messageExecuted" => exactWords(log.data, 0)
    THEN Decoded([messageId |-> log.topics[1], source |-> log.topics[2]])
    ELSE Undecodable

---------------------------------------------------------------------------
\* Payloads.

TRANSFERRER_MESSAGE_TYPES ==
  <<"REGISTER_REMOTE", "SINGLE_HOP_SEND", "SINGLE_HOP_CALL", "MULTI_HOP_SEND", "MULTI_HOP_CALL">>

NoAmount == 0

\* (uint8 type, bytes payload); only a single-hop send is read further.
decodeTransferrerMessage(message) ==
  LET tuple   == wordAt(message, 0)
      struct  == from(message, tuple)
      type    == TRANSFERRER_MESSAGE_TYPES[wordAt(struct, 0) + 1]
      payload == dynamicBytes(struct, wordAt(struct, 1))
  IN  IF ~ /\ readable(message, 3)
           /\ offsetHolds(tuple, message)
           /\ readable(struct, 1)
           /\ wordAt(struct, 0) < Len(TRANSFERRER_MESSAGE_TYPES)
           /\ offsetHolds(wordAt(struct, 1), struct)
           /\ bytesHold(struct, wordAt(struct, 1)) THEN Undecodable
      ELSE IF type # "SINGLE_HOP_SEND" THEN Decoded([type |-> type, amount |-> NoAmount])
      ELSE IF exactWords(payload, 2) /\ isAddress(wordAt(payload, 0))
        THEN Decoded([type |-> type, amount |-> wordAt(payload, 1)])
        ELSE Undecodable

---------------------------------------------------------------------------
\* Call results.

decodeRemoteSettingsResult(result) ==
  IF exactWords(result, 4) /\ isBool(wordAt(result, 0)) /\ isBool(wordAt(result, 3))
    THEN Decoded([registered |-> wordAt(result, 0) = 1,
                  collateralNeeded |-> wordAt(result, 1),
                  tokenMultiplier |-> wordAt(result, 2),
                  multiplyOnRemote |-> wordAt(result, 3) = 1])
    ELSE Undecodable

---------------------------------------------------------------------------
\* Token scale.

MAX_TOKEN_DECIMALS == 18

NoScale == [ok |-> FALSE, tokenMultiplier |-> 0, multiplyOnRemote |-> FALSE]

\* Ten to the difference of the decimals, applied towards the side with more.
deriveTokenMultiplierValues(homeDecimals, remoteDecimals) ==
  LET onRemote == remoteDecimals > homeDecimals
  IN  IF homeDecimals \notin 0..255 \/ remoteDecimals \notin 0..MAX_TOKEN_DECIMALS THEN NoScale
      ELSE [ok |-> TRUE, multiplyOnRemote |-> onRemote,
            tokenMultiplier |-> IF onRemote THEN 10 ^ (remoteDecimals - homeDecimals)
                                            ELSE 10 ^ (homeDecimals - remoteDecimals)]
=============================================================================
