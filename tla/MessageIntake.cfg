CONSTANTS
  w1 = w1 w2 = w2
  Writer = {w1, w2}
  Message <- Messages
  Route <- Messages
  Kind <- Kinds
  Log <- Logs
  Batch <- Batches
  Known <- Ingested
  Transaction <- Transactions
  Chain = {"home", "remote"}
  Height = {1, 2}
  Time = {0, 5}
  StaleAfter = 3
SPECIFICATION FairSpec
INVARIANTS OneEffect OrderFree NoPhantomShortfall
PROPERTIES StoreRefined FailClosed
