CONSTANTS
  Absent = Absent
  MaxUint = 1000
  ActivationHeight = 100
  Outbound <- MCOutbound
  Inbound <- MCInbound
  Amount <- MCAmount
  Dust <- MCDust
  HomeDecimals = 1
  RemoteDecimals = 0
  AddressLimit = 100
  FaultKinds = {"minted", "drained", "duplicate", "wrong"}
  MaxHeight = 4
  Endpoints <- MCEndpoints
  Required = 2
  Mode = "settled-quorum"
  MaxLogs = 3
  MaxAge = 1
  AgeLimit = 1
  MaxFaulty = 1
SPECIFICATION Spec
INVARIANTS NoPhantomBreach OkIsSound ExcessIsCritical EvidenceStands LinkedCountsOnce
CHECK_DEADLOCK FALSE
