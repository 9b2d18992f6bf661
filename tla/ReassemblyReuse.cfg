CONSTANTS
  Peers = {p1}
  Hole = hole
  Reliability = "unreliableUnordered"
  MaxPayload = 2
  MaxFragments = 3
  MaxMessageId = 2
  MaxPendingBytes = 3
  TtlMs = 1
  Sizes = {2, 3, 5, 9}
  SendsMayFail = FALSE
  ClockRuns = TRUE
  MaxSends = 2
  MaxFaults = 1
SPECIFICATION Spec
INVARIANTS
  TypeOK
  WrongOnlyIfIdReused
  ByteAccounting
  WithinBudget
  IntactWhileIdsUnique
CHECK_DEADLOCK FALSE
