CONSTANTS
  Peers = {p1}
  Hole = hole
  Reliability = "reliableOrdered"
  MaxPayload = 2
  MaxFragments = 3
  MaxMessageId = 2
  MaxPendingBytes = 5
  TtlMs = 1
  Sizes = {3}
  SendsMayFail = TRUE
  ClockRuns = TRUE
  MaxSends = 2
  MaxFaults = 1
SPECIFICATION Spec
INVARIANTS
  NoMixing
CHECK_DEADLOCK FALSE
