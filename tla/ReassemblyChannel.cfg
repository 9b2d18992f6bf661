CONSTANTS
  Peers = {p1, p2}
  Hole = hole
  Reliability = "reliableOrdered"
  MaxPayload = 2
  MaxFragments = 3
  MaxMessageId = 2
  MaxPendingBytes = 5
  TtlMs = 1
  Sizes = {1, 5}
  SendsMayFail = TRUE
  ClockRuns = TRUE
  MaxSends = 2
  MaxFaults = 0
SPECIFICATION Spec
PROPERTIES
  DropsOnlyForAReason
  ImplementsChannel
CHECK_DEADLOCK FALSE
