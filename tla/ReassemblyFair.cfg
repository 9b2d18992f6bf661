CONSTANTS
  Peers = {p1, p2}
  Hole = hole
  Here = here
  Reliability = "reliableUnordered"
  MaxPayload = 2
  MaxFragments = 3
  MaxMessageId = 2
  MaxPendingBytes = 8
  TtlMs = 1
  Sizes = {5}
  SendsMayFail = FALSE
  ClockRuns = TRUE
  MaxSends = 1
  MaxFaults = 1
  Channels = {263}
SPECIFICATION DispatchSpec
INVARIANT
  HalvesNeverSurface
PROPERTIES
  EventuallyDelivered
CHECK_DEADLOCK FALSE
