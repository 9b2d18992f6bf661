CONSTANTS
  Clients = {c1}
  Users = {u1}
  Nobody = nobody
  MaxCalls = 1
  ListenersMayThrow = FALSE
SPECIFICATION PlatformSpec
INVARIANT NoPollAfterShutdown
