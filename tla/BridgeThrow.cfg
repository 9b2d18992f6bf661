CONSTANTS
  Clients = {c1}
  Users = {u1}
  Nobody = nobody
  MaxCalls = 1
  ListenersMayThrow = TRUE
  Requests = {r1}
  Apis = {"create"}
SPECIFICATION Spec
INVARIANT SettledBeforeDelete
