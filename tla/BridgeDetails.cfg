CONSTANTS
  Clients = {c1}
  Users = {u1}
  Nobody = nobody
  MaxCalls = 1
  ListenersMayThrow = FALSE
  Requests = {r1}
  Apis = {"join"}
SPECIFICATION Spec
INVARIANT DetailsReleased
