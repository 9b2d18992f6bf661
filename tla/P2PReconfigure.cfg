CONSTANTS
  Clients = {c1}
  Users = {u1}
  Nobody = nobody
  MaxCalls = 1
  ListenersMayThrow = FALSE
  Peers = {p1}
  Sockets = {s1, s2}
  Absent = absent
  AutoAccepts = {absent}
  Caps = {2}
  MaxQueue = 2
SPECIFICATION Spec
INVARIANTS
  ConfiguredSocketHeard
