CONSTANTS
  Clients = {c1, c2}
  Users = {u1}
  Nobody = nobody
  MaxCalls = 2
  ListenersMayThrow = TRUE
  Peers = {p1}
  Sockets = {s1}
  Absent = absent
  AutoAccepts = {FALSE, absent}
  Caps = {2}
  MaxQueue = 1
SPECIFICATION FairSpec
INVARIANTS
  P2PTypeOK
  SdkContract
  NotificationsCleared
  OneTickLoop
PROPERTIES
  QuietAfterShutdown
  PeersVetted
  ImplementsPlatform
  TickReturns
  QueueMoves
  BacklogReportedToJs
