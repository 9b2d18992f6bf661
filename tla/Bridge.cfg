CONSTANTS
  Clients = {c1}
  Users = {u1}
  Nobody = nobody
  MaxCalls = 1
  ListenersMayThrow = TRUE
  Requests = {r1, r2}
  Apis = {"login", "createDeviceId", "create", "leave", "sendInvite", "join", "setAttributes"}
SPECIFICATION FairSpec
INVARIANTS
  BridgeTypeOK
  NoUseAfterFree
  NoOpLeak
  OneOpPerPendingPromise
  HandlesAccountedFor
  DetailsKeptOnlyByFailedJoin
PROPERTIES
  ImplementsPromises
  EventuallySettled
