CONSTANTS
  Peers = {1, 2, 3}
  Host = 2
  Nobody = 0
  SendsMayFail = TRUE
  MaxTurns = 3
  MaxLeavers = 1
SPECIFICATION FairSpec
INVARIANTS
  TypeOK
  TurnsInOrder
  OneOrder
  OwnTurnsToo
PROPERTIES
  SeatsAgree
CHECK_DEADLOCK FALSE
