CONSTANTS
  Keys = {"withNul", "cut"}
  Strings = {"surrogate"}
  Magnitudes = {12, 16, 24}
  Reals = {"Fraction", "NaN"}
  Width = 5
  Precision = 2
  MaxWrites = 2
SPECIFICATION Spec
INVARIANTS
  LobbyTypeOK
  NoDanglingPointers
  WholeUpdates
  
  ExactInt64
  HandlesReleased
CHECK_DEADLOCK FALSE
