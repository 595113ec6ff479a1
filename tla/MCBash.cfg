SPECIFICATION Spec
CONSTANTS
  Call = {c1, c2, c3}
  MaxShell = 2
  HasInit = TRUE
CONSTRAINT Bounds
INVARIANTS OwnStatus AtMostOnce NothingLeftRunning OrderlyTurns
PROPERTY CallsReturn
CHECK_DEADLOCK FALSE
