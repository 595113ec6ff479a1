SPECIFICATION Spec
CONSTANTS
  NumSession = 2
  Configs <- All
  MaxCalls = 2
CONSTRAINT Bounds
INVARIANTS LogInOrder Bounded SessionEnds
PROPERTY PromptMoves
CHECK_DEADLOCK FALSE
