CONSTANTS
  MaxTag = 5
  Faulty = {TRUE, FALSE}
  FrontOnly = TRUE
SPECIFICATION Spec
CONSTRAINT Bounds
INVARIANTS TablesWhole CounterAhead
PROPERTY ImplementsLog
