\* Two families of environments in one graph.
SPECIFICATION Spec
CONSTANTS
    Cell = {c1, c2, c3}
    Closer = cl
    Envs <- Both
    MaxCalls = 2
CONSTRAINT Bounds
INVARIANTS OwnCell ClosedForGood
PROPERTIES NamespaceKept CallsReturn
CHECK_DEADLOCK FALSE
