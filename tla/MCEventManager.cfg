CONSTANT MaxTag = 4
SPECIFICATION Spec
CONSTRAINT FewRemovals
INVARIANTS ActiveSorted ViewComplete SummaryExpands
CHECK_DEADLOCK TRUE
