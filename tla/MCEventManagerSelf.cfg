CONSTANT MaxTag = 3
SPECIFICATION Spec
INVARIANT SummaryAlwaysExpands
