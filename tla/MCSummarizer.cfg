\* One summarizer, any range, any turn; prompts are refused only while none is pending.
SPECIFICATION SSpec
CONSTANTS
  MaxTag = 3
  Summarizers = {s1}
  RefusedPending = FALSE
  MaxForgotten = 1
INVARIANTS  PendingFits
PROPERTIES PendingClears
CHECK_DEADLOCK FALSE
