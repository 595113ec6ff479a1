CONSTANTS
  MaxJob = 2
  Channel = {c1}
  Caller = {u1, u2}
  MaxYield = 1
SPECIFICATION FairJobs
INVARIANTS HandlesTell
PROPERTIES CancelFlushes CancelsReturn
