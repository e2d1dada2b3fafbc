SPECIFICATION FairSpec

CONSTANTS
  NumThreads = 2
  Runnables = {r1, r2, r3}
  Stoppers = {}
  Calls <- NoCalls
  MaxCalls = 1
  Posix = TRUE
  SpuriousWakeups = FALSE
  None = None

PROPERTY AcceptedRuns

CHECK_DEADLOCK FALSE
