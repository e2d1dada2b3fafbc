SPECIFICATION FairSpec

CONSTANTS
  NumThreads = 1
  Runnables = {r1, r2}
  Stoppers = {s1, s2}
  Calls <- PatientShutdown
  MaxCalls = 1
  Posix = FALSE
  SpuriousWakeups = TRUE
  None = None

PROPERTY AcceptedRuns
PROPERTY ShutdownReturns

CHECK_DEADLOCK FALSE
