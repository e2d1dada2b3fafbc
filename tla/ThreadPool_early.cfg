SPECIFICATION Spec

CONSTANTS
  NumThreads = 1
  Runnables = {r1, r2}
  Stoppers = {s1}
  Calls <- PatientShutdown
  MaxCalls = 1
  Posix = TRUE
  SpuriousWakeups = FALSE
  None = None

INVARIANT EarlyRunsBeforeTermination

CHECK_DEADLOCK FALSE
