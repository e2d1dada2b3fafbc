SPECIFICATION Spec

CONSTANTS
  NumThreads = 2
  Runnables = {r1, r2}
  Stoppers = {s1}
  Calls <- PatientNow
  MaxCalls = 2
  Posix = TRUE
  SpuriousWakeups = FALSE
  None = None

SYMMETRY RunnableSymmetry

INVARIANT TypeOK
INVARIANT PoolInvariant
INVARIANT RunsAtMostOnce
INVARIANT NothingDropped
INVARIANT TerminatedMeansEnded
INVARIANT YesMeansTerminated
INVARIANT NowHaltsWaiting
PROPERTY ImplementsExecutor

CHECK_DEADLOCK FALSE
