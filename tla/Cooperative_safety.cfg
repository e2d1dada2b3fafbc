SPECIFICATION FairSpec

CONSTANTS
  r1 = r1
  r2 = r2
  Runnables = {r1, r2}
  Stoppers = {s1}
  OwnerStops = {"Shutdown", "ShutdownNow"}
  Waits <- ChainWaits
  Updaters = {r1}
  Cancels = {r2}
  MaxDepth = 3
  None = None

INVARIANT TypeOK
INVARIANT StartsInOrder
INVARIANT InterruptHolds
PROPERTY StoppedStaysIdle
PROPERTY ImplementsExecutor
PROPERTY WaitReturns
PROPERTY AcceptedRuns

CHECK_DEADLOCK FALSE
