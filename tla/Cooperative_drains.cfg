SPECIFICATION Spec

CONSTANTS
  r1 = r1
  r2 = r2
  Runnables = {r1, r2}
  Stoppers = {}
  OwnerStops = {"Shutdown"}
  Waits <- NoWaits
  Updaters = {}
  Cancels = {}
  MaxDepth = 2
  None = None

INVARIANT ShutdownDrains

CHECK_DEADLOCK FALSE
