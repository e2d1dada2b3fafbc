SPECIFICATION MCSpec

CONSTANTS
  None = None
  w1 = w1
  w2 = w2
  w3 = w3
  x1 = x1
  x2 = x2
  o1 = o1
  o2 = o2
  o3 = o3
  Waiters = {w1, w2}
  Starter = w1
  MaxWaits = 2
  Serial = TRUE
  Patient = TRUE
  Thread = Thread
  Threads = {w1, w2, w3}
  Holders = {w1, w2}
  Values = {o1, o2}
  MaxValueSets = 2
  Texts = {x1, x2}
  HStrings = {o1, o2, o3}
  Pointers = {o1, o2}
  Codes = {0, 1, 2}
  MaxItems = 3
  MaxCalls = 4
  Resources = {o1, o2, o3}
  Names = {x1}
  NameOf <- MCNameOf
  Last = 2
  Handler <- MCHandler
  Durations = {1, 3}
  Frames = {2, 3}
  MaxTriggers = 3
  MaxUpdates = 3
  MaxTimerSets = 3

INVARIANT AllTyped
INVARIANT YesMeansRan
INVARIANT NothingFreedIsTouched
INVARIANT FuturesTellTrue
INVARIANT OneStringPerText
INVARIANT WeakIsTold
INVARIANT DoneMeansTold
INVARIANT ListIsTrue
INVARIANT OnTime
PROPERTY ImplementsRequest
PROPERTY AllWaitsReturn
PROPERTY FetchEnds

CHECK_DEADLOCK FALSE
