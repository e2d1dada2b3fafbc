SPECIFICATION Spec

CONSTANTS
  w1 = w1
  w2 = w2
  Waiters = {w1}
  Starter = w1
  MaxWaits = 1
  Serial = TRUE
  Patient = TRUE
  Thread = Thread

INVARIANT DoneIsSeen

CHECK_DEADLOCK FALSE
