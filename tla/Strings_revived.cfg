SPECIFICATION Spec

CONSTANTS
  Threads = {t1, t2}
  Texts = {x1}
  Strings = {s1, s2}
  Careful = FALSE
  None = None

INVARIANT UnregisterFinds

CHECK_DEADLOCK FALSE
