SPECIFICATION FairSpec

CONSTANTS
  t1 = t1
  t2 = t2
  m1 = m1
  m2 = m2
  m3 = m3
  m4 = m4
  Threads = {t1, t2}
  Queues = {q1, q2}
  Messages = {m1, m2, m3, m4}
  Home <- TwoHomes
  Gets <- SafeGets
  Closers = {t1}
  MaxItems = 2
  None = None

INVARIANT TypeOK
INVARIANT OneQueueEach
INVARIANT NoLostMessage
INVARIANT FreedIsUnused
PROPERTY ImplementsMailboxes
PROPERTY AcceptedIsHandled

CHECK_DEADLOCK FALSE
