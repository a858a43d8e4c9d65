SPECIFICATION Spec
CONSTANTS
  t1 = t1
  t2 = t2
  Thread = {t1, t2}
  Server = {s1, s2}
  Request = {r1, r2}
  None = None
  Allowed <- TwoLifecycleThreads
INVARIANTS
  SoleWriter
  AnsweredIsCommitted
  CommandsAreServed
  StopSavesAnswered
PROPERTIES
  CallsReturn
  QueuedIsCommitted
