CONSTANTS
  t1 = t1
  t2 = t2
  Nobody = Nobody
  Threads <- OneThread
  N = 1
  MaxTrail = 14
  Faults <- Nonstandard
SPECIFICATION Spec
INVARIANT RestoredIsNotHealed
CHECK_DEADLOCK FALSE
