CONSTANTS
  t1 = t1
  t2 = t2
  Nobody = Nobody
  Threads <- TwoThreads
  N = 2
  MaxTrail = 14
  Faults <- AllButNonstd
SPECIFICATION Spec
INVARIANT LeaseHeld
INVARIANT RestoredIsOriginal
INVARIANT FailureSettlesRecovery
PROPERTY HealedIsExpected
PROPERTY FailureIsFinal
CHECK_DEADLOCK FALSE
