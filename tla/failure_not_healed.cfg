CONSTANTS
  t1 = t1
  t2 = t2
  Nobody = Nobody
  Threads <- OneThread
  N = 1
  MaxTrail = 14
  Faults <- HostFaults
SPECIFICATION Spec
INVARIANT FailureIsNotHealed
CHECK_DEADLOCK FALSE
