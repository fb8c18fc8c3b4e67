CONSTANTS
  t1 = t1
  t2 = t2
  Nobody = Nobody
  Threads <- OneThread
  N = 2
  MaxTrail = 14
  Faults <- AllButTamper
SPECIFICATION Spec
INVARIANT MutationIsRecoverable
PROPERTY DurableAppendOnly
CHECK_DEADLOCK FALSE
