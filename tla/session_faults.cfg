CONSTANTS
  t1 = t1
  t2 = t2
  Nobody = Nobody
  Threads <- OneThread
  N = 3
  MaxTrail = 17
  Faults <- HostAndCrash
SPECIFICATION FairSpec
INVARIANT TypeOK
PROPERTY EverythingSettles
PROPERTY ImplementsContract
CHECK_DEADLOCK FALSE
