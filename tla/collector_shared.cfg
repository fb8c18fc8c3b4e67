SPECIFICATION Spec
CONSTANTS
  s1 = s1
  s2 = s2
  Sessions <- TwoSessions
  EventCount = 2
  EventBytes = 2
  MemoryBytes = 3
  Retention = 1
  MaxErrors = 1
  Sizes = {1, 2, 3}
  MaxTime = 2
  MaxCaptures = 3
INVARIANT LossAccounted
INVARIANT QueueSound
INVARIANT FailureReported
INVARIANT TimelineHonest
SYMMETRY Symmetry
CHECK_DEADLOCK FALSE
