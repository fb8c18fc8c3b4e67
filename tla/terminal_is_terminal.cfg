CONSTANTS
  t1 = t1
  t2 = t2
  Nobody = Nobody
  Threads <- TwoThreads
  N = 1
  MaxTrail = 14
  Faults <- NoFaults
SPECIFICATION Spec
INVARIANT TerminalIsTerminal
CHECK_DEADLOCK FALSE
