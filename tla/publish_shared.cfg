SPECIFICATION FairSpec
CONSTANTS
  a = a
  w = w
  q1 = q1
  q2 = q2
  Nobody = Nobody
  Sink = Sink
  Publishers <- Two
  Processes = {q1, q2}
  Placements <- OneOrTwo
  Operation <- AppendAndWrite
  MaxLines = 1
  Faults = {"host", "crash"}
INVARIANT PublicationSound
INVARIANT ReceiptKept
PROPERTY CallsReturn
CHECK_DEADLOCK FALSE
