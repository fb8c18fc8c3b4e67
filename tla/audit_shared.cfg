SPECIFICATION FairSpec
CONSTANTS
  s1 = s1
  s2 = s2
  s3 = s3
  p1 = p1
  p2 = p2
  r1 = r1
  r2 = r2
  c1 = c1
  c2 = c2
  c3 = c3
  Nobody = Nobody
  Layouts <- FileLayouts
  AllSinks <- ThreeSinks
  Processes = {p1, p2}
  Requests = {r1, r2}
  Chains = {c1, c2, c3}
INVARIANT StoreSound
INVARIANT AcknowledgedKept
PROPERTY TornIsFrozen
PROPERTY HealthyNeverRefused
PROPERTY RecordsReturn
CHECK_DEADLOCK FALSE
