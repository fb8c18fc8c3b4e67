SPECIFICATION HostSpec
CONSTANTS
  c1 = c1
  c2 = c2
  c3 = c3
  Other = Other
  Absent = Absent
  Calls <- ThreeCalls
  Faults = {"host", "crash", "other"}
  Parts <- Strings
  Indices <- FourIndices
  Rank <- KeyOrder
  Widths <- Scaled
  RawEvents <- HostEvents
  Tamperings <- Edits
  Contents <- HostContents
  MaxChains = 4
  MaxForeign = 2
INVARIANT ExportSound
INVARIANT ReportClean
INVARIANT ReportFaithful
INVARIANT ChainsSound
PROPERTY CallsReturn
CHECK_DEADLOCK FALSE
