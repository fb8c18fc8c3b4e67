CONSTANTS
  t1 = t1
  t2 = t2
  p1 = p1
  p2 = p2
  Dimensions <- Coordinates
  Codewords <- CanonicalCode
  Catalog <- RecognizedStates
  Rules <- PolicyRules
  Scenarios <- HostScenarios
  Edited <- EditedDocuments
  MaxEdits = 2
  Threads <- TwoThreads
  Providers <- TwoProviders
  Bindings <- HostBindings
  MaxChains = 10
  MaxBytes = 13
  MaxCalls = 2
SPECIFICATION HostSpec
INVARIANT OneRecovery
INVARIANT MappingAsDeclared
INVARIANT TerminalStaysTerminal
INVARIANT RetentionSound
INVARIANT PlansSound
PROPERTY SuccessIsCurrent
PROPERTY OnlyAuthorised
PROPERTY HostFinishes
CHECK_DEADLOCK FALSE
