SPECIFICATION Spec
CONSTANTS
  Clients <- MCClients
  Scenarios <- MCScenarios
  Names <- MCNames
  Numerals <- MCNumerals
  Dotted <- MCDotted
  Literals <- MCLiterals
  MaxAttempts = 2
  MaxDigits = 3
  MaxWritten = 2
  MaxEffective = 3
  Scale = 5
INVARIANT FilesGuarded
INVARIANT RepairSound
INVARIANT TextFaithful
PROPERTY TrailSound
PROPERTY ClientsEnd
CHECK_DEADLOCK FALSE
