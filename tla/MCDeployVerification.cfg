SPECIFICATION VerifySpec
CONSTANTS
  Operators = {"ann", "ben"}
  MaxSenders = 2
  MaxExtensions = 2
  MaxFaults = 1
  Invocations <- MCInvocations
INVARIANTS
  SetupTypeOK
  ConfigIsSetUp
  BoundToFirst
  ExitZeroMeansReady
  UniqueMeansBound
  KeyWarningsTruthful
CHECK_DEADLOCK FALSE
