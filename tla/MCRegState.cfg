SPECIFICATION RegSpec
CONSTANTS
  Invocations <- AllCommands
  MaxAttests = 4
  MaxTees = 2
  MaxFaults = 4
INVARIANTS
  RegTypeOK
  StateTruthful
  NewestIdsUsed
CHECK_DEADLOCK FALSE
