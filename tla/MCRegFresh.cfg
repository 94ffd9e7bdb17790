SPECIFICATION FairRegSpec
CONSTANTS
  Invocations <- FreshOnly
  MaxAttests = 12
  MaxTees = 2
  MaxFaults = 3
PROPERTIES
  FreshRunsPromote
CHECK_DEADLOCK FALSE
