SPECIFICATION FairRegSpec
CONSTANTS
  Invocations <- ResumeOnly
  MaxAttests = 4
  MaxTees = 1
  MaxFaults = 1
PROPERTIES
  ResumedRunsPromote
CHECK_DEADLOCK FALSE
