SPECIFICATION FrameworkSpec
CONSTANTS
  None = None
  Requests = {"hello1", "goodbye1", "state1", "other1", "mistyped1"}
  Request <- MCRequest
  TestHello = "hello1"
  TestGoodbye = "goodbye1"
  Tables <- MCTables
  MaxNodeCrashes = 1
INVARIANTS
  FrameworkTypeOK
  InOrder
PROPERTIES
  ImplementsSequential
  Served
CHECK_DEADLOCK FALSE
