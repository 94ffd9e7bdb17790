SPECIFICATION FrameworkSpec
CONSTANTS
  None = None
  Requests = {"hello1", "goodbye1", "state1", "other1"}
  Request <- MCRequest
  TestHello = "hello1"
  TestGoodbye = "goodbye1"
  Tables <- MCTables
  MaxNodeCrashes = 0
PROPERTIES
  NotWedged
CHECK_DEADLOCK FALSE
