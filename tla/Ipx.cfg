SPECIFICATION LiveSpec
CONSTANTS
  Slots = 2
  Scenarios <- MCScenarios
INVARIANTS TypeOK PlayersDiffer DupsAgree LaunchesTogether InOrder
PROPERTIES AllLaunch
CHECK_DEADLOCK FALSE
