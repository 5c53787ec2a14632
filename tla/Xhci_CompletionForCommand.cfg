SPECIFICATION Spec
CONSTANTS
  MaxPorts = 2
  CmdSize = 7
  EventSize = 3
  EpSize = 5
  FlushMax = 1
  CmdTries = 3
  MaxReports = 4
  MaxChanges = 1
INVARIANT CompletionForCommand
CHECK_DEADLOCK FALSE
