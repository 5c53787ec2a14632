SPECIFICATION Spec
CONSTANTS
  Port = {0, 1}
  DeviceMaps <- MCDeviceMaps
  PortFrames = {2, 3, 5}
  Slots = 2
  ReadyTries = 1
  DoneTries = 3
  MaxCalls = 4
PROPERTY TimeoutReported
CHECK_DEADLOCK FALSE
