SPECIFICATION Spec
CONSTANTS
  Port = {0, 1}
  DeviceMaps <- MCDeviceMaps
  PortFrames = {2, 3, 5}
  Slots = 2
  ReadyTries = 1
  DoneTries = 3
  MaxCalls = 4
INVARIANT CommandsNeedSetup
PROPERTY SlotNotTaken
PROPERTY RejectionReported
PROPERTY SuccessAfterWait
PROPERTY CallReturns
\* the calls are bounded
CHECK_DEADLOCK FALSE
