SPECIFICATION Spec
CONSTANTS
  Total = 7
  Slots = 3
  Root = 2
  Image <- MCImage
  Names = {"file", "short", "long"}
  Needs <- MCNeeds
  Handles = {1, 2}
  Bytes = {0, 1}
  Spans <- MCSpans
  MaxCalls = 4
  MaxFaults = 0
  MaxResets = 0
PROPERTY TakenNameRefused
\* the calls are bounded
CHECK_DEADLOCK FALSE
