SPECIFICATION Spec
CONSTANTS
  Total = 7
  Slots = 3
  Root = 2
  Image <- MCImage
  Names = {"file", "short", "long"}
  Needs <- MCNeeds
  Handles = {1, 2}
  Bytes = {0, 1}
  Spans <- MCSpans
  MaxCalls = 4
  MaxFaults = 1
  MaxResets = 1
INVARIANT TypeOK
INVARIANT ChainsSound
INVARIANT DirsInitialised
INVARIANT CreatedStays
INVARIANT NameOnce
PROPERTY WriteIsExact
\* the calls are bounded
CHECK_DEADLOCK FALSE
