SPECIFICATION Spec
CONSTANTS
  RingSize = 3
  Letters = {"d"}
  Others = {"bs"}
  EoiKey = "d"
  EoiIndex = 0
  Reports <- MCReports
  PollEvents = 1
  MaxBytes = 2
  MaxReports = 2
INVARIANT TypeOK
INVARIANT FifoOrder
PROPERTY InterruptOnlyAppends
PROPERTY InputDrained
