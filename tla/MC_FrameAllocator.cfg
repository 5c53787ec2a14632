SPECIFICATION Spec
CONSTANTS
  MaxPages = 8
  LowPages = 4
  BitsPerPage = 4
  BitmapPages = 2
  ReqPages = 1
  PageSize = 2
  CountMax = 31
  HolderCap = 2
  TotalCap = 4
  ClearCap = 2
  MemoryMaps <- MCMaps
INVARIANT TypeOK
INVARIANT LowExclusive
INVARIANT ReservedNeverGiven
INVARIANT IntactBooks
PROPERTY LowPoolSpec
\* mm_init may give up; the kernel then has no allocator to call
CHECK_DEADLOCK FALSE
