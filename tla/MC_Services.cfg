SPECIFICATION SvSpec
CONSTANTS
  Fanout = 2
  Frames = {1, 2, 3, 4, 5, 6, 7}
  Strays = {30}
  BootTable <- MCBootTable
  KernelPage = 10
  KernelFrame = 9
  WindowBase = 8
  PageSize = 2
  PagesCap = 3
  Regions <- MCRegions
  DeviceTop = 40
  CallCap = 3
  Dirt = 1
  Requests = {r1, r2, r3}
  Deadlines = {1, 2}
  SubmitCap = 4
  MaxTasks = 4
  MaxCpus = 2
  Slice = 2
  Reported <- MCReported
  ApicIds <- MCApicIds
  Cols = 4
  Rows = 2
  BufSize = 5
  Typed = {"a", "b"}
  Prompt <- MCPrompt
  Outputs <- MCOutputs
  LockText <- MCLockText
  LogText <- MCLogText
  StrokeCap = 5
  NoiseCap = 1
  Names <- MCNames
  Cut <- MCCut
  Flat = {"proc"}
  Texts = {"proc"}
  BootScript <- MCBoot
  MaxNodes = 5
  MaxChildren = 3
  MaxEntries = 2
  MaxMounts = 2
  Fds = {3, 4}
  Size = 3
  Chunk = 2
  Arguments <- MCArguments
  PitBase = 1193182
  DivisorMax = 65535
  DefaultHz = 100
  SecondMs = 1000
  Frequencies = {100}
  Sleeps = {0, 5, 10, 35}
  TickCap = 5
  SleepCap = 2
  Machines <- MCMachines
  MaxIds = 2
  PollCap = 3
  Guesses <- MCGuesses
INVARIANTS
  TypeOK
  WindowsStayMapped
  WaitBounded
  EchoIsLine
  PromptIsSound
  SleepsAsDeclared
PROPERTIES
  AddressSpaceSpec
  RequestQueueSpec
  SleepEnds
  PowerEnds
CHECK_DEADLOCK FALSE
