SPECIFICATION Spec
CONSTANTS
  Names <- MCNames
  Cut <- MCCut
  Paths <- MCPaths
  Flat = {"dev", "proc"}
  Readable = {"proc"}
  BootScript <- MCBoot
  MaxNodes = 7
  MaxChildren = 3
  MaxEntries = 2
  MaxMounts = 3
  Fds = {3, 4}
  Size = 3
  Chunk = 2
INVARIANT TypeOK
INVARIANT NoNodeLost
INVARIANT ListsEveryEntry
PROPERTY PathsKeepTheirMeaning
PROPERTY DescriptorKept
