SPECIFICATION FatSpec
CONSTANTS
  LastCluster = 4
  Root = 2
  SectorSize = 4
  Greeting <- MCGreeting
  Line <- MCLine
  MaxLosses = 2
  MaxFormats = 2
INVARIANTS
  TextKept
  LeakBounded
  TextNotOverwritten
PROPERTIES
  Grows
