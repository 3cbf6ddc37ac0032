SPECIFICATION TickSpec
CONSTANTS
  LowRange <- MCLowRange
  HighRange <- MCHighRange
  MaxNow <- MCMaxNow
INVARIANTS
  ReadingExact
PROPERTIES
  ReadEnds
