SPECIFICATION Spec
CONSTANTS
  Arrays <- MCArrays
  MaxArgs = 2
  Getters <- MCGetters
  SpMats <- MCSpMats
  StatDicts <- MCStatDicts
  NameOrder <- MCNameOrder
  Parts <- MCParts
  Index <- MCIndex
INVARIANTS
  TypeOK
  CursorCountsGets
  ValuesAreArguments
  WildIsConfined
  EchoKeepsElements
  SparseIsKept
  PrintedIsShown
  StatsAreKept
