SPECIFICATION Spec
CONSTANTS
  Height = 7
  ReadingCount = 4
  Kind <- FourKinds
  Stateful = {2}
  Vertical = {3}
  Reversed = {4}
  Columns <- FourColumns
  HalfLength = 3
  Options <- SearchOptions
  Scenes <- SearchScenes
  Fine = 5
  Medium = 3
  Coarse = 2
  QuickLines = 3
INVARIANTS SymbolsFound EdgesInOrder LimitKept
PROPERTIES WholeImage Termination
CHECK_DEADLOCK FALSE
