CONSTANTS
  Model2 <- Model2Table
  LastSmall = 9
  LastMedium = 26
  Inputs <- MCInputs
SPECIFICATION SpecWithMatrix
INVARIANTS SmallestVersion OriginalBlocks ReadAsMeant FormatRead ModulesReadBack
