SPECIFICATION Spec
CONSTANTS
  Symbols <- AllSymbols
  MaxFound = 4
  MaxCalls = 2
PROPERTY MergedExactly
CHECK_DEADLOCK FALSE
