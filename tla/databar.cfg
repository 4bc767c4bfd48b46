SPECIFICATION Spec
CONSTANT Inputs <- MCInputs
INVARIANTS OnlyPrinted PrintedRead
CHECK_DEADLOCK FALSE
