CONSTANT Inputs <- MCInputs
SPECIFICATION Spec
INVARIANTS ReadBack ReadAsMeant ModulesVisitedOnce
PROPERTY SmallestSymbol
