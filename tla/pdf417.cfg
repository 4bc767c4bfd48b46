SPECIFICATION Spec
CONSTANT Inputs <- Everything
INVARIANTS ReadBack ReadAsMeant RowsRecovered AmbiguityResolved
