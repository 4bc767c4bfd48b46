CONSTANT Inputs <- Backtracked
SPECIFICATION Spec
INVARIANT ReadBackAlways
