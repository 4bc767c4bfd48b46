CONSTANT Inputs <- MCInputs
SPECIFICATION Spec
INVARIANTS ReadAsMeant WrongCharacterNoticed
