SPECIFICATION Spec
CONSTANT Inputs <- Everything
INVARIANTS ReadBack ReadAsMeant ModeMessageRead LayoutSound
