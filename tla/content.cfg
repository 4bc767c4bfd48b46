SPECIFICATION Spec
CONSTANTS
  Bytes = {bs, x}
  ECIs = {"ISO8859_1", "UTF8"}
  CharacterSets = {"Unknown", "Shift_JIS"}
  Backslash = bs
  ISO8859_1 = "ISO8859_1"
  Unknown = "Unknown"
  NoSwitch = "none"
  EraseCalls <- FNC1Calls
  Headers = {2}
  InsertCalls <- AddressCalls
  MaxBytes = 4
  MaxEncodings = 3
INVARIANTS EncodingsInOrder ProtocolRoundTrip
PROPERTY ImplementsStream
CHECK_DEADLOCK FALSE
