SPECIFICATION Spec
CONSTANTS
  Symbols <- MixedSymbols
  Kind <- MixedKind
  ReverseReflectance <- MixedReverse
  Box <- MixedBox
  Scenes <- MixedScenes
  NumLayers = 2
  Enabled = {"qrcode", "datamatrix", "aztec", "pdf417", "maxicode", "linear"}
  INT_MAX = 2147483647
  TryHarder = TRUE
  TryInvert = TRUE
  TryDenoise = TRUE
INVARIANTS CountBound PolarityReported SearchComplete OverlapsResolved
PROPERTY Termination
CHECK_DEADLOCK FALSE
