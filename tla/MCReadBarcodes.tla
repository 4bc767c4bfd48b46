--------------------------- MODULE MCReadBarcodes ---------------------------
(***************************************************************************)
(* Images for the model checker: which symbols there are, and what two     *)
(* layers of them may yield.                                               *)
(***************************************************************************)
EXTENDS ReadBarcodes, TLC

Views == Layers \X BOOLEAN
Plain(f) == [v \in Views |-> IF v[2] THEN "NotFound" ELSE f[v[1]]]
HighContrast == [l \in Layers |-> TRUE]
FirstLayerFlat == [l \in Layers |-> l > 1]

(* Readings of a symbol without closing, and with it.                      *)
Readings(outcomes) == {Plain(f) : f \in [Layers -> outcomes]}
ClosedReadings(outcomes) ==
  {[v \in Views |-> IF v[2] THEN c ELSE f[v[1]]] :
      f \in [Layers -> outcomes], c \in {"None", "NotFound"}}

(* A linear code and a QR Code whose bounding boxes touch, and an inverted *)
(* Data Matrix.                                                            *)
MixedSymbols == 1 .. 3
MixedKind == 1 :> "linear" @@ 2 :> "qrcode" @@ 3 :> "datamatrix"
MixedReverse == {3}
MixedBox == 1 :> {1, 2} @@ 2 :> {2, 3} @@ 3 :> {4}
Mixed(c, r1, r2, r3) == [sees |-> 1 :> r1 @@ 2 :> r2 @@ 3 :> r3, contrast |-> c]
Images ==
  {Mixed(c, r1, r2, r3) :
      r1 \in Readings(Outcomes), r2 \in ClosedReadings(Outcomes),
      r3 \in Readings({"None", "Checksum", "NotFound"}),
      c \in {HighContrast, FirstLayerFlat}}

(* At most one of them, for its pure decoder.                              *)
PureImages ==
  {[sees |-> [s \in MixedSymbols |-> IF s = t THEN r ELSE Plain([l \in Layers |-> "NotFound"])],
    contrast |-> c] :
      t \in MixedSymbols, r \in Readings(Outcomes),
      c \in {HighContrast, [l \in Layers |-> FALSE]}}

Call(image, max, errors, pure) ==
  [sees |-> image.sees, contrast |-> image.contrast,
   maxNumberOfSymbols |-> max, returnErrors |-> errors, isPure |-> pure]

(* Everything with its errors, at most two valid symbols, the first symbol *)
(* of the linear and the QR Code with its error, or a pure image.          *)
TwoSymbols == {i \in Images : i.contrast = HighContrast /\ \A v \in Views : i.sees[3][v] = "NotFound"}
MixedScenes ==
  {Call(i, 0, TRUE, FALSE) : i \in Images} \cup {Call(i, 2, FALSE, FALSE) : i \in Images}
    \cup {Call(i, 1, TRUE, FALSE) : i \in TwoSymbols}
    \cup {Call(i, 0, errors, TRUE) : i \in PureImages, errors \in BOOLEAN}
=============================================================================
