-------------------------- MODULE MCStructuredAppend --------------------------
(* Two-part messages of every symbology; `nonsense` has fields that cannot *)
(* be true, and one symbol ends too early.                                 *)
EXTENDS StructuredAppend

Symbol(symbology, of, id, index, size) ==
  [symbology |-> symbology, of |-> of, id |-> id, place |-> index + 1, index |-> index,
   size |-> size, last |-> index = 1, damaged |-> FALSE]

QRCodes == {Symbol("QRCode", "q", "1", i, 1) : i \in 0 .. 1}
PDF417s == {Symbol("PDF417", "p", "2", i, 0) : i \in 0 .. 1}
DataMatrices == {Symbol("DataMatrix", "d", "3", i, 15) : i \in 0 .. 1}
MaxiCodes == {Symbol("MaxiCode", "m", "unused", i, 1) : i \in 0 .. 1}
Aztecs == {Symbol("Aztec", "a", "4", i, 1) : i \in 0 .. 1}
Nonsense == {Symbol("DataMatrix", "n", "5", 1, 0)}
Truncated == {[Symbol("QRCode", "q", "1", 1, 1) EXCEPT !.damaged = TRUE]}

AllSymbols ==
  QRCodes \cup PDF417s \cup DataMatrices \cup MaxiCodes \cup Aztecs \cup Nonsense \cup Truncated
=============================================================================
