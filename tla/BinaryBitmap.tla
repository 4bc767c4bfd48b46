---------------------------- MODULE BinaryBitmap ----------------------------
(***************************************************************************)
(* The lazily binarised image every reader is handed                       *)
(* (core/src/BinaryBitmap.h, BinaryBitmap.cpp).  A bitmap owns a           *)
(* std::once_flag and, once some reader asked for it, the cached black     *)
(* matrix.  invert() and close() change that matrix in place, but only     *)
(* when it is already there; the two flags are set in either case.         *)
(*                                                                         *)
(* The pixels are abstracted to what readers can tell apart: whether the   *)
(* cached matrix has been flipped, and whether it has been filtered.       *)
(***************************************************************************)

(* `cache` is the state of BinaryBitmap::Cache: the once_flag still unset, *)
(* the once_flag set with a null matrix (no usable black point), or a      *)
(* matrix of bits.                                                         *)
CacheStates == {"unset", "null", "bits"}

Bitmaps == [cache : CacheStates, flipped : BOOLEAN, filtered : BOOLEAN,
            inverted : BOOLEAN, closed : BOOLEAN]

NewBitmap == [cache |-> "unset", flipped |-> FALSE, filtered |-> FALSE,
              inverted |-> FALSE, closed |-> FALSE]

(* std::call_once(_cache->once, ...): binarises the luminance buffer the   *)
(* first time, without regard to _inverted or _closed.  `ok` is FALSE when *)
(* getBlackMatrix() finds too little contrast and returns null.            *)
GetBitMatrix(b, ok) ==
  IF b.cache = "unset" THEN [b EXCEPT !.cache = IF ok THEN "bits" ELSE "null"] ELSE b

Invert(b) ==
  [b EXCEPT !.flipped = IF b.cache = "bits" THEN ~@ ELSE @,
            !.inverted = ~@]

(* The 3x3 dilate and erode of close(); SumFilter asserts three rows.      *)
Close(b) ==
  [b EXCEPT !.filtered = IF b.cache = "bits" THEN TRUE ELSE @,
            !.closed = TRUE]
=============================================================================
