---------------------------- MODULE ReadBarcodes ----------------------------
(***************************************************************************)
(* The search loop of the library: ReadBarcodes() of ReadBarcode.cpp, with *)
(* the MultiFormatReader::read() it calls for every pass over an image     *)
(* layer and the BinaryBitmap both share.                                  *)
(*                                                                         *)
(* The image is abstracted to a set of symbols.  Each has the family of    *)
(* the reader that decodes it, a polarity, the cells its bounding box      *)
(* covers, and, chosen with the initial state, what an attempt to decode   *)
(* it yields on each layer of the pyramid before and after morphological   *)
(* closing.  A symbol is a number: the order of the numbers is the order   *)
(* of the positions that MultiFormatReader::read sorts by.                 *)
(***************************************************************************)
EXTENDS Integers, Sequences, FiniteSets, BinaryBitmap

CONSTANTS
  Symbols,             \* the symbols on the image: positive numbers
  Kind,                \* Symbols -> ReaderKinds: the reader that decodes it
  ReverseReflectance,  \* the symbols printed light on dark
  Box,                 \* Symbols -> sets of cells: the bounding box
  NumLayers,           \* layers of the LumImagePyramid
  Scenes,              \* what decoding yields, which layers have contrast, and
                       \* the ReaderOptions that differ from call to call
  Enabled,             \* the readers ReaderOptions::formats asks for
  TryHarder, TryInvert, TryDenoise   \* the same in all calls
CONSTANT INT_MAX       \* of <climits>: what stands for "no limit"

ReaderKinds == {"qrcode", "datamatrix", "aztec", "pdf417", "maxicode", "linear"}
SupportsInversion == {"qrcode", "datamatrix", "aztec"}
BenefitFromClosing == {"qrcode", "datamatrix", "aztec"}
Errors == {"None", "Format", "Checksum"}
Outcomes == Errors \cup {"NotFound"}

(* A default-constructed BarcodeData: no format, no error, and a position  *)
(* whose four corners are the origin, cell 0.                              *)
None == 0
Blank == [sym |-> None, err |-> "None"]
BoxOf(s) == IF s = None THEN {0} ELSE Box[s]

Layers == 1 .. NumLayers
SceneType == [sees : [Symbols -> [Layers \X BOOLEAN -> Outcomes]],
              contrast : [Layers -> BOOLEAN],
              maxNumberOfSymbols : 0 .. 255,
              returnErrors : BOOLEAN,
              isPure : BOOLEAN]

ASSUME SymbolsAssumption ==
  /\ Symbols \subseteq Nat \ {None} /\ IsFiniteSet(Symbols)
  /\ Kind \in [Symbols -> ReaderKinds]
  /\ ReverseReflectance \subseteq Symbols
  /\ Box \in [Symbols -> SUBSET Nat]
ASSUME ScenesAssumption ==
  /\ NumLayers \in Nat \ {0}
  /\ Scenes \subseteq SceneType
ASSUME OptionsAssumption ==
  /\ Enabled \subseteq ReaderKinds
  /\ INT_MAX \in Nat \ {0}
  /\ {TryHarder, TryInvert, TryDenoise} \subseteq BOOLEAN

VARIABLES
  pc,          \* where ReadBarcodes is
  scene,       \* the image and the options: they stay what they are
  layer,       \* layers handed to CreateBitmap so far
  close, invert,  \* the loop variables of the two inner loops
  bitmap,      \* the BinaryBitmap of the current layer
  todo,        \* readers this MultiFormatReader::read has not yet asked
  budget,      \* its parameter maxSymbols, counted down
  batch,       \* the barcodes it has collected, then those still to merge
  maxSymbols,  \* the local variable of ReadBarcodes
  res,         \* the result list
  a, b         \* the iterators of the overlap filter

search == <<layer, close, invert, bitmap, todo, budget>>
vars == <<pc, scene, search, batch, maxSymbols, res, a, b>>

MaxNumberOfSymbols == scene.maxNumberOfSymbols
ReturnErrors == scene.returnErrors
IsPure == scene.isPure

(* The position of a reader in MultiFormatReader::_readers.                *)
Rank(k) ==
  CASE k = "linear" -> IF TryHarder THEN 6 ELSE 0
    [] k = "qrcode" -> 1
    [] k = "datamatrix" -> 2
    [] k = "aztec" -> 3
    [] k = "pdf417" -> 4
    [] k = "maxicode" -> 5

ClosedReader == IF TryDenoise THEN Enabled \cap BenefitFromClosing ELSE {}

(* The readers one read() will ask: `reader` or `closedReader`, less those *)
(* the inverted image is not shown to.                                     *)
ReadersFor(bm, closing) ==
  {k \in (IF closing THEN ClosedReader ELSE Enabled) :
      bm.inverted => k \in SupportsInversion}

(* What a reader can make out.  A matrix reader looks at the cached bits,  *)
(* the linear one (getPatternRow) at the luminance buffer itself.          *)
Visible(k, bm) ==
  LET flipped  == k # "linear" /\ bm.flipped
      filtered == k # "linear" /\ bm.filtered
  IN  {r \in [sym : Symbols, err : Errors] :
         /\ Kind[r.sym] = k
         /\ (r.sym \in ReverseReflectance) = flipped
         /\ scene.sees[r.sym][<<layer, filtered>>] = r.err
         /\ k = "linear" \/ bm.cache = "bits"}

(* MaxiCode never returns a symbol in error, the others only if told to.   *)
Accepted(k, rs) ==
  {r \in rs : r.err = "None" \/ (ReturnErrors /\ k # "maxicode")}

(* The most one call returns: PDF417 does not look at maxSymbols.          *)
Limit(k) ==
  CASE k = "maxicode" -> 1
    [] k = "pdf417" -> Cardinality(Symbols)
    [] OTHER -> budget

(* What the caller gets for a barcode read from a bitmap so inverted.      *)
Result(r, inv) == [sym |-> r.sym, err |-> r.err, inverted |-> inv]

(* Everything there is, or any `Limit` of it if there is more.  The Aztec  *)
(* detector counts what it detects, the others what they accept.           *)
AtMost(n, rs) ==
  {s \in SUBSET rs :
     Cardinality(s) = IF Cardinality(rs) <= n THEN Cardinality(rs) ELSE n}

ReaderResults(k, bm) ==
  IF k = "aztec" THEN {Accepted(k, s) : s \in AtMost(Limit(k), Visible(k, bm))}
                 ELSE AtMost(Limit(k), Accepted(k, Visible(k, bm)))

(* isPure: QR Code and PDF417 wrap whatever their pure decoder gives in a  *)
(* list of one, the default-constructed BarcodeData included.              *)
PureResults(k, bm) ==
  LET rs == Accepted(k, Visible(k, bm))
      blank == \/ k = "qrcode" /\ bm.cache = "bits" /\ Visible(k, bm) = {}
               \/ k = "pdf417" /\ Visible(k, bm) = {}
  IN  IF blank THEN {IF ReturnErrors THEN {Blank} ELSE {}}
               ELSE {s \in SUBSET rs : Cardinality(s) = IF rs = {} THEN 0 ELSE 1}

(* Barcode::operator==.  Linear codes must agree in their error; a matrix  *)
(* code equals any other reading of the same place and format when either  *)
(* is in error, or when both are valid and have the same bytes.            *)
Same(p, q) == p.sym = q.sym /\ (Kind[p.sym] = "linear" => p.err = q.err)
Contains(s, r) == \E i \in DOMAIN s : Same(s[i], r)
-----------------------------------------------------------------------------
Init ==
  /\ scene \in Scenes
  /\ pc = "layer"
  /\ layer = 0 /\ close = FALSE /\ invert = FALSE
  /\ bitmap = NewBitmap
  /\ todo = {} /\ budget = 0 /\ batch = {}
  /\ maxSymbols = IF MaxNumberOfSymbols = 0 THEN INT_MAX ELSE MaxNumberOfSymbols
  /\ res = <<>> /\ a = 1 /\ b = 2

(* Entering MultiFormatReader::read(bm, max).                              *)
BeginRead(bm, closing, max) ==
  /\ pc' = "read"
  /\ bitmap' = bm
  /\ todo' = ReadersFor(bm, closing)
  /\ budget' = max
  /\ batch' = {}

(* CreateBitmap for the next layer; a pure image is read once, unscaled.   *)
NextLayer ==
  /\ pc = "layer" /\ layer < NumLayers
  /\ layer' = layer + 1
  /\ close' = FALSE /\ invert' = FALSE
  /\ BeginRead(NewBitmap, FALSE, IF IsPure THEN 1 ELSE maxSymbols)
  /\ UNCHANGED <<scene, maxSymbols, res, a, b>>

AskReaderCountingRejects(k) ==      \* mutant: counts before it discards errors
  /\ pc = "read" /\ budget > 0
  /\ k \in todo /\ \A j \in todo : Rank(k) <= Rank(j)
  /\ LET bm == IF k = "linear" THEN bitmap
                               ELSE GetBitMatrix(bitmap, scene.contrast[layer])
     IN  /\ bitmap' = bm
         /\ \E r \in IF IsPure THEN PureResults(k, bm) ELSE ReaderResults(k, bm) :
              batch' = batch \cup r
         /\ budget' = budget - 1
  /\ todo' = todo \ {k}
  /\ UNCHANGED <<pc, scene, layer, close, invert, maxSymbols, res, a, b>>

(* One round of the loop over _readers: the first one not yet asked.       *)
AskReader(k) ==
  /\ pc = "read" /\ budget > 0
  /\ k \in todo /\ \A j \in todo : Rank(k) <= Rank(j)
  /\ LET bm == IF k = "linear" THEN bitmap
                               ELSE GetBitMatrix(bitmap, scene.contrast[layer])
     IN  /\ bitmap' = bm
         /\ \E r \in IF IsPure THEN PureResults(k, bm) ELSE ReaderResults(k, bm) :
              /\ batch' = batch \cup r
              /\ budget' = budget - Cardinality(r)
  /\ todo' = todo \ {k}
  /\ UNCHANGED <<pc, scene, layer, close, invert, maxSymbols, res, a, b>>

(* The list is complete, or `if (maxSymbols <= 0) break`.                  *)
EndRead ==
  /\ pc = "read" /\ (todo = {} \/ budget <= 0)
  /\ pc' = "merge"
  /\ UNCHANGED <<scene, search, batch, maxSymbols, res, a, b>>

(* `return {FirstOrDefault(reader.read(...))}` of the pure path.           *)
ReturnPure(r) ==
  /\ pc = "merge" /\ IsPure
  /\ \/ r \in batch /\ \A q \in batch : r.sym <= q.sym
     \/ r = Blank /\ batch = {}
  /\ res' = <<Result(r, FALSE)>>
  /\ pc' = "done"
  /\ UNCHANGED <<scene, search, batch, maxSymbols, a, b>>

MergeUncounted(r) ==                \* mutant: maxSymbols is not decremented
  /\ pc = "merge" /\ ~IsPure
  /\ r \in batch /\ \A q \in batch : r.sym <= q.sym
  /\ batch' = batch \ {r}
  /\ res' = IF Contains(res, r) THEN res ELSE Append(res, Result(r, bitmap.inverted))
  /\ UNCHANGED <<pc, scene, search, maxSymbols, a, b>>

MergeWithoutPolarity(r) ==          \* mutant: isInverted is not assigned
  /\ pc = "merge" /\ ~IsPure
  /\ r \in batch /\ \A q \in batch : r.sym <= q.sym
  /\ batch' = batch \ {r}
  /\ IF Contains(res, r)
       THEN UNCHANGED <<res, maxSymbols>>
       ELSE res' = Append(res, Result(r, FALSE)) /\ maxSymbols' = maxSymbols - 1
  /\ UNCHANGED <<pc, scene, search, a, b>>

(* One barcode of the sorted batch: kept unless it is known already.       *)
Merge(r) ==
  /\ pc = "merge" /\ ~IsPure
  /\ r \in batch /\ \A q \in batch : r.sym <= q.sym
  /\ batch' = batch \ {r}
  /\ IF Contains(res, r)
       THEN UNCHANGED <<res, maxSymbols>>
       ELSE /\ res' = Append(res, Result(r, bitmap.inverted))
            /\ maxSymbols' = maxSymbols - 1
  /\ UNCHANGED <<pc, scene, search, a, b>>

Merged == pc = "merge" /\ ~IsPure /\ batch = {}

(* `if (maxSymbols <= 0) return res`: straight to the caller.              *)
ReturnFull ==
  /\ Merged /\ maxSymbols <= 0
  /\ pc' = "done"
  /\ UNCHANGED <<scene, search, batch, maxSymbols, res, a, b>>

InvertPassAgain ==                  \* mutant: the loop over `invert` has no end
  /\ Merged /\ maxSymbols > 0
  /\ TryInvert /\ ~close
  /\ invert' = TRUE
  /\ BeginRead(Invert(bitmap), FALSE, maxSymbols)
  /\ UNCHANGED <<scene, layer, close, maxSymbols, res, a, b>>

(* Second round of the loop over `invert`.                                 *)
InvertPass ==
  /\ Merged /\ maxSymbols > 0
  /\ TryInvert /\ ~close /\ ~invert
  /\ invert' = TRUE
  /\ BeginRead(Invert(bitmap), FALSE, maxSymbols)
  /\ UNCHANGED <<scene, layer, close, maxSymbols, res, a, b>>

ClosePassStillInverted ==           \* mutant: the inversion is not undone
  /\ Merged /\ maxSymbols > 0
  /\ ClosedReader # {} /\ ~close /\ (invert \/ ~TryInvert)
  /\ close' = TRUE /\ invert' = FALSE
  /\ BeginRead(Close(bitmap), TRUE, maxSymbols)
  /\ UNCHANGED <<scene, layer, maxSymbols, res, a, b>>

(* Second round of the loop over `close`: undo the inversion, then filter. *)
ClosePass ==
  /\ Merged /\ maxSymbols > 0
  /\ ClosedReader # {} /\ ~close /\ (invert \/ ~TryInvert)
  /\ close' = TRUE /\ invert' = FALSE
  /\ BeginRead(Close(IF bitmap.inverted THEN Invert(bitmap) ELSE bitmap),
               TRUE, maxSymbols)
  /\ UNCHANGED <<scene, layer, maxSymbols, res, a, b>>

(* Both inner loops are through with this layer.                           *)
LayerDone ==
  /\ Merged /\ maxSymbols > 0
  /\ close \/ (ClosedReader = {} /\ (invert \/ ~TryInvert))
  /\ pc' = "layer"
  /\ UNCHANGED <<scene, search, batch, maxSymbols, res, a, b>>

LayersDone ==
  /\ pc = "layer" /\ layer = NumLayers
  /\ pc' = IF ReturnErrors THEN "filter" ELSE "done"
  /\ UNCHANGED <<scene, search, batch, maxSymbols, res, a, b>>

(* One pair of the overlap filter, `a` in the outer and `b` in the inner   *)
(* loop: an erroneous one is overwritten with a default BarcodeData.       *)
Intersect(p, q) == BoxOf(p.sym) \cap BoxOf(q.sym) # {}

FilterPair ==
  /\ pc = "filter" /\ b <= Len(res)
  /\ LET victim == IF res[a].err # "None" THEN a ELSE b
     IN  IF Intersect(res[a], res[b]) /\ res[a].err # res[b].err
           THEN res' = [res EXCEPT ![victim] = Result(Blank, FALSE)]
           ELSE res' = res
  /\ b' = b + 1
  /\ UNCHANGED <<pc, scene, search, batch, maxSymbols, a>>

FilterNextSkipping ==               \* mutant: std::next(a, 2)
  /\ pc = "filter" /\ b > Len(res) /\ a < Len(res)
  /\ a' = a + 1 /\ b' = a + 3
  /\ UNCHANGED <<pc, scene, search, batch, maxSymbols, res>>

FilterNext ==
  /\ pc = "filter" /\ b > Len(res) /\ a < Len(res)
  /\ a' = a + 1 /\ b' = a + 2
  /\ UNCHANGED <<pc, scene, search, batch, maxSymbols, res>>

(* std::erase_if(res, format == None) closes one gap after the other.      *)
Without(s, i) == [j \in 1 .. Len(s) - 1 |-> IF j < i THEN s[j] ELSE s[j + 1]]

Erase(i) ==
  /\ pc = "filter" /\ a >= Len(res)
  /\ res[i].sym = None /\ \A j \in 1 .. i - 1 : res[j].sym # None
  /\ res' = Without(res, i)
  /\ UNCHANGED <<pc, scene, search, batch, maxSymbols, a, b>>

ReturnFiltered ==
  /\ pc = "filter" /\ a >= Len(res)
  /\ \A i \in DOMAIN res : res[i].sym # None
  /\ pc' = "done"
  /\ UNCHANGED <<scene, search, batch, maxSymbols, res, a, b>>

Next ==
  \/ NextLayer
  \/ \E k \in ReaderKinds : AskReader(k)
  \/ EndRead
  \/ \E r \in batch \cup {Blank} : ReturnPure(r)
  \/ \E r \in batch : Merge(r)
  \/ ReturnFull
  \/ InvertPass
  \/ ClosePass
  \/ LayerDone
  \/ LayersDone
  \/ FilterPair
  \/ FilterNext
  \/ \E i \in DOMAIN res : Erase(i)
  \/ ReturnFiltered

(* A call of ReadBarcodes runs on the thread of its caller until it is     *)
(* done: nothing it waits for, so its next step is always taken.           *)
Spec == Init /\ [][Next]_vars /\ WF_vars(Next)
-----------------------------------------------------------------------------
Barcode == [sym : Symbols \cup {None}, err : Errors]
ResultType == [sym : Symbols \cup {None}, err : Errors, inverted : BOOLEAN]

TypeOK ==
  /\ pc \in {"layer", "read", "merge", "filter", "done"}
  /\ scene \in SceneType
  /\ layer \in 0 .. NumLayers
  /\ close \in BOOLEAN /\ invert \in BOOLEAN
  /\ bitmap \in Bitmaps
  /\ todo \subseteq ReaderKinds
  /\ budget \in Int /\ maxSymbols \in Int
  /\ batch \subseteq Barcode
  /\ res \in Seq(ResultType)
  /\ a \in Nat \ {0} /\ b \in Nat \ {0}

(* What option maxNumberOfSymbols promises: never more symbols than asked  *)
(* for, whatever the readers, passes and layers find between them.         *)
CountBound ==
  MaxNumberOfSymbols > 0 => Len(res) <= MaxNumberOfSymbols

(* What a reading says of the polarity of its symbol.                      *)
PolarityOf(r, inv) == r.sym # None => (r.sym \in ReverseReflectance) = inv

(* Barcode::isInverted() tells the truth: the flag the barcode is given    *)
(* from the bitmap is the polarity of the symbol it was read from.         *)
PolarityReported ==
  \A i \in DOMAIN res : PolarityOf(res[i], res[i].inverted)

(* The bits the readers are shown are those the flags of the bitmap claim, *)
(* even though invert() and close() may find no cached matrix to change.   *)
MatrixMatchesFlags ==
  bitmap.cache = "bits" => /\ bitmap.flipped = bitmap.inverted
                           /\ bitmap.filtered = bitmap.closed

(* The same with what holds as long as there is no matrix.                 *)
InStep(bm) ==
  IF bm.cache = "bits" THEN bm.flipped = bm.inverted /\ bm.filtered = bm.closed
                       ELSE ~bm.flipped /\ ~bm.filtered

(* Why the limit holds: what has been reported, what is waiting to be      *)
(* merged and what may still be read never exceed it together.             *)
Accounting ==
  /\ budget >= 0 /\ maxSymbols >= 0
  /\ pc = "read" /\ ~IsPure => Cardinality(batch) + budget <= maxSymbols
  /\ pc = "merge" /\ ~IsPure => Cardinality(batch) <= maxSymbols
  /\ pc \in {"layer", "read", "merge"} /\ MaxNumberOfSymbols > 0 /\ ~IsPure =>
       Len(res) + maxSymbols = MaxNumberOfSymbols
  /\ CountBound
  /\ IsPure => Len(res) <= 1

(* Why the polarity is right: as long as no matrix is cached, no pass has  *)
(* inverted or closed the bitmap, unless no reader would look at it then.  *)
Inverting == Enabled \cap SupportsInversion

FlagsFollowLoops ==
  /\ bitmap.inverted = invert /\ bitmap.closed = close
  /\ IsPure => ~invert
  /\ InStep(bitmap)

ReadersSuited ==
  /\ todo \subseteq Enabled
  /\ invert \/ close => todo \subseteq Inverting

CacheBeforeInvert ==
  bitmap.cache = "unset" =>
    \/ Inverting = {}
    \/ /\ ~invert /\ ~close
       /\ \/ pc = "layer" /\ layer = 0
          \/ pc = "read" /\ budget > 0 /\ Inverting \subseteq todo

BatchPolarity ==
  pc \in {"read", "merge"} => \A r \in batch : PolarityOf(r, bitmap.inverted)

(* All of it together, inductive in tryHarder mode.                        *)
PolarityInv ==
  /\ pc = "layer" => maxSymbols > 0
  /\ FlagsFollowLoops /\ ReadersSuited /\ CacheBeforeInvert
  /\ BatchPolarity /\ PolarityReported

(* The passes over a layer, and whether one of them shows symbol s to its  *)
(* reader, and as what.                                                    *)
Passes ==
  {p \in {"plain", "inverted", "closed"} :
     /\ p = "inverted" => TryInvert
     /\ p = "closed" => ClosedReader # {}}
Shows(s, e, l, p) ==
  /\ Kind[s] \in IF p = "closed" THEN ClosedReader ELSE Enabled
  /\ p = "inverted" => Kind[s] \in SupportsInversion
  /\ Kind[s] = "linear" \/ scene.contrast[l]
  /\ s \in ReverseReflectance <=> p = "inverted"
  /\ scene.sees[s][<<l, p = "closed">>] = e
Shown(s, e) == \E l \in Layers, p \in Passes : Shows(s, e, l, p)
ShownPure(s) == Shows(s, "None", 1, "plain")

Reported(s) == \E i \in DOMAIN res : res[i].sym = s

(* Nothing else lies where s does; blanked barcodes lie at the origin.     *)
Alone(s) == 0 \notin Box[s] /\ \A t \in Symbols \ {s} : Box[t] \cap Box[s] = {}
(* MaxiCode reads one symbol only, and a reading in error hides the later  *)
(* ones of a matrix code, and may be removed for another symbol.           *)
NothingHides(s) ==
  /\ Kind[s] = "maxicode" => \A t \in Symbols \ {s} : Kind[t] # "maxicode"
  /\ \/ ~ReturnErrors \/ Kind[s] = "linear" \/ Alone(s)
     \/ \A e \in Errors \ {"None"} : ~Shown(s, e)

(* With no limit on their number, a finished search reports every symbol   *)
(* that some pass over some layer shows without error.  Of a pure image it *)
(* reports the only symbol that any reader can decode, whichever readers   *)
(* are asked before.                                                       *)
SearchComplete ==
  pc = "done" =>
    \A s \in Symbols :
      IF IsPure
        THEN ~ReturnErrors /\ ShownPure(s) /\ (\A t \in Symbols \ {s} : ~ShownPure(t)) => Reported(s)
        ELSE MaxNumberOfSymbols = 0 /\ Shown(s, "None") /\ NothingHides(s) => Reported(s)

(* A finished search that was not cut short by the limit has resolved      *)
(* every overlap of an erroneous with a differently read symbol.           *)
OverlapsResolved ==
  pc = "done" /\ (ReturnErrors => maxSymbols > 0) => \A i, j \in DOMAIN res :
    res[i].err # res[j].err => ~Intersect(res[i], res[j])

(* The call returns.                                                       *)
Termination == <>(pc = "done")
=============================================================================
