--------------------------- MODULE StructuredAppend ---------------------------
(***************************************************************************)
(* Structured append: the decoders read the place of a symbol in its       *)
(* sequence, and MergeStructuredAppendSequence(s) of core/src/Barcode.cpp  *)
(* join the symbols the caller has collected from its images.              *)
(*                                                                         *)
(* A Barcode is a shared pointer to its BarcodeData: `data` is the heap    *)
(* these point into, `found` the caller's list, `results` the barcodes     *)
(* returned by the last call.  Copies of a Barcode are the same address.   *)
(***************************************************************************)
EXTENDS Integers, Sequences, FiniteSets, SequencesExt

CONSTANTS
  Symbols,      \* what is printed on the images, see SymbolsAssumption
  MaxFound,     \* bound: barcodes in the list of the caller
  MaxCalls      \* bound: calls of the two functions

(* `of` and `place` say which message the symbol belongs to and where;     *)
(* `index` and `size` are the values of the fields printed for it.         *)
ASSUME SymbolsAssumption ==
  \A s \in Symbols :
    /\ s.symbology \in {"QRCode", "DataMatrix", "MaxiCode", "Aztec", "PDF417"}
    /\ s.index \in Nat /\ s.size \in Nat /\ s.last \in BOOLEAN
    /\ s.damaged \in BOOLEAN
ASSUME FiniteAssumption == IsFiniteSet(Symbols)
ASSUME BoundsAssumption == MaxFound \in Nat /\ MaxCalls \in Nat

VARIABLES data, found, results, calls
vars == <<data, found, results, calls>>
-----------------------------------------------------------------------------
(* What the decoders make of the fields.  A count of 0 is unknown.         *)
Sensible(index, count) == IF count = 1 \/ count <= index THEN 0 ELSE count

QRCodeCount(s) == s.size + 1
DataMatrixCount(s) ==
  LET count == 17 - s.size
  IN  IF count = 17 \/ count <= s.index THEN 0 ELSE count
MaxiCodeCount(s) == Sensible(s.index, s.size + 1)
AztecCount(s) == Sensible(s.index, s.size + 1)
(* The segment count is optional; without it the last segment tells.       *)
PDF417Count(s) ==
  IF s.size # 0 THEN s.size ELSE IF s.last THEN s.index + 1 ELSE 0

NoInfo == [index |-> -1, count |-> -1, id |-> ""]
Info(s) ==
  [index |-> s.index,
   count |-> CASE s.symbology = "QRCode" -> QRCodeCount(s)
               [] s.symbology = "DataMatrix" -> DataMatrixCount(s)
               [] s.symbology = "MaxiCode" -> MaxiCodeCount(s)
               [] s.symbology = "Aztec" -> AztecCount(s)
               [] s.symbology = "PDF417" -> PDF417Count(s),
   id |-> IF s.symbology = "MaxiCode" THEN "" ELSE s.id]

(* A bit stream that ends too early keeps what was read before its end in  *)
(* QR Code and Data Matrix; the other decoders return nothing but an error.*)
KeepsParts(s) == s.symbology \in {"QRCode", "DataMatrix"}
BarcodeData(s) ==
  IF s.damaged /\ ~KeepsParts(s)
    THEN [content |-> <<>>, placed |-> TRUE, sai |-> NoInfo, error |-> TRUE]
    ELSE [content |-> <<s>>, placed |-> TRUE, sai |-> Info(s), error |-> s.damaged]

IsValid(d) == d.content # <<>> /\ ~d.error
IsPartOfSequence(d) == d.sai.count > -1 /\ d.sai.index > -1
-----------------------------------------------------------------------------
(* MergeStructuredAppendSequence.  A list is a set of places of `found`,   *)
(* in this order; std::list::sort is stable.                               *)
AsFound(places) ==                           \* mutant: no sort
  LET Rank(i) == Cardinality({j \in places : j < i}) + 1
  IN  [k \in 1 .. Cardinality(places) |-> found[CHOOSE i \in places : Rank(i) = k]]
Before(j, i) ==
  LET index(k) == data[found[k]].sai.index
  IN  index(j) < index(i) \/ (index(j) = index(i) /\ j < i)
Sorted(places) ==
  LET Rank(i) == Cardinality({j \in places : Before(j, i)}) + 1
  IN  [k \in 1 .. Cardinality(places) |-> found[CHOOSE i \in places : Rank(i) = k]]

Matching(list) ==
  /\ data[Last(list)].sai.count = Len(list)
  /\ \A i \in DOMAIN list : data[list[i]].sai.id = data[Head(list)].sai.id

(* The data of the first barcode, which the result shares.                 *)
Merged(list) ==
  LET first == data[Head(list)]
  IN  [content |-> FlattenSeq([i \in DOMAIN list |-> data[list[i]].content]),
       placed |-> FALSE,
       sai |-> [first.sai EXCEPT !.index = -1],
       error |-> first.error \/ ~Matching(list)]

(* The lists of MergeStructuredAppendSequences, one for each id.           *)
SequenceOf(id) ==
  {i \in DOMAIN found : IsPartOfSequence(data[found[i]]) /\ data[found[i]].sai.id = id}
Ids == {data[a].sai.id : a \in {b \in ToSet(found) : IsPartOfSequence(data[b])}}
-----------------------------------------------------------------------------
Init == data = <<>> /\ found = <<>> /\ results = {} /\ calls = 0

(* ReadBarcodes (with returnErrors) finds a symbol and the caller adds it  *)
(* to its list.                                                            *)
Read(s) ==
  /\ Len(found) < MaxFound
  /\ data' = Append(data, BarcodeData(s))
  /\ found' = Append(found, Len(data) + 1)
  /\ UNCHANGED <<results, calls>>

MergeStructuredAppendSequence ==
  LET list == Sorted(DOMAIN found)
  IN  /\ calls < MaxCalls
      /\ IF found = <<>> THEN results' = {} /\ UNCHANGED data
         ELSE results' = {Head(list)} /\ data' = [data EXCEPT ![Head(list)] = Merged(list)]
      /\ calls' = calls + 1
      /\ UNCHANGED found

MergeStructuredAppendSequences ==
  LET lists == {Sorted(SequenceOf(id)) : id \in Ids}
  IN  /\ calls < MaxCalls
      /\ data' = [a \in DOMAIN data |->
                    IF \E l \in lists : Head(l) = a
                      THEN Merged(CHOOSE l \in lists : Head(l) = a) ELSE data[a]]
      /\ results' = {a \in {Head(l) : l \in lists} : IsValid(data'[a])}
      /\ calls' = calls + 1
      /\ UNCHANGED found

Next ==
  \/ \E s \in Symbols : Read(s)
  \/ MergeStructuredAppendSequence
  \/ MergeStructuredAppendSequences

Spec == Init /\ [][Next]_vars
-----------------------------------------------------------------------------
(* Addresses are valid, and a count is unknown or within what the fields   *)
(* of the symbologies can say.                                             *)
TypeOK ==
  /\ \A a \in DOMAIN data :
       /\ data[a].content \in Seq(Symbols)
       /\ data[a].placed \in BOOLEAN /\ data[a].error \in BOOLEAN
       /\ data[a].sai.index \in Nat \cup {-1} /\ data[a].sai.count \in Nat \cup {-1}
  /\ ToSet(found) \subseteq DOMAIN data /\ results \subseteq DOMAIN data
  /\ calls \in 0 .. MaxCalls

(* The messages as they were printed.                                      *)
PartsOf(m) == {s \in Symbols : s.of = m /\ ~s.damaged}
Messages ==
  {m \in {s.of : s \in Symbols} :
     /\ PartsOf(m) # {}
     /\ {s.place : s \in PartsOf(m)} = 1 .. Cardinality(PartsOf(m))}
Text(m) ==
  [k \in 1 .. Cardinality(PartsOf(m)) |-> CHOOSE s \in PartsOf(m) : s.place = k]

(* The fields are those of a writer: a symbol of n has this header, and    *)
(* the same id as the others.  Where symbols are missing on the images, or *)
(* the fields cannot be true, the count is unknown or larger.              *)
Printed(s, n) ==
  /\ n > 1 /\ s.index = s.place - 1
  /\ s.symbology \in {"QRCode", "MaxiCode", "Aztec"} => s.size = n - 1
  /\ s.symbology = "DataMatrix" => n <= 16 /\ s.size = 17 - n
  /\ s.symbology = "PDF417" => s.size \in {0, n} /\ (s.last <=> s.place = n)
ASSUME PrintedAssumption ==
  /\ \A m \in Messages : \A s, t \in PartsOf(m) :
       Printed(s, Cardinality(PartsOf(m))) /\ Info(s).id = Info(t).id
  /\ \A s \in Symbols : ~s.damaged /\ s.of \notin Messages =>
       Info(s).count = 0 \/ Info(s).count > Cardinality(PartsOf(s.of))

(* No symbol was read twice or in error and no two messages share an id.   *)
Clean ==
  /\ \A a, b \in DOMAIN data : a # b => data[a].content # data[b].content
  /\ \A a \in DOMAIN data : ~data[a].error
  /\ \A a, b \in DOMAIN data :
       data[a].sai.id = data[b].sai.id => data[a].content[1].of = data[b].content[1].of
Seen == {data[a].content[1] : a \in DOMAIN data}

(* From a clean list exactly the completed messages come out, each in its  *)
(* own order, in whatever order their symbols were found.                  *)
CompletedOnly ==
  calls = 0 /\ Clean =>
    /\ MergeStructuredAppendSequences =>
         {data'[a].content : a \in results'} =
           {Text(m) : m \in {n \in Messages : PartsOf(n) \subseteq Seen}}
    /\ MergeStructuredAppendSequence =>
         \A a \in results' : IsValid(data'[a]) <=>
           \E m \in Messages : Seen = PartsOf(m) /\ data'[a].content = Text(m)
(* A valid result joins no symbols of different ids.                       *)
OneId ==
  \A a \in results' : IsValid(data'[a]) =>
    \A p, q \in ToSet(data'[a].content) : Info(p).id = Info(q).id
(* The first holds of the first merge of a list, the second however often  *)
(* the functions were called before and whatever else the list contains.   *)
MergedExactly == [][CompletedOnly /\ OneId]_vars

=============================================================================
