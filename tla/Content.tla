------------------------------- MODULE Content -------------------------------
(***************************************************************************)
(* The Content of a barcode (core/src/Content.h, Content.cpp): the bytes a *)
(* decoder appends, and a list of the positions at which their encoding    *)
(* changes.  Decoders add bytes and switches in the order of the symbol,   *)
(* then remove or insert text further up; the contents of a structured     *)
(* append sequence are finally appended to one another.                    *)
(*                                                                         *)
(* `content` is the Content a decoder is filling, `merged` the one         *)
(* MergeStructuredAppendSequence joins the finished ones to.  The history  *)
(* variable `cut` tells whose positions a decoder has put out of order, by *)
(* removing a header with a switch inside it.                              *)
(***************************************************************************)
EXTENDS Integers, Sequences, FiniteSets

CONSTANTS
  Bytes, ECIs, CharacterSets,   \* values of bytes; ECIs, those of ToECI(cs)
  Backslash,                    \* the byte the ECI protocol escapes
  ISO8859_1, Unknown,           \* the two default encodings
  NoSwitch,
  EraseCalls,                   \* arguments <<pos, n>> of erase()
  Headers,                      \* lengths of the header erase(0, n) removes
  InsertCalls,                  \* <<tested, pos>>: insert() at pos, behind a
                                \* start of which `tested` bytes are looked at
  MaxBytes, MaxEncodings        \* bounds of the model

ASSUME EncodingsAssumption ==
  /\ ISO8859_1 \in ECIs /\ Unknown \in CharacterSets
  /\ NoSwitch \notin ECIs \cup CharacterSets
  /\ Backslash \in Bytes \ (ECIs \cup CharacterSets)    \* designators are digits
ASSUME CallsAssumption ==
  /\ EraseCalls \subseteq Nat \X {0, 1}
  /\ Headers \subseteq Nat
  /\ InsertCalls \subseteq Nat \X Nat
  /\ MaxBytes \in Nat /\ MaxEncodings \in Nat

VARIABLES content, merged, cut
vars == <<content, merged, cut>>

Encoding == [eci : ECIs \cup CharacterSets, pos : Int]
Contents == [bytes : Seq(Bytes), encodings : Seq(Encoding), hasECI : BOOLEAN]
Empty == [bytes |-> <<>>, encodings |-> <<>>, hasECI |-> FALSE]
-----------------------------------------------------------------------------
(* The operations.                                                         *)
PushBack(c, b) == [c EXCEPT !.bytes = Append(@, b)]

(* The first ECI removes all entries that are none.                        *)
SwitchEncodingKeeping(c, eci, isECI) ==      \* mutant: no encodings.clear()
  [bytes |-> c.bytes,
   encodings |-> IF isECI \/ ~c.hasECI
                   THEN Append(c.encodings, [eci |-> eci, pos |-> Len(c.bytes)])
                   ELSE c.encodings,
   hasECI |-> c.hasECI \/ isECI]

SwitchEncoding(c, eci, isECI) ==
  LET kept == IF isECI /\ ~c.hasECI THEN <<>> ELSE c.encodings
  IN  [bytes |-> c.bytes,
       encodings |-> IF isECI \/ ~c.hasECI
                       THEN Append(kept, [eci |-> eci, pos |-> Len(c.bytes)])
                       ELSE kept,
       hasECI |-> c.hasECI \/ isECI]

AppendContent(c, other) ==
  LET kept == IF ~c.hasECI /\ other.hasECI THEN <<>> ELSE c.encodings
      moved == [i \in DOMAIN other.encodings |->
                  [other.encodings[i] EXCEPT !.pos = @ + Len(c.bytes)]]
  IN  [bytes |-> c.bytes \o other.bytes,
       encodings |-> IF other.hasECI \/ ~c.hasECI THEN kept \o moved ELSE kept,
       hasECI |-> c.hasECI \/ other.hasECI]

(* A switch at the end of the removed bytes moves with what follows it,    *)
(* one inside them by as much, to before the first byte.                   *)
MovedFrom(c, first, n) ==
  [i \in DOMAIN c.encodings |->
     IF c.encodings[i].pos >= first THEN [c.encodings[i] EXCEPT !.pos = @ + n]
                                    ELSE c.encodings[i]]

EraseMovingAll(c, pos, n) ==                 \* mutant: e.pos >= pos
  [bytes |-> SubSeq(c.bytes, 1, pos) \o SubSeq(c.bytes, pos + n + 1, Len(c.bytes)),
   encodings |-> MovedFrom(c, pos, -n),
   hasECI |-> c.hasECI]

Erase(c, pos, n) ==
  [bytes |-> SubSeq(c.bytes, 1, pos) \o SubSeq(c.bytes, pos + n + 1, Len(c.bytes)),
   encodings |-> MovedFrom(c, pos + 1, -n),
   hasECI |-> c.hasECI]

Insert(c, pos, s) ==
  [bytes |-> SubSeq(c.bytes, 1, pos) \o s \o SubSeq(c.bytes, pos + 1, Len(c.bytes)),
   encodings |-> MovedFrom(c, pos + 1, Len(s)),
   hasECI |-> c.hasECI]

(* UB of insert() past the end: if the program goes on at all, all that is *)
(* known of the vector is its new size.                                    *)
InsertedPastEnd(c, s) ==
  {[c EXCEPT !.bytes = rest] : rest \in [1 .. Len(c.bytes) + Len(s) -> Bytes]}

(* ForEachECIBlock: the arguments <<eci, begin, end>> of its calls.        *)
DefaultECI(c) == IF c.hasECI THEN ISO8859_1 ELSE Unknown

Block(c, i) ==
  [eci |-> c.encodings[i].eci, begin |-> c.encodings[i].pos,
   end |-> IF i = Len(c.encodings) THEN Len(c.bytes) ELSE c.encodings[i + 1].pos]

ForEachECIBlock(c) ==
  LET first == IF c.encodings = <<>> THEN Len(c.bytes) ELSE c.encodings[1].pos
      f[n \in 0 .. Len(c.encodings)] ==
        IF n = 0
          THEN IF c.encodings = <<>> \/ first # 0
                 THEN <<[eci |-> DefaultECI(c), begin |-> 0, end |-> first]>> ELSE <<>>
          ELSE IF Block(c, n).begin # Block(c, n).end THEN Append(f[n - 1], Block(c, n))
                                                      ELSE f[n - 1]
  IN  f[Len(c.encodings)]

(* ByteArray::asView(begin, end - begin), whose arguments are unsigned.    *)
AsView(s, begin, end) ==
  IF begin < 0 \/ begin > Len(s) THEN <<>>
  ELSE SubSeq(s, begin + 1, IF end < begin \/ end > Len(s) THEN Len(s) ELSE end)

(* bytesECI: a designator before each block and every backslash doubled.   *)
Escaped(s) ==
  LET f[n \in 0 .. Len(s)] ==
        IF n = 0 THEN <<>>
        ELSE f[n - 1] \o IF s[n] = Backslash THEN <<Backslash, Backslash>> ELSE <<s[n]>>
  IN  f[Len(s)]

BytesECIBare(c) ==                           \* mutant: backslashes not doubled
  LET blocks == ForEachECIBlock(c)
      f[n \in 0 .. Len(blocks)] ==
        IF n = 0 THEN <<>>
        ELSE f[n - 1] \o <<Backslash, blocks[n].eci>>
                      \o AsView(c.bytes, blocks[n].begin, blocks[n].end)
  IN  IF c.hasECI /\ c.bytes # <<>> THEN f[Len(blocks)] ELSE c.bytes

BytesECI(c) ==
  LET blocks == ForEachECIBlock(c)
      f[n \in 0 .. Len(blocks)] ==
        IF n = 0 THEN <<>>
        ELSE f[n - 1]
               \o (<<Backslash, blocks[n].eci>>
                   \o Escaped(AsView(c.bytes, blocks[n].begin, blocks[n].end)))
  IN  IF c.hasECI /\ c.bytes # <<>> THEN f[Len(blocks)] ELSE c.bytes
-----------------------------------------------------------------------------
(* What decoders do with them.                                             *)
Init ==
  /\ content = Empty /\ merged = Empty
  /\ cut = [content |-> FALSE, merged |-> FALSE]

(* The bounds are on the whole sequence of symbols.                        *)
SizeBound(n) == Len(merged.bytes) + Len(content.bytes) + n <= MaxBytes
EncodingsBound == Len(merged.encodings) + Len(content.encodings) < MaxEncodings

Push(b) ==
  /\ SizeBound(1)
  /\ content' = PushBack(content, b) /\ UNCHANGED <<merged, cut>>

SwitchECI(e) ==
  /\ EncodingsBound
  /\ content' = SwitchEncoding(content, e, TRUE) /\ UNCHANGED <<merged, cut>>

SwitchCharset(cs) ==
  /\ EncodingsBound
  /\ content' = SwitchEncoding(content, cs, FALSE) /\ UNCHANGED <<merged, cut>>

(* The FNC1 in first position, after a letter or after two digits.         *)
EraseFNC1(pos, n) ==
  /\ pos + n <= Len(content.bytes)
  /\ content' = Erase(content, pos, n) /\ UNCHANGED <<merged, cut>>

(* The structured append header of Aztec; an FLG(n) with an ECI may stand  *)
(* between its characters.                                                 *)
SwitchInside(c, n) == \E i \in DOMAIN c.encodings : c.encodings[i].pos \in 1 .. n - 1

EraseHeader(n) ==
  /\ n <= Len(content.bytes)
  /\ content' = Erase(content, 0, n)
  /\ cut' = [cut EXCEPT !.content = @ \/ SwitchInside(content, n)]
  /\ UNCHANGED merged

(* MaxiCode puts the postcode, country and service class before the text,  *)
(* of which there may be none, or behind the 9 bytes with which a message  *)
(* in the format of ANSI MH10.8.2 starts, of which it looks at 7 only.     *)
InsertText(call, b) ==
  /\ call[1] <= Len(content.bytes) /\ call[2] <= Len(content.bytes) /\ SizeBound(2)
  /\ content' = Insert(content, call[2], <<b, b>>) /\ UNCHANGED <<merged, cut>>

InsertPastEnd(call, b) ==
  /\ call[1] <= Len(content.bytes) /\ call[2] > Len(content.bytes) /\ SizeBound(2)
  /\ content' \in InsertedPastEnd(content, <<b, b>>)
  /\ UNCHANGED <<merged, cut>>

(* The next symbol of the sequence.                                        *)
MergeNext ==
  /\ merged' = AppendContent(merged, content) /\ content' = Empty
  /\ cut' = [content |-> FALSE, merged |-> cut.merged \/ cut.content]

Next ==
  \/ \E b \in Bytes : Push(b)
  \/ \E e \in ECIs : SwitchECI(e)
  \/ \E cs \in CharacterSets : SwitchCharset(cs)
  \/ \E call \in EraseCalls : EraseFNC1(call[1], call[2])
  \/ \E n \in Headers : EraseHeader(n)
  \/ \E call \in InsertCalls, b \in Bytes : InsertText(call, b)
  \/ \E call \in InsertCalls, b \in Bytes : InsertPastEnd(call, b)
  \/ MergeNext

Spec == Init /\ [][Next]_vars
-----------------------------------------------------------------------------
TypeOK ==
  /\ content \in Contents /\ merged \in Contents
  /\ cut \in [content : BOOLEAN, merged : BOOLEAN]

(* The switches are in the order of their positions and none lies outside  *)
(* the bytes: what every loop over the blocks relies on.  Only the header  *)
(* with a switch inside puts them out of order (see `cut`), and then too   *)
(* none comes to lie behind the bytes.                                     *)
NoneBehind(c) == \A i \in DOMAIN c.encodings : c.encodings[i].pos <= Len(c.bytes)
InOrder(c) ==
  /\ \A i \in DOMAIN c.encodings : c.encodings[i].pos \in 0 .. Len(c.bytes)
  /\ \A i, j \in DOMAIN c.encodings :
       i <= j => c.encodings[i].pos <= c.encodings[j].pos
EncodingsInOrder ==
  /\ NoneBehind(content) /\ NoneBehind(merged)
  /\ ~cut.content => InOrder(content)
  /\ ~cut.merged => InOrder(merged)

(* The mark of each byte: the last switch at or before its position.       *)
LastSwitch(c, i) == Cardinality({j \in DOMAIN c.encodings : c.encodings[j].pos <= i})
MarkAt(c, i) ==
  IF LastSwitch(c, i) = 0 THEN NoSwitch ELSE c.encodings[LastSwitch(c, i)].eci
StreamOf(c) ==
  [text |-> [i \in DOMAIN c.bytes |-> <<c.bytes[i], MarkAt(c, i - 1)>>],
   current |-> MarkAt(c, Len(c.bytes)),
   eci |-> c.hasECI]

(* Every step does to the bytes and their marks what ContentStream says,   *)
(* but for the two calls that do not: the insertion past the end, and the  *)
(* merging of a cut content, whose switches come to lie among the bytes of *)
(* the symbols before.                                                     *)
Stream == INSTANCE ContentStream WITH content <- StreamOf(content), merged <- StreamOf(merged)
PastEnd == \E call \in InsertCalls, b \in Bytes : InsertPastEnd(call, b)
MergeCut == MergeNext /\ cut.content /\ merged.bytes # <<>>
ImplementsStream ==
  Stream!Init /\ [][Stream!Next \/ PastEnd \/ MergeCut]_<<StreamOf(content), StreamOf(merged)>>

(* Undoing the ECI protocol gives back every byte in its encoding, unless  *)
(* the positions were put out of order.                                    *)
Parse(p, b) ==
  IF ~p.escape /\ b = Backslash THEN [p EXCEPT !.escape = TRUE]
  ELSE IF p.escape /\ b # Backslash THEN [p EXCEPT !.escape = FALSE, !.eci = b]
  ELSE [p EXCEPT !.escape = FALSE, !.text = Append(@, <<b, p.eci>>)]

ParsedECI(s) ==
  LET f[n \in 0 .. Len(s)] ==
        IF n = 0 THEN [text |-> <<>>, eci |-> ISO8859_1, escape |-> FALSE]
                 ELSE Parse(f[n - 1], s[n])
  IN  f[Len(s)].text

EncodingAt(c, i) ==
  IF MarkAt(c, i) = NoSwitch THEN DefaultECI(c) ELSE MarkAt(c, i)
RoundTrip(c) ==
  c.hasECI => ParsedECI(BytesECI(c)) =
                [i \in DOMAIN c.bytes |-> <<c.bytes[i], EncodingAt(c, i - 1)>>]
ProtocolRoundTrip ==
  /\ ~cut.content => RoundTrip(content)
  /\ ~cut.merged => RoundTrip(merged)
-----------------------------------------------------------------------------
(* EraseCalls of the Aztec decoder, which removes an FNC1; InsertCalls of  *)
(* MaxiCode, which looks at 7 bytes and inserts at 9, with 1 and 2.        *)
FNC1Calls == {<<0, 1>>, <<1, 1>>, <<2, 1>>}
AddressCalls == {<<0, 0>>, <<1, 2>>}
=============================================================================
