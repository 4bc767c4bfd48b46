------------------------------- MODULE QRCode -------------------------------
(***************************************************************************)
(* A QR Code from the text to the symbol and back: Encode (QREncoder.cpp), *)
(* or some other encoder, prints codewords, some of which are damaged;     *)
(* Decode (QRDecoder.cpp) separates them into blocks, corrects these and   *)
(* reads the bit stream they hold segment by segment into a Content.       *)
(*                                                                         *)
(* An input is a call of Encode, or a symbol with the segments some other  *)
(* encoder wrote into it.                                                  *)
(***************************************************************************)
EXTENDS QRBitStream, FiniteSets

CONSTANT Inputs

VARIABLES
  pc, input,
  symbol,              \* its version
  bytes,               \* the data codewords, before and after the blocks
  codewords,           \* the codewords in the order of the symbol
  pos,                 \* of the BitSource, in bits
  content, symbology, structuredAppend, error
vars == <<pc, input, symbol, bytes, codewords, pos,
          content, symbology, structuredAppend, error>>
printed == <<input, symbol, bytes, codewords>>

None == "None"
NoVersion == Version("None", 0, <<>>)
NoStructuredAppend == <<-1, -1, -1>>
ToECI == [Unknown |-> -1, ISO8859_1 |-> 3, Shift_JIS |-> 20, UTF8 |-> 26,
          GB18030 |-> 32, Binary |-> 899]

(* What other encoders print has the blocks of the table.  That of a       *)
(* Model 1 symbol leaves the codewords behind the blocks unused, and those *)
(* of M1 and M3 have the parity to correct the half codeword.              *)
Printable(v, b) ==
  /\ b \in ECBlocks /\ Divided(b)
  /\ v.number \in Nat
  /\ TotalCodewords(v) \in Nat /\ AllCodewords(b) <= TotalCodewords(v)
  /\ v.type = "Model1" => b[4] = 0
  /\ v.type = "Micro" /\ v.number % 2 = 1 => b[1] >= 2

(* TextEncoder makes no other pairs of bytes.                              *)
IsShiftJIS(text) ==
  IsOnlyDoubleByteKanji(text) =>
    \A i \in 1 .. Len(text) \div 2 : text[2 * i] \in 64 .. 252

ASSUME InputsAssumption ==
  \A call \in Inputs :
    /\ call.kind \in {"text", "printed"}
    /\ call.level \in Level
    /\ call.damage \in {"none", "repairable", "beyond"}
    /\ call.kind = "text" =>
         /\ call.text \in Seq(0 .. 255) /\ call.charset \in DOMAIN ToECI
         /\ call.gs1 \in BOOLEAN /\ call.version \in Nat
         /\ call.charset = "Shift_JIS" => IsShiftJIS(call.text)
    /\ call.kind = "printed" => Printable(call.symbol, call.symbol.levels[call.level])

C == INSTANCE Content WITH
       Bytes <- 0 .. 255, ECIs <- Nat, CharacterSets <- {-1}, Backslash <- 92,
       ISO8859_1 <- ToECI["ISO8859_1"], Unknown <- ToECI["Unknown"], NoSwitch <- -2,
       EraseCalls <- {}, Headers <- {}, InsertCalls <- {},
       MaxBytes <- 0, MaxEncodings <- 0,
       merged <- content, cut <- content

Init ==
  /\ input \in Inputs
  /\ pc = IF input.kind = "text" THEN "encode" ELSE "print"
  /\ symbol = NoVersion /\ bytes = <<>> /\ codewords = <<>> /\ pos = 0
  /\ content = C!Empty /\ symbology = [modifier |-> 1, aiFlag |-> None]
  /\ structuredAppend = NoStructuredAppend /\ error = None
-----------------------------------------------------------------------------
(* Encode.                                                                 *)
Charset(call) == IF call.charset = "Unknown" THEN "ISO8859_1" ELSE call.charset
ModeOf(call) == ChooseMode(call.text, Charset(call))

NeedsECI(call, mode) == mode = "BYTE" /\ Charset(call) # "ISO8859_1"

(* Without the count.  The mode has 4 bits in all versions of Model 2.     *)
HeaderBits(call, mode) ==
  (IF NeedsECI(call, mode) THEN Bits(QRModes["ECI"], 4) \o ECIBits(ToECI[Charset(call)])
                           ELSE <<>>)
  \o (IF call.gs1 THEN Bits(QRModes["FNC1_FIRST_POSITION"], 4) ELSE <<>>)
  \o Bits(QRModes[mode], 4)
HeaderAndDataLength(call, mode) ==
  Len(HeaderBits(call, mode)) + DataBitsLength(mode, Len(call.text))

IsVersionFor(call, mode, n) ==
  LET bits == HeaderAndDataLength(call, mode)
  IN  IF call.version \in DOMAIN Model2
        THEN n = call.version /\ HasRoom(bits, mode, call.level, n)
        ELSE RecommendedVersion(bits, mode, call.level, n)

(* TerminateBits: up to four 0 bits, those that fill the byte, pad bytes.  *)
Padded(bits, used, numDataBytes) ==
  LET Bit(k) == IF k <= Len(bits) THEN bits[k] ELSE 0
  IN  [n \in 1 .. numDataBytes |->
         IF n <= used THEN Folded([i \in 1 .. 8 |-> Bit(8 * (n - 1) + i)], 2)
         ELSE IF (n - used) % 2 = 1 THEN 236 ELSE 17]

TerminateBitsFull(bits, terminator, numDataBytes) ==  \* mutant: no terminator
  Padded(bits, (Len(bits) + 7) \div 8, numDataBytes)

TerminateBits(bits, terminator, numDataBytes) ==
  LET capacity == 8 * numDataBytes
      ended == IF Len(bits) + terminator <= capacity THEN Len(bits) + terminator ELSE capacity
  IN  Padded(bits, (ended + 7) \div 8, numDataBytes)

(* AppendKanjiBytes, AppendLengthInfo and InterleaveWithECBytes throw      *)
(* otherwise.                                                              *)
Encodable(call, mode, n) ==
  /\ mode = "KANJI" => HaveKanjiCodes(call.text)
  /\ IsVersionFor(call, mode, n)
  /\ NumLetters(mode, Len(call.text)) < 2^CharacterCountBits(mode, Model2Version(n))
  /\ BytesMatchOffset(Model2Version(n), call.level)
VersionsFor(call, mode) == {n \in DOMAIN Model2 : Encodable(call, mode, n)}

EncodedAs(mode, v) ==
  /\ symbol' = v
  /\ bytes' = TerminateBits(
       HeaderBits(input, mode)
         \o Bits(NumLetters(mode, Len(input.text)), CharacterCountBits(mode, v))
         \o DataBits(mode, input.text),
       4, NumDataBytes(v, input.level))
  /\ codewords' = InterleaveWithECBytes(v, input.level)
  /\ pc' = "blocks"

EncodedOrThrown(mode, versions) ==
  \/ \E n \in versions : EncodedAs(mode, Model2Version(n))
  \/ versions = {} /\ pc' = "thrown" /\ UNCHANGED <<symbol, bytes, codewords>>

Encode ==
  /\ pc = "encode"
  /\ EncodedOrThrown(ModeOf(input), VersionsFor(input, ModeOf(input)))
  /\ UNCHANGED <<input, pos, content, symbology, structuredAppend, error>>
-----------------------------------------------------------------------------
(* The symbols of other encoders: their segments, terminator and padding,  *)
(* and the codewords of the table's blocks in the order of the standard.   *)
Segment(mode, text, fnc1) == [mode |-> mode, text |-> text, fnc1 |-> fnc1]
ConcatenatedBits(v, segments) ==
  LET f[n \in 0 .. Len(segments)] ==
        IF n = 0 THEN <<>> ELSE f[n - 1] \o SegmentBits(v, segments[n])
  IN  f[Len(segments)]

ASSUME SegmentsAssumption ==
  \A call \in Inputs :
    call.kind = "printed" => ConcatenatedBits(call.symbol, call.segments) \in Seq({0, 1})

StandardOrder(v, level) ==
  LET b == v.levels[level]
      data == [j \in 1 .. NumBlocks(b) |-> NumDataCodewords(b, j)]
      Consecutive(first, n) == [k \in 1 .. n * NumBlocks(b) |->
                                  <<((k - 1) \div n) + 1, first + ((k - 1) % n) + 1>>]
      all == Consecutive(0, data[1]) \o Consecutive(data[1], b[1])
  IN  IF v.type # "Model1" THEN Interleaved(data, b[1])
      ELSE [k \in 1 .. TotalCodewords(v) |-> IF k <= Len(all) THEN all[k] ELSE <<0, k>>]

PrintSymbol ==
  /\ pc = "print"
  /\ symbol' = input.symbol
  /\ bytes' = TerminateBits(
       (IF input.symbol.type = "Model1" THEN <<0, 0, 0, 0>> ELSE <<>>)
         \o ConcatenatedBits(input.symbol, input.segments),
       TerminatorBitsLength(input.symbol), NumDataBytes(input.symbol, input.level))
  /\ codewords' = StandardOrder(input.symbol, input.level)
  /\ pc' = "blocks"
  /\ UNCHANGED <<input, pos, content, symbology, structuredAppend, error>>
-----------------------------------------------------------------------------
(* Decode: blocks.                                                         *)
Blocks == symbol.levels[input.level]
DataByte(c) ==                               \* 0 stands for all parity
  LET longer == LongerBlocksStartAt(Blocks)
  IN  IF c[2] > NumDataCodewords(Blocks, c[1]) THEN 0
      ELSE bytes[(c[1] - 1) * NumDataCodewords(Blocks, 1) + c[2]
                   + (IF c[1] < longer THEN 0 ELSE c[1] - longer)]

(* The last data codeword of M1 and M3 has four bits.  ReadMQRCodewords    *)
(* returns them in the lower half of a byte, while the parity is that of   *)
(* the upper half.                                                         *)
HasHalfCodeword == symbol.type = "Micro" /\ symbol.number % 2 = 1
IsHalf(c) == HasHalfCodeword /\ c[2] = NumDataCodewords(Blocks, 1)

(* Damaged are as many codewords of each block as can be corrected, or one *)
(* more of the first block.                                                *)
Damaged(c) ==
  LET correctable == Blocks[1] - (IF HasHalfCodeword THEN 2 ELSE 0)
  IN  \/ input.damage = "repairable" /\ 2 * c[2] <= correctable
      \/ input.damage = "beyond" /\ c[1] = 1 /\ 2 * c[2] - 2 <= Blocks[1]
AsRead(c) ==
  IF Damaged(c) THEN 255 - DataByte(c)
  ELSE IF IsHalf(c) THEN DataByte(c) \div 16 ELSE DataByte(c)

(* ReedSolomonDecode restores a block as long as no more than half of its  *)
(* parity codewords are wrong; the wrong ones of a lost block stay.        *)
WrongIn(blocks, j) ==
  {i \in DOMAIN blocks[j] :
     LET c == codewords[blocks[j][i]] IN c # <<j, i>> \/ AsRead(c) # DataByte(c)}
Lost(blocks, j) == 2 * Cardinality(WrongIn(blocks, j)) > Blocks[1]

Corrected(blocks, j) ==
  IF Lost(blocks, j)
    THEN [i \in 1 .. NumDataCodewords(Blocks, j) |-> AsRead(codewords[blocks[j][i]])]
    ELSE [i \in 1 .. NumDataCodewords(Blocks, j) |-> DataByte(<<j, i>>)]
ResultBytes(blocks) ==
  LET copied[j \in 0 .. Len(blocks)] ==
        IF j = 0 THEN <<>> ELSE copied[j - 1] \o Corrected(blocks, j)
  IN  copied[Len(blocks)]

CorrectErrors ==
  /\ pc = "blocks"
  /\ \E blocks \in {GetDataBlocks(symbol, input.level)} :
       /\ bytes' = ResultBytes(blocks)
       /\ error' = IF \E j \in DOMAIN blocks : Lost(blocks, j) THEN "Checksum" ELSE None
  /\ pos' = IF symbol.type = "Model1" THEN 4 ELSE 0
  /\ symbology' = [symbology EXCEPT !.modifier = IF symbol.type = "Model1" THEN 0 ELSE 1]
  /\ pc' = "stream"
  /\ UNCHANGED <<input, symbol, codewords, content, structuredAppend>>
-----------------------------------------------------------------------------
(* DecodeBitStream.                                                        *)
Available(p) == 8 * Len(bytes) - p
BitAt(p) == (bytes[(p \div 8) + 1] \div 2^(7 - (p % 8))) % 2
Peek(p, n) == Folded([i \in 1 .. n |-> BitAt(p + i - 1)], 2)
CanRead(p, n) == n >= 1 /\ n <= Available(p)

IsEndOfStream ==
  LET required == TerminatorBitsLength(symbol)
      n == IF Available(pos) < required THEN Available(pos) ELSE required
  IN  n = 0 \/ Peek(pos, n) = 0

ModeLength == CodecModeBitsLength(symbol)
Modes ==
  IF ModeLength = 0 THEN {"NUMERIC"}
  ELSE IF ~CanRead(pos, ModeLength) THEN {}
  ELSE CodecModesForBits(Peek(pos, ModeLength), symbol.type)

Reading(mode) == pc = "stream" /\ ~IsEndOfStream /\ mode \in Modes
Start == pos + ModeLength
Stay == pc' = pc /\ UNCHANGED <<printed, error>>

(* Errors of the stream leave what was read so far; an error of the blocks *)
(* takes their place.                                                      *)
Fail ==
  /\ pc' = "done" /\ error' = (IF error = "Checksum" THEN error ELSE "Format")
  /\ UNCHANGED <<printed, pos>>

EndOfStream ==
  /\ pc = "stream" /\ IsEndOfStream
  /\ pc' = "done" /\ UNCHANGED <<printed, pos, content, symbology, structuredAppend, error>>

InvalidMode ==
  /\ pc = "stream" /\ ~IsEndOfStream /\ Modes = {}
  /\ Fail /\ UNCHANGED <<content, symbology, structuredAppend>>

ReadFNC1First ==
  /\ Reading("FNC1_FIRST_POSITION")
  /\ pos' = Start /\ symbology' = [modifier |-> 3, aiFlag |-> "GS1"]
  /\ Stay /\ UNCHANGED <<content, structuredAppend>>

Added(c, s) == [c EXCEPT !.bytes = @ \o s]

IndicatorFollows == CanRead(Start, 8) => IsIndicator(Peek(Start, 8))
ReadFNC1Second ==
  /\ Reading("FNC1_SECOND_POSITION") /\ UNCHANGED structuredAppend
  /\ \/ /\ content.bytes # <<>>
        /\ Fail /\ UNCHANGED <<content, symbology>>
     \/ /\ content.bytes = <<>>
        /\ symbology' = [symbology EXCEPT !.modifier = 5]
        /\ ~IndicatorFollows \/ ~CanRead(Start, 8)
        /\ Fail /\ UNCHANGED content
     \/ /\ content.bytes = <<>> /\ CanRead(Start, 8) /\ IndicatorFollows
        /\ symbology' = [modifier |-> 5, aiFlag |-> "AIM"]
        /\ content' = Added(content, Indicator(Peek(Start, 8)))
        /\ pos' = Start + 8 /\ Stay

(* A field after the end keeps the ones before it.                         *)
ReadStructuredAppend ==
  LET Field(i) == IF CanRead(Start + 4 * (i - 1), IF i = 3 THEN 8 ELSE 4)
                    THEN Peek(Start + 4 * (i - 1), IF i = 3 THEN 8 ELSE 4)
                           + (IF i = 2 THEN 1 ELSE 0)
                    ELSE structuredAppend[i]
  IN  /\ Reading("STRUCTURED_APPEND")
      /\ structuredAppend' = [i \in 1 .. 3 |-> Field(i)]
      /\ IF CanRead(Start, 16) THEN pos' = Start + 16 /\ Stay ELSE Fail
      /\ UNCHANGED <<content, symbology>>

(* ParseECIValue: the number of bytes is in the first of them.             *)
ECILength ==
  LET first == Peek(Start, 8)
  IN  CASE first < 128 -> 8 [] first \in 128 .. 191 -> 16 [] first \in 192 .. 223 -> 24
        [] OTHER -> 0

ReadECI ==
  /\ Reading("ECI") /\ UNCHANGED <<symbology, structuredAppend>>
  /\ IF symbol.type # "Model1" /\ CanRead(Start, 8) /\ CanRead(Start, ECILength)
       THEN LET prefix == (ECILength \div 8)    \* 0, 10 or 110
                value == Peek(Start + prefix, ECILength - prefix)
            IN  /\ content' = C!SwitchEncoding(content, value, TRUE)
                /\ pos' = Start + ECILength /\ Stay
       ELSE Fail /\ UNCHANGED content
-----------------------------------------------------------------------------
(* The segments with a count.                                              *)
(* The groups of `length` bytes from p on.                                 *)
NumGroups(mode, length) == (length + GroupSize[mode] - 1) \div GroupSize[mode]
SizeOf(mode, length, n) ==
  IF n * GroupSize[mode] <= length THEN GroupSize[mode] ELSE length % GroupSize[mode]
Group(mode, p, length, n) ==
  Peek(p + (n - 1) * GroupBits(mode, GroupSize[mode]),
       GroupBits(mode, SizeOf(mode, length, n)))
Unreadable(mode, p, length) ==
  {n \in 1 .. NumGroups(mode, length) :
     \/ ~CanRead(p + (n - 1) * GroupBits(mode, GroupSize[mode]),
                 GroupBits(mode, SizeOf(mode, length, n)))
     \/ ~IsValid(mode, Group(mode, p, length, n), SizeOf(mode, length, n))}

(* The first `count` bytes.                                                *)
TextAt(mode, p, length, count) ==
  LET size == GroupSize[mode]
      Of(n) == Unpacked(mode, Group(mode, p, length, n), SizeOf(mode, length, n))
  IN  [i \in 1 .. count |-> Of(((i - 1) \div size) + 1)[((i - 1) % size) + 1]]

CharacterSetOf == [NUMERIC |-> "ISO8859_1", ALPHANUMERIC |-> "ISO8859_1", BYTE |-> "Unknown",
                   KANJI |-> "Shift_JIS", HANZI |-> "GB18030"]

AfterSegment(mode, text) ==
  Added(C!SwitchEncoding(content, ToECI[CharacterSetOf[mode]], FALSE),
        IF mode = "ALPHANUMERIC" /\ symbology.aiFlag # None
          THEN UndoublePercents(text) ELSE text)

(* Groups before one that cannot be read are kept, but not those of        *)
(* alphanumeric text, which is added when all is there.                    *)
ReadGroups(mode, p, length, unreadable) ==
  \/ /\ unreadable = {}
     /\ content' = AfterSegment(mode, TextAt(mode, p, length, length))
     /\ pos' = p + DataBitsLength(mode, length) /\ Stay
  \/ /\ unreadable # {} /\ mode = "ALPHANUMERIC"
     /\ Fail /\ UNCHANGED content
  \/ /\ unreadable # {} /\ mode # "ALPHANUMERIC"
     /\ \E n \in unreadable :
          /\ \A m \in unreadable : n <= m
          /\ content' = AfterSegment(mode, TextAt(mode, p, length, (n - 1) * GroupSize[mode]))
     /\ Fail

ReadCounted(mode, p, width) ==
  \/ /\ ~CanRead(p, width)
     /\ Fail /\ UNCHANGED content
  \/ /\ CanRead(p, width)
     /\ \E length \in {NumBytes(mode, Peek(p, width))} :
          ReadGroups(mode, p + width, length, Unreadable(mode, p + width, length))

ReadHanzi ==
  /\ Reading("HANZI") /\ UNCHANGED <<symbology, structuredAppend>>
  /\ IF CanRead(Start, 4) /\ Peek(Start, 4) = 1
       THEN ReadCounted("HANZI", Start + 4, CharacterCountBits("HANZI", symbol))
       ELSE Fail /\ UNCHANGED content

ReadSegment(mode) ==
  /\ Reading(mode) /\ ReadCounted(mode, Start, CharacterCountBits(mode, symbol))
  /\ UNCHANGED <<symbology, structuredAppend>>

Returned == pc \in {"done", "thrown"} /\ UNCHANGED vars

Next ==
  \/ Encode \/ PrintSymbol \/ CorrectErrors
  \/ EndOfStream \/ InvalidMode
  \/ ReadFNC1First \/ ReadFNC1Second \/ ReadStructuredAppend \/ ReadECI \/ ReadHanzi
  \/ \E mode \in {"NUMERIC", "ALPHANUMERIC", "BYTE", "KANJI"} : ReadSegment(mode)
  \/ Returned

Spec == Init /\ [][Next]_vars
-----------------------------------------------------------------------------
TypeOK ==
  /\ pc \in {"encode", "print", "blocks", "stream", "done", "thrown"}
  /\ input \in Inputs
  /\ Len(bytes) \in Nat /\ pos \in 0 .. 8 * Len(bytes)
  /\ C!InOrder(content)
  /\ symbology.modifier \in {0, 1, 3, 5} /\ symbology.aiFlag \in {None, "GS1", "AIM"}
  /\ error \in {None, "Format", "Checksum"}

(* The version that was chosen is the smallest that has room for the text, *)
(* or the one that was asked for (RecommendVersion: "I am still not sure   *)
(* this works in 100% of cases").                                          *)
SmallestVersion ==
  pc = "blocks" /\ input.kind = "text" /\ input.version \notin DOMAIN Model2 =>
    LET mode == ModeOf(input)
    IN  SmallestWithRoom(HeaderAndDataLength(input, mode), mode, input.level, symbol.number)

(* The blocks are the original ones (QRDataBlock.h: "This method will      *)
(* separate the data into original blocks").                               *)
OriginalBlocks ==
  pc = "blocks" =>
    LET blocks == GetDataBlocks(symbol, input.level)
    IN  \A j \in DOMAIN blocks : \A i \in DOMAIN blocks[j] :
          blocks[j][i] \in DOMAIN codewords /\ codewords[blocks[j][i]] = <<j, i>>

(* What a symbol means, told from its segments: those before the first     *)
(* with a fault, each in the encoding of the last ECI before it or, if     *)
(* there is no ECI in the symbol, in that of its mode.                     *)
Segments ==
  IF input.kind = "printed" THEN input.segments
  ELSE (IF NeedsECI(input, ModeOf(input))
          THEN <<Segment("ECI", <<ToECI[Charset(input)]>>, FALSE)>> ELSE <<>>)
       \o (IF input.gs1 THEN <<Segment("FNC1_FIRST_POSITION", <<>>, FALSE)>> ELSE <<>>)
       \o <<Segment(ModeOf(input), input.text, input.gs1)>>

Counted == {"NUMERIC", "ALPHANUMERIC", "BYTE", "KANJI", "HANZI"}
HasFault(segments, n) ==
  LET s == segments[n]
  IN  \/ s.mode = "BITS"
      \/ s.mode = "ECI" /\ symbol.type = "Model1"
      \/ /\ s.mode = "FNC1_SECOND_POSITION"
         /\ \/ ~IsIndicator(s.text[1])
            \/ \E k \in 1 .. n - 1 : segments[k].mode \in Counted \cup {s.mode}
Sound(segments) ==
  {n \in DOMAIN segments : \A k \in 1 .. n : ~HasFault(segments, k)}

SoundWith(segments, modes) == {n \in Sound(segments) : segments[n].mode \in modes}
LastOf(indices) == CHOOSE n \in indices : \A k \in indices : k <= n

MarkOf(segments, n) ==                       \* of what is written at place n
  LET ecis == SoundWith(segments, {"ECI"})
      ecisBefore == {k \in ecis : k < n}
      countedUpTo == {k \in SoundWith(segments, Counted) : k <= n}
  IN  CASE ecisBefore # {} -> segments[LastOf(ecisBefore)].text[1]
        [] ecis = {} /\ countedUpTo # {} ->
             ToECI[CharacterSetOf[segments[LastOf(countedUpTo)].mode]]
        [] OTHER -> -2

SaidIn(segments, n) ==
  CASE segments[n].mode \in Counted -> segments[n].text
    [] segments[n].mode = "FNC1_SECOND_POSITION" -> Indicator(segments[n].text[1])
    [] OTHER -> <<>>

Meaning(segments) ==
  LET sound == Sound(segments)
      fnc1 == SoundWith(segments, {"FNC1_FIRST_POSITION", "FNC1_SECOND_POSITION"})
      parts == SoundWith(segments, {"STRUCTURED_APPEND"})
      Marked(n) == [i \in DOMAIN SaidIn(segments, n) |->
                      <<SaidIn(segments, n)[i], MarkOf(segments, n)>>]
      text[n \in 0 .. Cardinality(sound)] ==
        IF n = 0 THEN <<>> ELSE text[n - 1] \o Marked(n)
  IN  [text |-> text[Cardinality(sound)],
       current |-> MarkOf(segments, Len(segments) + 1),
       eci |-> SoundWith(segments, {"ECI"}) # {},
       aiFlag |-> CASE fnc1 = {} -> None
                    [] OTHER -> IF segments[LastOf(fnc1)].mode = "FNC1_FIRST_POSITION"
                                THEN "GS1" ELSE "AIM",
       sai |-> IF parts = {} THEN NoStructuredAppend
               ELSE LET s == segments[LastOf(parts)]
                    IN  <<s.text[1], s.text[2] + 1, s.text[3]>>,
       error |-> IF sound = DOMAIN segments THEN None ELSE "Format"]

(* A symbol that is not cut off and whose blocks can be corrected is read  *)
(* as it was meant, whoever encoded it, in all its segments and with the   *)
(* same fault if one of them has one; what comes before stray bits or a    *)
(* cut is read.  Encode does not double the percent signs of a GS1 text.   *)
IsCut == 8 * Len(bytes) < Len(ConcatenatedBits(symbol, Segments))
EndsInBits == Segments[Len(Segments)].mode = "BITS"
HasPercent ==
  input.kind = "text" /\ input.gs1 /\ \E i \in DOMAIN input.text : input.text[i] = Percent

ReadAs(meaning, stream) ==
  CASE input.damage = "beyond" -> error = "Checksum"
    [] input.damage # "beyond" /\ (IsCut \/ EndsInBits) ->
         /\ error \in {None, "Format"}
         /\ \A i \in DOMAIN content.bytes \cap DOMAIN meaning.text :
              content.bytes[i] = meaning.text[i][1]
         /\ ~IsCut => Len(meaning.text) <= Len(content.bytes)
    [] OTHER ->
         meaning = [text |-> stream.text, current |-> stream.current, eci |-> stream.eci,
                    aiFlag |-> symbology.aiFlag, sai |-> structuredAppend, error |-> error]
ReadAsMeant ==
  pc = "done" /\ ~HasPercent => ReadAs(Meaning(Segments), C!StreamOf(content))

=============================================================================
