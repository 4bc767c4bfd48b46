----------------------------- MODULE QRBitStream -----------------------------
(***************************************************************************)
(* The segments of a QR Code as bits: what QREncoder.cpp appends for a     *)
(* text and what QRDecoder.cpp makes of the values it reads.  Bytes are    *)
(* numbers, a text is the sequence of its bytes in the character set of    *)
(* its segment (Shift_JIS in Kanji, GB18030 in Hanzi mode).                *)
(***************************************************************************)
EXTENDS QRVersions

Bits(value, n) == [i \in 1 .. n |-> (value \div 2^(n - i)) % 2]

(* Those with a code other than -1 in ALPHANUMERIC_TABLE, by their code.   *)
Alphanumeric ==
  [i \in 1 .. 10 |-> 47 + i] \o [i \in 1 .. 26 |-> 64 + i] \o
  <<32, 36, 37, 42, 43, 45, 46, 47, 58>>
DigitBytes == 48 .. 57
AlphanumericBytes == {Alphanumeric[i] : i \in 1 .. 45}
GetAlphanumericCode(b) ==
  CASE b \in DigitBytes -> b - 48
    [] b \in 65 .. 90 -> b - 55
    [] OTHER -> (CHOOSE i \in 37 .. 45 : Alphanumeric[i] = b) - 1

Percent == 37
GS == 29

IsOnlyDoubleByteKanji(text) ==
  /\ Len(text) % 2 = 0
  /\ \A i \in 1 .. Len(text) \div 2 : text[2 * i - 1] \in (129 .. 159) \cup (224 .. 235)

ChooseMode(text, charset) ==
  CASE charset = "Shift_JIS" /\ IsOnlyDoubleByteKanji(text) -> "KANJI"
    [] OTHER -> IF text = <<>> \/ \E i \in DOMAIN text : text[i] \notin AlphanumericBytes
                  THEN "BYTE"
                ELSE IF \E i \in DOMAIN text : text[i] \notin DigitBytes THEN "ALPHANUMERIC"
                ELSE "NUMERIC"

(* AppendKanjiBytes throws if the two bytes have no code.                  *)
HasKanjiCode(b, c) == 256 * b + c \in (33088 .. 40956) \cup (57408 .. 60351)
HaveKanjiCodes(text) ==
  \A i \in 1 .. Len(text) \div 2 : HasKanjiCode(text[2 * i - 1], text[2 * i])
-----------------------------------------------------------------------------
(* The groups of bytes that are packed together and their width.           *)
GroupSize == [NUMERIC |-> 3, ALPHANUMERIC |-> 2, BYTE |-> 1, KANJI |-> 2, HANZI |-> 2]
GroupBits(mode, size) ==
  CASE size = 0 -> 0
    [] size > 0 /\ mode = "NUMERIC" -> 3 * size + 1
    [] size > 0 /\ mode = "ALPHANUMERIC" -> 5 * size + 1
    [] size > 0 /\ mode = "BYTE" -> 8
    [] size > 0 /\ mode \in {"KANJI", "HANZI"} -> 13
DataBitsLength(mode, length) ==
  (length \div GroupSize[mode]) * GroupBits(mode, GroupSize[mode])
    + GroupBits(mode, length % GroupSize[mode])
NumLetters(mode, length) == IF mode \in {"KANJI", "HANZI"} THEN length \div 2 ELSE length
NumBytes(mode, letters) == IF mode \in {"KANJI", "HANZI"} THEN 2 * letters ELSE letters

Folded(digits, base) ==
  LET f[n \in 0 .. Len(digits)] == IF n = 0 THEN 0 ELSE base * f[n - 1] + digits[n]
  IN  f[Len(digits)]

Packed(mode, g) ==
  CASE mode = "NUMERIC" -> Folded([i \in DOMAIN g |-> g[i] - 48], 10)
    [] mode = "ALPHANUMERIC" -> Folded([i \in DOMAIN g |-> GetAlphanumericCode(g[i])], 45)
    [] mode = "BYTE" -> g[1]
    [] mode = "KANJI" -> (g[1] - (IF g[1] < 224 THEN 129 ELSE 193)) * 192 + g[2] - 64
    [] mode = "HANZI" -> (g[1] - (IF g[1] < 176 THEN 161 ELSE 166)) * 96 + g[2] - 161

(* AppendBytes, for all groups at once.                                    *)
DataBits(mode, text) ==
  LET size == GroupSize[mode]
      width == GroupBits(mode, size)
      Group(n) == SubSeq(text, (n - 1) * size + 1,
                         IF n * size < Len(text) THEN n * size ELSE Len(text))
      groups == [n \in 1 .. (Len(text) + size - 1) \div size |->
                   Bits(Packed(mode, Group(n)), GroupBits(mode, Len(Group(n))))]
  IN  [k \in 1 .. DataBitsLength(mode, Len(text)) |->
         groups[((k - 1) \div width) + 1][((k - 1) % width) + 1]]

(* Values no encoder writes: ToString(nDigits, n) throws, and so does .at. *)
IsValid(mode, value, size) ==
  /\ mode = "NUMERIC" => value < 10^size
  /\ mode = "ALPHANUMERIC" => value < 45^size

FromTwoBytes(value, base, last, low, high) ==
  LET assembled == (value \div base) * 256 + (value % base)
      code == assembled + (IF assembled < last THEN low ELSE high)
  IN  <<(code \div 256) % 256, code % 256>>

Unpacked(mode, value, size) ==
  CASE mode = "NUMERIC" -> [i \in 1 .. size |-> 48 + ((value \div 10^(size - i)) % 10)]
    [] mode = "ALPHANUMERIC" ->
         [i \in 1 .. size |-> Alphanumeric[((value \div 45^(size - i)) % 45) + 1]]
    [] mode = "BYTE" -> <<value>>
    [] mode = "KANJI" -> FromTwoBytes(value, 192, 7936, 33088, 49472)
    [] mode = "HANZI" -> FromTwoBytes(value, 96, 2560, 41377, 42657)

(* Next to an FNC1, %% stands for % and a single % for GS.                 *)
UndoublePercents(s) ==
  LET run[i \in 0 .. Len(s)] == IF i = 0 THEN 0
                                ELSE IF s[i] = Percent THEN run[i - 1] + 1 ELSE 0
      kept[i \in 0 .. Len(s)] ==
        IF i = 0 THEN <<>>
        ELSE IF run[i] % 2 = 0 THEN Append(kept[i - 1], s[i])
        ELSE IF i < Len(s) /\ s[i + 1] = Percent THEN kept[i - 1]
        ELSE Append(kept[i - 1], GS)
  IN  kept[Len(s)]

(* The AIM application indicator: two digits or a letter.                  *)
IsIndicator(n) == n < 100 \/ n \in (165 .. 190) \cup (197 .. 222)
Indicator(n) == IF n < 100 THEN <<48 + (n \div 10), 48 + (n % 10)>> ELSE <<n - 100>>
-----------------------------------------------------------------------------
(* What a symbol says: a sequence of segments as they are printed.         *)
ECIBits(value) ==
  CASE value <= 127 -> Bits(value, 8)
    [] 127 < value /\ value <= 16383 -> Bits(32768 + value, 16)
    [] 16383 < value -> <<1, 1, 0>> \o Bits(value, 21)

DoubledPercents(text) ==
  LET f[n \in 0 .. Len(text)] ==
        IF n = 0 THEN <<>>
        ELSE f[n - 1] \o CASE text[n] = GS -> <<Percent>>
                           [] text[n] = Percent -> <<Percent, Percent>>
                           [] OTHER -> <<text[n]>>
  IN  f[Len(text)]

ModeBits(v, mode) == Bits(ModesOf(v.type)[mode], CodecModeBitsLength(v))
SegmentBits(v, segment) ==
  LET mode == segment.mode
      written == IF segment.fnc1 /\ mode = "ALPHANUMERIC"
                   THEN DoubledPercents(segment.text) ELSE segment.text
  IN  CASE mode = "BITS" -> segment.text
        [] mode = "ECI" -> ModeBits(v, mode) \o ECIBits(segment.text[1])
        [] mode = "FNC1_FIRST_POSITION" -> ModeBits(v, mode)
        [] mode = "FNC1_SECOND_POSITION" -> ModeBits(v, mode) \o Bits(segment.text[1], 8)
        [] mode = "STRUCTURED_APPEND" ->
             ModeBits(v, mode) \o Bits(segment.text[1], 4) \o Bits(segment.text[2], 4)
                               \o Bits(segment.text[3], 8)
        [] OTHER -> ModeBits(v, mode) \o (IF mode = "HANZI" THEN Bits(1, 4) ELSE <<>>)
                      \o Bits(NumLetters(mode, Len(written)), CharacterCountBits(mode, v))
                      \o DataBits(mode, written)
=============================================================================
