----------------------------- MODULE LinearCodes -----------------------------
(***************************************************************************)
(* Linear symbols from the text to the characters of the symbol and back:  *)
(* writers and row readers of Code 128, Code 39, Code 93, Codabar, ITF and *)
(* UPC/EAN (oned/OD*Writer.cpp, OD*Reader.cpp).                            *)
(*                                                                         *)
(* A character of a symbol is its place in the table of patterns; widths   *)
(* and their matching are left out, and so is white space: an end of       *)
(* symbol counts only at the end, where a quiet zone follows.  A text is   *)
(* the sequence of its code points.                                        *)
(*                                                                         *)
(* An input is a text for a writer or a symbol that some other encoder     *)
(* made, of which one character may be misread, and the options of the     *)
(* reader.                                                                 *)
(***************************************************************************)
EXTENDS Integers, Sequences, FiniteSets

LOCAL INSTANCE Functions
LOCAL INSTANCE SequencesExt

CONSTANT Inputs

Formats == {"Code128", "Code39Std", "Code39Ext", "Code32", "PZN", "Code93", "Codabar", "ITF",
            "EAN13", "UPCA", "EAN8", "UPCE"}

ASSUME InputsAssumption ==
  \A in \in Inputs :
    /\ in.kind \in {"text", "symbol"}
    /\ in.formats \subseteq Formats /\ in.checksum \in BOOLEAN
    /\ in.addOns \in {"Ignore", "Read", "Require"}
    /\ in.text \in Seq(0 .. 255)

(* The symbol is its characters and those of an add-on, enc the state of   *)
(* Code128Writer::encode, raw that of Raw2TxtDecoder and at the characters *)
(* it was given, result what the reader returns.                           *)
VARIABLES pc, input, symbol, enc, raw, at, result
vars == <<pc, input, symbol, enc, raw, at, result>>

Nothing == [format |-> "None", text |-> <<>>, modifier |-> 0, error |-> "none", readerInit |-> FALSE,
            addOn |-> <<>>]
NoSymbol == [symbology |-> "None", codes |-> <<>>, addOn |-> <<>>]

Sum(f) == FoldFunction(+, 0, f)
IndexOf(s, c) == IF \E i \in DOMAIN s : s[i] = c THEN (CHOOSE i \in DOMAIN s : s[i] = c) - 1 ELSE -1
Has(c, s) == \E i \in DOMAIN s : s[i] = c
Bit(w, k) == (w \div 2 ^ k) % 2
Drop(s, n) == SubSeq(s, 1, Len(s) - n)

Digit == 48 .. 57
Upper == 65 .. 90
Lower == 97 .. 122
DigitsAndLetters == [i \in 1 .. 36 |-> IF i <= 10 THEN 47 + i ELSE 54 + i]

-----------------------------------------------------------------------------
(* Code 128.  A code set is the code that switches to it.                  *)
A == 101
B == 100
C == 99
Shift == 98
FNC1 == 102
FNC2 == 97
FNC3 == 96
StartOf(set) == 204 - set
Stop128 == 106
EscapeFNC1 == 241
EscapeFNC4 == 244
Escapes == EscapeFNC1 .. EscapeFNC4

FindCType(text, start) ==
  CASE start > Len(text) -> "uncodable"
    [] start <= Len(text) /\ text[start] = EscapeFNC1 -> "FNC1"
    [] start <= Len(text) /\ text[start] \in Digit ->
         IF start < Len(text) /\ text[start + 1] \in Digit THEN "two" ELSE "one"
    [] OTHER -> "uncodable"

(* What follows the pairs of digits at start.                              *)
RECURSIVE AfterPairs(_, _)
AfterPairs(text, start) ==
  IF FindCType(text, start) = "two" THEN AfterPairs(text, start + 2) ELSE FindCType(text, start)

WorthSwitchingToC(text, start) ==
  CASE FindCType(text, start + 2) = "two" -> AfterPairs(text, start + 4) # "one"
    [] FindCType(text, start + 2) = "FNC1" -> FindCType(text, start + 3) = "two"
    [] OTHER -> FALSE

ChooseCode(text, start, old) ==
  LET type == FindCType(text, start)
      c == text[start]
  IN CASE type = "one" -> IF old = A THEN A ELSE B
       [] type = "uncodable" ->
            IF c < 32 \/ (old = A /\ (c < 96 \/ c \in Escapes)) THEN A ELSE B
       [] type = "FNC1" /\ old # 0 -> old
       [] type = "FNC1" /\ old = 0 -> IF FindCType(text, start + 1) = "two" THEN C ELSE B
       [] type = "two" -> IF old = B /\ ~WorthSwitchingToC(text, start) THEN B ELSE C

CodeOf(text, position, set) ==
  LET c == text[position]
  IN CASE c = EscapeFNC1 -> FNC1
       [] c = EscapeFNC1 + 1 -> FNC2
       [] c = EscapeFNC1 + 2 -> FNC3
       [] c = EscapeFNC4 -> set
       [] c \notin Escapes /\ set = C -> 10 * (c - 48) + text[position + 1] - 48
       [] c \notin Escapes /\ set # C -> IF set = A /\ c < 32 THEN c + 64 ELSE c - 32

Accepted128(text) == Len(text) \in 1 .. 80 /\ \A i \in DOMAIN text : text[i] <= 127 \/ text[i] \in Escapes

Started128 == [set |-> 0, position |-> 1, sum |-> 0, weight |-> 1]

(* fnc1 of Raw2TxtDecoder.                                                 *)
Digits2(n) == <<48 + (n \div 10), 48 + (n % 10)>>
ApplicationIndicator(txt, inC) ==
  IF inC THEN Len(txt) = 2 /\ \A i \in 1 .. 2 : txt[i] \in Digit
         ELSE Len(txt) = 1 /\ txt[1] \in Upper \cup Lower
FunctionCharacter1(r) ==
  CASE r.txt = <<>> -> [r EXCEPT !.modifier = 1]
    [] r.txt # <<>> /\ ApplicationIndicator(r.txt, r.set = C) -> [r EXCEPT !.modifier = 2]
    [] OTHER -> [r EXCEPT !.txt = Append(@, 29)]

Other(set) == IF set = A THEN B ELSE A
(* mutant: the high half of the set stays after an FNC4.                   *)
CharacterStaysHigh(r, code) ==
  LET high == IF r.fnc4All = r.fnc4Next THEN 0 ELSE 128
      c == IF r.set = A /\ code >= 64 THEN code - 64 ELSE code + 32
  IN [r EXCEPT !.txt = Append(@, c + high)]

Character128(r, code) ==
  LET high == IF r.fnc4All = r.fnc4Next THEN 0 ELSE 128
      c == IF r.set = A /\ code >= 64 THEN code - 64 ELSE code + 32
  IN [r EXCEPT !.txt = Append(@, c + high), !.fnc4Next = FALSE]

CodeInAOrB(r, code) ==
  CASE code = FNC1 -> FunctionCharacter1(r)
    [] code = FNC2 -> r
    [] code = FNC3 -> [r EXCEPT !.readerInit = TRUE]
    [] code = Shift -> [r EXCEPT !.shift = TRUE, !.set = Other(@)]
    [] code \in {A, B} /\ r.set = code ->
         [r EXCEPT !.fnc4All = IF r.fnc4Next THEN ~@ ELSE @, !.fnc4Next = ~@]
    [] code \in {A, B} /\ r.set # code -> [r EXCEPT !.set = code]
    [] code = C -> [r EXCEPT !.set = C]
    [] code < 96 -> Character128(r, code)
Unshifted(r) == [r EXCEPT !.set = Other(@), !.shift = FALSE]

(* Raw2TxtDecoder::decode.                                                 *)
Decoded128(r0, code) ==
  LET r == [r0 EXCEPT !.last = Len(r0.txt)]
  IN CASE r.set = C /\ code < 100 -> [r EXCEPT !.txt = @ \o Digits2(code)]
       [] r.set = C /\ code = FNC1 -> FunctionCharacter1(r)
       [] r.set = C /\ code \in {A, B} -> [r EXCEPT !.set = code]
       [] r.set # C -> IF r.shift THEN Unshifted(CodeInAOrB(r, code)) ELSE CodeInAOrB(r, code)

Raw(start) ==
  [set |-> StartOf(start), txt |-> <<>>, last |-> 0, fnc4All |-> FALSE, fnc4Next |-> FALSE, shift |-> FALSE,
   modifier |-> 0, readerInit |-> FALSE]

Checksum128(codes) ==      \* of the start code and what follows it, without checksum and stop
  (codes[1] + Sum([i \in 1 .. Len(codes) - 1 |-> i * codes[i + 1]])) % 103

-----------------------------------------------------------------------------
(* Code 39 and Code 93: characters of ASCII that are not of the alphabet   *)
(* are pairs of a shift and a letter.                                      *)
(* Searched to the terminator of the string, which a character 0 equals:   *)
(* the word drawn for it is what follows the table of encodings.           *)
Alphabet39Writer == DigitsAndLetters \o <<45, 46, 32, 42, 36, 47, 43, 37, 0>>
Alphabet39 == DigitsAndLetters \o <<45, 46, 32, 36, 47, 43, 37, 42>>
Encodings39ToZ ==
  <<\h034, \h121, \h061, \h160, \h031, \h130, \h070, \h025, \h124, \h064, \h109, \h049, \h148,
    \h019, \h118, \h058, \h00D, \h10C, \h04C, \h01C, \h103, \h043, \h142, \h013, \h112, \h052,
    \h007, \h106, \h046, \h016, \h181, \h0C1, \h1C0, \h091, \h190, \h0D0>>
Encodings39Writer == Encodings39ToZ \o <<\h085, \h184, \h0C4, \h094, \h0A8, \h0A2, \h08A, \h02A>>
Encodings39 == Encodings39ToZ \o <<\h085, \h184, \h0C4, \h0A8, \h0A2, \h08A, \h02A, \h094>>
BeyondTable == {0, Encodings39ToZ[1]}
Asterisk == 42
Asterisk39 == Encodings39Writer[40]

Shifts39 == <<36, 37, 47, 43>>          \* $ % / +
Shifts93 == <<97, 98, 99, 100>>         \* a b c d, dummies for ($) (%) (/) (+)
Alphabet93 == DigitsAndLetters \o <<45, 46, 32, 36, 47, 43, 37>> \o Shifts93 \o <<42>>

Shifted(shifts, c) ==
  CASE c = 0 -> <<shifts[2], 85>>
    [] c \in 1 .. 26 -> <<shifts[1], c + 64>>
    [] c \in 27 .. 31 -> <<shifts[2], c + 38>>
    [] c \in 33 .. 58 -> <<shifts[3], c + 32>>
    [] c \in 59 .. 63 -> <<shifts[2], c + 11>>
    [] c = 64 -> <<shifts[2], 86>>
    [] c \in 91 .. 95 -> <<shifts[2], c - 16>>
    [] c = 96 -> <<shifts[2], 87>>
    [] c \in 97 .. 122 -> <<shifts[4], c - 32>>
    [] c \in 123 .. 127 -> <<shifts[2], c - 43>>
Plain39 == Digit \cup Upper \cup {32, 45, 46}
Plain93 == Plain39 \cup {36, 37, 43, 47}
Extended(shifts, plain, text) ==
  FlattenSeq([i \in DOMAIN text |-> IF text[i] \in plain THEN <<text[i]>> ELSE Shifted(shifts, text[i])])

Standard39(text) == \A i \in DOMAIN text : Has(text[i], Alphabet39Writer)
TryToConvertToExtendedMode(text) ==
  IF Standard39(text) THEN text ELSE Extended(Shifts39, Plain39, text)
Encode39(text, beyond) ==
  LET t == TryToConvertToExtendedMode(text)
      words == Append(Encodings39Writer, beyond)
  IN <<Asterisk39>> \o [i \in DOMAIN t |-> words[IndexOf(Alphabet39Writer, t[i]) + 1]] \o <<Asterisk39>>
Accepted39(text) ==
  /\ Len(text) \in 1 .. 80
  /\ ~Standard39(text) => (\A i \in DOMAIN text : text[i] < 128) /\ Len(TryToConvertToExtendedMode(text)) <= 80

(* ComputeChecksumIndex and CheckOneChecksum, of indexes in the alphabet.  *)
Checksum93(codes, weightMax) ==
  Sum([i \in DOMAIN codes |-> (((Len(codes) - i) % weightMax) + 1) * codes[i]]) % 47
Encode93(text) ==
  LET t == Extended(Shifts93, Plain93, text)
      codes == [i \in DOMAIN t |-> IndexOf(Alphabet93, t[i])]
      once == Append(codes, Checksum93(codes, 20))
  IN <<47>> \o Append(once, Checksum93(once, 15)) \o <<47>>
Accepted93(text) ==
  (\A i \in DOMAIN text : text[i] < 128) /\ Len(Extended(Shifts93, Plain93, text)) \in 1 .. 80

PercentMapping(n) ==
  CASE n \in 65 .. 69 -> n - 38
    [] n \in 70 .. 74 -> n - 11
    [] n \in 75 .. 79 -> n + 16
    [] n \in 80 .. 84 -> n + 43
    [] n = 85 -> 0 [] n = 86 -> 64 [] n = 87 -> 96
    [] n \in 88 .. 90 -> 127
Unshift(shifts, shift, n) ==
  CASE shift = shifts[1] -> n - 64
    [] shift = shifts[2] -> PercentMapping(n)
    [] shift = shifts[3] -> n - 32
    [] shift = shifts[4] -> n + 32
(* DecodeCode39AndCode93FullASCII; <<>> if a shift is not followed by a    *)
(* letter.                                                                 *)
DecodeFullASCII(text, shifts) ==
  LET Broken(i) == Has(text[i], shifts) /\ (i = Len(text) \/ text[i + 1] \notin Upper)
      from[i \in 1 .. Len(text) + 2] ==
        IF i > Len(text) THEN <<>>
        ELSE IF Has(text[i], shifts) THEN <<Unshift(shifts, text[i], text[i + 1])>> \o from[i + 2]
        ELSE <<text[i]>> \o from[i + 1]
  IN IF \E i \in DOMAIN text : Broken(i) THEN <<>> ELSE from[1]

Ended(codes, guard) ==     \* a guard that is not the last one has no quiet zone after it
  /\ codes[1] = guard /\ codes[Len(codes)] = guard
  /\ \A i \in 2 .. Len(codes) - 1 : codes[i] # guard
Inner(codes) == SubSeq(codes, 2, Len(codes) - 1)

Tabella == SelectSeq(DigitsAndLetters, LAMBDA c : c \notin {65, 69, 73, 79})
(* Nine digits and a check digit in six characters of base 32.             *)
DecodeCode32(txt) ==
  LET value == FoldLeft(LAMBDA acc, c : 32 * acc + IndexOf(Tabella, c), 0, txt)
      digit == [i \in 1 .. 9 |-> (value \div 10 ^ (9 - i)) % 10]
      Doubled(d) == ((2 * d) % 10) + (IF d >= 5 THEN 1 ELSE 0)
  IN IF /\ Len(txt) = 6 /\ \A i \in DOMAIN txt : Has(txt[i], Tabella)
        /\ value < 1000000000
        /\ Sum([i \in 1 .. 8 |-> IF i % 2 = 1 THEN digit[i] ELSE Doubled(digit[i])]) % 10 = digit[9]
     THEN <<65>> \o [i \in 1 .. 9 |-> 48 + digit[i]] ELSE <<>>
IsPZN(txt) ==
  /\ Len(txt) = 9 /\ txt[1] = 45 /\ \A i \in 2 .. 9 : txt[i] \in Digit
  /\ Sum([i \in 1 .. 7 |-> i * (txt[i + 1] - 48)]) % 11 = txt[9] - 48

(* Code39Reader::decodePattern after the stop character.                   *)
Interpret39(in, txt) ==
  LET last == txt[Len(txt)]
      valid == last = Alphabet39[(Sum([i \in 1 .. Len(txt) - 1 |-> IndexOf(Alphabet39, txt[i])]) % 43) + 1]
      body == IF valid THEN Drop(txt, 1) ELSE txt
      full == IF "Code39Ext" \in in.formats /\ \E i \in DOMAIN body : Has(body[i], Shifts39)
              THEN DecodeFullASCII(body, Shifts39) ELSE <<>>
  IN [Nothing EXCEPT
       !.format = IF full # <<>> THEN "Code39Ext" ELSE IF "Code39Std" \in in.formats THEN "Code39" ELSE "None",
       !.text = (IF full # <<>> THEN full ELSE body) \o (IF valid THEN <<last>> ELSE <<>>),
       !.modifier = (IF valid THEN 1 ELSE 0) + (IF full # <<>> THEN 4 ELSE 0),
       !.error = IF in.checksum /\ ~valid THEN "Checksum" ELSE "none"]
Read39(in, codes) ==
  LET txt == [i \in 1 .. Len(codes) - 2 |-> Alphabet39[IndexOf(Encodings39, codes[i + 1]) + 1]]
  IN IF \/ ~Ended(codes, Asterisk39) \/ \E i \in DOMAIN codes : ~Has(codes[i], Encodings39)
        \/ Len(txt) < (IF in.checksum THEN 2 ELSE 1)
     THEN Nothing
     ELSE IF "PZN" \in in.formats /\ IsPZN(txt) THEN [Nothing EXCEPT !.format = "PZN", !.text = txt]
     ELSE IF "Code32" \in in.formats /\ DecodeCode32(txt) # <<>>
       THEN [Nothing EXCEPT !.format = "Code32", !.text = DecodeCode32(txt)]
     ELSE Interpret39(in, txt)

Read93(codes) ==
  LET data == Drop(Inner(codes), 2)
      valid == /\ Checksum93(data, 20) = codes[Len(codes) - 2]
               /\ Checksum93(SubSeq(codes, 2, Len(codes) - 2), 15) = codes[Len(codes) - 1]
      encoded == [i \in DOMAIN data |-> Alphabet93[data[i] + 1]]
      full == DecodeFullASCII(encoded, Shifts93)
  IN IF ~Ended(codes, 47) \/ Len(codes) - 2 < 3 THEN Nothing
     ELSE [Nothing EXCEPT
            !.format = "Code93", !.text = IF valid THEN full ELSE encoded,
            !.error = CASE ~valid -> "Checksum" [] valid /\ full = <<>> -> "Format" [] OTHER -> "none"]

-----------------------------------------------------------------------------
(* Codabar and ITF.                                                        *)
AlphabetCodabar == SubSeq(DigitsAndLetters, 1, 10) \o <<45, 36, 58, 47, 46, 43, 65, 66, 67, 68>>
Guards == 65 .. 68
AltGuards == <<84, 78, 42, 69>>          \* T N * E
Guarded(text) ==
  LET Normal(c) == IF Has(c, AltGuards) THEN 65 + IndexOf(AltGuards, c) ELSE c
  IN IF Len(text) >= 2 /\ (text[1] \in Guards \/ Has(text[1], AltGuards))
     THEN [text EXCEPT ![1] = Normal(@), ![Len(text)] = Normal(@)]
     ELSE <<65>> \o text \o <<65>>
AcceptedCodabar(text) ==
  LET last == text[Len(text)]
  IN /\ text # <<>>
     /\ Len(text) >= 2 =>
          CASE text[1] \in Guards -> last \in Guards
            [] Has(text[1], AltGuards) -> Has(last, AltGuards)
            [] OTHER -> last \notin Guards /\ ~Has(last, AltGuards)
     /\ \A i \in 2 .. Len(Guarded(text)) - 1 :
          Guarded(text)[i] \notin Guards /\ Has(Guarded(text)[i], AlphabetCodabar)
EncodeCodabar(text) == [i \in DOMAIN Guarded(text) |-> IndexOf(AlphabetCodabar, Guarded(text)[i])]
ReadCodabar(codes) ==
  IF /\ codes[1] >= 16 /\ codes[Len(codes)] >= 16 /\ Len(codes) >= 4
     /\ \A i \in 2 .. Len(codes) - 1 : codes[i] < 16
  THEN [Nothing EXCEPT !.format = "Codabar", !.text = [i \in DOMAIN codes |-> AlphabetCodabar[codes[i] + 1]]]
  ELSE Nothing

(* A character of ITF is the wide ones of five bars and of five spaces.    *)
WideOfDigit == <<{3, 4}, {1, 5}, {2, 5}, {1, 2}, {3, 5}, {1, 3}, {2, 3}, {4, 5}, {1, 4}, {2, 4}>>
Weights == <<1, 2, 4, 7, 0>>
EncodeITF(text) ==
  [i \in 1 .. Len(text) \div 2 |-> <<WideOfDigit[text[2 * i - 1] - 47], WideOfDigit[text[2 * i] - 47]>>]
AcceptedITF(text) == Len(text) \in 1 .. 80 /\ Len(text) % 2 = 0 /\ \A i \in DOMAIN text : text[i] \in Digit

(* GTIN::ComputeCheckDigit of a sequence of digits.                        *)
ComputeCheckDigit(digits) ==
  (10 - (Sum([i \in DOMAIN digits |-> IF (Len(digits) - i) % 2 = 0 THEN 3 * digits[i] ELSE digits[i]]) % 10)) % 10
IsCheckDigitValid(digits) == ComputeCheckDigit(Drop(digits, 1)) = digits[Len(digits)]

ReadITF(in, codes) ==
  LET Value(wide) == LET v == Sum([k \in wide |-> Weights[k]]) IN IF v = 11 THEN 0 ELSE v
      digits == FlattenSeq([i \in DOMAIN codes |-> <<Value(codes[i][1]), Value(codes[i][2])>>])
  IN IF \/ \E i \in DOMAIN codes : Cardinality(codes[i][1]) # 2 \/ Cardinality(codes[i][2]) # 2
        \/ Len(digits) < (IF Cardinality(in.formats) = 1 THEN 4 ELSE 6)
     THEN Nothing
     ELSE [Nothing EXCEPT
            !.format = "ITF", !.text = [i \in DOMAIN digits |-> 48 + digits[i]],
            !.modifier = IF IsCheckDigitValid(digits) THEN 1 ELSE 0,
            !.error = IF in.checksum /\ ~IsCheckDigitValid(digits) THEN "Checksum" ELSE "none"]

-----------------------------------------------------------------------------
(* UPC/EAN.  A character is a digit in odd parity, or 10 more in even      *)
(* parity; the parities carry a first digit, a number system or a check.   *)
FirstDigitEncodings == <<\h00, \h0B, \h0D, \h0E, \h13, \h19, \h1C, \h15, \h16, \h1A>>
NumsysAndCheckDigitPatterns ==
  <<\h38, \h34, \h32, \h31, \h2C, \h26, \h23, \h2A, \h29, \h25,
    \h07, \h0B, \h0D, \h0E, \h13, \h19, \h1C, \h15, \h16, \h1A>>
CheckDigitEncodings == <<\h18, \h14, \h12, \h11, \h0C, \h06, \h03, \h0A, \h09, \h05>>
DigitsOf(text) == [i \in DOMAIN text |-> text[i] - 48]
TextOf(digits) == [i \in DOMAIN digits |-> 48 + digits[i]]
WithParities(digits, parities) ==
  [i \in DOMAIN digits |-> digits[i] + 10 * Bit(parities, Len(digits) - i)]
LGPattern(codes) ==
  Sum([i \in DOMAIN codes |-> IF codes[i] >= 10 THEN 2 ^ (Len(codes) - i) ELSE 0])
Values(codes) == [i \in DOMAIN codes |-> codes[i] % 10]

(* DigitString2IntArray; <<>> if it throws.                                *)
WithCheckDigit(text, n, check) ==
  LET digits == DigitsOf(text)
  IN CASE \E i \in DOMAIN text : text[i] \notin Digit -> <<>>
       [] (\A i \in DOMAIN text : text[i] \in Digit) /\ Len(text) = n - 1 -> Append(digits, check)
       [] (\A i \in DOMAIN text : text[i] \in Digit) /\ Len(text) = n /\ digits[n] = check -> digits
       [] OTHER -> <<>>
Main(digits, n) == SubSeq(digits, 1, n - 1)

(* The expansion of a number system, six digits and possibly a check digit *)
(* to eleven digits and the same check digit.                              *)
ConvertUPCEtoUPCA(upce) ==
  LET d == SubSeq(upce, 2, 7)
      Zeros(n) == [i \in 1 .. n |-> 0]
      expanded ==
        CASE d[6] \in 0 .. 2 -> SubSeq(d, 1, 2) \o <<d[6]>> \o Zeros(4) \o SubSeq(d, 3, 5)
          [] d[6] = 3 -> SubSeq(d, 1, 3) \o Zeros(5) \o SubSeq(d, 4, 5)
          [] d[6] = 4 -> SubSeq(d, 1, 4) \o Zeros(5) \o <<d[5]>>
          [] d[6] \in 5 .. 9 -> SubSeq(d, 1, 5) \o Zeros(4) \o <<d[6]>>
  IN <<upce[1]>> \o expanded \o SubSeq(upce, 8, Len(upce))

(* All digits of a text of the format, or <<>> if its writer throws.       *)
UPCEANDigits(format, text) ==
  LET digits == DigitsOf(text)
      Complete(t, n) == IF Len(t) \in {n - 1, n}
                        THEN WithCheckDigit(t, n, ComputeCheckDigit(Main(DigitsOf(t), n))) ELSE <<>>
  IN CASE format = "EAN13" -> Complete(text, 13)
       [] format = "UPCA" -> IF Len(text) \in {11, 12} THEN Complete(<<48>> \o text, 13) ELSE <<>>
       [] format = "EAN8" -> Complete(text, 8)
       [] format = "UPCE" ->
            IF Len(text) \in {7, 8} /\ \A i \in DOMAIN text : text[i] \in Digit
            THEN LET check == ComputeCheckDigit(ConvertUPCEtoUPCA(SubSeq(digits, 1, 7)))
                 IN IF digits[1] \in {0, 1} THEN WithCheckDigit(text, 8, check) ELSE <<>>
            ELSE <<>>
EncodeUPCEAN(format, d) ==
  CASE format \in {"EAN13", "UPCA"} ->
         WithParities(SubSeq(d, 2, 7), FirstDigitEncodings[d[1] + 1]) \o SubSeq(d, 8, 13)
    [] format = "EAN8" -> d
    [] format = "UPCE" -> WithParities(SubSeq(d, 2, 7), NumsysAndCheckDigitPatterns[10 * d[1] + d[8] + 1])

(* EAN13(), EAN8() and UPCE() of the reader; <<>> if they fail.            *)
PartialResult(symbology, codes) ==
  CASE symbology = "EAN13" ->
         LET first == IndexOf(FirstDigitEncodings, LGPattern(SubSeq(codes, 1, 6)))
         IN IF first >= 0 /\ \A i \in 7 .. 12 : codes[i] < 10 THEN <<first>> \o Values(codes) ELSE <<>>
    [] symbology = "EAN8" -> IF \A i \in DOMAIN codes : codes[i] < 10 THEN codes ELSE <<>>
    [] symbology = "UPCE" ->
         LET i == IndexOf(NumsysAndCheckDigitPatterns, LGPattern(codes))
         IN IF i >= 0 THEN <<i \div 10>> \o Values(codes) \o <<i % 10>> ELSE <<>>

Ean5Checksum(d) == (3 * (d[1] + d[3] + d[5]) + 9 * (d[2] + d[4])) % 10
(* mutant: the parity of an add-on of five digits is not compared.         *)
AddOnWithoutParity(codes) ==
  LET d == Values(codes)
  IN IF Len(codes) = 2 THEN (10 * d[1] + d[2]) % 4 = LGPattern(codes) ELSE Len(codes) = 5

AddOn(codes) ==
  LET d == Values(codes)
  IN CASE Len(codes) = 2 -> (10 * d[1] + d[2]) % 4 = LGPattern(codes)
       [] Len(codes) = 5 -> Ean5Checksum(d) = IndexOf(CheckDigitEncodings, LGPattern(codes))
       [] OTHER -> FALSE

(* MultiUPCEANReader::decodePattern.                                       *)
UPCEANFormat(in, symbology, digits) ==
  CASE symbology # "EAN13" -> IF symbology \in in.formats THEN symbology ELSE "None"
    [] symbology = "EAN13" /\ "EAN13" \in in.formats -> "EAN13"
    [] OTHER -> IF "UPCA" \in in.formats /\ digits[1] = 0 THEN "UPCA" ELSE "None"
ReadUPCEAN(in, symbology, codes, addOn) ==
  LET read == PartialResult(symbology, codes)
      digits == IF symbology = "UPCE" THEN <<0>> \o ConvertUPCEtoUPCA(read) ELSE read
      format == UPCEANFormat(in, symbology, digits)
      added == in.addOns # "Ignore" /\ AddOn(addOn)
  IN IF read = <<>> THEN Nothing
     ELSE IF format = "None" \/ (in.addOns = "Require" /\ ~added) THEN Nothing
     ELSE [Nothing EXCEPT
            !.format = format,
            !.text = TextOf(digits) \o (IF added THEN TextOf(Values(addOn)) ELSE <<>>),
            !.modifier = IF added THEN 3 ELSE IF format = "EAN8" THEN 4 ELSE 0,
            !.error = IF IsCheckDigitValid(digits) THEN "none" ELSE "Checksum",
            !.addOn = IF in.addOns = "Ignore" THEN <<>> ELSE TextOf(Values(addOn))]

-----------------------------------------------------------------------------
(* The writers, by the format of the text.                                 *)
Symbology(format) == CASE format \in {"Code39Std", "Code39Ext"} -> "Code39" [] format = "UPCA" -> "EAN13" [] OTHER -> format
Accepted(in) ==
  CASE in.format = "Code128" -> Accepted128(in.text)
    [] in.format \in {"Code39Std", "Code39Ext"} -> Accepted39(in.text)
    [] in.format = "Code93" -> Accepted93(in.text)
    [] in.format = "Codabar" -> AcceptedCodabar(in.text)
    [] in.format = "ITF" -> AcceptedITF(in.text)
    [] OTHER -> UPCEANDigits(in.format, in.text) # <<>>
Encoded(in, beyond) ==
  CASE in.format \in {"Code39Std", "Code39Ext"} -> Encode39(in.text, beyond)
    [] in.format = "Code93" -> Encode93(in.text)
    [] in.format = "Codabar" -> EncodeCodabar(in.text)
    [] in.format = "ITF" -> EncodeITF(in.text)
    [] OTHER -> EncodeUPCEAN(in.format, UPCEANDigits(in.format, in.text))

Init ==
  /\ pc = "write" /\ input \in Inputs
  /\ symbol = NoSymbol /\ enc = Started128 /\ raw = Raw(StartOf(C)) /\ at = 1 /\ result = Nothing

Refuse ==
  /\ pc = "write" /\ input.kind = "text" /\ ~Accepted(input)
  /\ pc' = "thrown"
  /\ UNCHANGED <<input, symbol, enc, raw, at, result>>

Write ==
  /\ pc = "write" /\ input.kind = "text" /\ input.format # "Code128" /\ Accepted(input)
  /\ \E beyond \in BeyondTable :
       symbol' = [NoSymbol EXCEPT !.symbology = Symbology(input.format), !.codes = Encoded(input, beyond)]
  /\ pc' = "seen"
  /\ UNCHANGED <<input, enc, raw, at, result>>

(* Some other encoder makes the symbol.                                    *)
PrintSymbol ==
  /\ pc = "write" /\ input.kind = "symbol"
  /\ symbol' = input.symbol
  /\ pc' = "seen"
  /\ UNCHANGED <<input, enc, raw, at, result>>

Begin128 ==
  /\ pc = "write" /\ input.kind = "text" /\ input.format = "Code128" /\ Accepted(input)
  /\ symbol' = [NoSymbol EXCEPT !.symbology = "Code128"]
  /\ pc' = "encode"
  /\ UNCHANGED <<input, enc, raw, at, result>>

(* The end of a round of the loop of Code128Writer::encode.                *)
AppendCode(code, set, position) ==
  /\ symbol' = [symbol EXCEPT !.codes = Append(@, code)]
  /\ enc' = [set |-> set, position |-> position, sum |-> enc.sum + enc.weight * code,
             weight |-> IF position # 1 THEN enc.weight + 1 ELSE enc.weight]
  /\ UNCHANGED <<pc, input, raw, at, result>>

NewCodeSet == ChooseCode(input.text, enc.position, enc.set)
SwitchCodeSet ==
  /\ pc = "encode" /\ enc.position <= Len(input.text)
  /\ NewCodeSet # enc.set
  /\ AppendCode(IF enc.set = 0 THEN StartOf(NewCodeSet) ELSE NewCodeSet, NewCodeSet, enc.position)

EncodeCharacter ==
  /\ pc = "encode" /\ enc.position <= Len(input.text)
  /\ NewCodeSet = enc.set
  /\ AppendCode(CodeOf(input.text, enc.position, enc.set), enc.set,
                enc.position + (IF enc.set = C /\ input.text[enc.position] # EscapeFNC1 THEN 2 ELSE 1))

EndSymbol128 ==
  /\ pc = "encode" /\ enc.position > Len(input.text)
  /\ symbol' = [symbol EXCEPT !.codes = @ \o <<enc.sum % 103, Stop128>>]
  /\ pc' = "seen"
  /\ UNCHANGED <<input, enc, raw, at, result>>

(* The symbol as it is seen, with at most one character misread, the ones  *)
(* of the add-on counted after the others.                                 *)
Misread(s, wrong) ==
  CASE wrong = <<>> -> s
    [] wrong # <<>> /\ wrong[1] <= Len(s.codes) -> [s EXCEPT !.codes[wrong[1]] = wrong[2]]
    [] OTHER -> [s EXCEPT !.addOn[wrong[1] - Len(s.codes)] = wrong[2]]
See ==
  /\ pc = "seen"
  /\ symbol' = Misread(symbol, input.wrong)
  /\ pc' = "read"
  /\ UNCHANGED <<input, enc, raw, at, result>>

Done(r) ==
  /\ result' = r
  /\ pc' = "done"
  /\ UNCHANGED <<input, symbol, enc>>

Read ==
  /\ pc = "read" /\ symbol.symbology # "Code128"
  /\ Done(CASE symbol.symbology = "Code39" -> Read39(input, symbol.codes)
            [] symbol.symbology = "Code93" -> Read93(symbol.codes)
            [] symbol.symbology = "Codabar" -> ReadCodabar(symbol.codes)
            [] symbol.symbology = "ITF" -> ReadITF(input, symbol.codes)
            [] OTHER -> ReadUPCEAN(input, symbol.symbology, symbol.codes, symbol.addOn))
  /\ UNCHANGED <<raw, at>>

(* Code128Reader::decodePattern, one character at a time.                  *)
Start128 ==
  /\ pc = "read" /\ symbol.symbology = "Code128"
  /\ symbol.codes[1] \in 103 .. 105
  /\ raw' = Raw(symbol.codes[1]) /\ at' = 2
  /\ pc' = "codes"
  /\ UNCHANGED <<input, symbol, enc, result>>

NextCode ==
  /\ pc = "codes" /\ at <= Len(symbol.codes) /\ symbol.codes[at] < 103
  /\ ~(raw.shift /\ raw.set # C /\ symbol.codes[at] = Shift)
  /\ raw' = Decoded128(raw, symbol.codes[at])
  /\ at' = at + 1
  /\ UNCHANGED <<pc, input, symbol, enc, result>>

(* No start code, a start code or an end within the symbol, two shifts, or *)
(* no end.                                                                 *)
GiveUp128 ==
  /\ \/ pc = "read" /\ symbol.symbology = "Code128" /\ symbol.codes[1] \notin 103 .. 105
     \/ pc = "codes" /\ IF at > Len(symbol.codes) THEN TRUE
                        ELSE \/ symbol.codes[at] \in 103 .. 105
                             \/ symbol.codes[at] = Stop128 /\ at < Len(symbol.codes)
                             \/ symbol.codes[at] = Shift /\ raw.shift /\ raw.set # C
  /\ Done(Nothing)
  /\ UNCHANGED <<raw, at>>

Stop ==
  /\ pc = "codes" /\ at = Len(symbol.codes) /\ symbol.codes[at] = Stop128
  /\ Done(IF Len(symbol.codes) < 4 THEN Nothing
          ELSE [Nothing EXCEPT
                 !.format = "Code128", !.text = SubSeq(raw.txt, 1, raw.last), !.modifier = raw.modifier,
                 !.readerInit = raw.readerInit,
                 !.error = IF Checksum128(Drop(symbol.codes, 2)) = symbol.codes[Len(symbol.codes) - 1]
                           THEN "none" ELSE "Checksum"])
  /\ UNCHANGED <<raw, at>>

Returned == pc \in {"done", "thrown"} /\ UNCHANGED vars

Next == \/ Refuse \/ Write \/ PrintSymbol
        \/ Begin128 \/ SwitchCodeSet \/ EncodeCharacter \/ EndSymbol128
        \/ See \/ Read \/ Start128 \/ NextCode \/ GiveUp128 \/ Stop
        \/ Returned

Spec == Init /\ [][Next]_vars

-----------------------------------------------------------------------------
(* What a symbol means.                                                    *)

(* The text of Code 128 with its escapes: FNC1 at the beginning, or after  *)
(* one letter or two digits, marks an application, elsewhere it separates; *)
(* FNC4 makes the next character a high one.                               *)
Data128(text) == SelectSeq(text, LAMBDA c : c \notin Escapes)
Meaning128(text) ==
  LET Marks(before) ==
        \/ Data128(before) = <<>>
        \/ Len(Data128(before)) = 1 /\ Data128(before)[1] \in Upper \cup Lower /\ ~Has(EscapeFNC4, before)
        \/ Len(before) = 2 /\ \A i \in 1 .. 2 : before[i] \in Digit
  IN FlattenSeq([i \in DOMAIN text |->
       CASE text[i] = EscapeFNC1 -> IF Marks(SubSeq(text, 1, i - 1)) THEN <<>> ELSE <<29>>
         [] text[i] \in Escapes \ {EscapeFNC1} -> <<>>
         [] text[i] \notin Escapes -> IF i > 1 /\ text[i - 1] = EscapeFNC4 THEN <<text[i] + 128>> ELSE <<text[i]>>])
Expected(in) ==
  CASE in.kind = "symbol" -> in.text
    [] in.kind = "text" /\ in.format = "Code128" -> Meaning128(in.text)
    [] in.kind = "text" /\ in.format = "Codabar" -> Guarded(in.text)
    [] in.kind = "text" /\ in.format \in {"EAN13", "UPCA", "EAN8"} -> TextOf(UPCEANDigits(in.format, in.text))
    [] in.kind = "text" /\ in.format = "UPCE" ->
         TextOf(<<0>> \o ConvertUPCEtoUPCA(UPCEANDigits(in.format, in.text)))
    [] OTHER -> in.text

(* Texts that come back.  The writer of Code 128 does not look whether     *)
(* digits follow an FNC4, to which the reader applies it only after them;  *)
(* the reader takes each FNC1 at a place that marks an application for the *)
(* first one.                                                              *)
(* Code 39 has texts that only the options tell apart, an asterisk that    *)
(* ends the symbol, a character 0 among standard ones that is no character *)
(* of the symbol, and pairs the second of which equals the check         *)
(* character, which is taken off before pairs are put together.            *)
ModifierStays(text) ==
  \A i \in DOMAIN text :
    text[i] = EscapeFNC4 => i < Len(text) /\ text[i + 1] \notin Digit \cup Escapes
MarkedOnce(text) ==
  \A i, j \in DOMAIN text :
    i < j /\ text[i] = EscapeFNC1 /\ text[j] = EscapeFNC1 => Len(Data128(SubSeq(text, 1, j - 1))) > 2
EndsInPair(text) == ~Standard39(text) /\ text[Len(text)] \notin Plain39
CheckedByChance(txt) ==
  IndexOf(Alphabet39, txt[Len(txt)]) =
    Sum([i \in 1 .. Len(txt) - 1 |-> IndexOf(Alphabet39, txt[i])]) % 43
Readable(in) ==
  LET txt == TryToConvertToExtendedMode(in.text)
  IN CASE in.format = "Code128" -> ModifierStays(in.text) /\ MarkedOnce(in.text)
       [] in.format = "Code39Std" ->
            /\ Standard39(in.text) /\ ~Has(Asterisk, in.text) /\ ~Has(0, in.text) /\ in.formats = {"Code39Std"}
       [] in.format = "Code39Ext" ->
            /\ ~Standard39(in.text) /\ {"Code39Std", "Code39Ext"} \subseteq in.formats
            /\ ~(EndsInPair(in.text) /\ CheckedByChance(txt))
       [] in.format = "Codabar" -> Len(Guarded(in.text)) >= 4
       [] in.format = "ITF" -> Len(in.text) >= 6
       [] OTHER -> TRUE

(* The checksum of Code 128 goes through decode like the characters before *)
(* it is known to be one: its text is taken off, what an FNC1 marks is not.*)
ChecksumActs ==
  symbol.symbology = "Code128" /\ symbol.codes[Len(symbol.codes) - 1] = FNC1

(* Every text a writer accepts comes back as the text it means: the code   *)
(* sets of Code 128 chosen by looking ahead, pairs of Code 39 and Code 93, *)
(* guards of Codabar, check digits and number systems of UPC.  A symbol of *)
(* another encoder, with shifts, latches and function characters in any    *)
(* order, check characters and add-ons, is read as the text and the kind   *)
(* of contents its characters mean by the rules of the symbology.          *)
ReadAsMeant ==
  pc = "done" /\ input.wrong = <<>> /\ (input.kind = "text" => Readable(input))
    => /\ result.text = Expected(input) /\ result.format # "None" /\ result.error = "none"
       /\ input.kind = "symbol" => result.modifier = input.modifier \/ ChecksumActs

(* One character misread as any other never gives another text without an  *)
(* error where the symbology has a check character, at most an add-on is   *)
(* not reported: a stop read too early, a wrong start code, a switch of    *)
(* code sets and a wrong parity are noticed too.                           *)
Protected(in) ==
  LET format == IF in.kind = "text" THEN in.format ELSE in.symbol.symbology
  IN \/ format \in {"Code128", "Code93", "EAN13", "UPCA", "EAN8"}
     \/ format = "UPCE" /\ in.wrong[1] # 6
     \/ in.formats = {"PZN"}
     \/ in.checksum
WrongCharacterNoticed ==
  pc = "done" /\ input.wrong # <<>> /\ Protected(input)
    => \/ result.format = "None" \/ result.error # "none"
       \/ IsPrefix(result.text, Expected(input)) /\ (symbol.addOn = <<>> => result.text = Expected(input))
=============================================================================
