---------------------------- MODULE MCLinearCodes ----------------------------
(***************************************************************************)
(* Texts that make every writer switch, symbols of another encoder with    *)
(* shifts, latches, function and check characters and add-ons, and symbols *)
(* with each character misread as every other.                             *)
(***************************************************************************)
EXTENDS LinearCodes

LOCAL INSTANCE SequencesExt

Text(format, text, formats) ==
  [kind |-> "text", format |-> format, text |-> text, symbol |-> NoSymbol, modifier |-> 0,
   formats |-> formats, checksum |-> FALSE, addOns |-> "Read", wrong |-> <<>>]
Printed(symbology, codes, addOn, text, modifier, formats) ==
  [Text("None", text, formats) EXCEPT
     !.kind = "symbol", !.symbol = [symbology |-> symbology, codes |-> codes, addOn |-> addOn],
     !.modifier = modifier]
UpTo(set, n) == UNION {[1 .. k -> set] : k \in 0 .. n}
Repeated(c, n) == [i \in 1 .. n |-> c]
One == 49

-----------------------------------------------------------------------------
(* Code 128: A, a, 1, CR and FNC1 to FNC4 in any order, and runs of digits.*)
Texts128 ==
  UpTo({65, 97, One, 13, EscapeFNC1}, 4)
  \cup UpTo({One, 13, EscapeFNC1}, 6) \cup UpTo({One, 65}, 8)
  \cup UpTo({65, 97, One, 13} \cup Escapes, 3)
  \cup {Repeated(65, 80), Repeated(65, 81), Repeated(One, 79), <<200>>}

(* What another encoder may do in a code set: the state is the symbol so   *)
(* far, what it means, the set, whether FNC4 is latched and the number of  *)
(* data characters.                                                        *)
Started(set) ==
  [codes |-> <<StartOf(set)>>, text |-> <<>>, modifier |-> 0, set |-> set, high |-> FALSE, data |-> <<>>]
CodeIn(set, c) == IF set = A /\ c % 128 < 32 THEN (c % 128) + 64 ELSE (c % 128) - 32
Put(s, codes) == [s EXCEPT !.codes = @ \o codes]
Add(s, codes, text) == [Put(s, codes) EXCEPT !.text = @ \o text, !.data = Append(@, text)]
FNC4Before(s, c) == IF (c >= 128) = s.high THEN <<>> ELSE <<s.set>>
CharactersOf(set) == IF set = A THEN {65, 13, 141} ELSE {97, 63, 233}

Mark(s) ==
  CASE s.data = <<>> -> {[Put(s, <<FNC1>>) EXCEPT !.modifier = 1]}
    [] s.data # <<>> /\ Len(s.data) = 1 /\ s.modifier = 0
       /\ (IF s.set = C THEN Len(s.data[1]) = 2 ELSE s.data[1] \in {<<65>>, <<97>>}) ->
         {[Put(s, <<FNC1>>) EXCEPT !.modifier = 2]}
    [] Len(s.data) = 1 /\ s.modifier > 0 -> {}         \* the reader takes it for the first one
    [] OTHER -> {[Put(s, <<FNC1>>) EXCEPT !.text = Append(@, 29)]}
More(s) ==
  {[Put(s, <<set>>) EXCEPT !.set = set] : set \in {A, B, C} \ {s.set}} \cup Mark(s)
  \cup IF s.set = C THEN {Add(s, <<n>>, Digits2(n)) : n \in {7, 99}}
       ELSE {Add(s, FNC4Before(s, c) \o <<CodeIn(s.set, c)>>, <<c>>) : c \in CharactersOf(s.set)}
            \cup {Add(s, FNC4Before(s, c) \o <<Shift, CodeIn(Other(s.set), c)>>, <<c>>) : c \in CharactersOf(Other(s.set))}
            \cup {[Put(s, <<s.set, s.set>>) EXCEPT !.high = ~@], Put(s, <<FNC2>>), Put(s, <<FNC3>>)}
RECURSIVE Symbols128(_)
Symbols128(n) ==
  IF n = 0 THEN {Started(set) : set \in {A, B, C}} ELSE UNION {More(s) : s \in Symbols128(n - 1)}
Closed(codes) == codes \o <<Checksum128(codes), Stop128>>
Printed128 ==
  {Printed("Code128", Closed(s.codes), <<>>, s.text, s.modifier, {"Code128"}) :
     s \in UNION {Symbols128(n) : n \in 1 .. 3}}

-----------------------------------------------------------------------------
(* Code 39 and Code 93.                                                    *)
Std == {"Code39Std"}
Ext == {"Code39Std", "Code39Ext"}
Texts39 ==
  {Text("Code39Std", t, Std) : t \in UpTo({65, 57, 32, 36, 37}, 3)}
  \cup {Text("Code39Ext", <<67, c>>, Ext) : c \in 0 .. 128}
  \cup {Text("Code39Ext", <<c, 97 + k>>, Ext) : c \in Upper, k \in 0 .. 25}
  \cup {Text("Code39Ext", Repeated(97, n), Ext) : n \in {0, 40, 41, 81}}
Checked39(t) == Append(t, Alphabet39[(Sum([i \in DOMAIN t |-> IndexOf(Alphabet39, t[i])]) % 43) + 1])
Codes39(t) ==
  <<Asterisk39>> \o [i \in DOMAIN t |-> Encodings39[IndexOf(Alphabet39, t[i]) + 1]] \o <<Asterisk39>>
WithChecksum(in) == [in EXCEPT !.checksum = TRUE]
Printed39 ==
  {WithChecksum(Printed("Code39", Codes39(Checked39(t)), <<>>, Checked39(t), 1, Std)) : t \in UpTo({65, 57, 37}, 3) \ {<<>>}}
  \cup {WithChecksum(
          LET encoded == Checked39(Extended(Shifts39, Plain39, t))
          IN Printed("Code39", Codes39(encoded), <<>>, Append(t, encoded[Len(encoded)]), 5, Ext)) :
        t \in UpTo({97, 65, 0, 58}, 3) \cap {t \in UpTo({97, 65, 0, 58}, 3) : ~Standard39(t)}}
(* Pharmaceutical numbers: a check digit modulo 11, and base 32.           *)
PZN(d) == <<45>> \o TextOf(d) \o <<48 + (Sum([i \in DOMAIN d |-> i * d[i]]) % 11)>>
Pharma ==
  {d \in {[i \in 1 .. 7 |-> (a * i + b) % 10] : a \in {1, 3, 7}, b \in 0 .. 9} : Sum([i \in DOMAIN d |-> i * d[i]]) % 11 < 10}
Doubled(d) == IF d < 5 THEN 2 * d ELSE 2 * d - 9
Code32(d) == Append(d, Sum([i \in DOMAIN d |-> IF i % 2 = 0 THEN Doubled(d[i]) ELSE d[i]]) % 10)
ToNumber(d) == FoldLeft(LAMBDA n, k : 10 * n + k, 0, d)
Base32(n) == [i \in 1 .. 6 |-> Tabella[((n \div 32 ^ (6 - i)) % 32) + 1]]
PrintedPharma ==
  {Printed("Code39", Codes39(PZN(d)), <<>>, PZN(d), 0, {"PZN", "Code32"}) : d \in Pharma}
  \cup {Printed("Code39", Codes39(Base32(ToNumber(Code32(d)))), <<>>, <<65>> \o TextOf(Code32(d)), 0, {"PZN", "Code32"}) :
          d \in {[i \in 1 .. 8 |-> (a * i + b) % 10] : a \in {0, 1, 3}, b \in 0 .. 9}}

Texts93 ==
  {Text("Code93", <<c>>, {"Code93"}) : c \in 0 .. 128}
  \cup {Text("Code93", t, {"Code93"}) : t \in UpTo({65, 97, 0, 58, 46}, 3)}
  \cup {Text("Code93", Repeated(97, n), {"Code93"}) : n \in {40, 41}}

-----------------------------------------------------------------------------
TextsCodabar ==
  {Text("Codabar", t, {"Codabar"}) : t \in UpTo({65, 68, 84, 42, One, 43}, 4)}
TextsITF ==
  {Text("ITF", [i \in 1 .. n |-> 48 + (k * i % 10)], f) :
     n \in 0 .. 14, k \in 0 .. 9, f \in {{"ITF"}, {"ITF", "EAN13"}}}
  \cup {Text("ITF", Repeated(65, 6), {"ITF"})}
PrintedITF ==
  {WithChecksum(Printed("ITF", EncodeITF(TextOf(Append(d, ComputeCheckDigit(d)))), <<>>,
                        TextOf(Append(d, ComputeCheckDigit(d))), 1, {"ITF"})) :
     d \in {[i \in 1 .. 13 |-> (k * i) % 10] : k \in 0 .. 9}}

Row(n, k, b) == [i \in 1 .. n |-> 48 + ((k * i + b) % 10)]
All == {"EAN13", "UPCA", "EAN8", "UPCE"}
Completed(text) == Append(text, 48 + ComputeCheckDigit(DigitsOf(text)))
TextsUPCEAN ==
  {Text("EAN13", t, All) : t \in {Row(12, k, b) : k \in 1 .. 3, b \in 0 .. 9} \cup {Row(13, k, 0) : k \in 0 .. 9}
                               \cup {Completed(Row(12, k, 5)) : k \in 0 .. 9} \cup {<<>>, <<65>>}}
  \cup {Text("UPCA", t, {"UPCA"}) : t \in {Row(11, k, 3) : k \in 1 .. 9} \cup {Completed(Row(11, k, 5)) : k \in 0 .. 9}}
  \cup {Text("EAN8", t, All) : t \in {Row(7, k, 3) : k \in 1 .. 9} \cup {Completed(Row(7, k, 5)) : k \in 0 .. 9}}
  \cup {Text("UPCE", <<48 + s>> \o Row(5, k, 2) \o <<48 + last>>, All) : s \in 0 .. 2, k \in 1 .. 3, last \in 0 .. 9}

(* Zero suppression: what the number of a UPC-A has to be, and the six     *)
(* digits for it.                                                          *)
Suppressible ==
  {<<<<0>> \o m \o <<k, 0, 0, 0, 0>> \o p, m \o p \o <<k>>>> : m \in {<<5, 7>>, <<2, 3>>}, k \in 0 .. 2, p \in {<<1, 2, 3>>, <<0, 0, 9>>}}
  \cup {<<<<0>> \o <<5, 7, k, 0, 0, 0, 0, 0>> \o p, <<5, 7, k>> \o p \o <<3>>>> : k \in 3 .. 9, p \in {<<1, 2>>, <<0, 9>>}}
  \cup {<<<<0, 5, 7, 1, k, 0, 0, 0, 0, 0, p>>, <<5, 7, 1, k, p, 4>>>> : k \in 1 .. 9, p \in {1, 9}}
  \cup {<<<<0, 5, 7, 1, 2, k, 0, 0, 0, 0, p>>, <<5, 7, 1, 2, k, p>>>> : k \in 1 .. 9, p \in 5 .. 9}
PrintedUPCE ==
  {Printed("UPCE", WithParities(n[2], NumsysAndCheckDigitPatterns[ComputeCheckDigit(n[1]) + 1]), <<>>,
           <<48>> \o Completed(TextOf(n[1])), 0, All) : n \in Suppressible}
AddOn5(d) == WithParities(d, CheckDigitEncodings[((3 * (d[1] + d[3] + d[5]) + 9 * (d[2] + d[4])) % 10) + 1])
AddOn2(n) == WithParities(<<n \div 10, n % 10>>, n % 4)
PrintedAddOns ==
  LET main == UPCEANDigits("EAN13", Row(12, 3, 4))
      codes == EncodeUPCEAN("EAN13", main)
  IN {Printed("EAN13", codes, AddOn2(n), TextOf(main) \o TextOf(<<n \div 10, n % 10>>), 3, All) : n \in 0 .. 99}
     \cup {[Printed("EAN13", codes, AddOn5(d), TextOf(main) \o TextOf(d), 3, All) EXCEPT !.addOns = "Require"] :
             d \in {[i \in 1 .. 5 |-> (k * i + b) % 10] : k \in 0 .. 9, b \in {0, 1, 5}}}

-----------------------------------------------------------------------------
Misreadings(in, codes, table) ==
  {[in EXCEPT !.wrong = <<i, c>>] : i \in DOMAIN codes, c \in table}
Misread128 ==
  UNION {Misreadings(in, in.symbol.codes, 0 .. 106) :
    in \in {Printed("Code128", Closed(codes), <<>>, text, 0, {"Code128"}) :
              codes \in {<<105, 12, 34, 100, 65>>}, text \in {<<49, 50, 51, 52, 97>>}}
           \cup {Printed("Code128", Closed(<<103, 33, 98, 65, 100, 65>>), <<>>, <<65, 97, 97>>, 0, {"Code128"})}}
Misread93 ==
  {[Text("Code93", <<65, 97, 46>>, {"Code93"}) EXCEPT !.wrong = <<i, c>>] : i \in 1 .. 8, c \in 0 .. 47}
Misread39 ==
  UNION {Misreadings(in, in.symbol.codes, {Encodings39[i] : i \in 1 .. 44}) :
    in \in {WithChecksum(Printed("Code39", Codes39(Checked39(<<65, 43, 65, 57>>)), <<>>, Checked39(<<65, 43, 65, 57>>), 1, Std)),
            Printed("Code39", Codes39(PZN(<<1, 2, 3, 4, 5, 6, 7>>)), <<>>, PZN(<<1, 2, 3, 4, 5, 6, 7>>), 0, {"PZN"})}}
(* One digit: the bars or the spaces of a pair.                            *)
MisreadITF ==
  {[in EXCEPT !.wrong = <<i, IF bars THEN <<wide, in.symbol.codes[i][2]>> ELSE <<in.symbol.codes[i][1], wide>>>>] :
     in \in {printed \in PrintedITF : printed.text[1] = 51}, i \in 1 .. 7, bars \in BOOLEAN,
     wide \in {WideOfDigit[k] : k \in 1 .. 10} \cup {{}, {1, 2, 3}}}
MisreadUPCEAN ==
  {[Text(f, t, All) EXCEPT !.wrong = <<i, c>>] :
     f \in {"EAN13"}, t \in {Row(12, 3, 4), Row(12, 7, 2)}, i \in 1 .. 12, c \in 0 .. 19}
  \cup {[Text("EAN8", Row(7, 3, 4), All) EXCEPT !.wrong = <<i, c>>] : i \in 1 .. 8, c \in 0 .. 19}
  \cup {[in EXCEPT !.wrong = <<i, c>>] : in \in PrintedUPCE, i \in 1 .. 6, c \in 0 .. 19}
  \cup {[in EXCEPT !.wrong = <<i, c>>, !.addOns = "Read"] :
          in \in {i \in PrintedAddOns : i.addOns = "Require"}, i \in 13 .. 17, c \in 0 .. 19}

MCInputs ==
  {Text("Code128", t, {"Code128"}) : t \in Texts128} \cup Printed128
  \cup Texts39 \cup Printed39 \cup PrintedPharma \cup Texts93
  \cup TextsCodabar \cup TextsITF \cup PrintedITF \cup TextsUPCEAN \cup PrintedUPCE \cup PrintedAddOns
  \cup Misread128 \cup Misread93 \cup Misread39 \cup MisreadITF \cup MisreadUPCEAN
=============================================================================
