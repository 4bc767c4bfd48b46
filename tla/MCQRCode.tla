------------------------------ MODULE MCQRCode ------------------------------
(***************************************************************************)
(* The tables of QRVersion.cpp, texts at their limits, and symbols of all  *)
(* four kinds with the segments of other encoders.                         *)
(***************************************************************************)
EXTENDS QRMatrix

Repeated(b, n) == [i \in 1 .. n |-> b]
Digits(n) == [i \in 1 .. n |-> 48 + ((i * 7) % 10)]
Capitals(n) == [i \in 1 .. n |-> 65 + ((i * 11) % 26)]
Letters8(n) == [i \in 1 .. n |-> 97 + ((i * 5) % 26)]
Kanji(n) == [i \in 1 .. n |-> IF i % 2 = 1 THEN 129 + ((i * 3) % 31) ELSE 64 + (i % 60)]

Text(text, charset, gs1, level, version, damage) ==
  [kind |-> "text", text |-> text, charset |-> charset, gs1 |-> gs1, level |-> level,
   version |-> version, damage |-> damage, print |-> Direct]

(* Every version and level once, with damage.                              *)
AllVersions ==
  {Text(Digits(9), "Unknown", FALSE, level, n, damage) :
     n \in 1 .. 40, level \in Level, damage \in {"repairable"}}

(* The longest text of version n at a level, and one letter more.          *)
Capacity(mode, level, n) ==
  8 * NumDataBytes(Model2Version(n), level) - 4 - CharacterCountBits(mode, Model2Version(n))
Longest(mode, level, n) ==
  LET bits == Capacity(mode, level, n)
      Rest(of, needed) == IF bits % of >= needed THEN 1 ELSE 0
  IN  CASE mode = "NUMERIC" -> 3 * (bits \div 10) + Rest(10, 4) + Rest(10, 7)
        [] mode = "ALPHANUMERIC" -> 2 * (bits \div 11) + Rest(11, 6)
        [] mode = "BYTE" -> bits \div 8
        [] mode = "KANJI" -> 2 * (bits \div 13)
Boundary(mode, Make(_), charset, step) ==
  {Text(Make(Longest(mode, level, n) + more), charset, FALSE, level, 0, "none") :
     level \in Level, n \in {1, 9, 10, 26, 27, 40}, more \in {0, step}}
Boundaries ==
  Boundary("NUMERIC", Digits, "Unknown", 1)
  \cup Boundary("ALPHANUMERIC", Capitals, "ISO8859_1", 1)
  \cup Boundary("BYTE", Letters8, "ISO8859_1", 1)
  \cup Boundary("KANJI", Kanji, "Shift_JIS", 2)

Short ==
  {Text(text, charset, gs1, 2, version, damage) :
     text \in {Digits(1), Digits(4), Digits(50), Capitals(1), <<65, 37, 48>>, Letters8(3),
              Kanji(4), <<233>>},
     charset \in {"Unknown", "Shift_JIS", "UTF8", "Binary"}, gs1 \in BOOLEAN,
     version \in {0, 1, 41}, damage \in {"none", "repairable", "beyond"}}
-----------------------------------------------------------------------------
Printed(v, level, segments, damage) ==
  [kind |-> "printed", symbol |-> v, level |-> level, segments |-> segments, damage |-> damage,
   print |-> Direct]
Micro(n) == Version("Micro", n, MicroTable[n])
RMQR(n) == Version("rMQR", n, RMQRTable[n])
Model1(n) == Version("Model1", n, Model1Table[n])

S(mode, text) == Segment(mode, text, FALSE)
InGS1(mode, text) == Segment(mode, text, TRUE)
First == S("FNC1_FIRST_POSITION", <<>>)
Second(indicator) == S("FNC1_SECOND_POSITION", <<indicator>>)
Part == S("STRUCTURED_APPEND", <<1, 2, 77>>)
Num == S("NUMERIC", Digits(4))
Alpha == S("ALPHANUMERIC", Capitals(3))
Byte == S("BYTE", <<200, 92>>)
Kan == S("KANJI", Kanji(4))
Han == S("HANZI", <<161, 162, 176, 161>>)
ECI(value) == S("ECI", <<value>>)
Percents == InGS1("ALPHANUMERIC", <<37, 65, 29, 48, 37>>)
Noise(bits) == S("BITS", bits)

(* Orders in which the segments of QR Codes and rMQR codes may come.       *)
RMQROrders ==
  {<<Num, Alpha, Byte, Kan>>, <<Kan, ECI(26), Byte>>, <<Byte, ECI(899), Byte, ECI(123456), Num>>,
   <<First, Percents>>, <<First, Num, Percents, Byte>>, <<Second(7), Percents>>,
   <<Second(180), Num>>, <<Second(120), Num>>, <<Num, Second(7), Num>>,
   <<ECI(3), Second(99), Byte>>,
   <<Num, First, Alpha>>, <<Num, Noise(<<1, 1>>)>>}
QROrders ==
  RMQROrders \cup
  {<<Part, Num>>, <<Part, ECI(20), Byte, Alpha>>, <<Han, Kan, Byte>>, <<ECI(32), Han>>,
   <<Byte, Part, Second(7)>>, <<Alpha, Noise(<<0, 1, 1, 0>>)>>,
   <<Byte, Noise(<<1, 1, 0, 1, 0, 0, 1, 0>>)>>,
   <<Num, Noise(<<0, 0, 0, 1, 0, 0, 0, 0, 0, 0, 0, 0, 1, 1>> \o Repeated(1, 10))>>,
   <<Num, Noise(<<0, 0, 1, 0, 0, 0, 0, 0, 0, 0, 1, 1, 0>> \o Repeated(1, 17))>>,
   <<Byte, Noise(<<0, 1, 1, 1>> \o Repeated(1, 8))>>}

(* What does not fit into the rest of a symbol is cut off.                 *)
CutOrders ==
  {<<S("NUMERIC", Digits(n)), segment>> : n \in {24, 30},
     segment \in {Part, ECI(899), ECI(123456), Han, Kan, Byte, Alpha, Num}}
  \cup {[i \in 1 .. 31 |-> First] \o <<segment>> : segment \in {Second(7), Part, Num, First}}
  \cup {<<Byte, Noise(<<1, 1, 0, 1, 0, 0, 1, 0>>)>>}

Rows(m) == 1 .. Len(m)
OthersSymbols ==
  {Printed(v, 2, segments, damage) :
     v \in {Model2Version(1), Model2Version(5)}, segments \in QROrders, damage \in {"none", "beyond"}}
  \cup {Printed(Model2Version(1), 2, segments, "none") : segments \in CutOrders}
  \cup {Printed(Model1(2), 2, segments, "none") : segments \in QROrders}
  \cup {Printed(RMQR(n), 2, segments, "none") : n \in {1, 22, 32}, segments \in RMQROrders}
  \cup {Printed(RMQR(n), level, <<Num>>, "repairable") : n \in Rows(RMQRTable), level \in {2, 4}}

MicroSegments(n) ==
  {<<S("NUMERIC", Digits(k))>> : k \in {1, 4, 5}}
  \cup (IF n < 2 THEN {} ELSE {<<Alpha>>, <<Num, Alpha>>})
  \cup (IF n < 3 THEN {} ELSE {<<S("BYTE", <<200>>), Kan>>, <<Byte>>, <<Kan, Num>>})
MicroSymbols ==
  UNION {{Printed(Micro(n), level, segments, damage) :
            level \in DOMAIN MicroTable[n], segments \in MicroSegments(n),
            damage \in {"none", "repairable", "beyond"}} : n \in 1 .. 4}

-----------------------------------------------------------------------------
(* Symbols that go through the matrix: every size, every mask and level,   *)
(* mirror images, and damage to either copy of the format information.     *)
Printing(mask, formatMask, mirrored, wrong, versionWrong) ==
  [mask |-> mask, formatMask |-> formatMask, mirrored |-> mirrored, wrong |-> wrong,
   versionWrong |-> versionWrong]
Intact == <<{}, {}>>
Image(call, print) == [call EXCEPT !.print = print]
Digit(level, n) == Text(Digits(9), "Unknown", FALSE, level, n, "repairable")

Sizes ==
  {Image(Digit((n % 4) + 1, n),
         Printing(n % 8, "Model2", n % 3 = 0, Intact, <<{n % 18, 3, 11}, {n % 5, 7, 16}>>)) : n \in 1 .. 40}
  \cup {Image(Printed(Model1(n), level, <<Num>>, "none"), Printing(n % 8, "Model1", FALSE, Intact, Intact)) :
          n \in {k \in Rows(Model1Table) : k < 13}, level \in {1}}
  \cup {Image(Printed(RMQR(n), IF n % 2 = 0 THEN 2 ELSE 4, <<Num>>, "none"),
              Printing(4, "rMQR", FALSE, <<{0, 1, n % 18}, {17, n % 16, 16}>>, Intact)) : n \in Rows(RMQRTable)}

MicroImages ==
  UNION {{Image(Printed(Micro(n), level, <<S("NUMERIC", Digits(5))>>, damage),
                Printing(mask, "Micro", mirrored, <<wrong, {}>>, Intact)) :
            level \in DOMAIN MicroTable[n], damage \in {"none", "repairable"}, mask \in 0 .. 3,
            mirrored \in BOOLEAN, wrong \in {{}, {0}, {7}, {14}}} : n \in 1 .. 4}

Wrongs ==
  {<<{i}, {j}>> : i, j \in 0 .. 14} \cup {<<{}, {i, (i + 1) % 15, (i + 5) % 15}>> : i \in 0 .. 14}
  \cup {<<{i, (i + 1) % 15, (i + 5) % 15}, {}>> : i \in 0 .. 14}
Formats ==
  {Image(Digit(level, 1), Printing((3 * level + n) % 8, "Model2", FALSE, wrong, Intact)) :
     level \in Level, n \in {0, 5}, wrong \in Wrongs}
  \cup {Image(Printed(Model2Version(2), level, <<Num>>, "none"),
              Printing(mask, formatMask, mirrored, wrong, Intact)) :
          level \in Level, mask \in 0 .. 7, formatMask \in {"Model2"}, mirrored \in {TRUE},
          wrong \in {Intact, <<{3, 9}, {}>>, <<{}, {3, 9}>>}}
  \cup {Image(Printed(Model2Version(2), level, <<Num>>, "none"),
              Printing(mask, "None", FALSE, wrong, Intact)) :
          level \in Level, mask \in 0 .. 7, wrong \in {Intact, <<{5}, {}>>, <<{}, {5}>>}}
  \cup {Image(Printed(Model2Version(7), 1, <<Num>>, "none"), Printing(0, "Model2", FALSE, <<a, a>>, <<b, b>>)) :
          a \in {{}, {0, 1, 11, 14}}, b \in {{}, {0, 1, 2, 3}, {0, 5, 9, 13, 17}}}
MCInputs ==
  AllVersions \cup Boundaries \cup Short \cup OthersSymbols \cup MicroSymbols
  \cup Sizes \cup MicroImages \cup Formats
=============================================================================
