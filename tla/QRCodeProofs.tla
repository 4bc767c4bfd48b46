---------------------------- MODULE QRCodeProofs ----------------------------
(***************************************************************************)
(* The version that Encode chooses is the smallest that has room, and the  *)
(* decoder finds the blocks where the encoder has put them.                *)
(*                                                                         *)
(* RecommendVersion guesses a version with the count as wide as in         *)
(* version 1 and repeats its search with the width of the guess.  Why that *)
(* is enough: the count never grows by more than 8 bits, so that the text  *)
(* never needs more than one byte more than guessed, and each version has  *)
(* at least one byte more than the one before it.                          *)
(*                                                                         *)
(* The encoder divides numbers of bytes and prints in rows over the        *)
(* blocks; the decoder takes sizes from the table and computes places.     *)
(* Both are translated to places in rows of as many codewords as there     *)
(* are blocks.                                                             *)
(***************************************************************************)
EXTENDS QRCode, Recursions, SequenceTheorems

CountWidth(mode, n) == CharacterCountBits(mode, Model2Version(n))
Capacity(level, n) == NumDataBytes(Model2Version(n), level)
InBytes(bits) == (bits + 7) \div 8
TextModes == {"NUMERIC", "ALPHANUMERIC", "BYTE", "KANJI"}
-----------------------------------------------------------------------------
(* Arithmetic.                                                             *)
LEMMA BytesOfBits ==
  ASSUME NEW b \in Nat, NEW c \in Nat
  PROVE  /\ InBytes(b) \in Nat
         /\ b <= c => InBytes(b) <= InBytes(c)
         /\ c <= b + 8 => InBytes(c) <= InBytes(b) + 1
BY DEF InBytes

(* The table: capacities are numbers, and they grow.                       *)
LEMMA CapacityGrows ==
  ASSUME NEW level \in Level, NEW n \in DOMAIN Model2
  PROVE  /\ n \in Nat \ {0}
         /\ Capacity(level, n) \in Nat
         /\ \A m \in DOMAIN Model2 : n < m => Capacity(level, n) + 1 <= Capacity(level, m)
<1>1. ASSUME NEW k \in DOMAIN Model2
      PROVE  Capacity(level, k) \in Nat
  <2>1. AllCodewords(Model2[k][2]) - TotalECCodewords(Model2[k][level]) \in Nat
    BY VersionsAssumption
  <2>2. Capacity(level, k)
          = AllCodewords(Model2[k][2]) - TotalECCodewords(Model2[k][level])
    BY DEF Capacity, NumDataBytes, TotalCodewords, Model2Version, Version
  <2> QED BY <2>1, <2>2
<1>2. n \in Nat \ {0}
  BY VersionsAssumption
<1>3. ASSUME NEW m \in DOMAIN Model2, n < m
      PROVE  Capacity(level, n) + 1 <= Capacity(level, m)
  <2>1. Capacity(level, n) < Capacity(level, m)
    BY <1>3, GrowingAssumption DEF Capacity
  <2> QED BY <2>1, <1>1
<1> QED BY <1>1, <1>2, <1>3

(* The widths of the count in version n: between that of the small         *)
(* versions and 8 bits more, and growing with n.                           *)
LEMMA CountWidths ==
  ASSUME NEW mode \in TextModes, NEW n \in Nat, NEW m \in Nat, n <= m
  PROVE  /\ CountWidth(mode, n) \in Nat
         /\ CountWidth(mode, m) \in Nat
         /\ CountWidth(mode, n) <= CountWidth(mode, m)
         /\ CountWidth(mode, m) <= CountWidth(mode, n) + 8
<1> DEFINE W(k) == QRCountBits[mode][ClassOf(k)]
<1>1. ASSUME NEW k \in Nat  PROVE CountWidth(mode, k) = W(k)
  BY DEF CountWidth, CharacterCountBits, Model2Version, Version, Width, TextModes, QRCountBits
<1>2. ClassOf(n) \in 1 .. 3 /\ ClassOf(m) \in 1 .. 3 /\ ClassOf(n) <= ClassOf(m)
  BY VersionsAssumption DEF ClassOf
<1>3. ASSUME NEW i \in 1 .. 3, NEW j \in 1 .. 3, i <= j
      PROVE  /\ QRCountBits[mode][i] \in Nat /\ QRCountBits[mode][j] \in Nat
             /\ QRCountBits[mode][i] <= QRCountBits[mode][j]
             /\ QRCountBits[mode][j] <= QRCountBits[mode][i] + 8
  BY <1>3 DEF QRCountBits, TextModes
<1> QED BY <1>1, <1>2, <1>3
-----------------------------------------------------------------------------
(* The bytes that a text of `bits` bits needs in version n, and that they  *)
(* fit there.                                                              *)
Needed(bits, mode, n) == InBytes(bits + CountWidth(mode, n))

LEMMA FitsMeans ==
  ASSUME NEW bits \in Nat, NEW mode, NEW level, NEW k, NEW n
  PROVE  Fits(BitsNeeded(bits, mode, k), level, n)
           <=> n \in DOMAIN Model2 /\ Needed(bits, mode, k) <= Capacity(level, n)
BY DEF Fits, WillFit, BitsNeeded, Needed, Capacity, InBytes, CountWidth

LEMMA NeededGrows ==
  ASSUME NEW bits \in Nat, NEW mode \in TextModes, NEW n \in Nat, NEW m \in Nat, n <= m
  PROVE  /\ Needed(bits, mode, n) \in Nat
         /\ Needed(bits, mode, m) \in Nat
         /\ Needed(bits, mode, n) <= Needed(bits, mode, m)
         /\ Needed(bits, mode, m) <= Needed(bits, mode, n) + 1
<1> DEFINE b == bits + CountWidth(mode, n)
           c == bits + CountWidth(mode, m)
<1>1. b \in Nat /\ c \in Nat /\ b <= c /\ c <= b + 8
  BY CountWidths
<1> HIDE DEF b, c
<1>2. InBytes(b) \in Nat /\ InBytes(c) \in Nat /\ InBytes(b) <= InBytes(c)
      /\ InBytes(c) <= InBytes(b) + 1
  BY <1>1, BytesOfBits
<1> QED BY <1>2 DEF Needed, b, c

(* One correction is enough (QREncoder.cpp: "I am still not sure this      *)
(* works in 100% of cases").                                               *)
LEMMA RecommendedIsSmallest ==
  ASSUME NEW bits \in Nat, NEW mode \in TextModes, NEW level \in Level, NEW n,
         RecommendedVersion(bits, mode, level, n)
  PROVE  SmallestWithRoom(bits, mode, level, n)
<1> DEFINE q(k) == Needed(bits, mode, k)
           cap(k) == Capacity(level, k)
<1>1. PICK guess \in DOMAIN Model2 :
        /\ ChosenVersion(BitsNeeded(bits, mode, 1), level, guess)
        /\ ChosenVersion(BitsNeeded(bits, mode, guess), level, n)
  BY DEF RecommendedVersion
<1>2. n \in DOMAIN Model2 /\ q(guess) <= cap(n) /\ q(1) <= cap(guess)
  BY <1>1, FitsMeans DEF ChosenVersion
<1>3. \A m \in DOMAIN Model2 : m < guess => ~(q(1) <= cap(m))
  <2> SUFFICES ASSUME NEW m \in DOMAIN Model2, m < guess  PROVE ~(q(1) <= cap(m))
    OBVIOUS
  <2>1. m \in 1 .. guess - 1
    BY CapacityGrows
  <2> QED BY <2>1, <1>1, FitsMeans DEF ChosenVersion
<1>4. \A m \in DOMAIN Model2 : m < n => ~(q(guess) <= cap(m))
  <2> SUFFICES ASSUME NEW m \in DOMAIN Model2, m < n  PROVE ~(q(guess) <= cap(m))
    OBVIOUS
  <2>1. m \in 1 .. n - 1
    BY <1>2, CapacityGrows
  <2> QED BY <2>1, <1>1, FitsMeans DEF ChosenVersion
<1>5. \A k, m \in Nat : k <= m => q(k) \in Nat /\ q(m) \in Nat
                                  /\ q(k) <= q(m) /\ q(m) <= q(k) + 1
  BY NeededGrows
<1>6. \A k \in DOMAIN Model2 : k \in Nat \ {0} /\ cap(k) \in Nat
  BY CapacityGrows
<1>7. \A k, m \in DOMAIN Model2 : k < m => cap(k) + 1 <= cap(m)
  BY CapacityGrows
<1> HIDE DEF q, cap
<1>8. guess <= n
  BY <1>2, <1>3, <1>5, <1>6
<1>9. q(n) <= cap(n)
  <2>1. CASE n = guess
    BY <2>1, <1>2
  <2>2. CASE guess < n
    <3>1. cap(guess) + 1 <= cap(n)
      BY <2>2, <1>2, <1>7
    <3>2. q(n) <= q(1) + 1 /\ q(1) \in Nat /\ q(n) \in Nat
      BY <1>2, <1>5, <1>6
    <3> QED BY <3>1, <3>2, <1>2, <1>6
  <2> QED BY <2>1, <2>2, <1>2, <1>6, <1>8
<1>10. ASSUME NEW m \in 1 .. n - 1  PROVE ~(m \in DOMAIN Model2 /\ q(m) <= cap(m))
  <2> SUFFICES ASSUME m \in DOMAIN Model2 PROVE ~(q(m) <= cap(m))
    OBVIOUS
  <2>1. CASE m < guess
    <3>1. q(1) <= q(m) /\ q(1) \in Nat /\ q(m) \in Nat
      BY <1>5, <1>6
    <3> QED BY <2>1, <3>1, <1>3, <1>6
  <2>2. CASE guess <= m
    <3>1. q(guess) <= q(m) /\ q(guess) \in Nat /\ q(m) \in Nat
      BY <2>2, <1>5, <1>6
    <3>2. m < n
      BY <1>2, <1>6
    <3> QED BY <3>1, <3>2, <1>4, <1>6
  <2> QED BY <2>1, <2>2, <1>6
<1> QED BY <1>2, <1>9, <1>10, FitsMeans DEF SmallestWithRoom, HasRoom, q, cap

LEMMA Chosen ==
  ASSUME NEW bits, NEW level, NEW n, Fits(bits, level, n)
  PROVE  \E m : ChosenVersion(bits, level, m) /\ m <= n
<1> DEFINE S == {m \in DOMAIN Model2 : Fits(bits, level, m)}
<1>1. S \subseteq Nat /\ n \in S
  BY VersionsAssumption DEF Fits
<1>2. PICK m \in S : \A k \in S : m <= k
  BY <1>1, LeastOf
<1>3. ASSUME NEW k \in 1 .. m - 1  PROVE ~Fits(bits, level, k)
  BY <1>1, <1>2 DEF Fits
<1> QED BY <1>1, <1>2, <1>3 DEF ChosenVersion

(* If some version has room for a text then RecommendVersion returns one:  *)
(* neither of its two searches throws "Data too big" (QREncoder.cpp).      *)
THEOREM RecommendedExists ==
  ASSUME NEW bits \in Nat, NEW mode \in TextModes, NEW level \in Level, NEW n,
         HasRoom(bits, mode, level, n)
  PROVE  \E m : RecommendedVersion(bits, mode, level, m)
<1>1. n \in DOMAIN Model2 /\ Needed(bits, mode, n) <= Capacity(level, n)
  BY FitsMeans DEF HasRoom
<1>2. n \in Nat \ {0} /\ Capacity(level, n) \in Nat
  BY <1>1, CapacityGrows
<1>3. Fits(BitsNeeded(bits, mode, 1), level, n)
  <2>1. Needed(bits, mode, 1) <= Needed(bits, mode, n)
        /\ Needed(bits, mode, 1) \in Nat /\ Needed(bits, mode, n) \in Nat
    BY <1>2, NeededGrows
  <2>2. Needed(bits, mode, 1) <= Capacity(level, n)
    BY <2>1, <1>1, <1>2
  <2> QED BY <2>2, <1>1, FitsMeans
<1>4. PICK guess : ChosenVersion(BitsNeeded(bits, mode, 1), level, guess) /\ guess <= n
  BY <1>3, Chosen
<1>5. guess \in DOMAIN Model2 /\ guess \in Nat
  BY <1>4, VersionsAssumption DEF ChosenVersion, Fits
<1>6. Fits(BitsNeeded(bits, mode, guess), level, n)
  <2>1. Needed(bits, mode, guess) <= Needed(bits, mode, n)
        /\ Needed(bits, mode, guess) \in Nat /\ Needed(bits, mode, n) \in Nat
    BY <1>2, <1>4, <1>5, NeededGrows
  <2>2. Needed(bits, mode, guess) <= Capacity(level, n)
    BY <2>1, <1>1, <1>2
  <2> QED BY <2>2, <1>1, FitsMeans
<1>7. PICK m : ChosenVersion(BitsNeeded(bits, mode, guess), level, m)
  BY <1>6, Chosen
<1> QED BY <1>4, <1>5, <1>7 DEF RecommendedVersion
-----------------------------------------------------------------------------
(* The lengths of the header and of the text are numbers.                  *)
BitValue(x, k) == (x \div 2^k) % 2
BitValues == {BitValue(x, k) : x \in Nat, k \in Int}

LEMMA BitsLength ==
  ASSUME NEW x \in Nat, NEW n \in Nat
  PROVE  Bits(x, n) \in Seq(BitValues)
<1>1. \A k \in Int : BitValue(x, k) \in BitValues
  BY DEF BitValues
<1>2. Bits(x, n) = [i \in 1 .. n |-> BitValue(x, n - i)]
  BY DEF Bits, BitValue
<1>3. \A i \in 1 .. n : n - i \in Int
  OBVIOUS
<1> QED BY <1>1, <1>2, <1>3

LEMMA ECIBitsLength ==
  ASSUME NEW e \in Nat, e <= 16383
  PROVE  ECIBits(e) \in Seq(BitValues)
<1>1. CASE e <= 127
  <2>1. ECIBits(e) = Bits(e, 8)
    BY <1>1 DEF ECIBits
  <2> QED BY <2>1, BitsLength
<1>2. CASE ~(e <= 127)
  <2>1. ECIBits(e) = Bits(32768 + e, 16)
    BY <1>2 DEF ECIBits
  <2> QED BY <2>1, BitsLength
<1> QED BY <1>1, <1>2

LEMMA HeaderIsSequence ==
  ASSUME NEW call \in Inputs, call.kind = "text", NEW mode \in TextModes
  PROVE  HeaderBits(call, mode) \in Seq(BitValues)
<1> DEFINE eci == IF NeedsECI(call, mode)
                    THEN Bits(QRModes["ECI"], 4) \o ECIBits(ToECI[Charset(call)]) ELSE <<>>
           fnc1 == IF call.gs1 THEN Bits(QRModes["FNC1_FIRST_POSITION"], 4) ELSE <<>>
<1>1. ASSUME NeedsECI(call, mode)
      PROVE  ToECI[Charset(call)] \in Nat /\ ToECI[Charset(call)] <= 16383
  <2>1. call.charset \in DOMAIN ToECI
    BY InputsAssumption
  <2>2. Charset(call) \in {"Shift_JIS", "UTF8", "GB18030", "Binary"}
    BY <1>1, <2>1 DEF NeedsECI, Charset, ToECI
  <2> QED BY <2>2 DEF ToECI
<1>2. Bits(QRModes["ECI"], 4) \in Seq(BitValues)
      /\ Bits(QRModes["FNC1_FIRST_POSITION"], 4) \in Seq(BitValues)
      /\ Bits(QRModes[mode], 4) \in Seq(BitValues)
  <2>1. QRModes["ECI"] \in Nat /\ QRModes["FNC1_FIRST_POSITION"] \in Nat
        /\ QRModes[mode] \in Nat
    BY DEF QRModes, TextModes
  <2> QED BY <2>1, BitsLength
<1>3. eci \in Seq(BitValues)
  <2>1. CASE NeedsECI(call, mode)
    <3>1. ECIBits(ToECI[Charset(call)]) \in Seq(BitValues)
      BY <1>1, <2>1, ECIBitsLength
    <3> QED BY <3>1, <2>1, <1>2, ConcatProperties
  <2>2. CASE ~NeedsECI(call, mode)
    BY <2>2
  <2> QED BY <2>1, <2>2
<1>4. fnc1 \in Seq(BitValues)
  BY <1>2
<1>5. HeaderBits(call, mode) = eci \o fnc1 \o Bits(QRModes[mode], 4)
  BY DEF HeaderBits
<1> HIDE DEF eci, fnc1
<1> QED BY <1>2, <1>3, <1>4, <1>5, ConcatProperties

LEMMA DataIsLong ==
  ASSUME NEW mode \in TextModes, NEW length \in Nat
  PROVE  DataBitsLength(mode, length) \in Nat
<1>1. ASSUME NEW size \in 0 .. 3  PROVE GroupBits(mode, size) \in Nat
  BY DEF GroupBits, TextModes
<1>2. GroupSize[mode] \in 1 .. 3
  BY DEF GroupSize, TextModes
<1>3. ASSUME NEW g \in 1 .. 3
      PROVE  length \div g \in Nat /\ length % g \in 0 .. 3
  OBVIOUS
<1> DEFINE a == length \div GroupSize[mode]
           b == GroupBits(mode, GroupSize[mode])
           c == GroupBits(mode, length % GroupSize[mode])
<1>4. a \in Nat /\ b \in Nat /\ c \in Nat
  BY <1>1, <1>2, <1>3
<1>5. DataBitsLength(mode, length) = a * b + c
  BY DEF DataBitsLength
<1> HIDE DEF a, b, c
<1> QED BY <1>4, <1>5

LEMMA TextOf ==
  ASSUME NEW call \in Inputs, call.kind = "text"
  PROVE  /\ ModeOf(call) \in TextModes
         /\ HeaderAndDataLength(call, ModeOf(call)) \in Nat
         /\ call.level \in Level
<1> DEFINE mode == ModeOf(call)
           header == HeaderBits(call, mode)
           data == DataBitsLength(mode, Len(call.text))
<1>1. mode \in TextModes
  BY DEF ModeOf, ChooseMode, TextModes
<1>2. call.text \in Seq(0 .. 255) /\ call.level \in Level
  BY InputsAssumption
<1>3. header \in Seq(BitValues)
  <2> HIDE DEF mode
  <2> QED BY <1>1, HeaderIsSequence
<1>4. data \in Nat
  <2>1. Len(call.text) \in Nat
    BY <1>2
  <2> HIDE DEF mode
  <2> QED BY <1>1, <2>1, DataIsLong
<1>5. HeaderAndDataLength(call, mode) = Len(header) + data
  BY DEF HeaderAndDataLength
<1> HIDE DEF header, data
<1> QED BY <1>1, <1>2, <1>3, <1>4, <1>5
-----------------------------------------------------------------------------
VersionInv ==
  /\ input \in Inputs
  /\ pc = "encode" => input.kind = "text"
  /\ pc = "print" => input.kind = "printed"
  /\ SmallestVersion

LEMMA EncodeSmallest ==
  ASSUME VersionInv, Encode
  PROVE  VersionInv'
<1> USE DEF VersionInv
<1>1. input' = input /\ input.kind = "text"
  BY DEF Encode
<1> DEFINE mode == ModeOf(input)
           bits == HeaderAndDataLength(input, mode)
<1>2. CASE \E n \in VersionsFor(input, mode) : EncodedAs(mode, Model2Version(n))
  <2>1. PICK n \in VersionsFor(input, mode) : EncodedAs(mode, Model2Version(n))
    BY <1>2
  <2>2. symbol'.number = n /\ pc' = "blocks"
    BY <2>1 DEF EncodedAs, Model2Version, Version
  <2>3. IsVersionFor(input, mode, n)
    BY <2>1 DEF VersionsFor, Encodable
  <2>4. ASSUME input.version \notin DOMAIN Model2
        PROVE  SmallestWithRoom(bits, mode, input.level, n)
    <3>1. RecommendedVersion(bits, mode, input.level, n)
      BY <2>3, <2>4 DEF IsVersionFor
    <3>2. mode \in TextModes /\ bits \in Nat /\ input.level \in Level
      BY <1>1, TextOf
    <3> HIDE DEF mode, bits
    <3> QED BY <3>1, <3>2, RecommendedIsSmallest
  <2> QED BY <1>1, <2>2, <2>4 DEF SmallestVersion
<1>3. CASE pc' = "thrown"
  BY <1>1, <1>3 DEF SmallestVersion
<1> QED BY <1>2, <1>3 DEF Encode, EncodedOrThrown

(* No step behind the encoders comes to the blocks.                        *)
LEMMA StepsFromBlocks ==
  ASSUME Next, ~Encode, ~PrintSymbol
  PROVE  (input' = input /\ pc' \in {"stream", "done"}) \/ UNCHANGED vars
<1>1. CASE CorrectErrors
  BY <1>1 DEF CorrectErrors
<1>2. CASE EndOfStream
  BY <1>2 DEF EndOfStream, printed
<1>3. CASE InvalidMode
  BY <1>3 DEF InvalidMode, Fail, printed
<1>4. CASE ReadFNC1First
  BY <1>4 DEF ReadFNC1First, Reading, Stay, printed
<1>5. CASE ReadFNC1Second
  BY <1>5 DEF ReadFNC1Second, Reading, Stay, Fail, printed
<1>6. CASE ReadStructuredAppend
  BY <1>6 DEF ReadStructuredAppend, Reading, Stay, Fail, printed
<1>7. CASE ReadECI
  BY <1>7 DEF ReadECI, Reading, Stay, Fail, printed
<1>8. ASSUME NEW mode, NEW p, NEW width, pc = "stream", ReadCounted(mode, p, width)
      PROVE  input' = input /\ pc' \in {"stream", "done"}
  BY <1>8 DEF ReadCounted, ReadGroups, Stay, Fail, printed
<1>9. CASE ReadHanzi
  BY <1>9, <1>8 DEF ReadHanzi, Reading, Fail, printed
<1>10. CASE \E mode \in {"NUMERIC", "ALPHANUMERIC", "BYTE", "KANJI"} : ReadSegment(mode)
  BY <1>10, <1>8 DEF ReadSegment, Reading
<1>11. CASE Returned
  BY <1>11 DEF Returned
<1> QED BY <1>1, <1>2, <1>3, <1>4, <1>5, <1>6, <1>7, <1>9, <1>10, <1>11 DEF Next

(* No other step comes to the blocks of a text.                            *)
LEMMA OthersKeepVersion ==
  ASSUME VersionInv, Next, ~Encode
  PROVE  VersionInv'
<1>1. CASE PrintSymbol
  BY <1>1 DEF PrintSymbol, VersionInv, SmallestVersion
<1>2. CASE ~PrintSymbol
  BY <1>2, StepsFromBlocks DEF VersionInv, SmallestVersion, vars
<1> QED BY <1>1, <1>2

(* Encode never chooses a larger version than the text needs (QREncoder.   *)
(* cpp, RecommendVersion: "Decides the smallest version of QR code that    *)
(* will contain all of the provided data").                                *)
THEOREM VersionIsSmallest == Spec => []SmallestVersion
<1>1. Init => VersionInv
  BY InputsAssumption DEF Init, VersionInv, SmallestVersion
<1>2. VersionInv /\ [Next]_vars => VersionInv'
  <2>1. VersionInv /\ UNCHANGED vars => VersionInv'
    BY DEF VersionInv, SmallestVersion, vars
  <2> QED BY <2>1, EncodeSmallest, OthersKeepVersion
<1>3. VersionInv => SmallestVersion
  BY DEF VersionInv
<1> QED BY <1>1, <1>2, <1>3, PTL DEF Spec
-----------------------------------------------------------------------------
Cells == Nat \X Nat
(* Places in rows of n.                                                    *)
LEMMA PlaceInRows ==
  ASSUME NEW n \in Nat \ {0}, NEW s \in Nat, NEW i \in 1 .. s, NEW j \in 1 .. n
  PROVE  (i - 1) * n + j \in 1 .. s * n
<1> DEFINE a == (i - 1) * n
<1>1. a \in Nat  OBVIOUS
<1>2. s * n = a + (s - (i - 1)) * n  OBVIOUS
<1>3. (s - (i - 1)) * n >= n  OBVIOUS
<1> QED  BY <1>1, <1>2, <1>3

(* The row of a place, and where it is in it.                              *)
LEMMA RowAndPlace ==
  ASSUME NEW n \in Nat \ {0}, NEW q \in Nat, NEW j \in 1 .. n
  PROVE  /\ (q * n + j - 1) % n = j - 1
         /\ (q * n + j - 1) \div n = q
OBVIOUS

(* The row of the blocks that have an i-th byte.                           *)
LEMMA RowIs ==
  ASSUME NEW data \in Seq(Nat), NEW i \in Nat, NEW L \in 1 .. Len(data) + 1,
         \A j \in 1 .. Len(data) : i <= data[j] <=> L <= j
  PROVE  /\ Row(data, i) \in Seq(Cells) /\ Len(Row(data, i)) = Len(data) + 1 - L
         /\ \A m \in 1 .. Len(data) + 1 - L : Row(data, i)[m] = <<L - 1 + m, i>>
<1> DEFINE n == Len(data)
           T == Seq(Cells)
           Next1(t, j) == IF i <= data[j] THEN Append(t, <<j, i>>) ELSE t
           Calls(f) == f = [j \in 0 .. n |-> IF j = 0 THEN <<>> ELSE Next1(f[j - 1], j)]
           f == CHOOSE x : Calls(x)
<1>0. n \in Nat  BY LenProperties
<1>1. Row(data, i) = f[n]  BY DEF Row
<1>2. ASSUME NEW j \in 1 .. n, NEW t \in T  PROVE Next1(t, j) \in T
  <2>1. <<j, i>> \in Cells  BY <1>0 DEF Cells
  <2> QED  BY <2>1, AppendProperties
<1>3. \E g : Calls(g)
  <2> DEFINE step == [p \in (1 .. n) \X T |-> Next1(p[2], p[1])]
             start == <<>>
  <2>0. start \in T  BY EmptySeq
  <2> HIDE DEF T, start
  <2>1. step \in [(1 .. n) \X T -> T]
    <3>1. ASSUME NEW p \in (1 .. n) \X T  PROVE Next1(p[2], p[1]) \in T
      <4>1. p[1] \in 1 .. n /\ p[2] \in T  OBVIOUS
      <4> HIDE DEF Next1, n
      <4> QED  BY <1>2, <4>1
    <3> HIDE DEF Next1
    <3> QED  BY <3>1
  <2>2. \A j \in 1 .. n : \A t \in T : step[<<j, t>>] = Next1(t, j)
    <3> HIDE DEF Next1
    <3> QED  OBVIOUS
  <2> HIDE DEF step, Next1, n
  <2>3. PICK g : Iterates(g, n, T, start, step)  BY <1>0, <2>0, <2>1, Recursion
  <2>4. \A j \in 0 .. n : j # 0 => step[<<j, g[j - 1]>>] = Next1(g[j - 1], j)
    <3> TAKE j \in 0 .. n
    <3>1. j # 0 => j - 1 \in 0 .. n /\ j \in 1 .. n  BY <1>0
    <3>2. j # 0 => g[j - 1] \in T  BY <2>3, <3>1 DEF Iterates
    <3> QED  BY <2>2, <3>1, <3>2
  <2>5. Calls(g)  BY <2>3, <2>4 DEF Iterates, start
  <2> QED  BY <2>5
<1>4. Calls(f)  BY <1>3
<1> HIDE DEF f
<1>5. f[0] = <<>> /\ \A j \in 1 .. n : f[j] = Next1(f[j - 1], j)
  <2>0. f = [j \in 0 .. n |-> IF j = 0 THEN <<>> ELSE Next1(f[j - 1], j)]  BY <1>4
  <2> HIDE DEF Next1, n, Calls
  <2>1. f[0] = <<>>  BY <1>0, <2>0
  <2>2. ASSUME NEW j \in 1 .. n  PROVE f[j] = Next1(f[j - 1], j)
    <3>1. j \in 0 .. n /\ j # 0  BY <1>0
    <3> QED  BY <2>0, <3>1
  <2> QED  BY <2>1, <2>2
<1> DEFINE size(j) == IF j < L THEN 0 ELSE j + 1 - L
           S == {j \in 0 .. n : /\ f[j] \in T /\ Len(f[j]) = size(j)
                                /\ \A m \in 1 .. size(j) : f[j][m] = <<L - 1 + m, i>>}
<1>6. L \in Nat /\ L <= n + 1 /\ 1 <= L  BY <1>0
<1>7. 0 \in S
  <2>1. f[0] \in T /\ Len(f[0]) = 0  BY <1>5, EmptySeq
  <2>2. size(0) = 0 /\ 0 \in 0 .. n  BY <1>0, <1>6
  <2> QED  BY <2>1, <2>2
<1>8. ASSUME NEW j \in 0 .. n - 1, j \in S  PROVE j + 1 \in S
  <2>1. j + 1 \in 1 .. n /\ (j + 1) - 1 = j /\ j + 1 \in 0 .. n  BY <1>0
  <2> DEFINE t == f[j]
  <2>2. /\ t \in T /\ Len(t) = size(j)
        /\ \A m \in 1 .. size(j) : t[m] = <<L - 1 + m, i>>
    BY <1>8
  <2>3. f[j + 1] = Next1(t, j + 1)  BY <1>5, <2>1
  <2> HIDE DEF t
  <2>4. CASE L <= j + 1
    <3>1. i <= data[j + 1]  BY <2>1, <2>4
    <3>2. f[j + 1] = Append(t, <<j + 1, i>>)  BY <2>3, <3>1
    <3>3. <<j + 1, i>> \in Cells  BY <2>1 DEF Cells
    <3>4. size(j + 1) = size(j) + 1 /\ L - 1 + size(j + 1) = j + 1 /\ size(j) \in Nat
      BY <1>6, <2>1, <2>4
    <3> HIDE DEF size
    <3> DEFINE u == Append(t, <<j + 1, i>>)
    <3>5. /\ u \in T /\ Len(u) = size(j) + 1 /\ u[size(j) + 1] = <<j + 1, i>>
          /\ \A m \in 1 .. size(j) : u[m] = t[m]
      BY <2>2, <3>3, AppendProperties
    <3> HIDE DEF u
    <3>6. \A m \in 1 .. size(j + 1) : u[m] = <<L - 1 + m, i>>
      <4> TAKE m \in 1 .. size(j + 1)
      <4>1. m = size(j + 1) \/ m \in 1 .. size(j)  BY <3>4
      <4> QED  BY <2>2, <3>4, <3>5, <4>1
    <3> QED  BY <2>1, <3>2, <3>4, <3>5, <3>6 DEF u
  <2>5. CASE ~(L <= j + 1)
    <3>1. ~(i <= data[j + 1])  BY <2>1, <2>5
    <3>2. f[j + 1] = t  BY <2>3, <3>1
    <3>3. size(j + 1) = size(j)  BY <1>6, <2>1, <2>5
    <3> HIDE DEF size
    <3> QED  BY <2>1, <2>2, <3>2, <3>3
  <2> QED  BY <2>4, <2>5
<1> HIDE DEF S
<1>9. n \in S
  <2>1. \A j \in 0 .. n : j \in S  BY <1>0, <1>7, <1>8, Induct
  <2> QED  BY <1>0, <2>1
<1>10. size(n) = n + 1 - L  BY <1>0, <1>6
<1> QED  BY <1>1, <1>9, <1>10 DEF S
-----------------------------------------------------------------------------
(* The blocks of a table.                                                  *)
Sizes(b) == [j \in 1 .. NumBlocks(b) |-> NumDataCodewords(b, j)]

(* If the blocks of the table are divided as all are, the longer ones are  *)
(* the last and have one codeword more.                                    *)
LEMMA BlockSizes ==
  ASSUME NEW b \in Seq(Nat), Divided(b)
  PROVE  /\ b[1] \in Nat /\ b[2] \in Nat /\ b[3] \in Nat /\ b[4] \in Nat /\ b[5] \in Nat
         /\ NumBlocks(b) = b[2] + b[4] /\ NumBlocks(b) \in Nat \ {0} /\ b[2] # 0
         /\ LongerBlocksStartAt(b) = b[2] + 1
         /\ Sizes(b) \in Seq(Nat) /\ Len(Sizes(b)) = NumBlocks(b)
         /\ \A j \in 1 .. NumBlocks(b) :
              /\ Sizes(b)[j] = NumDataCodewords(b, j)
              /\ NumDataCodewords(b, j) = b[3] + (IF j < b[2] + 1 THEN 0 ELSE 1)
<1>1. b[1] \in Nat /\ b[2] \in Nat /\ b[3] \in Nat /\ b[4] \in Nat /\ b[5] \in Nat
  <2>1. \A k \in 1 .. 5 : k \in 1 .. Len(b)  BY LenProperties DEF Divided
  <2> QED  BY <2>1
<1> DEFINE n1 == b[2]
           k1 == b[3]
           n2 == b[4]
           k2 == b[5]
<1>2. /\ n1 \in Nat /\ k1 \in Nat /\ n2 \in Nat /\ k2 \in Nat /\ n1 # 0
      /\ (n2 = 0 /\ k2 = 0) \/ k2 = k1 + 1
  BY <1>1 DEF Divided
<1>3. /\ NumBlocks(b) = n1 + n2
      /\ LongerBlocksStartAt(b) = IF k2 = k1 THEN NumBlocks(b) + 1 ELSE n1 + 1
      /\ \A j : NumDataCodewords(b, j) = IF j <= n1 THEN k1 ELSE k2
  BY DEF NumBlocks, LongerBlocksStartAt, NumDataCodewords
<1> HIDE DEF n1, k1, n2, k2
<1>4. NumBlocks(b) \in Nat \ {0} /\ LongerBlocksStartAt(b) = n1 + 1
  BY <1>2, <1>3
<1>5. ASSUME NEW j \in 1 .. NumBlocks(b)
      PROVE  /\ NumDataCodewords(b, j) = k1 + (IF j < n1 + 1 THEN 0 ELSE 1)
             /\ NumDataCodewords(b, j) \in Nat
  BY <1>2, <1>3
<1>6. Sizes(b) \in [1 .. NumBlocks(b) -> Nat]  BY <1>5 DEF Sizes
<1>7. Sizes(b) \in Seq(Nat) /\ Len(Sizes(b)) = NumBlocks(b)
  BY <1>4, <1>6, LenProperties, SeqDef
<1>8. \A j \in 1 .. NumBlocks(b) : Sizes(b)[j] = NumDataCodewords(b, j)  BY DEF Sizes
<1> QED  BY <1>1, <1>2, <1>3, <1>4, <1>5, <1>7, <1>8 DEF n1, k1, n2, k2

(* A sequence of p elements and then one of q.                             *)
Joined(u, T, a, p, c, q) ==
  /\ u \in Seq(T) /\ Len(u) = p + q
  /\ \A k \in 1 .. p : u[k] = a[k]
  /\ \A k \in 1 .. q : u[p + k] = c[k]

LEMMA Behind ==
  ASSUME NEW T, NEW a \in Seq(T), NEW c \in Seq(T), NEW p \in Nat, NEW q \in Nat,
         Len(a) = p, Len(c) = q
  PROVE  Joined(a \o c, T, a, p, c, q)
<1> DEFINE u == a \o c
<1>1. /\ u \in Seq(T) /\ Len(u) = p + q
      /\ \A i \in 1 .. p + q : u[i] = IF i <= p THEN a[i] ELSE c[i - p]
  BY ConcatProperties
<1> HIDE DEF u
<1>2. ASSUME NEW k \in 1 .. q  PROVE u[p + k] = c[k]
  <2>1. p + k \in 1 .. p + q /\ ~(p + k <= p) /\ (p + k) - p = k  OBVIOUS
  <2> QED  BY <1>1, <2>1
<1>3. ASSUME NEW k \in 1 .. p  PROVE u[k] = a[k]
  <2>1. k \in 1 .. p + q /\ k <= p  OBVIOUS
  <2> QED  BY <1>1, <2>1
<1> QED  BY <1>1, <1>2, <1>3 DEF u, Joined

(* The data codewords of n blocks of s, from block L on s + 1: the rows    *)
(* that all blocks have, then that of the longer ones.                     *)
SizesFrom(data, n, s, L) ==
  /\ data \in Seq(Nat) /\ Len(data) = n
  /\ \A j \in 1 .. n : data[j] = s + (IF j < L THEN 0 ELSE 1)
RowByRow(f, data, s) ==
  f[0] = <<>> /\ \A i \in 1 .. s + 1 : f[i] = f[i - 1] \o Row(data, i)
DataPlaced(t, n, s, L) ==
  /\ t \in Seq(Cells) /\ Len(t) = s * n + (n + 1 - L)
  /\ \A i \in 1 .. s : \A j \in 1 .. n : t[(i - 1) * n + j] = <<j, i>>
  /\ \A j \in L .. n : t[s * n + (j - L + 1)] = <<j, s + 1>>

(* The loop over the rows.                                                 *)
LEMMA RowsAre ==
  ASSUME NEW n \in Nat \ {0}, NEW s \in Nat, NEW L \in 1 .. n + 1, NEW data,
         SizesFrom(data, n, s, L), NEW f, RowByRow(f, data, s)
  PROVE  DataPlaced(f[s + 1], n, s, L)
<1> USE DEF SizesFrom, RowByRow
<1> DEFINE S == {i \in 0 .. s : /\ f[i] \in Seq(Cells) /\ Len(f[i]) = i * n
                                /\ \A r \in 1 .. i : \A j \in 1 .. n :
                                     f[i][(r - 1) * n + j] = <<j, r>>}
<1>0. ASSUME NEW i \in 1 .. s + 1, NEW M \in 1 .. n + 1, i <= s => M = 1, i = s + 1 => M = L
      PROVE  /\ Row(data, i) \in Seq(Cells) /\ Len(Row(data, i)) = n + 1 - M
             /\ \A m \in 1 .. n + 1 - M : Row(data, i)[m] = <<M - 1 + m, i>>
  <2>1. ASSUME NEW j \in 1 .. n  PROVE i <= data[j] <=> M <= j
    <3>1. data[j] = s + (IF j < L THEN 0 ELSE 1)  OBVIOUS
    <3> QED  BY <1>0, <3>1
  <2>2. i \in Nat /\ M \in 1 .. Len(data) + 1  OBVIOUS
  <2>3. \A j \in 1 .. Len(data) : i <= data[j] <=> M <= j  BY <2>1
  <2> QED  BY <2>2, <2>3, RowIs
<1>1. 0 \in S
  <2>1. f[0] \in Seq(Cells) /\ Len(f[0]) = 0 * n  BY EmptySeq
  <2>2. 1 .. 0 = {} /\ 0 \in 0 .. s  OBVIOUS
  <2> QED  BY <2>1, <2>2
<1>2. ASSUME NEW i \in 0 .. s - 1, i \in S  PROVE i + 1 \in S
  <2> DEFINE t == f[i]
             row == Row(data, i + 1)
             u == t \o row
             p == i * n
  <2>1. i + 1 \in 1 .. s + 1 /\ (i + 1) - 1 = i /\ i + 1 \in 0 .. s /\ i + 1 <= s /\ i \in Nat
    OBVIOUS
  <2>2. /\ t \in Seq(Cells) /\ Len(t) = p /\ p \in Nat
        /\ \A r \in 1 .. i : \A j \in 1 .. n : t[(r - 1) * n + j] = <<j, r>>
    <3>1. p \in Nat  BY <2>1
    <3>2. /\ f[i] \in Seq(Cells) /\ Len(f[i]) = i * n
          /\ \A r \in 1 .. i : \A j \in 1 .. n : f[i][(r - 1) * n + j] = <<j, r>>
      BY <1>2
    <3> QED  BY <3>1, <3>2
  <2>3. /\ row \in Seq(Cells) /\ Len(row) = n
        /\ \A j \in 1 .. n : row[j] = <<j, i + 1>>
    <3>1. 1 \in 1 .. n + 1 /\ i + 1 # s + 1  BY <2>1
    <3>2. /\ row \in Seq(Cells) /\ Len(row) = n + 1 - 1
          /\ \A m \in 1 .. n + 1 - 1 : row[m] = <<1 - 1 + m, i + 1>>
      BY <1>0, <2>1, <3>1
    <3> HIDE DEF row
    <3>3. n + 1 - 1 = n /\ \A m \in 1 .. n : 1 - 1 + m = m  OBVIOUS
    <3> QED  BY <3>2, <3>3
  <2>4. f[i + 1] = u  BY <2>1
  <2>5. (i + 1) * n = p + n  BY <2>1
  <2>6. ASSUME NEW r \in 1 .. i  PROVE \A j \in 1 .. n : (r - 1) * n + j \in 1 .. p
    BY <2>1, PlaceInRows
  <2>7. \A j \in 1 .. n : ((i + 1) - 1) * n + j = p + j  BY <2>1
  <2> HIDE DEF t, row, p
  <2>8. /\ u \in Seq(Cells) /\ Len(u) = p + n
        /\ \A k \in 1 .. p : u[k] = t[k]
        /\ \A k \in 1 .. n : u[p + k] = row[k]
    <3>1. t \in Seq(Cells) /\ Len(t) = p /\ p \in Nat  BY <2>2
    <3>2. row \in Seq(Cells) /\ Len(row) = n /\ n \in Nat  BY <2>3
    <3>3. Joined(t \o row, Cells, t, p, row, n)  BY <3>1, <3>2, Behind
    <3> QED  BY <3>3 DEF Joined
  <2> HIDE DEF u
  <2>9. ASSUME NEW r \in 1 .. i + 1, NEW j \in 1 .. n  PROVE u[(r - 1) * n + j] = <<j, r>>
    <3>1. CASE r = i + 1
      <4>1. (r - 1) * n + j = p + j  BY <2>7, <3>1
      <4>2. u[p + j] = <<j, r>>  BY <2>3, <2>8, <3>1
      <4> QED  BY <4>1, <4>2
    <3>2. CASE r # i + 1
      <4>1. r \in 1 .. i  BY <2>1, <3>2
      <4>2. (r - 1) * n + j \in 1 .. p  BY <2>6, <4>1
      <4>3. t[(r - 1) * n + j] = <<j, r>>  BY <2>2, <4>1
      <4> QED  BY <2>8, <4>2, <4>3
    <3> QED  BY <3>1, <3>2
  <2> QED  BY <2>1, <2>4, <2>5, <2>8, <2>9
<1> HIDE DEF S
<1>3. s \in S
  <2>1. \A i \in 0 .. s : i \in S  BY <1>1, <1>2, Induct
  <2> QED  BY <2>1
<1> DEFINE t == f[s]
           row == Row(data, s + 1)
           u == t \o row
           p == s * n
<1>4. /\ t \in Seq(Cells) /\ Len(t) = p /\ p \in Nat
      /\ \A r \in 1 .. s : \A j \in 1 .. n : t[(r - 1) * n + j] = <<j, r>>
  <2>1. p \in Nat  OBVIOUS
  <2>2. /\ f[s] \in Seq(Cells) /\ Len(f[s]) = s * n
        /\ \A r \in 1 .. s : \A j \in 1 .. n : f[s][(r - 1) * n + j] = <<j, r>>
    BY <1>3 DEF S
  <2> QED  BY <2>1, <2>2
<1>5. /\ row \in Seq(Cells) /\ Len(row) = n + 1 - L /\ n + 1 - L \in Nat
      /\ \A m \in 1 .. n + 1 - L : row[m] = <<L - 1 + m, s + 1>>
  <2>1. s + 1 \in 1 .. s + 1 /\ ~(s + 1 <= s) /\ n + 1 - L \in Nat  OBVIOUS
  <2> QED  BY <1>0, <2>1
<1>6. f[s + 1] = u
  <2>1. s + 1 \in 1 .. s + 1 /\ (s + 1) - 1 = s  OBVIOUS
  <2> QED  BY <2>1
<1>7. \A i \in 1 .. s : \A j \in 1 .. n : (i - 1) * n + j \in 1 .. p  BY PlaceInRows
<1> HIDE DEF t, row, p
<1>8. /\ u \in Seq(Cells) /\ Len(u) = p + (n + 1 - L)
      /\ \A k \in 1 .. p : u[k] = t[k]
      /\ \A k \in 1 .. n + 1 - L : u[p + k] = row[k]
  <2>1. t \in Seq(Cells) /\ Len(t) = p /\ p \in Nat  BY <1>4
  <2> DEFINE q == n + 1 - L
  <2>2. row \in Seq(Cells) /\ Len(row) = q /\ q \in Nat  BY <1>5
  <2> HIDE DEF q
  <2>3. Joined(t \o row, Cells, t, p, row, q)  BY <2>1, <2>2, Behind
  <2> QED  BY <2>3 DEF Joined, q
<1> HIDE DEF u
<1>9. ASSUME NEW i \in 1 .. s, NEW j \in 1 .. n  PROVE u[(i - 1) * n + j] = <<j, i>>
  BY <1>4, <1>7, <1>8
<1>10. ASSUME NEW j \in L .. n  PROVE u[p + (j - L + 1)] = <<j, s + 1>>
  <2> DEFINE m == j - L + 1
  <2>1. m \in 1 .. n + 1 - L /\ L - 1 + m = j  OBVIOUS
  <2> HIDE DEF m
  <2>2. u[p + m] = <<j, s + 1>>  BY <1>5, <1>8, <2>1
  <2> QED  BY <2>2 DEF m
<1> QED  BY <1>6, <1>8, <1>9, <1>10 DEF p, DataPlaced
-----------------------------------------------------------------------------
(* Data codewords in rows over n blocks, then rows of parity.              *)
Places(cw, data, n, s, L, ec) ==
  /\ cw \in Seq(Cells) /\ Len(cw) = s * n + (n + 1 - L) + ec * n
  /\ \A i \in 1 .. s : \A j \in 1 .. n : cw[(i - 1) * n + j] = <<j, i>>
  /\ \A j \in L .. n : cw[s * n + (j - L + 1)] = <<j, s + 1>>
  /\ \A i \in 1 .. ec : \A j \in 1 .. n :
       cw[s * n + (n + 1 - L) + ((i - 1) * n + j)] = <<j, data[j] + i>>

(* A remainder and a quotient.                                             *)
LEMMA Quotient ==
  ASSUME NEW n \in Nat \ {0}, NEW h \in Nat
  PROVE  h % n \in 0 .. n - 1 /\ h \div n \in Nat
OBVIOUS

ParityOf(data, ec) ==
  LET parity == ByRows(ec, Len(data))
  IN  [k \in DOMAIN parity |-> <<parity[k][1], data[parity[k][1]] + parity[k][2]>>]
ParityPlaced(t, data, n, ec) ==
  /\ t \in Seq(Cells) /\ Len(t) = ec * n
  /\ \A i \in 1 .. ec : \A j \in 1 .. n : t[(i - 1) * n + j] = <<j, data[j] + i>>

(* The error correction codewords in rows.                                 *)
LEMMA ParityIs ==
  ASSUME NEW n \in Nat \ {0}, NEW data \in Seq(Nat), Len(data) = n, NEW ec \in Nat
  PROVE  ParityPlaced(ParityOf(data, ec), data, n, ec)
<1> DEFINE par == ParityOf(data, ec)
           p == ec * n
           a(k) == ((k - 1) % n) + 1
           q(k) == ((k - 1) \div n) + 1
<1>1. p \in Nat  OBVIOUS
<1>2. \A i \in 1 .. ec : \A j \in 1 .. n : (i - 1) * n + j \in 1 .. p  BY PlaceInRows
<1>3. ASSUME NEW i \in 1 .. ec, NEW j \in 1 .. n
      PROVE  a((i - 1) * n + j) = j /\ q((i - 1) * n + j) = i
  <2> DEFINE r == i - 1
  <2>1. r \in Nat /\ r + 1 = i /\ j - 1 + 1 = j  OBVIOUS
  <2> HIDE DEF r
  <2>2. (r * n + j - 1) % n = j - 1 /\ (r * n + j - 1) \div n = r  BY <2>1, RowAndPlace
  <2> QED  BY <2>1, <2>2 DEF r
<1>4. ASSUME NEW k \in 1 .. p  PROVE a(k) \in 1 .. n /\ q(k) \in Nat
  <2>1. k - 1 \in Nat  OBVIOUS
  <2> DEFINE h == k - 1
  <2> HIDE DEF h
  <2>2. h \in Nat  BY <2>1 DEF h
  <2>3. h % n \in 0 .. n - 1 /\ h \div n \in Nat  BY <2>2, Quotient
  <2> QED  BY <2>3 DEF h
<1>5. ByRows(ec, n) = [k \in 1 .. p |-> <<a(k), q(k)>>]  BY DEF ByRows
<1> HIDE DEF p, a, q
<1>6. par = [k \in 1 .. p |-> <<a(k), data[a(k)] + q(k)>>]
  <2>1. DOMAIN ByRows(ec, n) = 1 .. p  BY <1>5
  <2>2. \A k \in 1 .. p : ByRows(ec, n)[k][1] = a(k) /\ ByRows(ec, n)[k][2] = q(k)  BY <1>5
  <2> QED  BY <2>1, <2>2 DEF ParityOf
<1> HIDE DEF par
<1>7. \A k \in 1 .. p : par[k] \in Cells
  <2> TAKE k \in 1 .. p
  <2>1. a(k) \in 1 .. Len(data) /\ q(k) \in Nat  BY <1>4
  <2>2. data[a(k)] \in Nat /\ a(k) \in Nat  BY <2>1, ElementOfSeq
  <2>3. data[a(k)] + q(k) \in Nat  BY <2>1, <2>2
  <2>4. par[k] = <<a(k), data[a(k)] + q(k)>>  BY <1>6
  <2> QED  BY <2>2, <2>3, <2>4 DEF Cells
<1>8. par \in [1 .. p -> Cells]  BY <1>6, <1>7
<1>9. par \in Seq(Cells) /\ Len(par) = p
  BY <1>1, <1>8, SeqDef, LenProperties
<1>10. ASSUME NEW i \in 1 .. ec, NEW j \in 1 .. n
       PROVE  par[(i - 1) * n + j] = <<j, data[j] + i>>
  <2> DEFINE k == (i - 1) * n + j
  <2>1. k \in 1 .. p /\ a(k) = j /\ q(k) = i  BY <1>2, <1>3
  <2> HIDE DEF k
  <2>2. par[k] = <<j, data[j] + i>>  BY <1>6, <2>1
  <2> QED  BY <2>2 DEF k
<1> QED  BY <1>9, <1>10 DEF p, par, ParityPlaced

(* What the loops of the encoder print.                                    *)
LEMMA InterleavedIs ==
  ASSUME NEW n \in Nat \ {0}, NEW s \in Nat, NEW L \in 2 .. n + 1, NEW data,
         SizesFrom(data, n, s, L), NEW ec \in Nat
  PROVE  Places(Interleaved(data, ec), data, n, s, L, ec)
<1> DEFINE N == s + 1
           T == Seq(Cells)
           Calls(g) == g = [i \in 0 .. N |-> IF i = 0 THEN <<>> ELSE g[i - 1] \o Row(data, i)]
           rows == CHOOSE x : Calls(x)
           par == ParityOf(data, ec)
<1>0. /\ data \in Seq(Nat) /\ Len(data) = n
      /\ \A j \in 1 .. n : data[j] = s + (IF j < L THEN 0 ELSE 1)
  BY DEF SizesFrom
<1>1. data[1] + 1 = N
  <2>1. 1 \in 1 .. n /\ 1 < L  OBVIOUS
  <2> QED  BY <1>0, <2>1
<1>2. Interleaved(data, ec) = rows[N] \o par  BY <1>1 DEF Interleaved, ParityOf
<1>3. ASSUME NEW i \in 1 .. N  PROVE Row(data, i) \in T
  <2> DEFINE M == IF i <= s THEN 1 ELSE L
  <2>1. ASSUME NEW j \in 1 .. n  PROVE i <= data[j] <=> M <= j
    <3>1. data[j] = s + (IF j < L THEN 0 ELSE 1)  BY <1>0
    <3> QED  BY <3>1
  <2>2. i \in Nat /\ M \in 1 .. Len(data) + 1  BY <1>0
  <2> HIDE DEF M
  <2>3. \A j \in 1 .. Len(data) : i <= data[j] <=> M <= j  BY <1>0, <2>1
  <2> QED  BY <1>0, <2>2, <2>3, RowIs
<1>4. \E g : Calls(g)
  <2> DEFINE step == [p \in (1 .. N) \X T |-> p[2] \o Row(data, p[1])]
             start == <<>>
  <2>0. start \in T /\ N \in Nat  BY EmptySeq
  <2>1. step \in [(1 .. N) \X T -> T]
    <3>1. ASSUME NEW p \in (1 .. N) \X T  PROVE p[2] \o Row(data, p[1]) \in T
      <4>1. p[1] \in 1 .. N /\ p[2] \in T  OBVIOUS
      <4>2. Row(data, p[1]) \in T  BY <1>3, <4>1
      <4> QED  BY <4>1, <4>2, ConcatProperties
    <3> QED  BY <3>1
  <2> HIDE DEF T, start, N
  <2>2. \A i \in 1 .. N : \A t \in T : step[<<i, t>>] = t \o Row(data, i)  OBVIOUS
  <2> HIDE DEF step
  <2>3. PICK g : Iterates(g, N, T, start, step)  BY <2>0, <2>1, Recursion
  <2>4. \A i \in 0 .. N : i # 0 => step[<<i, g[i - 1]>>] = g[i - 1] \o Row(data, i)
    <3> TAKE i \in 0 .. N
    <3>1. i # 0 => i - 1 \in 0 .. N /\ i \in 1 .. N  BY <2>0
    <3>2. i # 0 => g[i - 1] \in T  BY <2>3, <3>1 DEF Iterates
    <3> QED  BY <2>2, <3>1, <3>2
  <2>5. Calls(g)  BY <2>3, <2>4 DEF Iterates, start
  <2> QED  BY <2>5
<1>5. Calls(rows)  BY <1>4
<1> HIDE DEF rows
<1>6. RowByRow(rows, data, s)
  <2>0. rows = [i \in 0 .. N |-> IF i = 0 THEN <<>> ELSE rows[i - 1] \o Row(data, i)]  BY <1>5
  <2> HIDE DEF Calls
  <2>1. \A i \in 1 .. s + 1 : i \in 0 .. N /\ i # 0  OBVIOUS
  <2>2. 0 \in 0 .. N  OBVIOUS
  <2> HIDE DEF N
  <2> QED  BY <2>0, <2>1, <2>2 DEF RowByRow
<1> HIDE DEF Calls, T
<1>7. DataPlaced(rows[N], n, s, L)
  <2>1. L \in 1 .. n + 1  OBVIOUS
  <2> QED  BY <1>6, <2>1, RowsAre
<1>8. ParityPlaced(par, data, n, ec)  BY <1>0, ParityIs
<1> DEFINE a == rows[N]
           p == s * n + (n + 1 - L)
           q == ec * n
           u == a \o par
<1>9. p \in Nat /\ q \in Nat
  <2>1. s * n \in Nat /\ n + 1 - L \in Nat  OBVIOUS
  <2> QED  BY <2>1
<1>10. /\ \A i \in 1 .. s : \A j \in 1 .. n : (i - 1) * n + j \in 1 .. p
       /\ \A j \in L .. n : s * n + (j - L + 1) \in 1 .. p
       /\ \A i \in 1 .. ec : \A j \in 1 .. n : (i - 1) * n + j \in 1 .. q
  <2> DEFINE h == s * n
  <2>1. h \in Nat  OBVIOUS
  <2>2. \A i \in 1 .. s : \A j \in 1 .. n : (i - 1) * n + j \in 1 .. h  BY PlaceInRows
  <2>3. \A i \in 1 .. ec : \A j \in 1 .. n : (i - 1) * n + j \in 1 .. q  BY PlaceInRows
  <2>4. \A j \in L .. n : j - L + 1 \in 1 .. n + 1 - L  OBVIOUS
  <2> HIDE DEF h, q
  <2>5. 1 .. h \subseteq 1 .. h + (n + 1 - L)  BY <2>1
  <2>6. \A j \in L .. n : h + (j - L + 1) \in 1 .. h + (n + 1 - L)  BY <2>1, <2>4
  <2> QED  BY <2>2, <2>3, <2>5, <2>6 DEF h
<1> HIDE DEF par
<1>11. a \in Seq(Cells) /\ Len(a) = p  BY <1>7 DEF DataPlaced
<1>12. par \in Seq(Cells) /\ Len(par) = q  BY <1>8 DEF ParityPlaced
<1>13. Interleaved(data, ec) = u  BY <1>2
<1> HIDE DEF a, p, q, u
<1>14. Joined(a \o par, Cells, a, p, par, q)  BY <1>9, <1>11, <1>12, Behind
<1>15. Joined(u, Cells, a, p, par, q)  BY <1>14 DEF u
<1>16. u \in Seq(Cells) /\ Len(u) = s * n + (n + 1 - L) + ec * n
  BY <1>15 DEF Joined, p, q
<1>17. \A i \in 1 .. s : \A j \in 1 .. n : u[(i - 1) * n + j] = <<j, i>>
  <2> TAKE i \in 1 .. s
  <2> TAKE j \in 1 .. n
  <2>1. a[(i - 1) * n + j] = <<j, i>>  BY <1>7 DEF a, DataPlaced
  <2>2. (i - 1) * n + j \in 1 .. p  BY <1>10
  <2> QED  BY <1>15, <2>1, <2>2 DEF Joined
<1>18. \A j \in L .. n : u[s * n + (j - L + 1)] = <<j, s + 1>>
  <2> TAKE j \in L .. n
  <2>1. a[s * n + (j - L + 1)] = <<j, s + 1>>  BY <1>7 DEF a, DataPlaced
  <2>2. s * n + (j - L + 1) \in 1 .. p  BY <1>10
  <2> QED  BY <1>15, <2>1, <2>2 DEF Joined
<1>19. \A i \in 1 .. ec : \A j \in 1 .. n : u[p + ((i - 1) * n + j)] = <<j, data[j] + i>>
  <2> TAKE i \in 1 .. ec
  <2> TAKE j \in 1 .. n
  <2>1. par[(i - 1) * n + j] = <<j, data[j] + i>>  BY <1>8 DEF ParityPlaced
  <2>2. (i - 1) * n + j \in 1 .. q  BY <1>10
  <2> QED  BY <1>15, <2>1, <2>2 DEF Joined
<1> QED  BY <1>13, <1>16, <1>17, <1>18, <1>19 DEF Places, p
-----------------------------------------------------------------------------
(* The encoder divides the numbers of bytes by that of the blocks and gets *)
(* the sizes of the table.                                                 *)
LEMMA Division ==
  ASSUME NEW n \in Nat \ {0}, NEW q \in Nat, NEW r \in 0 .. n - 1
  PROVE  (q * n + r) \div n = q /\ (q * n + r) % n = r
<1>1. r + 1 \in 1 .. n  OBVIOUS
<1>2. (q * n + (r + 1) - 1) % n = (r + 1) - 1 /\ (q * n + (r + 1) - 1) \div n = q
  BY <1>1, RowAndPlace
<1>3. q * n + (r + 1) - 1 = q * n + r /\ (r + 1) - 1 = r  OBVIOUS
<1> QED  BY <1>2, <1>3

(* The codewords of blocks of two sizes.                                   *)
LEMMA CodewordsOf ==
  ASSUME NEW e \in Nat, NEW n1 \in Nat, NEW k1 \in Nat, NEW n2 \in Nat, NEW k2 \in Nat,
         n2 = 0 \/ k2 = k1 + 1
  PROVE  /\ n1 * (k1 + e) + n2 * (k2 + e) = (k1 + e) * (n1 + n2) + n2
         /\ (k1 + e) * (n1 + n2) + n2 - e * (n1 + n2) = k1 * (n1 + n2) + n2
<1>1. CASE n2 = 0  BY <1>1
<1>2. CASE k2 = k1 + 1  BY <1>2
<1> QED  BY <1>1, <1>2

(* For every version and level.                                            *)
LEMMA EncoderBlocks ==
  ASSUME NEW k \in DOMAIN Model2, NEW level \in Level
  PROVE  /\ Model2[k][level] \in Seq(Nat) /\ Divided(Model2[k][level])
         /\ InterleaveWithECBytes(Model2Version(k), level)
              = Interleaved(Sizes(Model2[k][level]), Model2[k][level][1])
<1> DEFINE b == Model2[k][level]
           v == Model2Version(k)
           n == NumBlocks(b)
<1>1. b \in Seq(Nat) /\ Divided(b)
  <2>1. b \in Seq(Nat)
    <3>1. Model2[k] \in [Level -> ECBlocks]  BY VersionsAssumption
    <3> QED  BY <3>1 DEF ECBlocks
  <2> QED  BY <2>1, BlocksAssumption
<1>2. v.levels[level] = b /\ TotalCodewords(v) = AllCodewords(b)
  <2>1. v.levels = Model2[k] /\ v.type = "Model2"  BY DEF Model2Version, Version
  <2>2. TotalCodewords(v) = AllCodewords(Model2[k][2])  BY <2>1 DEF TotalCodewords
  <2> QED  BY <2>1, <2>2, BlocksAssumption
<1> DEFINE e == b[1]
           n1 == b[2]
           k1 == b[3]
           n2 == b[4]
           k2 == b[5]
           T == TotalCodewords(v)
           D == NumDataBytes(v, level)
<1>3. /\ e \in Nat /\ n1 \in Nat /\ k1 \in Nat /\ n2 \in Nat /\ k2 \in Nat /\ n1 # 0
      /\ n2 = 0 \/ k2 = k1 + 1
      /\ n = n1 + n2 /\ n \in Nat \ {0}
      /\ \A j \in 1 .. n : NumDataCodewords(b, j) = k1 + (IF j < n1 + 1 THEN 0 ELSE 1)
  BY <1>1, BlockSizes DEF Divided
<1>4. T = n1 * (k1 + e) + n2 * (k2 + e) /\ D = T - e * (n1 + n2)
  BY <1>2 DEF AllCodewords, NumDataBytes, TotalECCodewords
<1>5. /\ InterleaveWithECBytes(v, level)
           = Interleaved([j \in 1 .. n |-> NumDataBytesInBlock(v, level, j)],
                         (T \div n) - [j \in 1 .. n |-> NumDataBytesInBlock(v, level, j)][1])
      /\ \A j : NumDataBytesInBlock(v, level, j)
                  = IF j <= n - (T % n) THEN D \div n ELSE (D \div n) + 1
  BY <1>2 DEF InterleaveWithECBytes, NumDataBytesInBlock
<1>6. Sizes(b) = [j \in 1 .. n |-> NumDataCodewords(b, j)]  BY DEF Sizes
<1> HIDE DEF b, v, n, e, n1, k1, n2, k2, T, D
<1>7. T = (k1 + e) * n + n2 /\ D = k1 * n + n2
  BY <1>3, <1>4, CodewordsOf
<1>8. n2 \in 0 .. n - 1 /\ k1 + e \in Nat  BY <1>3
<1>9. T \div n = k1 + e /\ T % n = n2  BY <1>3, <1>7, <1>8, Division
<1>10. D \div n = k1  BY <1>3, <1>7, <1>8, Division
<1>11. ASSUME NEW j \in 1 .. n
       PROVE  NumDataBytesInBlock(v, level, j) = NumDataCodewords(b, j)
  <2>1. NumDataBytesInBlock(v, level, j) = IF j <= n - n2 THEN k1 ELSE k1 + 1
    BY <1>5, <1>9, <1>10
  <2>2. NumDataCodewords(b, j) = k1 + (IF j < n1 + 1 THEN 0 ELSE 1)  BY <1>3
  <2>3. n - n2 = n1  BY <1>3
  <2> QED  BY <1>3, <2>1, <2>2, <2>3
<1>12. [j \in 1 .. n |-> NumDataBytesInBlock(v, level, j)] = Sizes(b)
  BY <1>6, <1>11
<1>13. (T \div n) - Sizes(b)[1] = e
  <2>1. 1 \in 1 .. n /\ 1 < n1 + 1  BY <1>3
  <2>2. NumDataCodewords(b, 1) = k1  BY <1>3, <2>1
  <2>3. Sizes(b)[1] = k1  BY <1>6, <2>1, <2>2
  <2> QED  BY <1>3, <1>9, <2>3
<1>14. InterleaveWithECBytes(v, level) = Interleaved(Sizes(b), e)
  BY <1>5, <1>12, <1>13
<1> QED  BY <1>1, <1>14 DEF b, v, e
-----------------------------------------------------------------------------
(* Where GetDataBlocks looks for the i-th codeword of block j.             *)
RawOf(concatenated, j, i, n, s, L, e) ==
  LET data == n * s + n + 1 - L
      parity == i - s - (IF j < L THEN 0 ELSE 1)
  IN  CASE i <= s /\ concatenated -> (j - 1) * s + i
        [] i <= s /\ ~concatenated -> (i - 1) * n + j
        [] i > s /\ parity = 0 -> n * s + j - L + 1
        [] parity \in 1 .. e /\ concatenated -> data + (j - 1) * e + parity
        [] parity \in 1 .. e /\ ~concatenated -> data + (parity - 1) * n + j
        [] OTHER -> 0
RawAt(raw, concatenated, j, i, n, s, L, e, d) ==
  \/ i <= s /\ raw = IF concatenated THEN (j - 1) * s + i ELSE (i - 1) * n + j
  \/ j >= L /\ i = s + 1 /\ raw = n * s + (j - L + 1)
  \/ \E p \in 1 .. e :
       /\ i = d + p
       /\ raw = n * s + (n + 1 - L)
                  + (IF concatenated THEN (j - 1) * e + p ELSE (p - 1) * n + j)

(* Either before the last row, in it, or in the parity.                    *)
LEMMA PlaceInBlock ==
  ASSUME NEW s \in Nat, NEW L \in Nat, NEW e \in Nat, NEW j \in Nat, NEW i \in Nat,
         NEW d, d = s + (IF j < L THEN 0 ELSE 1), i <= e + d, i >= 1,
         NEW p, p = i - s - (IF j < L THEN 0 ELSE 1)
  PROVE  /\ p \in Int
         /\ i <= s => p \notin 1 .. e
         /\ i > s /\ p = 0 => j >= L /\ i = s + 1
         /\ i > s /\ p # 0 => i = d + p /\ p \in 1 .. e
OBVIOUS

(* The alternatives of GetDataBlocks are these three.                      *)
LEMMA RawCases ==
  ASSUME NEW concatenated \in BOOLEAN, NEW n \in Nat \ {0}, NEW s \in Nat, NEW L \in Nat,
         NEW e \in Nat, NEW d \in Nat, NEW j \in 1 .. n, NEW i \in 1 .. e + d,
         d = s + (IF j < L THEN 0 ELSE 1)
  PROVE  RawAt(RawOf(concatenated, j, i, n, s, L, e), concatenated, j, i, n, s, L, e, d)
<1> DEFINE p == i - s - (IF j < L THEN 0 ELSE 1)
           h == n * s
           h1 == (j - 1) * e
           h2 == (p - 1) * n
           c1 == (j - 1) * s
           c2 == (i - 1) * n
           raw == RawOf(concatenated, j, i, n, s, L, e)
<1>1. raw = CASE i <= s /\ concatenated -> c1 + i
              [] i <= s /\ ~concatenated -> c2 + j
              [] i > s /\ p = 0 -> h + j - L + 1
              [] p \in 1 .. e /\ concatenated -> h + n + 1 - L + h1 + p
              [] p \in 1 .. e /\ ~concatenated -> h + n + 1 - L + h2 + j
              [] OTHER -> 0
  BY DEF RawOf
<1>2. j \in Nat /\ i \in Nat /\ i >= 1 /\ i <= e + d  OBVIOUS
<1>3. /\ p \in Int
      /\ i <= s => p \notin 1 .. e
      /\ i > s /\ p = 0 => j >= L /\ i = s + 1
      /\ i > s /\ p # 0 => i = d + p /\ p \in 1 .. e
  <2>1. p = i - s - (IF j < L THEN 0 ELSE 1)  OBVIOUS
  <2> HIDE DEF p
  <2> QED  BY <1>2, <2>1, PlaceInBlock
<1>4. h \in Int /\ h1 \in Int /\ h2 \in Int
  <2>1. p \in Int  BY <1>3
  <2> HIDE DEF p
  <2> QED  BY <2>1
<1> HIDE DEF p, h, h1, h2, c1, c2, raw
<1>5. /\ h + j - L + 1 = h + (j - L + 1)
      /\ h + n + 1 - L + h1 + p = h + (n + 1 - L) + (h1 + p)
      /\ h + n + 1 - L + h2 + j = h + (n + 1 - L) + (h2 + j)
  BY <1>2, <1>3, <1>4
<1>6. CASE i <= s
  <2>1. ~(i > s) /\ p \notin 1 .. e  BY <1>2, <1>3, <1>6
  <2>2. raw = IF concatenated THEN c1 + i ELSE c2 + j  BY <1>1, <1>6, <2>1
  <2> QED  BY <1>6, <2>2 DEF RawAt, c1, c2, raw
<1>7. CASE i > s /\ p = 0
  <2>1. ~(i <= s) /\ p \notin 1 .. e  BY <1>2, <1>7
  <2>2. raw = h + j - L + 1  BY <1>1, <1>7, <2>1
  <2>3. raw = h + (j - L + 1)  BY <1>5, <2>2
  <2>4. j >= L /\ i = s + 1  BY <1>3, <1>7
  <2> QED  BY <2>3, <2>4 DEF RawAt, h, raw
<1>8. CASE i > s /\ p # 0
  <2>1. ~(i <= s)  BY <1>2, <1>8
  <2>2. i = d + p /\ p \in 1 .. e  BY <1>3, <1>8
  <2>3. raw = IF concatenated THEN h + n + 1 - L + h1 + p ELSE h + n + 1 - L + h2 + j
    BY <1>1, <1>8, <2>1, <2>2
  <2>4. raw = h + (n + 1 - L) + (IF concatenated THEN h1 + p ELSE h2 + j)
    BY <1>5, <2>3
  <2> QED  BY <2>2, <2>4 DEF RawAt, h, h1, h2, raw
<1>9. i <= s \/ i > s  BY <1>2
<1> QED  BY <1>6, <1>7, <1>8, <1>9 DEF raw

(* All codewords of a table are looked for at such places.                 *)
LEMMA BlocksAre ==
  ASSUME NEW v, NEW level, v.levels[level] \in Seq(Nat), Divided(v.levels[level])
  PROVE  LET b == v.levels[level]
             blocks == GetDataBlocks(v, level)
         IN  /\ DOMAIN blocks = 1 .. NumBlocks(b)
             /\ \A j \in 1 .. NumBlocks(b) :
                  /\ DOMAIN blocks[j] = 1 .. b[1] + NumDataCodewords(b, j)
                  /\ \A i \in 1 .. b[1] + NumDataCodewords(b, j) :
                       RawAt(blocks[j][i], v.type = "Model1", j, i,
                             NumBlocks(b), b[3], b[2] + 1, b[1], NumDataCodewords(b, j))
<1> DEFINE b == v.levels[level]
           n == NumBlocks(b)
           e == b[1]
           s == b[3]
           L == b[2] + 1
           d(j) == NumDataCodewords(b, j)
           con == v.type = "Model1"
           blocks == GetDataBlocks(v, level)
           R(j, i) == RawOf(con, j, i, n, d(1), LongerBlocksStartAt(b), e)
<1>1. /\ b[1] \in Nat /\ b[2] \in Nat /\ b[3] \in Nat /\ b[2] # 0
      /\ n \in Nat \ {0} /\ LongerBlocksStartAt(b) = L /\ b[4] \in Nat
      /\ \A m \in 1 .. n : d(m) = s + (IF m < L THEN 0 ELSE 1)
  BY BlockSizes
<1>2. e \in Nat /\ s \in Nat /\ L \in Nat /\ 1 < L
  <2> DEFINE m == b[2]
  <2>1. m \in Nat /\ m # 0 /\ L = m + 1  BY <1>1
  <2> HIDE DEF m, L
  <2>2. L \in Nat /\ 1 < L  BY <2>1
  <2> QED  BY <1>1, <2>2
<1>3. blocks = [j \in 1 .. n |-> [i \in 1 .. e + d(j) |-> R(j, i)]]
  BY DEF GetDataBlocks, RawOf
<1>4. con \in BOOLEAN  OBVIOUS
<1> HIDE DEF b, n, e, s, L, d, con, blocks
<1>5. d(1) = s
  <2>1. 1 \in 1 .. n /\ 1 < L  BY <1>1, <1>2
  <2> QED  BY <1>1, <1>2, <2>1
<1>6. ASSUME NEW j \in 1 .. n, NEW i \in 1 .. e + d(j)
      PROVE  RawAt(blocks[j][i], con, j, i, n, s, L, e, d(j))
  <2>1. d(j) = s + (IF j < L THEN 0 ELSE 1)  BY <1>1
  <2>2. d(j) \in Nat  BY <1>2, <2>1
  <2>3. R(j, i) = RawOf(con, j, i, n, s, L, e)  BY <1>1, <1>5
  <2>4. RawAt(RawOf(con, j, i, n, s, L, e), con, j, i, n, s, L, e, d(j))
    BY <1>1, <1>2, <1>4, <2>1, <2>2, RawCases
  <2> HIDE DEF R
  <2>5. blocks[j][i] = R(j, i)  BY <1>3
  <2> QED  BY <2>3, <2>4, <2>5
<1> HIDE DEF R
<1>7. DOMAIN blocks = 1 .. n /\ \A j \in 1 .. n : DOMAIN blocks[j] = 1 .. e + d(j)
  BY <1>3
<1> QED  BY <1>6, <1>7 DEF b, n, e, s, L, d, con, blocks
-----------------------------------------------------------------------------
(* Every codeword of every block is found where it was put.                *)
BlocksFound(v, level, cw) ==
  LET blocks == GetDataBlocks(v, level)
  IN  \A j \in DOMAIN blocks : \A i \in DOMAIN blocks[j] :
        blocks[j][i] \in DOMAIN cw /\ cw[blocks[j][i]] = <<j, i>>

(* It is enough that they are at all these places.                         *)
LEMMA FoundIfRaw ==
  ASSUME NEW v, NEW level, v.levels[level] \in Seq(Nat), Divided(v.levels[level]), NEW cw,
         LET b == v.levels[level]
         IN  \A j \in 1 .. NumBlocks(b) : \A i \in 1 .. b[1] + NumDataCodewords(b, j) : \A raw :
               RawAt(raw, v.type = "Model1", j, i,
                     NumBlocks(b), b[3], b[2] + 1, b[1], NumDataCodewords(b, j))
                 => raw \in DOMAIN cw /\ cw[raw] = <<j, i>>
  PROVE  BlocksFound(v, level, cw)
<1> DEFINE b == v.levels[level]
           blocks == GetDataBlocks(v, level)
           n == NumBlocks(b)
           m(j) == b[1] + NumDataCodewords(b, j)
           At(raw, j, i) == RawAt(raw, v.type = "Model1", j, i,
                                  n, b[3], b[2] + 1, b[1], NumDataCodewords(b, j))
<1>1. DOMAIN blocks = 1 .. n /\ \A j \in 1 .. n : DOMAIN blocks[j] = 1 .. m(j)
  BY BlocksAre
<1>2. \A j \in 1 .. n : \A i \in 1 .. m(j) : At(blocks[j][i], j, i)
  BY BlocksAre
<1>3. \A j \in 1 .. n : \A i \in 1 .. m(j) : \A raw :
        At(raw, j, i) => raw \in DOMAIN cw /\ cw[raw] = <<j, i>>
  OBVIOUS
<1>4. BlocksFound(v, level, cw) <=>
        \A j \in DOMAIN blocks : \A i \in DOMAIN blocks[j] :
          blocks[j][i] \in DOMAIN cw /\ cw[blocks[j][i]] = <<j, i>>
  BY DEF BlocksFound
<1> HIDE DEF blocks, n, m, At
<1>5. ASSUME NEW j \in DOMAIN blocks, NEW i \in DOMAIN blocks[j]
      PROVE  blocks[j][i] \in DOMAIN cw /\ cw[blocks[j][i]] = <<j, i>>
  <2>1. j \in 1 .. n /\ i \in 1 .. m(j)  BY <1>1
  <2> QED  BY <1>2, <1>3, <2>1
<1> QED  BY <1>4, <1>5

(* Rows over blocks.                                                       *)
LEMMA InterleavedFound ==
  ASSUME NEW v, NEW level, NEW b \in Seq(Nat), b = v.levels[level], Divided(b),
         v.type # "Model1"
  PROVE  BlocksFound(v, level, Interleaved(Sizes(b), b[1]))
<1> DEFINE n == NumBlocks(b)
           e == b[1]
           s == b[3]
           L == b[2] + 1
           data == Sizes(b)
           cw == Interleaved(data, e)
<1>1. /\ b[1] \in Nat /\ b[2] \in Nat /\ b[3] \in Nat /\ b[4] \in Nat /\ b[2] # 0
      /\ n = b[2] + b[4] /\ n \in Nat \ {0} /\ data \in Seq(Nat) /\ Len(data) = n
      /\ \A j \in 1 .. n : /\ data[j] = NumDataCodewords(b, j)
                           /\ NumDataCodewords(b, j) = s + (IF j < L THEN 0 ELSE 1)
  BY BlockSizes
<1>2. e \in Nat /\ s \in Nat /\ L \in 2 .. n + 1
  <2> DEFINE m == b[2]
             k == b[4]
  <2>1. m \in Nat /\ m # 0 /\ L = m + 1 /\ n = m + k /\ k \in Nat  BY <1>1
  <2> HIDE DEF m, L, n, k
  <2>2. L \in 2 .. n + 1  BY <2>1
  <2> QED  BY <1>1, <2>2
<1>3. SizesFrom(data, n, s, L)
  BY <1>1 DEF SizesFrom
<1> HIDE DEF n, e, s, L, data
<1>4. Places(cw, data, n, s, L, e)
  BY <1>1, <1>2, <1>3, InterleavedIs
<1> HIDE DEF cw
<1>5. ASSUME NEW j \in 1 .. n, NEW i \in 1 .. e + NumDataCodewords(b, j), NEW raw,
             RawAt(raw, FALSE, j, i, n, s, L, e, NumDataCodewords(b, j))
      PROVE  raw \in DOMAIN cw /\ cw[raw] = <<j, i>>
  <2> DEFINE h == s * n
             q == e * n
             d == NumDataCodewords(b, j)
  <2>0. /\ h \in Nat /\ q \in Nat /\ n * s = h /\ n + 1 - L \in Nat /\ j \in Nat /\ i \in Nat
        /\ i >= 1 /\ d = data[j]
    <3>1. d = s + (IF j < L THEN 0 ELSE 1) /\ d = data[j] /\ i \in 1 .. e + d  BY <1>1
    <3>2. s \in Nat /\ n \in Nat /\ L \in 2 .. n + 1 /\ e \in Nat  BY <1>1, <1>2
    <3> HIDE DEF d
    <3>3. h \in Nat /\ q \in Nat /\ n * s = h  BY <3>2
    <3>4. n + 1 - L \in Nat /\ j \in Nat  BY <3>2
    <3>5. d \in Nat  BY <3>1, <3>2, <3>4
    <3>6. i \in Nat /\ i >= 1  BY <3>1, <3>2, <3>5
    <3> QED  BY <3>1, <3>3, <3>4, <3>6
  <2>1. DOMAIN cw = 1 .. h + (n + 1 - L) + q
    BY <1>4, LenProperties DEF Places
  <2>2. CASE i <= s /\ raw = (i - 1) * n + j
    <3>1. i \in 1 .. s  BY <1>2, <2>0, <2>2
    <3>2. raw \in 1 .. h  BY <1>1, <1>2, <2>2, <3>1, PlaceInRows
    <3>3. raw \in DOMAIN cw
      <4> HIDE DEF h, q
      <4> QED  BY <2>0, <2>1, <3>2
    <3>4. cw[raw] = <<j, i>>  BY <1>4, <2>2, <3>1 DEF Places
    <3> QED  BY <3>3, <3>4
  <2>3. CASE j >= L /\ i = s + 1 /\ raw = n * s + (j - L + 1)
    <3>1. j \in L .. n  BY <1>1, <1>2, <2>3
    <3>2. raw = h + (j - L + 1)  BY <2>0, <2>3
    <3>3. raw \in DOMAIN cw
      <4> HIDE DEF h, q
      <4>1. j - L + 1 \in 1 .. n + 1 - L
        <5>1. L \in Int /\ n \in Int  BY <1>1, <1>2
        <5> QED  BY <3>1, <5>1
      <4> DEFINE m == j - L + 1
                 r == n + 1 - L
      <4>2. m \in 1 .. r /\ r \in Nat /\ raw = h + m /\ DOMAIN cw = 1 .. h + r + q
        BY <2>0, <2>1, <3>2, <4>1
      <4> HIDE DEF m, r
      <4> QED  BY <2>0, <4>2
    <3>4. cw[s * n + (j - L + 1)] = <<j, s + 1>>  BY <1>4, <3>1 DEF Places
    <3> QED  BY <2>3, <3>2, <3>3, <3>4
  <2>4. ASSUME NEW p \in 1 .. e, i = d + p, raw = n * s + (n + 1 - L) + ((p - 1) * n + j)
        PROVE  raw \in DOMAIN cw /\ cw[raw] = <<j, i>>
    <3>1. (p - 1) * n + j \in 1 .. q  BY <1>1, <1>2, PlaceInRows
    <3> DEFINE m == (p - 1) * n + j
               r == n + 1 - L
    <3>2. raw = h + r + m  BY <2>0, <2>4
    <3>3. raw \in DOMAIN cw
      <4>1. m \in 1 .. q /\ r \in Nat /\ DOMAIN cw = 1 .. h + r + q  BY <2>0, <2>1, <3>1
      <4> HIDE DEF m, r, h, q
      <4> QED  BY <2>0, <3>2, <4>1
    <3>4. cw[s * n + (n + 1 - L) + ((p - 1) * n + j)] = <<j, data[j] + p>>
      BY <1>4 DEF Places
    <3>5. cw[h + r + m] = <<j, data[j] + p>>  BY <3>4
    <3> HIDE DEF h, r, m
    <3> QED  BY <2>0, <2>4, <3>2, <3>3, <3>5
  <2> QED  BY <1>5, <2>2, <2>3, <2>4 DEF RawAt
<1>6. (v.type = "Model1") = FALSE  OBVIOUS
<1>7. \A j \in 1 .. n : \A i \in 1 .. e + NumDataCodewords(b, j) : \A raw :
        RawAt(raw, v.type = "Model1", j, i, n, s, L, e, NumDataCodewords(b, j))
          => raw \in DOMAIN cw /\ cw[raw] = <<j, i>>
  BY <1>5, <1>6
<1>8. v.levels[level] \in Seq(Nat) /\ Divided(v.levels[level])  OBVIOUS
<1> QED  BY <1>7, <1>8, FoundIfRaw DEF n, e, s, L, data, cw
-----------------------------------------------------------------------------
(* Model 1: block after block.                                             *)
BlockByBlock(first, m, n) ==
  [k \in 1 .. m * n |-> <<((k - 1) \div m) + 1, first + ((k - 1) % m) + 1>>]

Consecutive(t, first, m, n) ==
  /\ t \in Seq(Cells) /\ Len(t) = n * m
  /\ \A j \in 1 .. n : \A i \in 1 .. m :
       (j - 1) * m + i \in 1 .. n * m /\ t[(j - 1) * m + i] = <<j, first + i>>

(* Blocks behind each other.                                               *)
LEMMA BlockByBlockIs ==
  ASSUME NEW first \in Nat, NEW m \in Nat, NEW n \in Nat \ {0}
  PROVE  Consecutive(BlockByBlock(first, m, n), first, m, n)
<1> DEFINE t == BlockByBlock(first, m, n)
           p == n * m
           a(k) == ((k - 1) \div m) + 1
           q(k) == ((k - 1) % m) + 1
<1>1. p \in Nat /\ m * n = p  OBVIOUS
<1>2. t = [k \in 1 .. p |-> <<a(k), first + q(k)>>]
  <2>1. t = [k \in 1 .. m * n |-> <<a(k), first + ((k - 1) % m) + 1>>]
    BY DEF BlockByBlock
  <2>2. ASSUME NEW k \in 1 .. p  PROVE first + ((k - 1) % m) + 1 = first + q(k)
    <3>1. k - 1 \in Nat /\ m \in Nat \ {0}
      <4>1. CASE m = 0
        <5>1. p = 0  BY <4>1
        <5> QED  BY <5>1
      <4>2. CASE m # 0  BY <4>2, <1>1
      <4> QED  BY <4>1, <4>2
    <3> DEFINE h == k - 1
    <3> HIDE DEF h
    <3>2. h % m \in 0 .. m - 1  BY <3>1, Quotient DEF h
    <3>3. first + (h % m) + 1 = first + ((h % m) + 1)
      <4> DEFINE g == h % m
      <4>1. g \in Nat  BY <3>1, <3>2
      <4> HIDE DEF g
      <4>2. first + g + 1 = first + (g + 1)  BY <4>1
      <4> QED  BY <4>2 DEF g
    <3> QED  BY <3>3 DEF h
  <2> HIDE DEF t, p, a, q
  <2> QED  BY <1>1, <2>1, <2>2
<1>3. ASSUME NEW k \in 1 .. p  PROVE a(k) \in Nat /\ q(k) \in Nat
  <2>1. k - 1 \in Nat /\ m \in Nat \ {0}
    <3>1. CASE m = 0
      <4>1. p = 0  BY <3>1
      <4> QED  BY <4>1
    <3>2. CASE m # 0  BY <3>2, <1>1
    <3> QED  BY <3>1, <3>2
  <2> DEFINE h == k - 1
  <2> HIDE DEF h
  <2>2. h % m \in 0 .. m - 1 /\ h \div m \in Nat  BY <2>1, Quotient DEF h
  <2> QED  BY <2>1, <2>2 DEF h
<1>4. ASSUME NEW j \in 1 .. n, NEW i \in 1 .. m
      PROVE  /\ (j - 1) * m + i \in 1 .. p
             /\ a((j - 1) * m + i) = j /\ q((j - 1) * m + i) = i
  <2>1. m \in Nat \ {0}  OBVIOUS
  <2>2. (j - 1) * m + i \in 1 .. p  BY <2>1, PlaceInRows
  <2> DEFINE r == j - 1
  <2>3. r \in Nat /\ r + 1 = j /\ i - 1 + 1 = i  OBVIOUS
  <2> HIDE DEF r
  <2>4. (r * m + i - 1) % m = i - 1 /\ (r * m + i - 1) \div m = r  BY <2>1, <2>3, RowAndPlace
  <2> QED  BY <2>2, <2>3, <2>4 DEF r
<1> HIDE DEF t, p, a, q
<1>5. t \in [1 .. p -> Cells]
  <2>1. \A k \in 1 .. p : <<a(k), first + q(k)>> \in Cells  BY <1>3 DEF Cells
  <2> QED  BY <1>2, <2>1
<1>6. t \in Seq(Cells) /\ Len(t) = p  BY <1>1, <1>5, SeqDef, LenProperties
<1>7. ASSUME NEW j \in 1 .. n, NEW i \in 1 .. m
      PROVE  (j - 1) * m + i \in 1 .. p /\ t[(j - 1) * m + i] = <<j, first + i>>
  <2> DEFINE k == (j - 1) * m + i
  <2>1. k \in 1 .. p /\ a(k) = j /\ q(k) = i  BY <1>4
  <2> HIDE DEF k
  <2>2. t[k] = <<j, first + i>>  BY <1>2, <2>1
  <2> QED  BY <2>1, <2>2 DEF k
<1> QED  BY <1>6, <1>7 DEF t, p, Consecutive

(* Also if there are codewords behind the blocks.                          *)
LEMMA ConcatenatedFound ==
  ASSUME NEW v, NEW level, NEW b \in Seq(Nat), b = v.levels[level], Printable(v, b),
         v.type = "Model1"
  PROVE  BlocksFound(v, level, StandardOrder(v, level))
<1> DEFINE n == NumBlocks(b)
           e == b[1]
           s == b[3]
           L == b[2] + 1
           A == BlockByBlock(0, s, n)
           B == BlockByBlock(s, e, n)
           all == A \o B
           N == TotalCodewords(v)
           cw == StandardOrder(v, level)
<1>0. Divided(b) /\ b[4] = 0 /\ N \in Nat /\ AllCodewords(b) <= N
  BY DEF Printable
<1>1. /\ b[1] \in Nat /\ b[2] \in Nat /\ b[3] \in Nat /\ b[5] \in Nat /\ b[2] # 0
      /\ n = b[2] + b[4] /\ n \in Nat \ {0}
      /\ \A j \in 1 .. n : NumDataCodewords(b, j) = s + (IF j < L THEN 0 ELSE 1)
  BY <1>0, BlockSizes
<1>2. /\ e \in Nat /\ s \in Nat /\ L = n + 1
      /\ \A j \in 1 .. n : NumDataCodewords(b, j) = s
  <2>1. e \in Nat /\ s \in Nat  BY <1>1
  <2>2. L = n + 1  BY <1>0, <1>1
  <2> HIDE DEF n, e, s, L
  <2>3. ASSUME NEW j \in 1 .. n  PROVE NumDataCodewords(b, j) = s
    <3>1. j < L  BY <1>1, <2>2
    <3> QED  BY <1>1, <2>1, <3>1
  <2> QED  BY <2>1, <2>2, <2>3
<1>3. n * s + n * e <= N
  <2> DEFINE n1 == b[2]
             k2 == b[5]
  <2>1. AllCodewords(b) = n1 * (s + e) + 0 * (k2 + e) /\ n = n1 /\ k2 \in Nat /\ n1 \in Nat
    BY <1>0, <1>1 DEF AllCodewords
  <2> HIDE DEF n1, k2, n, s, e, N
  <2>2. n1 * (s + e) + 0 * (k2 + e) = n1 * s + n1 * e  BY <1>2, <2>1
  <2> QED  BY <1>0, <2>1, <2>2
<1>4. cw = [k \in 1 .. N |-> IF k <= Len(all) THEN all[k] ELSE <<0, k>>]
  <2> DEFINE data == [j \in 1 .. n |-> NumDataCodewords(b, j)]
  <2>1. data[1] = s
    <3>1. 1 \in 1 .. n  BY <1>1
    <3> QED  BY <1>2, <3>1
  <2> DEFINE all2 == BlockByBlock(0, data[1], n) \o BlockByBlock(data[1], e, n)
  <2>2. cw = [k \in 1 .. N |-> IF k <= Len(all2) THEN all2[k] ELSE <<0, k>>]
    BY DEF StandardOrder, BlockByBlock
  <2> HIDE DEF n, e, s, data, N, cw
  <2>3. all2 = all  BY <2>1
  <2> HIDE DEF all, all2
  <2> QED  BY <2>2, <2>3
<1> HIDE DEF n, e, s, L, N, cw
<1> DEFINE h == n * s
           q == n * e
<1>5. h \in Nat /\ q \in Nat /\ h + q <= N
  <2>1. h \in Nat /\ q \in Nat
    <3>1. n \in Nat /\ s \in Nat /\ e \in Nat  BY <1>1, <1>2
    <3>2. \A x, y \in Nat : x * y \in Nat  OBVIOUS
    <3> QED  BY <3>1, <3>2, Zenon
  <2>2. h + q <= N  BY <1>3
  <2> QED  BY <2>1, <2>2
<1>6. Consecutive(A, 0, s, n) /\ Consecutive(B, s, e, n)
  <2>1. 0 \in Nat  OBVIOUS
  <2> QED  BY <1>1, <1>2, <2>1, BlockByBlockIs
<1> HIDE DEF A, B
<1>7. /\ A \in Seq(Cells) /\ Len(A) = h
      /\ \A j \in 1 .. n : \A i \in 1 .. s :
           (j - 1) * s + i \in 1 .. h /\ A[(j - 1) * s + i] = <<j, 0 + i>>
  BY <1>6 DEF Consecutive
<1>8. /\ B \in Seq(Cells) /\ Len(B) = q
      /\ \A j \in 1 .. n : \A i \in 1 .. e :
           (j - 1) * e + i \in 1 .. q /\ B[(j - 1) * e + i] = <<j, s + i>>
  BY <1>6 DEF Consecutive
<1> HIDE DEF h, q
<1>9. Joined(all, Cells, A, h, B, q)
  <2>1. Joined(A \o B, Cells, A, h, B, q)  BY <1>5, <1>7, <1>8, Behind
  <2> QED  BY <2>1
<1> HIDE DEF all
<1>10. ASSUME NEW k \in 1 .. h + q  PROVE k \in DOMAIN cw /\ cw[k] = all[k]
  <2>1. k \in 1 .. N /\ k <= Len(all)  BY <1>5, <1>9, <1>0 DEF Joined
  <2> QED  BY <1>4, <2>1
<1>11. ASSUME NEW j \in 1 .. n, NEW i \in 1 .. e + NumDataCodewords(b, j), NEW raw,
              RawAt(raw, TRUE, j, i, n, s, L, e, NumDataCodewords(b, j))
       PROVE  raw \in DOMAIN cw /\ cw[raw] = <<j, i>>
  <2>1. NumDataCodewords(b, j) = s /\ j \in Nat /\ n \in Nat /\ i \in Nat /\ i >= 1
    <3>1. NumDataCodewords(b, j) = s  BY <1>2
    <3> QED  BY <1>1, <1>2, <3>1
  <2>2. CASE i <= s /\ raw = (j - 1) * s + i
    <3>1. i \in 1 .. s  BY <1>2, <2>1, <2>2
    <3>2. raw \in 1 .. h /\ A[raw] = <<j, 0 + i>>  BY <1>7, <2>2, <3>1
    <3>3. raw \in 1 .. h + q /\ all[raw] = <<j, 0 + i>>  BY <1>5, <1>9, <3>2 DEF Joined
    <3>4. 0 + i = i  BY <2>1
    <3> QED  BY <1>10, <3>3, <3>4
  <2>3. ASSUME NEW p \in 1 .. e, i = s + p, raw = n * s + (n + 1 - L) + ((j - 1) * e + p)
        PROVE  raw \in DOMAIN cw /\ cw[raw] = <<j, i>>
    <3> DEFINE m == (j - 1) * e + p
    <3>1. m \in 1 .. q /\ B[m] = <<j, s + p>>  BY <1>8
    <3>2. raw = h + (n + 1 - L) + m  BY <2>3 DEF h
    <3> HIDE DEF m
    <3>3. raw = h + m  BY <1>2, <1>5, <2>1, <3>1, <3>2
    <3>4. h + m \in 1 .. h + q /\ all[h + m] = <<j, s + p>>  BY <1>5, <1>9, <3>1 DEF Joined
    <3> QED  BY <1>10, <2>3, <3>3, <3>4
  <2>4. ~(j >= L)  BY <1>2, <2>1
  <2>5. \/ i <= s /\ raw = (j - 1) * s + i
        \/ \E p \in 1 .. e : i = s + p /\ raw = n * s + (n + 1 - L) + ((j - 1) * e + p)
    BY <1>11, <2>1, <2>4 DEF RawAt
  <2> QED  BY <2>2, <2>3, <2>5
<1>12. (v.type = "Model1") = TRUE  OBVIOUS
<1>13. \A j \in 1 .. n : \A i \in 1 .. e + NumDataCodewords(b, j) : \A raw :
         RawAt(raw, v.type = "Model1", j, i, n, s, L, e, NumDataCodewords(b, j))
           => raw \in DOMAIN cw /\ cw[raw] = <<j, i>>
  BY <1>11, <1>12
<1>14. v.levels[level] \in Seq(Nat) /\ Divided(v.levels[level])  BY <1>0
<1> QED  BY <1>13, <1>14, FoundIfRaw DEF n, e, s, L, cw
-----------------------------------------------------------------------------
BlocksInv ==
  /\ VersionInv
  /\ OriginalBlocks

(* The two steps that print a symbol.                                      *)
LEMMA EncodeFound ==
  ASSUME VersionInv, Encode
  PROVE  OriginalBlocks'
<1>1. input \in Inputs /\ input.kind = "text" /\ input' = input
  BY DEF VersionInv, Encode
<1>2. input.level \in Level  BY <1>1, InputsAssumption
<1>3. CASE \E n \in VersionsFor(input, ModeOf(input)) :
             EncodedAs(ModeOf(input), Model2Version(n))
  <2>1. PICK n \in VersionsFor(input, ModeOf(input)) :
               EncodedAs(ModeOf(input), Model2Version(n))
    BY <1>3
  <2> DEFINE v == Model2Version(n)
             b == Model2[n][input.level]
  <2>2. n \in DOMAIN Model2  BY DEF VersionsFor
  <2>3. symbol' = v /\ codewords' = InterleaveWithECBytes(v, input.level)
    BY <2>1 DEF EncodedAs
  <2>4. /\ b \in Seq(Nat) /\ Divided(b)
        /\ InterleaveWithECBytes(v, input.level) = Interleaved(Sizes(b), b[1])
    BY <1>2, <2>2, EncoderBlocks
  <2>5. b = v.levels[input.level] /\ v.type # "Model1"  BY DEF Model2Version, Version
  <2> HIDE DEF v, b
  <2>6. BlocksFound(v, input.level, Interleaved(Sizes(b), b[1]))
    BY <2>4, <2>5, InterleavedFound
  <2> QED  BY <1>1, <2>3, <2>4, <2>6 DEF OriginalBlocks, BlocksFound
<1>4. CASE pc' = "thrown"  BY <1>4 DEF OriginalBlocks
<1> QED  BY <1>3, <1>4 DEF Encode, EncodedOrThrown

LEMMA PrintFound ==
  ASSUME input \in Inputs, input.kind = "printed", PrintSymbol
  PROVE  OriginalBlocks'
<1> DEFINE v == input.symbol
           level == input.level
           b == v.levels[level]
<1>1. /\ input' = input /\ symbol' = v /\ codewords' = StandardOrder(v, level)
  BY DEF PrintSymbol
<1>2. Printable(v, b) /\ b \in Seq(Nat) /\ Divided(b)
  BY InputsAssumption DEF Printable, ECBlocks
<1>3. v.type # "Model1" => StandardOrder(v, level) = Interleaved(Sizes(b), b[1])
  BY DEF StandardOrder, Sizes
<1>4. BlocksFound(v, level, StandardOrder(v, level))
  <2> DEFINE c == b
  <2>1. c = v.levels[level]  OBVIOUS
  <2> HIDE DEF c, v, level
  <2>2. CASE v.type = "Model1"
    BY <1>2, <2>1, <2>2, ConcatenatedFound
  <2>3. CASE v.type # "Model1"
    BY <1>2, <1>3, <2>1, <2>3, InterleavedFound
  <2> QED  BY <2>2, <2>3
<1> QED  BY <1>1, <1>4 DEF OriginalBlocks, BlocksFound

(* No other step comes to the blocks.                                      *)
LEMMA BlocksStay == Spec => []BlocksInv
<1>1. Init => BlocksInv
  BY InputsAssumption DEF Init, BlocksInv, VersionInv, SmallestVersion, OriginalBlocks
<1>2. BlocksInv /\ [Next]_vars => BlocksInv'
  <2> SUFFICES ASSUME BlocksInv, [Next]_vars  PROVE BlocksInv'
    OBVIOUS
  <2>1. CASE UNCHANGED vars
    BY <2>1 DEF BlocksInv, VersionInv, SmallestVersion, OriginalBlocks, vars
  <2>2. CASE Encode
    BY <2>2, EncodeSmallest, EncodeFound DEF BlocksInv
  <2>3. CASE PrintSymbol
    <3>1. VersionInv'
      BY <2>3 DEF PrintSymbol, BlocksInv, VersionInv, SmallestVersion
    <3>2. input \in Inputs /\ input.kind = "printed"
      BY <2>3 DEF PrintSymbol, BlocksInv, VersionInv
    <3> QED  BY <2>3, <3>1, <3>2, PrintFound DEF BlocksInv
  <2>4. CASE Next /\ ~Encode /\ ~PrintSymbol
    <3>1. VersionInv'  BY <2>4, OthersKeepVersion DEF BlocksInv
    <3>2. OriginalBlocks'
      BY <2>1, <2>4, StepsFromBlocks DEF OriginalBlocks, BlocksInv, vars
    <3> QED  BY <3>1, <3>2 DEF BlocksInv
  <2> QED  BY <2>1, <2>2, <2>3, <2>4
<1> QED BY <1>1, <1>2, PTL DEF Spec

(* Whatever the table and whatever is printed: where the decoder looks for *)
(* the codewords of a block, the encoder has put them (QRDataBlock.h:      *)
(* "This method will separate the data into original blocks").             *)
THEOREM BlocksAreOriginal == Spec => []OriginalBlocks
<1>1. BlocksInv => OriginalBlocks
  BY DEF BlocksInv
<1> QED BY <1>1, BlocksStay, PTL
=============================================================================
