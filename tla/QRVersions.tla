----------------------------- MODULE QRVersions -----------------------------
(***************************************************************************)
(* What the QR Code encoder and decoder know of a version: how wide the    *)
(* fields of its bit stream are (QRCodecMode.cpp), what fits into it and   *)
(* how its codewords are divided into blocks (QREncoder.cpp, QRDataBlock.  *)
(* cpp).  QRMatrix has the numbers.                                        *)
(***************************************************************************)
EXTENDS Integers, Sequences

CONSTANTS
  Model2,                  \* the rows of Model2Table
  LastSmall, LastMedium    \* 9 and 26: the versions with fewer count bits

Level == 1 .. 4            \* ErrorCorrectionLevel: Low, Medium, Quality, High
ECBlocks == Seq(Nat)

(* The members of ECBlocks; what the last one adds up are all codewords,   *)
(* although it is called totalDataCodewords.                               *)
NumBlocks(b) == b[2] + b[4]
TotalECCodewords(b) == b[1] * (b[2] + b[4])
AllCodewords(b) == b[2] * (b[3] + b[1]) + b[4] * (b[5] + b[1])

ASSUME VersionsAssumption ==
  /\ LastSmall \in Nat /\ LastMedium \in Nat /\ LastSmall <= LastMedium
  /\ Model2 \in Seq([Level -> ECBlocks]) /\ Model2 # <<>>
  /\ \A n \in DOMAIN Model2, l \in Level :
       /\ Len(Model2[n][l]) = 5
       /\ AllCodewords(Model2[n][2]) - TotalECCodewords(Model2[n][l]) \in Nat

(* As in all tables: the blocks of the second kind, if there are any, have  *)
(* one data codeword more than those of the first, no block is without     *)
(* parity, and the levels of a version have the same number of codewords.  *)
Divided(b) ==
  /\ Len(b) = 5 /\ b[1] # 0 /\ b[2] # 0
  /\ \/ b[4] = 0 /\ b[5] = 0
     \/ b[5] = b[3] + 1
ASSUME BlocksAssumption ==
  \A n \in DOMAIN Model2, l \in Level :
    Divided(Model2[n][l]) /\ AllCodewords(Model2[n][l]) = AllCodewords(Model2[n][2])

Version(type, number, levels) == [type |-> type, number |-> number, levels |-> levels]
Model2Version(n) == Version("Model2", n, Model2[n])

(* The constructors look at one level only.                                *)
TotalCodewords(v) ==
  AllCodewords(v.levels[IF v.type \in {"Model2", "rMQR"} THEN 2 ELSE 1])
NumDataBytes(v, level) == TotalCodewords(v) - TotalECCodewords(v.levels[level])

ASSUME GrowingAssumption ==
  \A level \in Level : \A n, m \in DOMAIN Model2 :
    n < m => NumDataBytes(Model2Version(n), level) < NumDataBytes(Model2Version(m), level)
-----------------------------------------------------------------------------
(* The fields of the bit stream.                                           *)
CodecModeBitsLength(v) ==
  CASE v.type = "Micro" -> v.number - 1
    [] v.type = "rMQR" -> 3
    [] OTHER -> 4
TerminatorBitsLength(v) ==
  CASE v.type = "Micro" -> 2 * v.number + 1
    [] v.type = "rMQR" -> 3
    [] OTHER -> 4

(* CodecMode and its values, which differ in the smaller symbols.          *)
QRModes == [TERMINATOR |-> 0, NUMERIC |-> 1, ALPHANUMERIC |-> 2, STRUCTURED_APPEND |-> 3,
            BYTE |-> 4, FNC1_FIRST_POSITION |-> 5, ECI |-> 7, KANJI |-> 8,
            FNC1_SECOND_POSITION |-> 9, HANZI |-> 13]
MicroModes == [NUMERIC |-> 0, ALPHANUMERIC |-> 1, BYTE |-> 2, KANJI |-> 3]
RMQRModes == [TERMINATOR |-> 0, NUMERIC |-> 1, ALPHANUMERIC |-> 2, BYTE |-> 3, KANJI |-> 4,
              FNC1_FIRST_POSITION |-> 5, FNC1_SECOND_POSITION |-> 6, ECI |-> 7]
ModesOf(type) ==
  CASE type = "Micro" -> MicroModes [] type = "rMQR" -> RMQRModes [] OTHER -> QRModes
CodecModesForBits(bits, type) ==
  {m \in DOMAIN ModesOf(type) : ModesOf(type)[m] = bits}

RMQRCountBits ==
  [NUMERIC |-> <<4, 5, 6, 7, 7, 5, 6, 7, 7, 8, 4, 6, 7, 7, 8, 8,
     5, 6, 7, 7, 8, 8, 7, 7, 8, 8, 9, 7, 8, 8, 8, 9>>,
   ALPHANUMERIC |-> <<3, 5, 5, 6, 6, 5, 5, 6, 6, 7, 4, 5, 6, 6, 7, 7,
     5, 6, 6, 7, 7, 8, 6, 7, 7, 7, 8, 6, 7, 7, 8, 8>>,
   BYTE |-> <<3, 4, 5, 5, 6, 4, 5, 5, 6, 6, 3, 5, 5, 6, 6, 7,
     4, 5, 6, 6, 7, 7, 6, 6, 7, 7, 7, 6, 6, 7, 7, 8>>,
   KANJI |-> <<2, 3, 4, 5, 5, 3, 4, 5, 5, 6, 2, 4, 5, 5, 6, 6,
     3, 5, 5, 6, 6, 7, 5, 5, 6, 6, 7, 5, 6, 6, 6, 7>>]
MicroCountBits ==       \* those of the versions up to 4
  [NUMERIC |-> <<3, 4, 5, 6>>, ALPHANUMERIC |-> <<0, 3, 4, 5>>,
   BYTE |-> <<0, 0, 4, 5>>, KANJI |-> <<0, 0, 3, 4>>]
QRCountBits ==          \* small, medium, large versions
  [NUMERIC |-> <<10, 12, 14>>, ALPHANUMERIC |-> <<9, 11, 13>>, BYTE |-> <<8, 16, 16>>,
   KANJI |-> <<8, 10, 12>>, HANZI |-> <<8, 10, 12>>]

ClassOf(number) == IF number <= LastSmall THEN 1 ELSE IF number <= LastMedium THEN 2 ELSE 3

Width(table, mode, column) == IF mode \in DOMAIN table THEN table[mode][column] ELSE 0
CharacterCountBits(mode, v) ==
  CASE v.type = "Micro" -> Width(MicroCountBits, mode, v.number)
    [] v.type = "rMQR" -> Width(RMQRCountBits, mode, v.number)
    [] OTHER -> Width(QRCountBits, mode, ClassOf(v.number))
-----------------------------------------------------------------------------
(* The choice of a version.  `bits` are those of the header and the data,  *)
(* without the count whose width depends on the version.                   *)
WillFit(bits, v, level) == NumDataBytes(v, level) >= (bits + 7) \div 8

Fits(bits, level, n) == n \in DOMAIN Model2 /\ WillFit(bits, Model2Version(n), level)
ChosenVersion(bits, level, n) ==
  Fits(bits, level, n) /\ \A m \in 1 .. n - 1 : ~Fits(bits, level, m)

BitsNeeded(bits, mode, n) == bits + CharacterCountBits(mode, Model2Version(n))

RecommendedOnce(bits, mode, level, n) ==         \* mutant: the first guess is taken
  ChosenVersion(BitsNeeded(bits, mode, 1), level, n)

(* RecommendVersion: "I am still not sure this works in 100% of cases."    *)
RecommendedVersion(bits, mode, level, n) ==
  \E guess \in DOMAIN Model2 :
    /\ ChosenVersion(BitsNeeded(bits, mode, 1), level, guess)
    /\ ChosenVersion(BitsNeeded(bits, mode, guess), level, n)

(* What it should be: the smallest version that has room for everything.   *)
HasRoom(bits, mode, level, n) == Fits(BitsNeeded(bits, mode, n), level, n)
SmallestWithRoom(bits, mode, level, n) ==
  HasRoom(bits, mode, level, n) /\ \A m \in 1 .. n - 1 : ~HasRoom(bits, mode, level, m)
-----------------------------------------------------------------------------
(* Blocks.  A codeword is <<j, i>>, the i-th of block j; its data come     *)
(* before its error correction codewords.                                  *)

(* GetNumDataBytesAndNumECBytesForBlockID divides the numbers of bytes by  *)
(* that of the blocks; the last blocks take the remainder.                 *)
NumDataBytesInBlock(v, level, j) ==
  LET n == NumBlocks(v.levels[level])
      inGroup1 == NumDataBytes(v, level) \div n
  IN  IF j <= n - (TotalCodewords(v) % n) THEN inGroup1 ELSE inGroup1 + 1

(* InterleaveWithECBytes throws if they do not add up.                     *)
BytesMatchOffset(v, level) ==
  LET n == NumBlocks(v.levels[level])
  IN  NumDataBytes(v, level) % n = TotalCodewords(v) % n

(* Its loops over the bytes and in them over the blocks.                   *)
ByRows(rows, n) == [k \in 1 .. rows * n |-> <<((k - 1) % n) + 1, ((k - 1) \div n) + 1>>]

Row(data, i) ==                              \* of the blocks that have an i-th byte
  LET row[j \in 0 .. Len(data)] ==
        IF j = 0 THEN <<>>
        ELSE IF i <= data[j] THEN Append(row[j - 1], <<j, i>>) ELSE row[j - 1]
  IN  row[Len(data)]

Interleaved(data, ec) ==
  LET rows[i \in 0 .. data[1] + 1] ==
        IF i = 0 THEN <<>> ELSE rows[i - 1] \o Row(data, i)
      parity == ByRows(ec, Len(data))
  IN  rows[data[1] + 1]
      \o [k \in DOMAIN parity |-> <<parity[k][1], data[parity[k][1]] + parity[k][2]>>]

InterleaveWithECBytes(v, level) ==
  LET n == NumBlocks(v.levels[level])
      data == [j \in 1 .. n |-> NumDataBytesInBlock(v, level, j)]
  IN  Interleaved(data, (TotalCodewords(v) \div n) - data[1])

(* DataBlock::GetDataBlocks: the sizes are those of the table.             *)
NumDataCodewords(b, j) == IF j <= b[2] THEN b[3] ELSE b[5]
LongerBlocksStartAt(b) == IF b[5] = b[3] THEN NumBlocks(b) + 1 ELSE b[2] + 1

(* For each codeword of each block the raw codeword that is put there; 0   *)
(* if none is.                                                             *)
GetDataBlocksShifted(v, level) ==                \* mutant: i for iOffset
  LET b == v.levels[level]
      n == NumBlocks(b)
      short == NumDataCodewords(b, 1)
      longer == LongerBlocksStartAt(b)
      data == n * short + n + 1 - longer
      Raw(j, i) ==
        CASE i <= short -> (i - 1) * n + j
          [] i > short -> data + (i - short - 1) * n + j
  IN  [j \in 1 .. n |-> [i \in 1 .. b[1] + NumDataCodewords(b, j) |-> Raw(j, i)]]

GetDataBlocks(v, level) ==
  LET b == v.levels[level]
      n == NumBlocks(b)
      short == NumDataCodewords(b, 1)
      longer == LongerBlocksStartAt(b)
      data == n * short + n + 1 - longer     \* where the parity starts
      concatenated == v.type = "Model1"
      Raw(j, i) ==
        LET parity == i - short - (IF j < longer THEN 0 ELSE 1)
        IN  CASE i <= short /\ concatenated -> (j - 1) * short + i
              [] i <= short /\ ~concatenated -> (i - 1) * n + j
              [] i > short /\ parity = 0 -> n * short + j - longer + 1
              [] parity \in 1 .. b[1] /\ concatenated -> data + (j - 1) * b[1] + parity
              [] parity \in 1 .. b[1] /\ ~concatenated -> data + (parity - 1) * n + j
              [] OTHER -> 0
  IN  [j \in 1 .. n |-> [i \in 1 .. b[1] + NumDataCodewords(b, j) |-> Raw(j, i)]]
=============================================================================
