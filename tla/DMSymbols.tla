------------------------------ MODULE DMSymbols ------------------------------
(***************************************************************************)
(* The symbols of Data Matrix, which the writer and the reader know from   *)
(* two tables: PROD_SYMBOLS (DMSymbolInfo.cpp) by the number of data       *)
(* codewords, allVersions (DMVersion.cpp) by the dimensions; and how both  *)
(* interleave the Reed-Solomon blocks of a symbol (DMECEncoder.cpp,        *)
(* DMDataBlock.cpp).  A codeword is told by its block and its place in it. *)
(***************************************************************************)
EXTENDS Integers, Sequences, FiniteSets

Shapes == {"NONE", "SQUARE", "RECTANGLE"}

Symbol(rectangular, data, ec, width, height, regions, rsData, rsEC) ==
  [rectangular |-> rectangular, data |-> data, ec |-> ec, width |-> width,
   height |-> height, regions |-> regions, rsData |-> rsData, rsEC |-> rsEC]
OneBlock(rectangular, data, ec, width, height, regions) ==
  Symbol(rectangular, data, ec, width, height, regions, data, ec)
Blocks(data, ec, side, regions, rsData, rsEC) ==
  Symbol(FALSE, data, ec, side, side, regions, rsData, rsEC)

PROD_SYMBOLS ==
  <<OneBlock(FALSE, 3, 5, 8, 8, 1), OneBlock(FALSE, 5, 7, 10, 10, 1),
    OneBlock(TRUE, 5, 7, 16, 6, 1), OneBlock(FALSE, 8, 10, 12, 12, 1),
    OneBlock(TRUE, 10, 11, 14, 6, 2), OneBlock(FALSE, 12, 12, 14, 14, 1),
    OneBlock(TRUE, 16, 14, 24, 10, 1), OneBlock(FALSE, 18, 14, 16, 16, 1),
    OneBlock(FALSE, 22, 18, 18, 18, 1), OneBlock(TRUE, 22, 18, 16, 10, 2),
    OneBlock(FALSE, 30, 20, 20, 20, 1), OneBlock(TRUE, 32, 24, 16, 14, 2),
    OneBlock(FALSE, 36, 24, 22, 22, 1), OneBlock(FALSE, 44, 28, 24, 24, 1),
    OneBlock(TRUE, 49, 28, 22, 14, 2), OneBlock(FALSE, 62, 36, 14, 14, 4),
    OneBlock(FALSE, 86, 42, 16, 16, 4), OneBlock(FALSE, 114, 48, 18, 18, 4),
    OneBlock(FALSE, 144, 56, 20, 20, 4), OneBlock(FALSE, 174, 68, 22, 22, 4),
    Blocks(204, 84, 24, 4, 102, 42), Blocks(280, 112, 14, 16, 140, 56),
    Blocks(368, 144, 16, 16, 92, 36), Blocks(456, 192, 18, 16, 114, 48),
    Blocks(576, 224, 20, 16, 144, 56), Blocks(696, 272, 22, 16, 174, 68),
    Blocks(816, 336, 24, 16, 136, 56), Blocks(1050, 408, 18, 36, 175, 68),
    Blocks(1304, 496, 20, 36, 163, 62), Blocks(1558, 620, 22, 36, -1, 62)>>

RegionsAcross(s) ==
  CASE s.regions = 1 -> 1 [] s.regions \in {2, 4} -> 2
    [] s.regions = 16 -> 4 [] s.regions = 36 -> 6
RegionsDown(s) == IF s.regions = 2 THEN 1 ELSE RegionsAcross(s)
SymbolDataWidth(s) == RegionsAcross(s) * s.width
SymbolDataHeight(s) == RegionsDown(s) * s.height
SymbolWidth(s) == SymbolDataWidth(s) + 2 * RegionsAcross(s)
SymbolHeight(s) == SymbolDataHeight(s) + 2 * RegionsDown(s)

(* SymbolInfo::Lookup: the first in the order of the table, by its index.  *)
(* A pair of limits counts when both are given (-1 is none).               *)
Limits(minWidth, minHeight, maxWidth, maxHeight) ==
  [minWidth |-> minWidth, minHeight |-> minHeight,
   maxWidth |-> maxWidth, maxHeight |-> maxHeight]
NoLimits == Limits(-1, -1, -1, -1)

Allowed(s, shape, limits) ==
  /\ ~(shape = "SQUARE" /\ s.rectangular) /\ ~(shape = "RECTANGLE" /\ ~s.rectangular)
  /\ limits.minWidth >= 0 /\ limits.minHeight >= 0 =>
       SymbolWidth(s) >= limits.minWidth /\ SymbolHeight(s) >= limits.minHeight
  /\ limits.maxWidth >= 0 /\ limits.maxHeight >= 0 =>
       SymbolWidth(s) <= limits.maxWidth /\ SymbolHeight(s) <= limits.maxHeight

NoSymbol == 0
Matching(size, shape, limits) ==
  {i \in DOMAIN PROD_SYMBOLS :
     Allowed(PROD_SYMBOLS[i], shape, limits) /\ size <= PROD_SYMBOLS[i].data}
Lookup(size, shape, limits) ==
  LET found == Matching(size, shape, limits)
  IN  IF found = {} THEN NoSymbol ELSE CHOOSE i \in found : \A j \in found : i <= j
Capacity(i) == PROD_SYMBOLS[i].data
-----------------------------------------------------------------------------
(* A version: number, height, width, those of its data blocks, and its     *)
(* blocks, <<EC codewords of each, <<count, data codewords>>, ...>>.       *)
Version(number, height, width, blockHeight, blockWidth, ec, blocks) ==
  [number |-> number, height |-> height, width |-> width, blockHeight |-> blockHeight,
   blockWidth |-> blockWidth, ec |-> ec, blocks |-> blocks]
Square(number, side, block, ec, count, data) ==
  Version(number, side, side, block, block, ec, <<<<count, data>>>>)
Rectangle(number, height, width, blockHeight, blockWidth, ec, data) ==
  Version(number, height, width, blockHeight, blockWidth, ec, <<<<1, data>>>>)

AllVersions ==
  <<Square(1, 10, 8, 5, 1, 3), Square(2, 12, 10, 7, 1, 5), Square(3, 14, 12, 10, 1, 8),
    Square(4, 16, 14, 12, 1, 12), Square(5, 18, 16, 14, 1, 18), Square(6, 20, 18, 18, 1, 22),
    Square(7, 22, 20, 20, 1, 30), Square(8, 24, 22, 24, 1, 36), Square(9, 26, 24, 28, 1, 44),
    Square(10, 32, 14, 36, 1, 62), Square(11, 36, 16, 42, 1, 86), Square(12, 40, 18, 48, 1, 114),
    Square(13, 44, 20, 56, 1, 144), Square(14, 48, 22, 68, 1, 174), Square(15, 52, 24, 42, 2, 102),
    Square(16, 64, 14, 56, 2, 140), Square(17, 72, 16, 36, 4, 92), Square(18, 80, 18, 48, 4, 114),
    Square(19, 88, 20, 56, 4, 144), Square(20, 96, 22, 68, 4, 174), Square(21, 104, 24, 56, 6, 136),
    Square(22, 120, 18, 68, 6, 175), Square(23, 132, 20, 62, 8, 163),
    Version(24, 144, 144, 22, 22, 62, <<<<8, 156>>, <<2, 155>>>>),
    Rectangle(25, 8, 18, 6, 16, 7, 5), Rectangle(26, 8, 32, 6, 14, 11, 10),
    Rectangle(27, 12, 26, 10, 24, 14, 16), Rectangle(28, 12, 36, 10, 16, 18, 22),
    Rectangle(29, 16, 36, 14, 16, 24, 32), Rectangle(30, 16, 48, 14, 22, 28, 49),
    Rectangle(31, 8, 48, 6, 22, 15, 18), Rectangle(32, 8, 64, 6, 14, 18, 24),
    Rectangle(33, 8, 80, 6, 18, 22, 32), Rectangle(34, 8, 96, 6, 22, 28, 38),
    Rectangle(35, 8, 120, 6, 18, 32, 49), Rectangle(36, 8, 144, 6, 22, 36, 63),
    Rectangle(37, 12, 64, 10, 14, 27, 43), Rectangle(38, 12, 88, 10, 20, 36, 64),
    Rectangle(39, 16, 64, 14, 14, 36, 62), Rectangle(40, 20, 36, 18, 16, 28, 44),
    Rectangle(41, 20, 44, 18, 20, 34, 56), Rectangle(42, 20, 64, 18, 14, 42, 84),
    Rectangle(43, 22, 48, 20, 22, 38, 72), Rectangle(44, 24, 48, 22, 22, 41, 80),
    Rectangle(45, 24, 64, 22, 14, 46, 108), Rectangle(46, 26, 40, 24, 18, 38, 70),
    Rectangle(47, 26, 48, 24, 22, 42, 90), Rectangle(48, 26, 64, 24, 14, 50, 118)>>

NumBlocks(v) == IF Len(v.blocks) = 1 THEN v.blocks[1][1] ELSE v.blocks[1][1] + v.blocks[2][1]
DataOf(v, j) == IF j <= v.blocks[1][1] THEN v.blocks[1][2] ELSE v.blocks[2][2]
TotalCodewords(v) ==
  v.blocks[1][1] * (v.blocks[1][2] + v.ec)
  + (IF Len(v.blocks) = 1 THEN 0 ELSE v.blocks[2][1] * (v.blocks[2][2] + v.ec))
DataWidth(v) == (v.width \div v.blockWidth) * v.blockWidth
DataHeight(v) == (v.height \div v.blockHeight) * v.blockHeight
IsDMRE(v) == v.number \in 31 .. 48

(* A row or column of the data among those of the symbol: EncodeLowLevel   *)
(* writes an edge before and after every n of them, ExtractDataBits counts *)
(* the edges.                                                              *)
PlacedAt(x, n) ==
  x + Cardinality({k \in 0 .. x : k % n = 0}) + Cardinality({k \in 0 .. x - 1 : k % n = n - 1})
ExtractedFrom(x, n) == x + 1 + 2 * (x \div n)

VersionForDimensions(height, width) ==
  IF height % 2 # 0 \/ width % 2 # 0 \/ height \notin 8 .. 144 THEN {}
  ELSE {i \in DOMAIN AllVersions :
          AllVersions[i].height = height /\ AllVersions[i].width = width}
-----------------------------------------------------------------------------
(* EncodeECC200: the codewords of block `b` are every blockCount-th one.   *)
InterleavedBlockCount(s) == IF s.rsData > 0 THEN s.data \div s.rsData ELSE 10
DataLength(s, b) == IF s.rsData > 0 THEN s.rsData ELSE IF b <= 8 THEN 156 ELSE 155

Codeword(b, i) == [block |-> b, place |-> i]
EncodeECC200(s) ==
  LET count == InterleavedBlockCount(s)
  IN  [n \in 1 .. s.data + s.ec |->
         IF n <= s.data
           THEN Codeword(((n - 1) % count) + 1, ((n - 1) \div count) + 1)
           ELSE LET b == ((n - s.data - 1) % count) + 1
                IN  Codeword(b, DataLength(s, b) + ((n - s.data - 1) \div count) + 1)]

(* GetDataBlocks: where in the symbol each block has its codewords from,   *)
(* or none if not all were used.  Blocks 9 and 10 of 144 x 144 are one     *)
(* codeword shorter; fix259 lets the EC codewords begin with them.         *)
BlockLength(v, j) == DataOf(v, j) + v.ec
IsLargest(v) == v.height = 144
LongerBlocks(v) == IF IsLargest(v) THEN 8 ELSE NumBlocks(v)
ECBegin(v) == (DataOf(v, 1) - 1) * NumBlocks(v) + LongerBlocks(v)
NumRaw(v) == ECBegin(v) + v.ec * NumBlocks(v)

TurnFor(v, j, fix259) ==                     \* j with jOffset = (turn + 8) % numResultBlocks
  IF IsLargest(v) /\ fix259 THEN (j + 1) % NumBlocks(v) ELSE j - 1

PlaceOfECOfLonger(v, j, i) ==                \* mutant: no i - 1 for the shorter blocks
  IF i <= DataOf(v, 1) THEN 0 ELSE i - DataOf(v, 1) - 1
PlaceOfEC(v, j, i) == i - DataOf(v, j) - 1

GetDataBlocks(v, fix259, size) ==
  IF NumRaw(v) # size THEN <<>>
  ELSE [j \in 1 .. NumBlocks(v) |->
          [i \in 1 .. BlockLength(v, j) |->
             IF i <= DataOf(v, j) THEN (i - 1) * NumBlocks(v) + j
             ELSE ECBegin(v) + PlaceOfEC(v, j, i) * NumBlocks(v) + TurnFor(v, j, fix259) + 1]]
=============================================================================
