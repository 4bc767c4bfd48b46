------------------------------ MODULE QRMatrix ------------------------------
(***************************************************************************)
(* A QR Code on its way through the matrix.  BuildMatrix (QRMatrixUtil.    *)
(* cpp), or some other encoder, puts the codewords of QRCode into modules, *)
(* masks them and adds format and version information; the decoder reads   *)
(* both back (QRFormatInformation.cpp, QRBitMatrixParser.cpp), although    *)
(* some modules of them are wrong or the image is a mirror image.          *)
(*                                                                         *)
(* A module is <<k, b>>: bit k of the codewords, inverted by the mask if   *)
(* b = 1, or, with k = 0, a module of colour b that is not of a codeword.  *)
(* Only colours that are read are kept.  A word of format or version       *)
(* information is the set of its 1 bits; bit 0 is the last one.            *)
(***************************************************************************)
EXTENDS QRCode

(***************************************************************************)
(* The error correction characteristics of QRVersion.cpp.  A row is one    *)
(* version, with an entry for each error correction level L, M, Q, H: the  *)
(* error correction codewords of a block, then the number of blocks and    *)
(* their data codewords, twice.  rMQR has M and H only; Micro QR fewer     *)
(* than four.                                                              *)
(***************************************************************************)
Model2Table == <<
  <<<<7, 1, 19, 0, 0>>, <<10, 1, 16, 0, 0>>, <<13, 1, 13, 0, 0>>, <<17, 1, 9, 0, 0>>>>,
  <<<<10, 1, 34, 0, 0>>, <<16, 1, 28, 0, 0>>, <<22, 1, 22, 0, 0>>, <<28, 1, 16, 0, 0>>>>,
  <<<<15, 1, 55, 0, 0>>, <<26, 1, 44, 0, 0>>, <<18, 2, 17, 0, 0>>, <<22, 2, 13, 0, 0>>>>,
  <<<<20, 1, 80, 0, 0>>, <<18, 2, 32, 0, 0>>, <<26, 2, 24, 0, 0>>, <<16, 4, 9, 0, 0>>>>,
  <<<<26, 1, 108, 0, 0>>, <<24, 2, 43, 0, 0>>, <<18, 2, 15, 2, 16>>, <<22, 2, 11, 2, 12>>>>,
  <<<<18, 2, 68, 0, 0>>, <<16, 4, 27, 0, 0>>, <<24, 4, 19, 0, 0>>, <<28, 4, 15, 0, 0>>>>,
  <<<<20, 2, 78, 0, 0>>, <<18, 4, 31, 0, 0>>, <<18, 2, 14, 4, 15>>, <<26, 4, 13, 1, 14>>>>,
  <<<<24, 2, 97, 0, 0>>, <<22, 2, 38, 2, 39>>, <<22, 4, 18, 2, 19>>, <<26, 4, 14, 2, 15>>>>,
  <<<<30, 2, 116, 0, 0>>, <<22, 3, 36, 2, 37>>, <<20, 4, 16, 4, 17>>, <<24, 4, 12, 4, 13>>>>,
  <<<<18, 2, 68, 2, 69>>, <<26, 4, 43, 1, 44>>, <<24, 6, 19, 2, 20>>, <<28, 6, 15, 2, 16>>>>,
  <<<<20, 4, 81, 0, 0>>, <<30, 1, 50, 4, 51>>, <<28, 4, 22, 4, 23>>, <<24, 3, 12, 8, 13>>>>,
  <<<<24, 2, 92, 2, 93>>, <<22, 6, 36, 2, 37>>, <<26, 4, 20, 6, 21>>, <<28, 7, 14, 4, 15>>>>,
  <<<<26, 4, 107, 0, 0>>, <<22, 8, 37, 1, 38>>, <<24, 8, 20, 4, 21>>, <<22, 12, 11, 4, 12>>>>,
  <<<<30, 3, 115, 1, 116>>, <<24, 4, 40, 5, 41>>, <<20, 11, 16, 5, 17>>, <<24, 11, 12, 5, 13>>>>,
  <<<<22, 5, 87, 1, 88>>, <<24, 5, 41, 5, 42>>, <<30, 5, 24, 7, 25>>, <<24, 11, 12, 7, 13>>>>,
  <<<<24, 5, 98, 1, 99>>, <<28, 7, 45, 3, 46>>, <<24, 15, 19, 2, 20>>, <<30, 3, 15, 13, 16>>>>,
  <<<<28, 1, 107, 5, 108>>, <<28, 10, 46, 1, 47>>, <<28, 1, 22, 15, 23>>, <<28, 2, 14, 17, 15>>>>,
  <<<<30, 5, 120, 1, 121>>, <<26, 9, 43, 4, 44>>, <<28, 17, 22, 1, 23>>, <<28, 2, 14, 19, 15>>>>,
  <<<<28, 3, 113, 4, 114>>, <<26, 3, 44, 11, 45>>, <<26, 17, 21, 4, 22>>, <<26, 9, 13, 16, 14>>>>,
  <<<<28, 3, 107, 5, 108>>, <<26, 3, 41, 13, 42>>, <<30, 15, 24, 5, 25>>, <<28, 15, 15, 10, 16>>>>,
  <<<<28, 4, 116, 4, 117>>, <<26, 17, 42, 0, 0>>, <<28, 17, 22, 6, 23>>, <<30, 19, 16, 6, 17>>>>,
  <<<<28, 2, 111, 7, 112>>, <<28, 17, 46, 0, 0>>, <<30, 7, 24, 16, 25>>, <<24, 34, 13, 0, 0>>>>,
  <<<<30, 4, 121, 5, 122>>, <<28, 4, 47, 14, 48>>, <<30, 11, 24, 14, 25>>, <<30, 16, 15, 14, 16>>>>,
  <<<<30, 6, 117, 4, 118>>, <<28, 6, 45, 14, 46>>, <<30, 11, 24, 16, 25>>, <<30, 30, 16, 2, 17>>>>,
  <<<<26, 8, 106, 4, 107>>, <<28, 8, 47, 13, 48>>, <<30, 7, 24, 22, 25>>, <<30, 22, 15, 13, 16>>>>,
  <<<<28, 10, 114, 2, 115>>, <<28, 19, 46, 4, 47>>, <<28, 28, 22, 6, 23>>, <<30, 33, 16, 4, 17>>>>,
  <<<<30, 8, 122, 4, 123>>, <<28, 22, 45, 3, 46>>, <<30, 8, 23, 26, 24>>, <<30, 12, 15, 28, 16>>>>,
  <<<<30, 3, 117, 10, 118>>, <<28, 3, 45, 23, 46>>, <<30, 4, 24, 31, 25>>, <<30, 11, 15, 31, 16>>>>,
  <<<<30, 7, 116, 7, 117>>, <<28, 21, 45, 7, 46>>, <<30, 1, 23, 37, 24>>, <<30, 19, 15, 26, 16>>>>,
  <<<<30, 5, 115, 10, 116>>, <<28, 19, 47, 10, 48>>, <<30, 15, 24, 25, 25>>, <<30, 23, 15, 25, 16>>>>,
  <<<<30, 13, 115, 3, 116>>, <<28, 2, 46, 29, 47>>, <<30, 42, 24, 1, 25>>, <<30, 23, 15, 28, 16>>>>,
  <<<<30, 17, 115, 0, 0>>, <<28, 10, 46, 23, 47>>, <<30, 10, 24, 35, 25>>, <<30, 19, 15, 35, 16>>>>,
  <<<<30, 17, 115, 1, 116>>, <<28, 14, 46, 21, 47>>, <<30, 29, 24, 19, 25>>, <<30, 11, 15, 46, 16>>>>,
  <<<<30, 13, 115, 6, 116>>, <<28, 14, 46, 23, 47>>, <<30, 44, 24, 7, 25>>, <<30, 59, 16, 1, 17>>>>,
  <<<<30, 12, 121, 7, 122>>, <<28, 12, 47, 26, 48>>, <<30, 39, 24, 14, 25>>, <<30, 22, 15, 41, 16>>>>,
  <<<<30, 6, 121, 14, 122>>, <<28, 6, 47, 34, 48>>, <<30, 46, 24, 10, 25>>, <<30, 2, 15, 64, 16>>>>,
  <<<<30, 17, 122, 4, 123>>, <<28, 29, 46, 14, 47>>, <<30, 49, 24, 10, 25>>, <<30, 24, 15, 46, 16>>>>,
  <<<<30, 4, 122, 18, 123>>, <<28, 13, 46, 32, 47>>, <<30, 48, 24, 14, 25>>, <<30, 42, 15, 32, 16>>>>,
  <<<<30, 20, 117, 4, 118>>, <<28, 40, 47, 7, 48>>, <<30, 43, 24, 22, 25>>, <<30, 10, 15, 67, 16>>>>,
  <<<<30, 19, 118, 6, 119>>, <<28, 18, 47, 31, 48>>, <<30, 34, 24, 34, 25>>, <<30, 20, 15, 61, 16>>>>>>

MicroTable == <<
  <<<<2, 1, 3, 0, 0>>>>,
  <<<<5, 1, 5, 0, 0>>, <<6, 1, 4, 0, 0>>>>,
  <<<<6, 1, 11, 0, 0>>, <<8, 1, 9, 0, 0>>>>,
  <<<<8, 1, 16, 0, 0>>, <<10, 1, 14, 0, 0>>, <<14, 1, 10, 0, 0>>>>>>

RMQRTable == <<
  <<<<0, 0, 0, 0, 0>>, <<7, 1, 6, 0, 0>>, <<0, 0, 0, 0, 0>>, <<10, 1, 3, 0, 0>>>>,
  <<<<0, 0, 0, 0, 0>>, <<9, 1, 12, 0, 0>>, <<0, 0, 0, 0, 0>>, <<14, 1, 7, 0, 0>>>>,
  <<<<0, 0, 0, 0, 0>>, <<12, 1, 20, 0, 0>>, <<0, 0, 0, 0, 0>>, <<22, 1, 10, 0, 0>>>>,
  <<<<0, 0, 0, 0, 0>>, <<16, 1, 28, 0, 0>>, <<0, 0, 0, 0, 0>>, <<30, 1, 14, 0, 0>>>>,
  <<<<0, 0, 0, 0, 0>>, <<24, 1, 44, 0, 0>>, <<0, 0, 0, 0, 0>>, <<22, 2, 12, 0, 0>>>>,
  <<<<0, 0, 0, 0, 0>>, <<9, 1, 12, 0, 0>>, <<0, 0, 0, 0, 0>>, <<14, 1, 7, 0, 0>>>>,
  <<<<0, 0, 0, 0, 0>>, <<12, 1, 21, 0, 0>>, <<0, 0, 0, 0, 0>>, <<22, 1, 11, 0, 0>>>>,
  <<<<0, 0, 0, 0, 0>>, <<18, 1, 31, 0, 0>>, <<0, 0, 0, 0, 0>>, <<16, 1, 8, 1, 9>>>>,
  <<<<0, 0, 0, 0, 0>>, <<24, 1, 42, 0, 0>>, <<0, 0, 0, 0, 0>>, <<22, 2, 11, 0, 0>>>>,
  <<<<0, 0, 0, 0, 0>>, <<18, 1, 31, 1, 32>>, <<0, 0, 0, 0, 0>>, <<22, 3, 11, 0, 0>>>>,
  <<<<0, 0, 0, 0, 0>>, <<8, 1, 7, 0, 0>>, <<0, 0, 0, 0, 0>>, <<10, 1, 5, 0, 0>>>>,
  <<<<0, 0, 0, 0, 0>>, <<12, 1, 19, 0, 0>>, <<0, 0, 0, 0, 0>>, <<20, 1, 11, 0, 0>>>>,
  <<<<0, 0, 0, 0, 0>>, <<16, 1, 31, 0, 0>>, <<0, 0, 0, 0, 0>>, <<16, 1, 7, 1, 8>>>>,
  <<<<0, 0, 0, 0, 0>>, <<24, 1, 43, 0, 0>>, <<0, 0, 0, 0, 0>>, <<22, 1, 11, 1, 12>>>>,
  <<<<0, 0, 0, 0, 0>>, <<16, 1, 28, 1, 29>>, <<0, 0, 0, 0, 0>>, <<30, 1, 14, 1, 15>>>>,
  <<<<0, 0, 0, 0, 0>>, <<24, 2, 42, 0, 0>>, <<0, 0, 0, 0, 0>>, <<30, 3, 14, 0, 0>>>>,
  <<<<0, 0, 0, 0, 0>>, <<9, 1, 12, 0, 0>>, <<0, 0, 0, 0, 0>>, <<14, 1, 7, 0, 0>>>>,
  <<<<0, 0, 0, 0, 0>>, <<14, 1, 27, 0, 0>>, <<0, 0, 0, 0, 0>>, <<28, 1, 13, 0, 0>>>>,
  <<<<0, 0, 0, 0, 0>>, <<22, 1, 38, 0, 0>>, <<0, 0, 0, 0, 0>>, <<20, 2, 10, 0, 0>>>>,
  <<<<0, 0, 0, 0, 0>>, <<16, 1, 26, 1, 27>>, <<0, 0, 0, 0, 0>>, <<28, 1, 14, 1, 15>>>>,
  <<<<0, 0, 0, 0, 0>>, <<20, 1, 36, 1, 37>>, <<0, 0, 0, 0, 0>>, <<26, 1, 11, 2, 12>>>>,
  <<<<0, 0, 0, 0, 0>>, <<20, 2, 35, 1, 36>>, <<0, 0, 0, 0, 0>>, <<28, 2, 13, 2, 14>>>>,
  <<<<0, 0, 0, 0, 0>>, <<18, 1, 33, 0, 0>>, <<0, 0, 0, 0, 0>>, <<18, 1, 7, 1, 8>>>>,
  <<<<0, 0, 0, 0, 0>>, <<26, 1, 48, 0, 0>>, <<0, 0, 0, 0, 0>>, <<24, 2, 13, 0, 0>>>>,
  <<<<0, 0, 0, 0, 0>>, <<18, 1, 33, 1, 34>>, <<0, 0, 0, 0, 0>>, <<24, 2, 10, 1, 11>>>>,
  <<<<0, 0, 0, 0, 0>>, <<24, 2, 44, 0, 0>>, <<0, 0, 0, 0, 0>>, <<22, 4, 12, 0, 0>>>>,
  <<<<0, 0, 0, 0, 0>>, <<24, 2, 42, 1, 43>>, <<0, 0, 0, 0, 0>>, <<26, 1, 13, 4, 14>>>>,
  <<<<0, 0, 0, 0, 0>>, <<22, 1, 39, 0, 0>>, <<0, 0, 0, 0, 0>>, <<20, 1, 10, 1, 11>>>>,
  <<<<0, 0, 0, 0, 0>>, <<16, 2, 28, 0, 0>>, <<0, 0, 0, 0, 0>>, <<30, 2, 14, 0, 0>>>>,
  <<<<0, 0, 0, 0, 0>>, <<22, 2, 39, 0, 0>>, <<0, 0, 0, 0, 0>>, <<28, 1, 12, 2, 13>>>>,
  <<<<0, 0, 0, 0, 0>>, <<20, 2, 33, 1, 34>>, <<0, 0, 0, 0, 0>>, <<26, 4, 14, 0, 0>>>>,
  <<<<0, 0, 0, 0, 0>>, <<20, 4, 38, 0, 0>>, <<0, 0, 0, 0, 0>>, <<26, 2, 12, 4, 13>>>>>>

Model1Table == <<
  <<<<7, 1, 19, 0, 0>>, <<10, 1, 16, 0, 0>>, <<13, 1, 13, 0, 0>>, <<17, 1, 9, 0, 0>>>>,
  <<<<10, 1, 36, 0, 0>>, <<16, 1, 30, 0, 0>>, <<22, 1, 24, 0, 0>>, <<30, 1, 16, 0, 0>>>>,
  <<<<15, 1, 57, 0, 0>>, <<28, 1, 44, 0, 0>>, <<36, 1, 36, 0, 0>>, <<48, 1, 24, 0, 0>>>>,
  <<<<20, 1, 80, 0, 0>>, <<40, 1, 60, 0, 0>>, <<50, 1, 50, 0, 0>>, <<66, 1, 34, 0, 0>>>>,
  <<<<26, 1, 108, 0, 0>>, <<52, 1, 82, 0, 0>>, <<66, 1, 68, 0, 0>>, <<44, 2, 23, 0, 0>>>>,
  <<<<34, 1, 136, 0, 0>>, <<32, 2, 53, 0, 0>>, <<42, 2, 43, 0, 0>>, <<56, 2, 29, 0, 0>>>>,
  <<<<42, 1, 170, 0, 0>>, <<40, 2, 66, 0, 0>>, <<52, 2, 54, 0, 0>>, <<46, 3, 24, 0, 0>>>>,
  <<<<24, 2, 104, 0, 0>>, <<48, 2, 80, 0, 0>>, <<64, 2, 64, 0, 0>>, <<56, 3, 29, 0, 0>>>>,
  <<<<30, 2, 123, 0, 0>>, <<60, 2, 93, 0, 0>>, <<50, 3, 52, 0, 0>>, <<68, 3, 34, 0, 0>>>>,
  <<<<34, 2, 145, 0, 0>>, <<68, 2, 111, 0, 0>>, <<58, 3, 61, 0, 0>>, <<58, 4, 31, 0, 0>>>>,
  <<<<40, 2, 168, 0, 0>>, <<40, 4, 64, 0, 0>>, <<52, 4, 52, 0, 0>>, <<54, 5, 29, 0, 0>>>>,
  <<<<46, 2, 192, 0, 0>>, <<46, 4, 73, 0, 0>>, <<58, 4, 61, 0, 0>>, <<62, 5, 33, 0, 0>>>>,
  <<<<36, 3, 144, 0, 0>>, <<52, 4, 83, 0, 0>>, <<66, 4, 69, 0, 0>>, <<58, 6, 32, 0, 0>>>>,
  <<<<40, 3, 163, 0, 0>>, <<60, 4, 92, 0, 0>>, <<60, 5, 62, 0, 0>>, <<66, 6, 35, 0, 0>>>>>>
-----------------------------------------------------------------------------
(* Where the alignment patterns of Model 2 are, the sizes of rMQR codes,  *)
(* and the version information of versions 7 to 40.                        *)
AlignmentPatternCenters == <<
  <<>>, <<6, 18>>, <<6, 22>>, <<6, 26>>, <<6, 30>>, <<6, 34>>, <<6, 22, 38>>,
  <<6, 24, 42>>, <<6, 26, 46>>, <<6, 28, 50>>, <<6, 30, 54>>, <<6, 32, 58>>,
  <<6, 34, 62>>, <<6, 26, 46, 66>>, <<6, 26, 48, 70>>, <<6, 26, 50, 74>>,
  <<6, 30, 54, 78>>, <<6, 30, 56, 82>>, <<6, 30, 58, 86>>, <<6, 34, 62, 90>>,
  <<6, 28, 50, 72, 94>>, <<6, 26, 50, 74, 98>>, <<6, 30, 54, 78, 102>>,
  <<6, 28, 54, 80, 106>>, <<6, 32, 58, 84, 110>>, <<6, 30, 58, 86, 114>>,
  <<6, 34, 62, 90, 118>>, <<6, 26, 50, 74, 98, 122>>,
  <<6, 30, 54, 78, 102, 126>>, <<6, 26, 52, 78, 104, 130>>,
  <<6, 30, 56, 82, 108, 134>>, <<6, 34, 60, 86, 112, 138>>,
  <<6, 30, 58, 86, 114, 142>>, <<6, 34, 62, 90, 118, 146>>,
  <<6, 30, 54, 78, 102, 126, 150>>, <<6, 24, 50, 76, 102, 128, 154>>,
  <<6, 28, 54, 80, 106, 132, 158>>, <<6, 32, 58, 84, 110, 136, 162>>,
  <<6, 26, 54, 82, 110, 138, 166>>, <<6, 30, 58, 86, 114, 142, 170>>>>

RMQRSizes == <<
  <<43, 7>>, <<59, 7>>, <<77, 7>>, <<99, 7>>, <<139, 7>>,
  <<43, 9>>, <<59, 9>>, <<77, 9>>, <<99, 9>>, <<139, 9>>,
  <<27, 11>>, <<43, 11>>, <<59, 11>>, <<77, 11>>, <<99, 11>>, <<139, 11>>,
  <<27, 13>>, <<43, 13>>, <<59, 13>>, <<77, 13>>, <<99, 13>>, <<139, 13>>,
  <<43, 15>>, <<59, 15>>, <<77, 15>>, <<99, 15>>, <<139, 15>>,
  <<43, 17>>, <<59, 17>>, <<77, 17>>, <<99, 17>>, <<139, 17>>>>

(* Those of rMQR depend on the width only.                                 *)
RMQRAlignmentPatternCenters(width) ==
  CASE width = 27 -> <<>> [] width = 43 -> <<21>> [] width = 59 -> <<19, 39>>
    [] width = 77 -> <<25, 51>> [] width = 99 -> <<23, 49, 75>>
    [] width = 139 -> <<27, 55, 83, 111>>

VersionDecodeInfo == <<
  \h07C94, \h085BC, \h09A99, \h0A4D3, \h0BBF6, \h0C762, \h0D847, \h0E60D, \h0F928,
  \h10B78, \h1145D, \h12A17, \h13532, \h149A6, \h15683, \h168C9, \h177EC, \h18EC4,
  \h191E1, \h1AFAB, \h1B08E, \h1CC1A, \h1D33F, \h1ED75, \h1F250, \h209D5, \h216F0,
  \h228BA, \h2379F, \h24B0B, \h2542E, \h26A64, \h27541, \h28C69>>
-----------------------------------------------------------------------------
LOCAL INSTANCE FiniteSetsExt
LOCAL INSTANCE SequencesExt

(* The stage of the symbol between encoder and decoder, its modules row by *)
(* row, and the format information that was read of it.                    *)
VARIABLES stage, matrix, format
mvars == <<stage, matrix, format>>

Direct == [mask |-> -1]        \* for codewords that are handed over
FormatMasks ==
  [Model2 |-> \h5412, Model1 |-> \h2825, Micro |-> \h4445, rMQR |-> \h1FAB2, None |-> 0]
RMQRSubMask == \h20A7B

(* How a symbol is printed: the data mask, the mask of its format          *)
(* information, whether its image is mirrored, and the bits that are wrong *)
(* in the two copies of its format and of its version information.         *)
ASSUME PrintAssumption ==
  \A call \in Inputs : call.print # Direct =>
    /\ call.print.mask \in 0 .. 7 /\ call.print.formatMask \in DOMAIN FormatMasks
    /\ call.print.mirrored \in BOOLEAN
    /\ \A i \in {1, 2} : call.print.wrong[i] \subseteq 0 .. 17
                         /\ call.print.versionWrong[i] \subseteq 0 .. 17
-----------------------------------------------------------------------------
(* Words.                                                                  *)
Word(value) == {i \in 0 .. 17 : (value \div 2^i) % 2 = 1}
Value(word) == MapThenSumSet(LAMBDA i : 2^i, word)
Xor(a, b) == (a \ b) \cup (b \ a)
ShiftedBy(word, n) == {i + n : i \in word}
MirrorBits(word) == {14 - i : i \in word}
WithoutBit(word, k) == {i \in word : i < k} \cup {i - 1 : i \in {j \in word : j > k}}

(* CalculateBCHCode: `poly` is divided out, from the highest bit down.     *)
BCHCode(value, poly) ==
  LET degree == Max(Word(poly))
      f[n \in degree - 1 .. 17] ==           \* once bits above n are gone
        IF n = 17 THEN ShiftedBy(Word(value), degree)
        ELSE IF n + 1 \in f[n + 1] THEN Xor(f[n + 1], ShiftedBy(Word(poly), n + 1 - degree))
             ELSE f[n + 1]
  IN  f[degree - 1]
WithBCH(value, poly) ==
  ShiftedBy(Word(value), Max(Word(poly))) \cup BCHCode(value, poly)

TypeInfoPoly == \h537
VersionInfoPoly == \h1F25
BitsFromECLevel == <<1, 0, 3, 2>>
MakeTypeInfoBits(level, mask) ==
  Xor(WithBCH(8 * BitsFromECLevel[level] + mask, TypeInfoPoly), Word(FormatMasks["Model2"]))
MakeVersionInfoBits(number) == WithBCH(number, VersionInfoPoly)
-----------------------------------------------------------------------------
(* Geometry.  A point is <<x, y>>.                                         *)
SymbolSize(v) ==
  CASE v.type \in {"Model1", "Model2"} -> <<17 + 4 * v.number, 17 + 4 * v.number>>
    [] v.type = "Micro" -> <<9 + 2 * v.number, 9 + 2 * v.number>>
    [] v.type = "rMQR" -> RMQRSizes[v.number]
Region(left, top, width, height) ==
  (left .. left + width - 1) \X (top .. top + height - 1)
Transposed(points) == {<<p[2], p[1]>> : p \in points}
WithTransposed(points) == points \cup Transposed(points)

GetDataMaskBit(mask, p, isMicro) ==
  LET x == p[1]
      y == p[2]
      index == IF isMicro THEN <<1, 4, 6, 7>>[mask + 1] ELSE mask
  IN  CASE index = 0 -> (y + x) % 2 = 0
        [] index = 1 -> y % 2 = 0
        [] index = 2 -> x % 3 = 0
        [] index = 3 -> (y + x) % 3 = 0
        [] index = 4 -> ((y \div 2) + (x \div 3)) % 2 = 0
        [] index = 5 -> (y * x) % 6 = 0
        [] index = 6 -> (y * x) % 6 < 3
        [] index = 7 -> (y + x + ((y * x) % 3)) % 2 = 0

(* Pairs of columns from right to left, upwards and downwards in turn; the *)
(* column of the vertical timing pattern of larger symbols is no part of a *)
(* pair.  `last` is the first column that is visited.                      *)
ZigZag(last, height, timing) ==
  LET Point(n) ==
        LET pair == n \div (2 * height)
            row == (n % (2 * height)) \div 2
            x == last - 2 * pair
        IN  <<(IF timing /\ x <= 6 THEN x - 1 ELSE x) - (n % 2),
              IF pair % 2 = 0 THEN height - 1 - row ELSE row>>
  IN  [n \in 1 .. 2 * height * ((last + 1) \div 2) |-> Point(n - 1)]
VisitOrder(v) ==
  LET size == SymbolSize(v)
  IN  ZigZag(IF v.type = "rMQR" THEN size[1] - 2 ELSE size[1] - 1, size[2],
             v.type \notin {"Micro", "rMQR"})
-----------------------------------------------------------------------------
(* The modules that are not of codewords, as the encoder fills them before *)
(* EmbedDataBits and as the decoder skips them (buildFunctionPattern).     *)
Centers(v) == {AlignmentPatternCenters[v.number][i] :
                 i \in DOMAIN AlignmentPatternCenters[v.number]}

TypeInfoCoordinates ==
  [i \in 1 .. 6 |-> <<8, i - 1>>] \o <<<<8, 7>>, <<8, 8>>, <<7, 8>>>>
    \o [i \in 1 .. 6 |-> <<6 - i, 8>>]
SecondTypeInfoCoordinates(d) ==
  [i \in 1 .. 15 |-> IF i <= 8 THEN <<d - i, 8>> ELSE <<8, d - 16 + i>>]
DarkModule(d) == <<8, d - 8>>

(* Its bits from the last one on; those of the other copy are transposed.  *)
VersionInfoCoordinates(d) ==
  [i \in 1 .. 18 |-> <<(i - 1) \div 3, d - 11 + ((i - 1) % 3)>>]

Embedded(v) ==
  LET d == SymbolSize(v)[1]
      corners == {<<6, 6>>, <<6, d - 7>>, <<d - 7, 6>>}
  IN  UNION {
        Region(0, 0, 8, 8), Region(d - 8, 0, 8, 8), Region(0, d - 8, 8, 8), {DarkModule(d)},
        UNION {Region(c[1] - 2, c[2] - 2, 5, 5) : c \in (Centers(v) \X Centers(v)) \ corners},
        WithTransposed(Region(8, 6, d - 16, 1)),
        {TypeInfoCoordinates[i] : i \in 1 .. 15}, {SecondTypeInfoCoordinates(d)[i] : i \in 1 .. 15},
        IF v.number < 7 THEN {}
        ELSE WithTransposed({VersionInfoCoordinates(d)[i] : i \in 1 .. 18})}

SquareFunctionPattern(v) ==
  LET d == SymbolSize(v)[1]
      centers == AlignmentPatternCenters[v.number]
      max == Len(centers)
      patterns == {c \in (1 .. max) \X (1 .. max) : c \notin {<<1, 1>>, <<1, max>>, <<max, 1>>}}
  IN  UNION {
        Region(0, 0, 9, 9), Region(d - 8, 0, 8, 9), Region(0, d - 8, 9, 8),
        UNION {Region(centers[c[2]] - 2, centers[c[1]] - 2, 5, 5) : c \in patterns},
        WithTransposed(Region(6, 9, 1, d - 17)),
        IF v.number > 6 THEN WithTransposed(Region(d - 11, 0, 3, 6)) ELSE {}}

MicroFunctionPattern(v) ==
  LET d == SymbolSize(v)[1]
  IN  Region(0, 0, 9, 9) \cup WithTransposed(Region(9, 0, d - 9, 1))

RMQRFunctionPattern(v) ==
  LET w == SymbolSize(v)[1]
      h == SymbolSize(v)[2]
      centers == RMQRAlignmentPatternCenters(w)
      Timing(x) == Region(x - 1, 1, 3, 2) \cup Region(x - 1, h - 3, 3, 2) \cup Region(x, 3, 1, h - 6)
  IN  UNION {
        Region(0, 0, w, 1), Region(0, h - 1, w, 1), Region(0, 1, 1, h - 2), Region(w - 1, 1, 1, h - 2),
        UNION {Timing(centers[i]) : i \in DOMAIN centers},
        Region(1, 1, 7, IF h = 7 THEN 6 ELSE 7), Region(8, 1, 3, 5), Region(11, 1, 1, 3),
        Region(w - 5, h - 5, 4, 4), Region(w - 8, h - 6, 3, 5), Region(w - 5, h - 6, 3, 1),
        {<<w - 2, 1>>}, IF h > 9 THEN {<<1, h - 2>>} ELSE {}}

BuildFunctionPattern(v) ==
  CASE v.type = "Model2" -> SquareFunctionPattern(v)
    [] v.type = "Micro" -> MicroFunctionPattern(v)
    [] v.type = "rMQR" -> RMQRFunctionPattern(v)
Outside(points, region) == SelectSeq(points, LAMBDA p : p \notin region)

(* Model 1: codewords are 2 by 4 modules, or 4 by 2 in the middle.         *)
Model1Blocks(d) ==           \* <<j, i>> as they are read: column and row
  LET columns == (d \div 4) + 3
      rows == d \div 2
      Kept(c) ==
        CASE c[1] <= 1 -> c[2] < (d - 8) \div 4
                          /\ ~(c[1] = 0 /\ c[2] % 2 = 0 /\ c[2] > 0 /\ c[2] < ((d - 8) \div 4) - 1)
          [] c[1] > 1 /\ columns - c[1] <= 4 -> c[2] < (d - 16) \div 4
          [] OTHER -> ~(c[1] = 2 /\ c[2] >= rows - 4)
                      /\ ~(c[2] = 0 /\ c[1] % 2 = 1 /\ c[1] + 1 # columns - 4)
  IN  SelectSeq([n \in 1 .. columns * rows |-> <<(n - 1) \div rows, (n - 1) % rows>>], Kept)
Model1Point(d, c, b) ==      \* bit b of a block
  LET left == (d \div 4) + 3 - c[1]        \* columns from this one on
      rows == d \div 2
  IN  CASE c[1] <= 1 -> <<d - 1 - 2 * c[1] - (b % 2), d - 1 - 4 * c[2] - (b \div 2)>>
        [] c[1] > 1 /\ left <= 4 ->
             <<2 * (left - 1) + 1 + (IF left = 4 THEN 1 ELSE 0) - (b % 2),
               d - 9 - 4 * c[2] - (b \div 2)>>
        [] OTHER -> <<d - 5 - 4 * (c[1] - 2) - (b % 4),
                      d - 1 - 2 * c[2] - (IF c[2] >= rows - 3 THEN 1 ELSE 0) - (b \div 4)>>
Model1Points(d) ==
  LET blocks == Model1Blocks(d)
  IN  [n \in 1 .. 8 * Len(blocks) |->
         Model1Point(d, blocks[((n - 1) \div 8) + 1], (n - 1) % 8)]

(* The points ReadCodewords takes bits from.                               *)
PointsRead(v) ==
  IF v.type = "Model1" THEN Model1Points(SymbolSize(v)[1])
  ELSE Outside(VisitOrder(v), BuildFunctionPattern(v))
-----------------------------------------------------------------------------
(* The symbol is printed.  EmbedTypeInfo and EmbedVersionInfo put their    *)
(* bits twice, from the last one on; so do other encoders, at the places   *)
(* the decoder reads.                                                      *)
FormatCoordinates(v) ==            \* as ReadFormatInformation reads them
  LET d == SymbolSize(v)[2]
      w == SymbolSize(v)[1]
      Down(x, from, n) == [i \in 1 .. n |-> <<x, from + 1 - i>>]
      Right(from, n, y) == [i \in 1 .. n |-> <<from - 1 + i, y>>]
      Up(x, from, n) == [i \in 1 .. n |-> <<x, from - 1 + i>>]
  IN  CASE v.type = "Micro" -> <<Right(1, 8, 8) \o Down(8, 7, 7)>>
        [] v.type = "rMQR" ->
             <<Down(11, 3, 3) \o Down(10, 5, 5) \o Down(9, 5, 5) \o Down(8, 5, 5),
               <<<<w - 3, d - 6>>, <<w - 4, d - 6>>, <<w - 5, d - 6>>>>
                 \o Down(w - 6, d - 2, 5) \o Down(w - 7, d - 2, 5) \o Down(w - 8, d - 2, 5)>>
        [] OTHER ->
             <<Right(0, 6, 8) \o <<<<7, 8>>, <<8, 8>>, <<8, 7>>>> \o Down(8, 5, 6),
               Down(8, d - 1, 8) \o Right(d - 8, 8, 8)>>

MicroSymbolNumber == <<<<0>>, <<1, 2>>, <<3, 4>>, <<5, 6, 7>>>>
FormatWord(copy) ==
  LET p == input.print
      v == symbol
  IN  CASE v.type = "Micro" ->
             Xor(WithBCH(4 * MicroSymbolNumber[v.number][input.level] + p.mask, TypeInfoPoly),
                 Word(FormatMasks["Micro"]))
        [] v.type = "rMQR" ->
             Xor(WithBCH(v.number - 1 + (IF input.level = 4 THEN 32 ELSE 0), VersionInfoPoly),
                 Word(IF copy = 1 THEN FormatMasks["rMQR"] ELSE RMQRSubMask))
        [] OTHER ->
             Xor(MakeTypeInfoBits(input.level, p.mask),
                 Xor(Word(FormatMasks["Model2"]), Word(FormatMasks[p.formatMask])))
PrintedCoordinates(copy) ==        \* from the last bit on
  CASE symbol.type \in {"Micro", "rMQR"} -> Reverse(FormatCoordinates(symbol)[copy])
    [] OTHER -> IF copy = 1 THEN TypeInfoCoordinates
                ELSE SecondTypeInfoCoordinates(SymbolSize(symbol)[1])

Ones(coordinates, word) == {coordinates[i] : i \in {j \in DOMAIN coordinates : j - 1 \in word}}
BlackModules ==
  LET d == SymbolSize(symbol)[1]
      Information(copy) == Ones(VersionInfoCoordinates(d),
                            Xor(MakeVersionInfoBits(symbol.number), input.print.versionWrong[copy]))
  IN  UNION {Ones(PrintedCoordinates(copy), Xor(FormatWord(copy), input.print.wrong[copy])) :
               copy \in DOMAIN FormatCoordinates(symbol)}
      \cup (IF symbol.type \in {"Model1", "Model2"} THEN {DarkModule(d)} ELSE {})
      \cup (IF symbol.type = "Model2" /\ symbol.number >= 7
              THEN Information(1) \cup Transposed(Information(2)) ELSE {})

(* The finders of Model 1, and extension patterns along two edges.         *)
Model1Pattern(v) ==
  LET d == SymbolSize(v)[1]
  IN  UNION {
        Region(0, 0, 9, 9), WithTransposed(Region(d - 8, 0, 8, 9)), WithTransposed(Region(6, 9, 1, d - 17)),
        UNION {WithTransposed(Region(d - 12 - 8 * k, d - 2, 4, 2)) : k \in 0 .. (v.number \div 2) - 1}}
PrintedPattern ==
  CASE symbol.type = "Model1" -> Model1Pattern(symbol)
    [] symbol.type = "Model2" -> Embedded(symbol)
    [] OTHER -> BuildFunctionPattern(symbol)
DataPoints(pattern) ==             \* EmbedDataBits; Model 1: M.4.1 of the standard
  IF symbol.type = "Model1" THEN Model1Points(SymbolSize(symbol)[1])
  ELSE Outside(VisitOrder(symbol), pattern)

(* One codeword of M1 and M3 has four bits, the `half`-th.                 *)
FirstBit(half, n) == IF half \in 1 .. n - 1 THEN 8 * n - 11 ELSE 8 * n - 7
SizeOfCodeword(half, n) == IF n = half THEN 4 ELSE 8
HalfPrinted ==
  IF HasHalfCodeword THEN NumDataCodewords(Blocks, 1) ELSE 0
NumDataBits == FirstBit(HalfPrinted, Len(codewords) + 1) - 1

Inverted(p) == IF GetDataMaskBit(input.print.mask, p, symbol.type = "Micro") THEN 1 ELSE 0
PatternPoints(pattern) ==          \* in rows
  LET w == SymbolSize(symbol)[1]
      all == [n \in 1 .. w * SymbolSize(symbol)[2] |-> <<(n - 1) % w, (n - 1) \div w>>]
  IN  SelectSeq(all, LAMBDA p : p \in pattern)
Placed(pattern, black, points, numBits) ==       \* pairs of a point and its module
  [k \in DOMAIN pattern |-> <<pattern[k], <<0, IF pattern[k] \in black THEN 1 ELSE 0>>>>]
  \o [k \in DOMAIN points |->
        <<points[k], <<IF k <= numBits THEN k ELSE 0, Inverted(points[k])>>>>]
ByRowAndColumn(placed) ==          \* sorted by one bit of the position after the other
  LET w == SymbolSize(symbol)[1]
      HasBit(e, b) == (((e[1][2] * w) + e[1][1]) \div 2^b) % 2 = 1
      f[b \in 0 .. 15] ==
        IF b = 0 THEN placed
        ELSE LET s == f[b - 1]
             IN  SelectSeq(s, LAMBDA e : ~HasBit(e, b - 1)) \o SelectSeq(s, LAMBDA e : HasBit(e, b - 1))
  IN  f[15]

(* BuildMatrix throws if there is no module left for a bit.                *)
BuildMatrix ==
  /\ stage = "pending" /\ pc = "blocks"
  /\ \E region \in {PrintedPattern} : \E points \in {DataPoints(region)},
       pattern \in {PatternPoints(region)}, black \in {BlackModules}, numBits \in {NumDataBits} :
       IF numBits > Len(points)
         THEN pc' = "thrown" /\ UNCHANGED <<stage, matrix>>
         ELSE /\ \E sorted \in {ByRowAndColumn(Placed(pattern, black, points, numBits))} :
                   matrix' = [i \in DOMAIN sorted |-> sorted[i][2]]
              /\ stage' = "printed" /\ UNCHANGED pc
  /\ UNCHANGED <<printed, format, pos, content, symbology, structuredAppend, error>>
-----------------------------------------------------------------------------
(* The symbol is read.  The module at a point of the image.                *)
At(p) ==
  LET q == IF input.print.mirrored THEN <<p[2], p[1]>> ELSE p
  IN  matrix[q[2] * SymbolSize(symbol)[1] + q[1] + 1]
WordAt(points) == {Len(points) - i : i \in {j \in DOMAIN points : At(points[j])[2] = 1}}
Distance(a, b) == Cardinality(Xor(a, b))

(* DecodeVersionInformation: the closest version, unless more than three   *)
(* bits are wrong.                                                         *)
DecodeVersionInformation(words) ==
  LET At2(i, j) == Distance(words[j], Word(VersionDecodeInfo[i]))
      all == (DOMAIN VersionDecodeInfo) \X (DOMAIN words)
      best == Min({At2(c[1], c[2]) : c \in all})
      first == Min({c[1] : c \in {d \in all : At2(d[1], d[2]) = best}})
  IN  IF best <= 3 THEN first + 6 ELSE 0

(* SampleQR: larger symbols are sampled in the size their version says,    *)
(* or not at all.                                                          *)
ReadVersionInformation ==
  LET points == Reverse(VersionInfoCoordinates(SymbolSize(symbol)[1]))
      swapped == [i \in DOMAIN points |-> <<points[i][2], points[i][1]>>]
      number == IF symbol.type # "Model2" \/ symbol.number < 7 THEN symbol.number
                ELSE DecodeVersionInformation(<<WordAt(swapped), WordAt(points)>>)
  IN  /\ stage = "printed"
      /\ \E n \in {number} :
           /\ format' = [format EXCEPT !.number = n]
           /\ stage' = IF n = 0 THEN "refused" ELSE "sampled"
      /\ UNCHANGED <<vars, matrix>>

Model2MaskedPatterns == <<
  \h5412, \h5125, \h5E7C, \h5B4B, \h45F9, \h40CE, \h4F97, \h4AA0, \h77C4,
  \h72F3, \h7DAA, \h789D, \h662F, \h6318, \h6C41, \h6976, \h1689, \h13BE,
  \h1CE7, \h19D0, \h0762, \h0255, \h0D0C, \h083B, \h355F, \h3068, \h3F31,
  \h3A06, \h24B4, \h2183, \h2EDA, \h2BED>>
RMQRMaskedPatterns == <<
  \h1FAB2, \h1E597, \h1DBDD, \h1C4F8, \h1B86C, \h1A749, \h19903, \h18626,
  \h17F0E, \h1602B, \h15E61, \h14144, \h13DD0, \h122F5, \h11CBF, \h1039A,
  \h0F1CA, \h0EEEF, \h0D0A5, \h0CF80, \h0B314, \h0AC31, \h0927B, \h08D5E,
  \h07476, \h06B53, \h05519, \h04A3C, \h036A8, \h0298D, \h017C7, \h008E2,
  \h3F367, \h3EC42, \h3D208, \h3CD2D, \h3B1B9, \h3AE9C, \h390D6, \h38FF3,
  \h376DB, \h369FE, \h357B4, \h34891, \h33405, \h32B20, \h3156A, \h30A4F,
  \h2F81F, \h2E73A, \h2D970, \h2C655, \h2BAC1, \h2A5E4, \h29BAE, \h2848B,
  \h27DA3, \h26286, \h25CCC, \h243E9, \h23F7D, \h22058, \h21E12, \h20137>>
RMQRMaskedPatternsSub == <<
  \h20A7B, \h2155E, \h22B14, \h23431, \h248A5, \h25780, \h269CA, \h276EF,
  \h28FC7, \h290E2, \h2AEA8, \h2B18D, \h2CD19, \h2D23C, \h2EC76, \h2F353,
  \h30103, \h31E26, \h3206C, \h33F49, \h343DD, \h35CF8, \h362B2, \h37D97,
  \h384BF, \h39B9A, \h3A5D0, \h3BAF5, \h3C661, \h3D944, \h3E70E, \h3F82B,
  \h003AE, \h01C8B, \h022C1, \h03DE4, \h04170, \h05E55, \h0601F, \h07F3A,
  \h08612, \h09937, \h0A77D, \h0B858, \h0C4CC, \h0DBE9, \h0E5A3, \h0FA86,
  \h108D6, \h117F3, \h129B9, \h1369C, \h14A08, \h1552D, \h16B67, \h17442,
  \h18D6A, \h1924F, \h1AC05, \h1B320, \h1CFB4, \h1D091, \h1EEDB, \h1F1FE>>

Unmasked(patterns, mask) ==
  SubSeq([i \in DOMAIN patterns |-> Xor(Word(patterns[i]), Word(mask))], 1, Len(patterns))
Codes == Unmasked(Model2MaskedPatterns, FormatMasks["Model2"])
RMQRCodes == Unmasked(RMQRMaskedPatterns, FormatMasks["rMQR"])
RMQRSubCodes == Unmasked(RMQRMaskedPatternsSub, RMQRSubMask)

(* FindBestFormatInfo: of the first closest pair of a word and a code.  A  *)
(* try is a word without its mask, the type that mask stands for, and      *)
(* whether the word is that of a mirrored symbol.                          *)
Try(word, mask, type, mirrored, codes) ==
  [word |-> Xor(word, Word(mask)), type |-> type, mirrored |-> mirrored, codes |-> codes]
Best(tries, ecBits) ==
  LET Closest(t) == Min({Distance(t.word, t.codes[i]) : i \in DOMAIN t.codes})
      distances == SubSeq([k \in DOMAIN tries |-> Closest(tries[k])], 1, Len(tries))
      least == Min({distances[k] : k \in DOMAIN tries})
      first == tries[Min({k \in DOMAIN tries : distances[k] = least})]
      code == first.codes[Min({i \in DOMAIN first.codes :
                                 Distance(first.word, first.codes[i]) = least})]
  IN  [data |-> Value({i - ecBits : i \in {j \in code : j >= ecBits}}),
       type |-> first.type, mirrored |-> first.mirrored, valid |-> least <= 3]

ECLevelFromBits == <<2, 1, 4, 3>>
MicroECLevelFromBits == <<1, 1, 2, 1, 2, 1, 2, 3>>
BitsToVersion == <<1, 2, 2, 3, 3, 4, 4, 4>>
Info(best, level, mask, micro) ==
  [type |-> best.type, mirrored |-> best.mirrored, valid |-> best.valid,
   level |-> level, mask |-> mask, microVersion |-> micro]

(* The second word has the dark module in its middle, before or after bit  *)
(* 7: where it is tells a mirrored symbol.                                 *)
MirroredSecondSameDark(word) ==        \* mutant: the dark module where it is in an upright image
  MirrorBits(WithoutBit(word, 8))
MirroredSecond(word) == MirrorBits(WithoutBit(word, 7))
DecodeQR(words) ==
  LET masks == <<FormatMasks["Model2"], 0, FormatMasks["Model1"]>>
      types == <<"Model2", "Model2", "Model1">>
      bits == <<words[1], WithoutBit(words[2], 8), MirrorBits(words[1]), MirroredSecond(words[2])>>
      tries == [k \in 1 .. 12 |->
                  Try(bits[((k - 1) % 4) + 1], masks[((k - 1) \div 4) + 1],
                      types[((k - 1) \div 4) + 1], (k - 1) % 4 > 1, Codes)]
      best == Best(tries, 10)
  IN  Info(best, ECLevelFromBits[(best.data \div 8) + 1], best.data % 8, 0)
DecodeMQR(words) ==
  LET micro == FormatMasks["Micro"]
      best == Best(<<Try(words[1], micro, "Micro", FALSE, Codes),
                     Try(MirrorBits(words[1]), micro, "Micro", TRUE, Codes)>>, 10)
      number == (best.data \div 4) + 1
  IN  Info(best, MicroECLevelFromBits[number], best.data % 4, BitsToVersion[number])
DecodeRMQR(words) ==
  LET main == Try(words[1], FormatMasks["rMQR"], "rMQR", FALSE, RMQRCodes)
      sub == Try(words[2], RMQRSubMask, "rMQR", FALSE, RMQRSubCodes)
      best == Best(IF words[2] = {} THEN <<main>> ELSE <<main, sub>>, 12)
  IN  Info(best, IF best.data >= 32 THEN 4 ELSE 2, 4, (best.data % 32) + 1)

FormatInformation ==
  LET words == [i \in DOMAIN FormatCoordinates(symbol) |-> WordAt(FormatCoordinates(symbol)[i])]
  IN  CASE symbol.type = "Micro" -> DecodeMQR(words)
        [] symbol.type = "rMQR" -> DecodeRMQR(words)
        [] OTHER -> DecodeQR(words)

ReadFormatInformation ==
  /\ stage = "sampled"
  /\ \E info \in {FormatInformation} :
       /\ format' = [info |-> info, number |-> format.number]
       /\ stage' = IF info.valid THEN "formatted" ELSE "refused"
  /\ UNCHANGED <<vars, matrix>>
-----------------------------------------------------------------------------
(* ReadCodewords.  ReadMQRCodewords knows the half codeword by the level   *)
(* of the format information.  A symbol that is taken for one of another   *)
(* type or level is not followed further; there is none in the runs, or    *)
(* they would end in a deadlock.                                           *)
D4mBlockIndexOfL ==                     \* mutant: M3 at level L only
  IF symbol.type = "Micro" /\ symbol.number % 2 = 1 THEN IF symbol.number = 1 THEN 3 ELSE 11 ELSE 0
D4mBlockIndex ==
  IF symbol.type = "Micro" /\ symbol.number % 2 = 1
    THEN IF symbol.number = 1 THEN 3 ELSE IF format.info.level = 1 THEN 11 ELSE 9
    ELSE 0
NumCodewordsRead(numBits) ==
  LET half == D4mBlockIndex
  IN  IF half = 0 \/ numBits < 8 * half - 4 THEN numBits \div 8
      ELSE half + ((numBits - (8 * half - 4)) \div 8)

Bit(p) ==
  LET read == At(IF format.info.mirrored THEN <<p[2], p[1]>> ELSE p)
      mask == GetDataMaskBit(format.info.mask, p, symbol.type = "Micro")
  IN  <<read[1], IF mask THEN 1 - read[2] ELSE read[2]>>

(* What the bits of a codeword are: a codeword that was printed, or none.  *)
NotPrinted == <<0, 0>>
CodewordRead(points, n) ==
  LET half == D4mBlockIndex
      start == FirstBit(half, n)
      first == Bit(points[start])[1]
      Is(m) == /\ first = FirstBit(HalfPrinted, m)
               /\ SizeOfCodeword(half, n) = SizeOfCodeword(HalfPrinted, m)
               /\ \A i \in 1 .. SizeOfCodeword(half, n) - 1 : Bit(points[start + i])[1] = first + i
               /\ \A i \in 0 .. SizeOfCodeword(half, n) - 1 : Bit(points[start + i])[2] = 0
      found == {m \in {(first + 7) \div 8, (first + 11) \div 8} \cap DOMAIN codewords : Is(m)}
  IN  IF found = {} THEN NotPrinted ELSE codewords[Min(found)]

ReadCodewords ==
  /\ stage = "formatted"
  /\ format.info.type = symbol.type /\ format.info.level = input.level
  /\ \E points \in {PointsRead(symbol)} :
       IF NumCodewordsRead(Len(points)) # TotalCodewords(symbol)
         THEN stage' = "refused" /\ UNCHANGED <<matrix, codewords>>
         ELSE /\ codewords' = <<>> \o [n \in 1 .. TotalCodewords(symbol) |-> CodewordRead(points, n)]
              /\ matrix' = <<>> /\ stage' = "read"
  /\ UNCHANGED <<pc, input, symbol, bytes, pos, content, symbology, structuredAppend, error, format>>

InitWithMatrix ==
  /\ Init
  /\ stage = IF input.print = Direct THEN "read" ELSE "pending"
  /\ matrix = <<>> /\ format = [info |-> None, number |-> 0]

Refused == stage = "refused" /\ UNCHANGED <<vars, mvars>>

(* Otherwise the symbol is read as QRCode says.                            *)
NextWithMatrix ==
  \/ BuildMatrix \/ ReadVersionInformation \/ ReadFormatInformation \/ ReadCodewords
  \/ Refused
  \/ Encode /\ UNCHANGED mvars
  \/ PrintSymbol /\ UNCHANGED mvars
  \/ stage = "read" /\ CorrectErrors /\ UNCHANGED mvars
  \/ EndOfStream /\ UNCHANGED mvars
  \/ InvalidMode /\ UNCHANGED mvars
  \/ ReadFNC1First /\ UNCHANGED mvars
  \/ ReadFNC1Second /\ UNCHANGED mvars
  \/ ReadStructuredAppend /\ UNCHANGED mvars
  \/ ReadECI /\ UNCHANGED mvars
  \/ ReadHanzi /\ UNCHANGED mvars
  \/ \E mode \in {"NUMERIC", "ALPHANUMERIC", "BYTE", "KANJI"} : ReadSegment(mode) /\ UNCHANGED mvars
  \/ Returned /\ UNCHANGED mvars

SpecWithMatrix == InitWithMatrix /\ [][NextWithMatrix]_<<vars, mvars>>
-----------------------------------------------------------------------------
(* What an image may have wrong: bits of one copy, or one bit in each.     *)
(* Closer than that are words that are read mirrored or with another mask. *)
Tolerated ==
  LET p == input.print
      Wrong(i) == Cardinality(p.wrong[i])
      most == CASE symbol.type = "rMQR" -> 3
                [] symbol.type = "Micro" -> 1
                [] p.formatMask = "Model2" -> IF p.mirrored THEN 2 ELSE 3
                [] OTHER -> 1
  IN  /\ \A i \in {1, 2} : Wrong(i) <= most /\ Cardinality(p.versionWrong[i]) <= 3
      /\ \/ p.wrong[1] = {} \/ p.wrong[2] = {} \/ symbol.type = "rMQR"
         \/ Wrong(1) <= 1 /\ Wrong(2) <= 1 /\ p.formatMask = "Model2" /\ ~p.mirrored

(* Format and version are read as they were printed, whatever copy of them *)
(* is damaged, also in a mirror image and without or with the mask of      *)
(* Model 1 (QRFormatInformation.cpp: "Try with (standard) and without      *)
(* (quirk) masking").                                                      *)
FormatRead ==
  stage \in {"formatted", "refused"} /\ Tolerated =>
    /\ format.number = symbol.number
    /\ format.info = [type |-> symbol.type, mirrored |-> input.print.mirrored, valid |-> TRUE,
                      level |-> input.level, mask |-> input.print.mask,
                      microVersion |-> IF symbol.type \in {"Micro", "rMQR"} THEN symbol.number ELSE 0]

(* Each module of the symbol is written once, and each codeword is read    *)
(* from the modules it was written to, with the mask it was written with:  *)
(* the patterns the encoder embeds are the ones the decoder skips.         *)
PrintedCodewords ==
  IF input.kind = "text" THEN InterleaveWithECBytes(symbol, input.level)
  ELSE StandardOrder(symbol, input.level)
ModulesReadBack ==
  /\ stage = "printed" => Len(matrix) = SymbolSize(symbol)[1] * SymbolSize(symbol)[2]
  /\ input.print # Direct /\ Tolerated /\ stage \in {"read", "refused"} /\ pc = "blocks" =>
       stage = "read" /\ codewords = PrintedCodewords
=============================================================================
