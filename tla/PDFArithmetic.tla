------------------------------ MODULE PDFArithmetic -----------------------------
(***************************************************************************)
(* What PDF417 computes with numbers: the compaction in base 900, and      *)
(* DecodeErrorCorrection and CorrectErrors (PDFScanningDecoder.cpp) over   *)
(* the integers modulo 929 (PDFModulusGF.cpp, PDFModulusPoly.cpp).  The    *)
(* codewords are repaired in place: a correction that fails may have       *)
(* changed some.  A polynomial has its highest coefficient first, and no   *)
(* leading zero unless it is zero.                                         *)
(***************************************************************************)
EXTENDS Integers, Sequences, FiniteSets, SequencesExt

(* The numbers compacted in base 900, which BigInteger (ZXBigInteger.cpp)  *)
(* holds: in any base, as the sequence of their digits.                    *)

(* n * factor + addend, of n with the lowest digit first.                  *)
CarryDigits(c, base) ==
  LET digits[n \in Nat] == IF n = 0 THEN <<>> ELSE <<n % base>> \o digits[n \div base] IN digits[c]
TimesPlus(n, base, factor, addend) ==
  LET sum == FoldLeft(LAMBDA acc, d :
                        [digits |-> Append(acc.digits, (factor * d + acc.carry) % base),
                         carry |-> (factor * d + acc.carry) \div base],
                      [digits |-> <<>>, carry |-> addend], n)
  IN  sum.digits \o CarryDigits(sum.carry, base)
InBase(to, from, digits) ==                  \* digits with the highest first, also the result
  Reverse(FoldLeft(LAMBDA n, d : IF n = <<>> THEN CarryDigits(d, to) ELSE TimesPlus(n, to, from, d), <<>>, digits))
Padded(digits, n) == [i \in 1 .. n - Len(digits) |-> 0] \o digits
-----------------------------------------------------------------------------
(***************************************************************************)
(* The size of a PDF417 symbol, its error correction and its rows: the     *)
(* parts of Encoder::generateBarcodeLogic (PDFEncoder.cpp).                *)
(***************************************************************************)

NUMBER_OF_CODEWORDS == 929
PAD == 900
Pow3[n \in 0 .. 1024] ==
  IF n = 0 THEN 1 ELSE (((Pow3[n \div 2] * Pow3[n \div 2]) % NUMBER_OF_CODEWORDS) * (IF n % 2 = 1 THEN 3 ELSE 1)) % NUMBER_OF_CODEWORDS

GetErrorCorrectionCodewordCount(level) == 2^(level + 1)

(* EC_COEFFICIENTS of a level: of the polynomial with the roots 3, 9, ...  *)
(* 3^k, the constant one first and without the leading one.                *)
TimesRoot(poly, root) ==
  [j \in 1 .. Len(poly) + 1 |->
     ((IF j > 1 THEN poly[j - 1] ELSE 0) + (NUMBER_OF_CODEWORDS - root) * (IF j <= Len(poly) THEN poly[j] ELSE 0))
     % NUMBER_OF_CODEWORDS]
Forced(s) == SubSeq(s, 1, Len(s))
EC_COEFFICIENTS ==
  [level \in 0 .. 4 |->
     LET k == GetErrorCorrectionCodewordCount(level)
     IN  SubSeq(FoldLeft(LAMBDA poly, i : Forced(TimesRoot(poly, Pow3[i])), <<1>>, [i \in 1 .. k |-> i]), 1, k)]

(* GenerateErrorCorrection: the remainder of a division by that polynomial *)
(* in a shift register, negated.                                           *)
Shift(register, coefficients, codeword) ==
  LET k == Len(register)
      t1 == (codeword + register[k]) % NUMBER_OF_CODEWORDS
  IN  Forced([j \in 1 .. k |->
                ((IF j > 1 THEN register[j - 1] ELSE 0) + NUMBER_OF_CODEWORDS
                 - ((t1 * coefficients[j]) % NUMBER_OF_CODEWORDS)) % NUMBER_OF_CODEWORDS])
Negated(e) == IF e # 0 THEN NUMBER_OF_CODEWORDS - e ELSE 0
GenerateErrorCorrection(dataCodewords, level) ==
  LET k == GetErrorCorrectionCodewordCount(level)
      e == FoldLeft(LAMBDA register, codeword :
                      IF Len(register) = k THEN Shift(register, EC_COEFFICIENTS[level], codeword) ELSE register,
                    [j \in 1 .. k |-> 0], dataCodewords)
  IN  dataCodewords \o [j \in 1 .. k |-> Negated(e[k + 1 - j])]
-----------------------------------------------------------------------------
CalculateNumberOfRows(m, k, c) ==
  LET r == (m + 1 + k) \div c + 1
  IN  IF c * r >= m + 1 + k + c THEN r - 1 ELSE r
GetNumberOfPadCodewords(m, k, c, r) == IF c * r - k > m + 1 THEN c * r - k - m - 1 ELSE 0

(* DetermineDimensions: of the numbers of columns for which the rows are   *)
(* neither too many nor too few, the last of those whose ratio of width to *)
(* height is closest to 3, in quarters.  The search ends where the rows    *)
(* become too few.                                                         *)
Closeness(cols, rows) == LET q == (17 * cols + 69) \div rows IN IF q > 12 THEN q - 12 ELSE 12 - q
DetermineDimensions(lim, m, k) ==
  LET rows == [cols \in lim.minCols .. lim.maxCols |-> CalculateNumberOfRows(m, k, cols)]
      tried == {c \in DOMAIN rows : \A d \in lim.minCols .. c : rows[d] >= lim.minRows}
      fit == {c \in tried : rows[c] <= lim.maxRows}
      least == CalculateNumberOfRows(m, k, lim.minCols)
      better(c, d) ==
        \/ Closeness(c, rows[c]) < Closeness(d, rows[d])
        \/ Closeness(c, rows[c]) = Closeness(d, rows[d]) /\ c >= d
  IN  IF fit # {} THEN {[cols |-> c, rows |-> rows[c]] : c \in {x \in fit : \A d \in fit : better(x, d)}}
      ELSE IF least < lim.minRows THEN {[cols |-> lim.minCols, rows |-> lim.minRows]} ELSE {}

(* The codewords of the symbol: their number, the message, padding and     *)
(* error correction.                                                       *)
Codewords(highLevel, level, cols, rows) ==
  LET k == GetErrorCorrectionCodewordCount(level)
      pad == GetNumberOfPadCodewords(Len(highLevel), k, cols, rows)
  IN  GenerateErrorCorrection(<<Len(highLevel) + pad + 1>> \o highLevel \o [i \in 1 .. pad |-> PAD], level)

(* EncodeLowLevel: the row indicators, and the cluster of a row, whose     *)
(* bucket the reader calculates from the widths of the bars.               *)
Cluster(y) == y % 3
BucketOf(y) == 3 * Cluster(y)
RowsUpper(r) == (r - 1) \div 3
LevelAndRows(r, level) == 3 * level + ((r - 1) % 3)
LeftIndicator(y, c, r, level) ==
  30 * (y \div 3) + (CASE Cluster(y) = 0 -> RowsUpper(r) [] Cluster(y) = 1 -> LevelAndRows(r, level)
                       [] Cluster(y) = 2 -> c - 1)
RightIndicator(y, c, r, level) ==
  30 * (y \div 3) + (CASE Cluster(y) = 0 -> c - 1 [] Cluster(y) = 1 -> RowsUpper(r)
                       [] Cluster(y) = 2 -> LevelAndRows(r, level))
Printed(codewords, c, r, level) ==           \* by column, the row indicators first and last, and row
  [x \in 0 .. c + 1 |->
     [y \in 0 .. r - 1 |->
        CASE x = 0 -> LeftIndicator(y, c, r, level) [] x = c + 1 -> RightIndicator(y, c, r, level)
          [] x \in 1 .. c -> codewords[c * y + x]]]
-----------------------------------------------------------------------------

MAX_ERRORS == 3
MAX_EC_CODEWORDS == 512

Times(x, y) == (x * y) % NUMBER_OF_CODEWORDS
Difference(x, y) == (x + NUMBER_OF_CODEWORDS - y) % NUMBER_OF_CODEWORDS
InverseOf(x) == CHOOSE y \in 1 .. 928 : Times(x, y) = 1

ZeroPoly == <<0>>
Trimmed(poly) ==
  LET nonZero == {i \in DOMAIN poly : poly[i] # 0}
  IN  IF nonZero = {} THEN ZeroPoly
      ELSE SubSeq(poly, CHOOSE i \in nonZero : \A j \in nonZero : i <= j, Len(poly))
DegreeOf(poly) == Len(poly) - 1
Coefficient(poly, degree) == poly[Len(poly) - degree]
EvaluateAt(poly, x) == FoldLeft(LAMBDA acc, c : (x * acc + c) % NUMBER_OF_CODEWORDS, 0, poly)
Monomial(degree, c) == IF c = 0 THEN ZeroPoly ELSE <<c>> \o [i \in 1 .. degree |-> 0]
At(poly, degree) == IF degree <= DegreeOf(poly) THEN Coefficient(poly, degree) ELSE 0
Longest(s, t) == IF Len(s) > Len(t) THEN Len(s) ELSE Len(t)
Subtracted(s, t) ==
  Trimmed([i \in 1 .. Longest(s, t) |->
             Difference(At(s, Longest(s, t) - i), At(t, Longest(s, t) - i))])
Scaled(poly, scalar) == Trimmed([i \in DOMAIN poly |-> Times(poly[i], scalar)])
Product(s, t) ==
  FoldLeft(LAMBDA acc, i : Subtracted(acc, Scaled(t, Difference(0, s[i])) \o [j \in 1 .. Len(s) - i |-> 0]),
           ZeroPoly, [i \in DOMAIN s |-> i])

(* Quotient and remainder of r by d, d # 0.                                *)
RECURSIVE DividedBy(_, _, _)
DividedBy(q, r, d) ==
  IF DegreeOf(r) < DegreeOf(d) \/ r = ZeroPoly THEN [q |-> q, r |-> r]
  ELSE LET degree == DegreeOf(r) - DegreeOf(d)
           scale == Times(r[1], InverseOf(d[1]))
       IN  DividedBy(Subtracted(q, Monomial(degree, Difference(0, scale))),
                     Subtracted(r, Scaled(d, scale) \o [j \in 1 .. degree |-> 0]), d)

(* RunEuclideanAlgorithm; t is subtracted and negated, hence the order.    *)
NoLocator == [found |-> FALSE, sigma |-> ZeroPoly, omega |-> ZeroPoly]
RECURSIVE Euclid(_, _, _, _, _)
Euclid(rLast, r, tLast, t, R) ==
  IF DegreeOf(r) < R \div 2
    THEN LET c == Coefficient(t, 0)
         IN  IF c = 0 THEN NoLocator
             ELSE [found |-> TRUE, sigma |-> Scaled(t, InverseOf(c)), omega |-> Scaled(r, InverseOf(c))]
    ELSE IF r = ZeroPoly THEN NoLocator
    ELSE LET division == DividedBy(ZeroPoly, rLast, r)
         IN  Euclid(r, division.r, t, Subtracted(tLast, Product(division.q, t)), R)
RunEuclideanAlgorithm(syndrome, R) == Euclid(Monomial(R, 1), syndrome, ZeroPoly, <<1>>, R)

(* FindErrorLocations (Chien) and FindErrorMagnitudes (Forney): by the     *)
(* roots of the locator, in order.                                         *)
Roots(sigma) == SetToSortSeq({i \in 1 .. 928 : EvaluateAt(sigma, i) = 0}, LAMBDA i, j : i < j)
Derivative(sigma) ==
  Trimmed([i \in 1 .. DegreeOf(sigma) |-> Times(DegreeOf(sigma) - i + 1, sigma[i])])
Magnitude(sigma, omega, root) ==
  Times(Difference(0, EvaluateAt(omega, root)), InverseOf(EvaluateAt(Derivative(sigma), root)))

(* The repairs in order, as far as their positions exist.                  *)
PositionsOf(root, n) == {p \in 1 .. n : Times(Pow3[n - p], root) = 1}
Repair(state, root, sigma, omega) ==
  LET places == PositionsOf(root, Len(state.codewords))
  IN  IF ~state.ok THEN state
      ELSE IF places = {} THEN [state EXCEPT !.ok = FALSE]
      ELSE [state EXCEPT !.codewords[CHOOSE p \in places : TRUE] = Difference(@, Magnitude(sigma, omega, root))]

Syndromes(codewords, numEC) == [i \in 1 .. numEC |-> EvaluateAt(codewords, Pow3[numEC + 1 - i])]
Located(codewords, locator) ==
  LET roots == Roots(locator.sigma)
  IN  IF ~locator.found \/ Len(roots) # DegreeOf(locator.sigma) THEN [ok |-> FALSE, codewords |-> codewords]
      ELSE FoldLeft(LAMBDA state, root : Repair(state, root, locator.sigma, locator.omega),
                    [ok |-> TRUE, codewords |-> codewords], roots)
DecodeErrorCorrection(codewords, numEC) ==
  LET syndromes == Forced(Syndromes(codewords, numEC))
  IN  IF ToSet(syndromes) = {0} THEN [ok |-> TRUE, codewords |-> codewords]
      ELSE Located(codewords, RunEuclideanAlgorithm(Trimmed(syndromes), numEC))

CorrectErrors(codewords, numErasures, numEC) ==
  IF numErasures > numEC \div 2 + MAX_ERRORS \/ numEC > MAX_EC_CODEWORDS
    THEN [ok |-> FALSE, codewords |-> codewords]
    ELSE DecodeErrorCorrection(codewords, numEC)
=============================================================================
