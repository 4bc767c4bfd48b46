----------------------------- MODULE ReedSolomon -----------------------------
(***************************************************************************)
(* Reed-Solomon codes: the field (GenericGF), its polynomials              *)
(* (GenericGFPoly), the encoder and the decoder (ReedSolomonEncoder.cpp,   *)
(* ReedSolomonDecoder.cpp).  A polynomial is the sequence of its           *)
(* coefficients from the highest power on, without leading zeros.          *)
(***************************************************************************)
EXTENDS Integers, Sequences, FiniteSets, SequencesExt

(* GenericGF(primitive, size, b) with its two tables.                      *)
NIBBLES ==
  [a \in 0 .. 15 |-> [b \in 0 .. 15 |->
     LET Bit(k) == IF (a \div 2^k) % 2 = (b \div 2^k) % 2 THEN 0 ELSE 2^k
     IN  Bit(0) + Bit(1) + Bit(2) + Bit(3)]]
XOR(a, b) == 16 * NIBBLES[a \div 16][b \div 16] + NIBBLES[a % 16][b % 16]     \* of bytes

GenericGF(primitive, size, b) ==             \* exp[i + 1] is the power of i
  LET Doubled(x) == IF 2 * x >= size THEN XOR(2 * x - size, primitive - size) ELSE 2 * x
  IN  FoldLeft(LAMBDA f, i : [f EXCEPT !.exp = Append(@, Doubled(f.exp[i])), !.log[f.exp[i]] = i - 1],
               [size |-> size, base |-> b, exp |-> <<1>>, log |-> <<>> \o [x \in 1 .. size - 1 |-> 0]],
               [i \in 1 .. size - 1 |-> i])

AztecParam == GenericGF(19, 16, 1)
AztecData6 == GenericGF(67, 64, 1)
DataMatrixField256 == GenericGF(301, 256, 1)

Multiply(f, a, b) ==
  IF a = 0 \/ b = 0 THEN 0
  ELSE LET sum == f.log[a] + f.log[b]
       IN  f.exp[1 + IF sum < f.size - 1 THEN sum ELSE sum - (f.size - 1)]
InverseIn(f, a) == f.exp[f.size - f.log[a]]
-----------------------------------------------------------------------------
Zeros(n) == [i \in 1 .. n |-> 0]
IsZero(p) == p[1] = 0
Degree(p) == Len(p) - 1
Monomial(coefficient, degree) == <<coefficient>> \o Zeros(degree)
EvaluateAt(f, p, a) == FoldLeft(LAMBDA s, c : XOR(Multiply(f, a, s), c), 0, p)

Normalized(p) ==
  LET nonZero == {i \in DOMAIN p : p[i] # 0}
  IN  IF nonZero = {} THEN <<0>>
      ELSE SubSeq(p, CHOOSE i \in nonZero : \A j \in nonZero : i <= j, Len(p))

Added(p, q) ==
  LET n == IF Len(p) > Len(q) THEN Len(p) ELSE Len(q)
      Padded(s) == Zeros(n - Len(s)) \o s
  IN  Normalized([i \in 1 .. n |-> XOR(Padded(p)[i], Padded(q)[i])])

Scaled(f, p, a) == Normalized([i \in DOMAIN p |-> Multiply(f, p[i], a)])

Product(f, p, q) ==
  FoldLeft(LAMBDA sum, i : Added(sum, Scaled(f, p, q[i]) \o Zeros(Len(q) - i)),
           <<0>>, [i \in DOMAIN q |-> i])

(* Expanded synthetic division: quotient and remainder in one sequence.    *)
DivideStep(f, result, q, i, c) ==            \* c is the next coefficient of the quotient
  SubSeq(result, 1, i - 1)
  \o [j \in 1 .. Len(q) |-> IF j = 1 THEN c ELSE XOR(result[i + j - 1], Multiply(f, q[j], c))]
  \o SubSeq(result, i + Len(q), Len(result))
SplitAfter(s, steps) ==
  [quotient |-> SubSeq(s, 1, steps), remainder |-> Normalized(<<0>> \o SubSeq(s, steps + 1, Len(s)))]
Divided(f, p, q) ==
  IF Len(p) < Len(q) THEN [quotient |-> <<0>>, remainder |-> p]
  ELSE SplitAfter(FoldLeft(LAMBDA s, i : DivideStep(f, s, q, i, Multiply(f, s[i], InverseIn(f, q[1]))),
                           p, [i \in 1 .. Len(p) - Len(q) + 1 |-> i]),
                  Len(p) - Len(q) + 1)
-----------------------------------------------------------------------------
(* ReedSolomonEncode.                                                      *)
Generator(f, degree) ==
  FoldLeft(LAMBDA g, d : Product(f, g, <<1, f.exp[d + f.base]>>), <<1>>, [d \in 1 .. degree |-> d])

WithRemainder(info, numEC, rest) == info \o Zeros(numEC - Len(rest)) \o rest
ReedSolomonEncode(f, info, numEC) ==
  WithRemainder(info, numEC,
    Divided(f, Normalized(info) \o Zeros(IF IsZero(Normalized(info)) THEN 0 ELSE numEC),
            Generator(f, numEC)).remainder)
-----------------------------------------------------------------------------
(* ReedSolomonDecode.  Every result is "corrected", "failed" (false is     *)
(* returned) or "thrown", with the message as it is left: a repair that    *)
(* turns out wrong is not undone.                                          *)
Result(outcome, m) == [outcome |-> outcome, message |-> m]

Syndromes(f, message, numEC) ==
  [i \in 1 .. numEC |-> EvaluateAt(f, Normalized(message), f.exp[numEC - i + f.base + 1])]
AllZero(s) == \A i \in DOMAIN s : s[i] = 0

(* RunEuclideanAlgorithm: divides until the degree is below half of R.     *)
AfterDivision(f, e, d) ==
  [rLast |-> e.r, r |-> d.remainder, tLast |-> e.t,
   t |-> Added(Product(f, d.quotient, e.t), e.tLast),
   stop |-> IF Degree(d.remainder) >= Degree(e.r) THEN "thrown" ELSE "no"]
EuclidStep(f, half, e) ==
  IF e.stop # "no" \/ Degree(e.r) < half THEN e
  ELSE IF IsZero(e.r) THEN [e EXCEPT !.stop = "failed"]
  ELSE AfterDivision(f, e, Divided(f, e.rLast, e.r))

Euclid(f, syndromes) ==
  LET R == Len(syndromes)
      r == Normalized(syndromes)
      start == [rLast |-> Monomial(1, R), r |-> r, tLast |-> <<0>>, t |-> <<1>>, stop |-> "no"]
  IN  FoldLeft(LAMBDA e, k : EuclidStep(f, R \div 2, e), start, [k \in 1 .. R + 1 |-> k])

(* Roots of the locator, none counted twice, in the order of the search.   *)
FindErrorLocations(f, sigma) ==
  FoldLeft(LAMBDA found, i : Append(found, InverseIn(f, i)), <<>>,
           SelectSeq([i \in 1 .. f.size - 1 |-> i], LAMBDA i : EvaluateAt(f, sigma, i) = 0))

FindErrorMagnitudeOfBase0(f, omega, locations, x) ==     \* mutant: for one base only
  LET inverse == InverseIn(f, x)
      Factor(y) == IF y = x THEN 1 ELSE XOR(1, Multiply(f, y, inverse))
      denom == FoldLeft(LAMBDA d, y : Multiply(f, d, Factor(y)), 1, locations)
  IN  Multiply(f, EvaluateAt(f, omega, inverse), InverseIn(f, denom))
FindErrorMagnitude(f, omega, locations, x) ==
  LET inverse == InverseIn(f, x)
      Factor(y) == IF y = x THEN 1 ELSE XOR(1, Multiply(f, y, inverse))
      denom == FoldLeft(LAMBDA d, y : Multiply(f, d, Factor(y)), 1, locations)
      value == Multiply(f, EvaluateAt(f, omega, inverse), InverseIn(f, denom))
  IN  IF f.base # 0 THEN Multiply(f, value, inverse) ELSE value

(* Positions are those from the end of the message.                        *)
UpToFirstOutside(f, message, locations) ==
  LET outside == {k \in DOMAIN locations : f.log[locations[k]] >= Len(message)}
  IN  SubSeq(locations, 1, CHOOSE n \in 0 .. Len(locations) :
                             n + 1 \in outside \cup {Len(locations) + 1} /\ \A k \in outside : k > n)
Checked(f, numEC, all, m) ==
  Result(IF all /\ AllZero(Syndromes(f, m, numEC)) THEN "corrected" ELSE "failed", m)
RepairAt(f, message, numEC, omega, locations, upTo) ==
  Checked(f, numEC, upTo = locations,
          FoldLeft(LAMBDA m, x :
                     [m EXCEPT ![Len(m) - f.log[x]] = XOR(@, FindErrorMagnitude(f, omega, locations, x))],
                   message, upTo))
Repair(f, message, numEC, sigma, omega, locations) ==
  IF Len(locations) # Degree(sigma) THEN Result("failed", message)
  ELSE RepairAt(f, message, numEC, omega, locations, UpToFirstOutside(f, message, locations))

Correct(f, message, numEC, sigma, omega) ==
  Repair(f, message, numEC, sigma, omega, FindErrorLocations(f, sigma))
CorrectBy(f, message, numEC, e) ==           \* e: what Euclid's algorithm ends with
  IF e.stop = "thrown" THEN Result("thrown", message)
  ELSE IF e.stop = "failed" \/ e.t[Len(e.t)] = 0 THEN Result("failed", message)
  ELSE Correct(f, message, numEC, Scaled(f, e.t, InverseIn(f, e.t[Len(e.t)])),
               Scaled(f, e.r, InverseIn(f, e.t[Len(e.t)])))
DecodeFrom(f, message, numEC, syndromes) ==
  IF AllZero(syndromes) THEN Result("corrected", message)
  ELSE CorrectBy(f, message, numEC, Euclid(f, syndromes))
ReedSolomonDecode(f, message, numEC) ==
  DecodeFrom(f, message, numEC, Syndromes(f, message, numEC))
=============================================================================
