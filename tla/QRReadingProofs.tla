--------------------------- MODULE QRReadingProofs ---------------------------
(***************************************************************************)
(* What Encode writes, Decode reads: every text, in every mode, character  *)
(* set, level and version, whatever the table of the versions, as long as  *)
(* no more codewords of a block are damaged than can be corrected.         *)
(*                                                                         *)
(* First the bits: a number written with n bits is read back with n bits,  *)
(* a group of letters from its number, the text from its groups.  Then the *)
(* blocks: the decoder puts together the bytes the encoder divided.  Then  *)
(* the stream: header, count, text and terminator lie where the decoder    *)
(* comes to look for them, and each step of it reads the next of them.     *)
(***************************************************************************)
EXTENDS QRCodeProofs, FiniteSetTheorems
-----------------------------------------------------------------------------
(* Powers of two, as far as the fields of the stream are wide.             *)
LEMMA PowersAre ==
  /\ \A k : k = 0 => 2^k = 1
  /\ \A k : k = 1 => 2^k = 2
  /\ \A k : k = 2 => 2^k = 4
  /\ \A k : k = 3 => 2^k = 8
  /\ \A k : k = 4 => 2^k = 16
  /\ \A k : k = 5 => 2^k = 32
  /\ \A k : k = 6 => 2^k = 64
  /\ \A k : k = 7 => 2^k = 128
  /\ \A k : k = 8 => 2^k = 256
  /\ \A k : k = 9 => 2^k = 512
  /\ \A k : k = 10 => 2^k = 1024
  /\ \A k : k = 11 => 2^k = 2048
  /\ \A k : k = 12 => 2^k = 4096
  /\ \A k : k = 13 => 2^k = 8192
  /\ \A k : k = 14 => 2^k = 16384
  /\ \A k : k = 15 => 2^k = 32768
  /\ \A k : k = 16 => 2^k = 65536
  /\ \A k : k = 17 => 2^k = 131072
  /\ \A k : k = 18 => 2^k = 262144
  /\ \A k : k = 19 => 2^k = 524288
  /\ \A k : k = 20 => 2^k = 1048576
  /\ \A k : k = 21 => 2^k = 2097152
<1>1. \A k : k = 0 => 2^k = 2^0  BY Zenon
<1>2. \A k : k = 1 => 2^k = 2^1  BY Zenon
<1>3. \A k : k = 2 => 2^k = 2^2  BY Zenon
<1>4. \A k : k = 3 => 2^k = 2^3  BY Zenon
<1>5. \A k : k = 4 => 2^k = 2^4  BY Zenon
<1>6. \A k : k = 5 => 2^k = 2^5  BY Zenon
<1>7. \A k : k = 6 => 2^k = 2^6  BY Zenon
<1>8. \A k : k = 7 => 2^k = 2^7  BY Zenon
<1>9. \A k : k = 8 => 2^k = 2^8  BY Zenon
<1>10. \A k : k = 9 => 2^k = 2^9  BY Zenon
<1>11. \A k : k = 10 => 2^k = 2^10  BY Zenon
<1>12. \A k : k = 11 => 2^k = 2^11  BY Zenon
<1>13. \A k : k = 12 => 2^k = 2^12  BY Zenon
<1>14. \A k : k = 13 => 2^k = 2^13  BY Zenon
<1>15. \A k : k = 14 => 2^k = 2^14  BY Zenon
<1>16. \A k : k = 15 => 2^k = 2^15  BY Zenon
<1>17. \A k : k = 16 => 2^k = 2^16  BY Zenon
<1>18. \A k : k = 17 => 2^k = 2^17  BY Zenon
<1>19. \A k : k = 18 => 2^k = 2^18  BY Zenon
<1>20. \A k : k = 19 => 2^k = 2^19  BY Zenon
<1>21. \A k : k = 20 => 2^k = 2^20  BY Zenon
<1>22. \A k : k = 21 => 2^k = 2^21  BY Zenon
<1> QED  BY <1>1, <1>2, <1>3, <1>4, <1>5, <1>6, <1>7, <1>8, <1>9, <1>10, <1>11,
         <1>12, <1>13, <1>14, <1>15, <1>16, <1>17, <1>18, <1>19, <1>20, <1>21, <1>22

LEMMA Powers ==
  /\ 2^0 = 1
  /\ \A k \in 0 .. 20 : 2^(k + 1) = 2 * 2^k
  /\ \A k \in 0 .. 21 : 2^k \in Nat \ {0}
<1>1. ASSUME NEW k \in 0 .. 20, NEW m, m = k + 1  PROVE  2^m = 2 * 2^k
  BY <1>1, PowersAre
<1>2. \A k \in 0 .. 20 : 2^(k + 1) = 2 * 2^k
  BY <1>1
<1>3. \A k \in 0 .. 21 : 2^k \in Nat \ {0}
  BY PowersAre
<1> QED  BY <1>2, <1>3

(* Half of a quotient.                                                     *)
LEMMA Halves ==
  ASSUME NEW v \in Nat, NEW a \in Nat \ {0}
  PROVE  v \div (2 * a) = (v \div a) \div 2
<1> DEFINE q == v \div a
           r == v % a
           h == q \div 2
           b == q % 2
<1>1. q \in Nat /\ r \in 0 .. a - 1  OBVIOUS
<1>2. v = q * a + r  OBVIOUS
<1> HIDE DEF q, r
<1>3. h \in Nat /\ b \in 0 .. 1 /\ q = 2 * h + b  BY <1>1
<1> HIDE DEF h, b
<1> DEFINE s == b * a + r
           c == 2 * a
<1>4. b * a \in 0 .. a
  <2>1. b = 0 \/ b = 1  BY <1>3
  <2> QED  BY <2>1
<1>5. s \in 0 .. c - 1 /\ c \in Nat \ {0}
  <2> DEFINE d == b * a
  <2>1. d \in 0 .. a /\ (b = 0 => d = 0)  BY <1>4
  <2> HIDE DEF d
  <2>2. d + r \in 0 .. 2 * a - 1  BY <1>1, <2>1
  <2> QED  BY <2>2 DEF d
<1>6. v = h * c + s
  <2>1. (2 * h + b) * a = h * (2 * a) + b * a  BY <1>1, <1>3
  <2> QED  BY <1>1, <1>2, <1>3, <1>4, <2>1
<1> HIDE DEF s, c
<1>7. v \div c = h  BY <1>3, <1>5, <1>6, Division
<1> QED  BY <1>7 DEF c, h, q
-----------------------------------------------------------------------------
(* Digits, the highest first, as a number.                                 *)
FoldedBy(f, digits, base) ==
  /\ f \in [0 .. Len(digits) -> Int]
  /\ f[0] = 0
  /\ \A n \in 1 .. Len(digits) : f[n] = base * f[n - 1] + digits[n]

LEMMA FoldedIs ==
  ASSUME NEW digits \in Seq(Int), NEW base \in Int
  PROVE  \E f : FoldedBy(f, digits, base) /\ Folded(digits, base) = f[Len(digits)]
<1> DEFINE N == Len(digits)
           Calls(g) == g = [n \in 0 .. N |-> IF n = 0 THEN 0 ELSE base * g[n - 1] + digits[n]]
           f == CHOOSE x : Calls(x)
           step == [p \in (1 .. N) \X Int |-> base * p[2] + digits[p[1]]]
<1>1. N \in Nat /\ \A n \in 1 .. N : digits[n] \in Int  OBVIOUS
<1>2. step \in [(1 .. N) \X Int -> Int]  BY <1>1
<1>3. PICK g : Iterates(g, N, Int, 0, step)
  <2> HIDE DEF step, N
  <2>1. N \in Nat /\ 0 \in Int  BY <1>1
  <2> QED  BY <1>2, <2>1, Recursion
<1>4. Calls(g)
  <2>1. \A n \in 0 .. N : n # 0 => step[<<n, g[n - 1]>>] = base * g[n - 1] + digits[n]
    <3> TAKE n \in 0 .. N
    <3>1. n # 0 => n - 1 \in 0 .. N /\ n \in 1 .. N  BY <1>1
    <3>2. n # 0 => g[n - 1] \in Int  BY <1>3, <3>1 DEF Iterates
    <3>3. n # 0 => <<n, g[n - 1]>> \in (1 .. N) \X Int  BY <3>1, <3>2
    <3> QED  BY <3>3
  <2> HIDE DEF step
  <2> QED  BY <1>3, <2>1 DEF Iterates
<1> HIDE DEF step
<1>5. Calls(f)  BY <1>4
<1>6. Folded(digits, base) = f[N]  BY DEF Folded
<1> HIDE DEF f
<1>7. f[0] = 0 /\ \A n \in 1 .. N : f[n] = base * f[n - 1] + digits[n]
  <2>1. 0 \in 0 .. N /\ \A n \in 1 .. N : n \in 0 .. N /\ n # 0  BY <1>1
  <2> HIDE DEF N
  <2> QED  BY <1>5, <2>1
<1>8. f \in [0 .. N -> Int]
  <2> DEFINE S == {n \in 0 .. N : f[n] \in Int}
  <2>1. 0 \in S  BY <1>1, <1>7
  <2>2. ASSUME NEW n \in 0 .. N - 1, n \in S  PROVE n + 1 \in S
    <3>1. n + 1 \in 1 .. N /\ (n + 1) - 1 = n  BY <1>1
    <3>2. f[n + 1] = base * f[n] + digits[n + 1]  BY <1>7, <3>1
    <3>3. f[n] \in Int /\ digits[n + 1] \in Int  BY <1>1, <2>2, <3>1
    <3>4. f[n + 1] \in Int  BY <3>2, <3>3
    <3> QED  BY <3>1, <3>4
  <2> HIDE DEF S
  <2>3. \A n \in 0 .. N : n \in S  BY <1>1, <2>1, <2>2, Induct
  <2>4. \A n \in 0 .. N : f[n] \in Int  BY <2>3 DEF S
  <2> HIDE DEF N
  <2>5. f = [n \in 0 .. N |-> f[n]]  BY <1>5
  <2> QED  BY <2>4, <2>5
<1> QED  BY <1>6, <1>7, <1>8 DEF FoldedBy

(* The digits of one, two or three characters.                             *)
LEMMA FoldedFew ==
  ASSUME NEW digits \in Seq(Int), NEW base \in Int
  PROVE  /\ Folded(digits, base) \in Int
         /\ Len(digits) = 1 => Folded(digits, base) = digits[1]
         /\ Len(digits) = 2 => Folded(digits, base) = base * digits[1] + digits[2]
         /\ Len(digits) = 3 =>
              Folded(digits, base) = base * (base * digits[1] + digits[2]) + digits[3]
<1>1. PICK f : FoldedBy(f, digits, base) /\ Folded(digits, base) = f[Len(digits)]
  BY FoldedIs
<1>2. f[0] = 0 /\ \A n \in 1 .. Len(digits) : f[n] = base * f[n - 1] + digits[n]
  BY <1>1 DEF FoldedBy
<1>3. \A n \in 1 .. Len(digits) : digits[n] \in Int  OBVIOUS
<1>4. Len(digits) >= 1 => f[1] = digits[1]  BY <1>2, <1>3
<1>5. Len(digits) >= 2 => f[2] = base * digits[1] + digits[2]  BY <1>2, <1>4
<1>6. Len(digits) >= 3 => f[3] = base * (base * digits[1] + digits[2]) + digits[3]
  BY <1>2, <1>5
<1>7. Folded(digits, base) \in Int
  <2>1. Len(digits) \in 0 .. Len(digits)  OBVIOUS
  <2> QED  BY <1>1, <2>1 DEF FoldedBy
<1> DEFINE F == Folded(digits, base)
           N == Len(digits)
<1>8. F = f[N] /\ N \in Nat  BY <1>1
<1> HIDE DEF F
<1>9. N = 1 => F = digits[1]  BY <1>4, <1>8
<1>10. N = 2 => F = base * digits[1] + digits[2]  BY <1>5, <1>8
<1>11. N = 3 => F = base * (base * digits[1] + digits[2]) + digits[3]
  BY <1>6, <1>8
<1> QED  BY <1>7, <1>9, <1>10, <1>11 DEF F

(* The bits of a number give it back.                                      *)
LEMMA FoldedBits ==
  ASSUME NEW n \in 0 .. 21, NEW v \in Nat, v < 2^n
  PROVE  Folded(Bits(v, n), 2) = v
<1> DEFINE b == Bits(v, n)
           Q(k) == v \div 2^(n - k)
           S == {k \in 0 .. n : TRUE}
<1>1. /\ \A k \in 0 .. n : n - k \in 0 .. 21 /\ 2^(n - k) \in Nat \ {0}
      /\ n \in Nat /\ n - 0 = n /\ n - n = 0
  <2>1. \A k \in 0 .. n : n - k \in 0 .. 21  OBVIOUS
  <2>2. ASSUME NEW k \in 0 .. n  PROVE 2^(n - k) \in Nat \ {0}
    <3> DEFINE m == n - k
    <3>1. m \in 0 .. 21  BY <2>1
    <3> HIDE DEF m
    <3>2. 2^m \in Nat \ {0}  BY <3>1, Powers
    <3> QED  BY <3>2 DEF m
  <2> QED  BY <2>1, <2>2
<1>2. \A k \in 0 .. n : Q(k) \in Nat
  <2> TAKE k \in 0 .. n
  <2> DEFINE a == 2^(n - k)
  <2>1. a \in Nat \ {0}  BY <1>1
  <2> HIDE DEF a
  <2>2. v \div a \in Nat  BY <2>1
  <2> QED  BY <2>2 DEF a
<1>3. b = [i \in 1 .. n |-> Q(i) % 2]  BY DEF Bits
<1>4. \A k \in 1 .. n : Q(k) = 2 * Q(k - 1) + b[k]
  <2> TAKE k \in 1 .. n
  <2> DEFINE a == 2^(n - k)
             m == n - k
  <2>1. m \in 0 .. 20 /\ n - (k - 1) = m + 1  OBVIOUS
  <2>2. 2^(n - (k - 1)) = 2 * a
    <3> HIDE DEF m
    <3>1. 2^(m + 1) = 2 * 2^m  BY <2>1, Powers
    <3>2. 2^(n - (k - 1)) = 2^(m + 1)  BY <2>1, Zenon
    <3> QED  BY <3>1, <3>2 DEF m
  <2>3. a \in Nat \ {0}  BY <1>1
  <2> HIDE DEF a
  <2>4. v \div (2 * a) = (v \div a) \div 2  BY <2>3, Halves
  <2>5. Q(k) = v \div a /\ Q(k - 1) = (v \div a) \div 2
    <3>1. Q(k) = v \div a  BY DEF a
    <3>2. Q(k - 1) = v \div (2 * a)  BY <2>2, Zenon
    <3> QED  BY <2>4, <3>1, <3>2
  <2>6. b[k] = Q(k) % 2
    <3> HIDE DEF Q
    <3> QED  BY <1>3
  <2>7. Q(k) \in Nat  BY <1>2
  <2> HIDE DEF Q, b
  <2> QED  BY <2>5, <2>6, <2>7
<1>5. b \in Seq(Int) /\ Len(b) = n
  <2> HIDE DEF Q
  <2>1. \A i \in 1 .. n : Q(i) % 2 \in Int  BY <1>2
  <2> QED  BY <1>1, <1>3, <2>1
<1>6. Q(0) = 0 /\ Q(n) = v
  <2>1. Q(0) = 0
    <3> DEFINE a == 2^(n - 0)
    <3>1. a = 2^n  BY <1>1, Zenon
    <3>2. a \in Nat \ {0} /\ v < a  BY <1>1, <3>1
    <3> HIDE DEF a
    <3>3. v \div a = 0  BY <3>2
    <3> QED  BY <3>3 DEF a
  <2>2. Q(n) = v
    <3> DEFINE a == 2^(n - n)
    <3>1. a = 2^0  BY <1>1, Zenon
    <3>2. a = 1  BY <3>1, Powers
    <3> HIDE DEF a
    <3>3. v \div a = v  BY <3>2
    <3> QED  BY <3>3 DEF a
  <2> QED  BY <2>1, <2>2
<1> HIDE DEF Q, b
<1>7. PICK f : FoldedBy(f, b, 2) /\ Folded(b, 2) = f[Len(b)]
  BY <1>5, FoldedIs
<1> DEFINE R == {k \in 0 .. n : f[k] = Q(k)}
<1>8. 0 \in R  BY <1>1, <1>6, <1>7 DEF FoldedBy
<1>9. ASSUME NEW k \in 0 .. n - 1, k \in R  PROVE k + 1 \in R
  <2>1. k + 1 \in 1 .. n /\ (k + 1) - 1 = k  BY <1>1
  <2>2. f[k + 1] = 2 * f[k] + b[k + 1]  BY <1>5, <1>7, <2>1 DEF FoldedBy
  <2>3. Q(k + 1) = 2 * Q(k) + b[k + 1]  BY <1>4, <2>1
  <2>4. f[k] = Q(k)  BY <1>9
  <2> QED  BY <2>1, <2>2, <2>3, <2>4
<1> HIDE DEF R
<1>10. \A k \in 0 .. n : k \in R  BY <1>1, <1>8, <1>9, Induct
<1>11. f[n] = Q(n)  BY <1>1, <1>10 DEF R
<1> QED  BY <1>5, <1>6, <1>7, <1>11 DEF b

(* The bits of a byte, the highest first: the last of what is left and the *)
(* rest.                                                                   *)
EndsIn(x, k, c, e) == c \in Nat /\ e \in 0 .. 1 /\ x \div k = 2 * c + e

LEMMA LowerBits ==
  ASSUME NEW x \in Nat, NEW k \in Nat \ {0}, NEW c, NEW e, EndsIn(x, k, c, e)
  PROVE  (x \div k) % 2 = e /\ x \div (2 * k) = c
<1> DEFINE y == x \div k
<1>1. x \div (2 * k) = y \div 2  BY Halves
<1>2. y = 2 * c + e /\ c \in Nat /\ e \in 0 .. 1  BY DEF EndsIn
<1> HIDE DEF y
<1>3. y % 2 = e /\ y \div 2 = c  BY <1>2
<1> QED  BY <1>1, <1>3 DEF y

(* What holds of the eight bits of a byte in their own names.              *)
EightBits(b, x) ==
  /\ x \in 0 .. 255
  /\ (x \div 1) % 2 = b[8] /\ (x \div 2) % 2 = b[7] /\ (x \div 4) % 2 = b[6]
  /\ (x \div 8) % 2 = b[5] /\ (x \div 16) % 2 = b[4] /\ (x \div 32) % 2 = b[3]
  /\ (x \div 64) % 2 = b[2] /\ (x \div 128) % 2 = b[1]

LEMMA EightBitsOf ==
  ASSUME NEW b, \A i \in 1 .. 8 : b[i] \in 0 .. 1,
         NEW f, f[0] = 0, \A n \in 1 .. 8 : f[n] = 2 * f[n - 1] + b[n]
  PROVE  EightBits(b, f[8])
<1>1. /\ b[1] \in 0 .. 1 /\ b[2] \in 0 .. 1 /\ b[3] \in 0 .. 1 /\ b[4] \in 0 .. 1
      /\ b[5] \in 0 .. 1 /\ b[6] \in 0 .. 1 /\ b[7] \in 0 .. 1 /\ b[8] \in 0 .. 1
  OBVIOUS
<1>2. /\ f[1] = 2 * f[0] + b[1] /\ f[2] = 2 * f[1] + b[2]
      /\ f[3] = 2 * f[2] + b[3] /\ f[4] = 2 * f[3] + b[4] /\ f[5] = 2 * f[4] + b[5]
      /\ f[6] = 2 * f[5] + b[6] /\ f[7] = 2 * f[6] + b[7] /\ f[8] = 2 * f[7] + b[8]
  OBVIOUS
<1> DEFINE x == f[8]
<1>4. /\ f[1] \in 0 .. 1 /\ f[1] = b[1]  BY <1>1, <1>2
<1>5. f[2] \in 0 .. 3  BY <1>1, <1>2, <1>4
<1>6. f[3] \in 0 .. 7  BY <1>1, <1>2, <1>5
<1>7. f[4] \in 0 .. 15  BY <1>1, <1>2, <1>6
<1>8. f[5] \in 0 .. 31  BY <1>1, <1>2, <1>7
<1>9. f[6] \in 0 .. 63  BY <1>1, <1>2, <1>8
<1>10. f[7] \in 0 .. 127  BY <1>1, <1>2, <1>9
<1>11. x \in 0 .. 255  BY <1>1, <1>2, <1>10
<1> HIDE DEF x
<1>12. x \in Nat  BY <1>11
<1>13. EndsIn(x, 1, f[7], b[8])
  <2>1. x \div 1 = x  BY <1>12
  <2>2. x = 2 * f[7] + b[8]  BY <1>2 DEF x
  <2> QED  BY <1>1, <1>10, <2>1, <2>2 DEF EndsIn
<1>14. EndsIn(x, 2, f[6], b[7])
  <2>1. x \div 2 = f[7]  BY <1>12, <1>13, LowerBits
  <2> QED  BY <1>1, <1>2, <1>10, <1>9, <2>1 DEF EndsIn
<1>15. EndsIn(x, 4, f[5], b[6])
  <2>1. x \div 4 = f[6]  BY <1>12, <1>14, LowerBits
  <2> QED  BY <1>1, <1>2, <1>9, <1>8, <2>1 DEF EndsIn
<1>16. EndsIn(x, 8, f[4], b[5])
  <2>1. x \div 8 = f[5]  BY <1>12, <1>15, LowerBits
  <2> QED  BY <1>1, <1>2, <1>8, <1>7, <2>1 DEF EndsIn
<1>17. EndsIn(x, 16, f[3], b[4])
  <2>1. x \div 16 = f[4]  BY <1>12, <1>16, LowerBits
  <2> QED  BY <1>1, <1>2, <1>7, <1>6, <2>1 DEF EndsIn
<1>18. EndsIn(x, 32, f[2], b[3])
  <2>1. x \div 32 = f[3]  BY <1>12, <1>17, LowerBits
  <2> QED  BY <1>1, <1>2, <1>6, <1>5, <2>1 DEF EndsIn
<1>19. EndsIn(x, 64, f[1], b[2])
  <2>1. x \div 64 = f[2]  BY <1>12, <1>18, LowerBits
  <2> QED  BY <1>1, <1>2, <1>5, <1>4, <2>1 DEF EndsIn
<1>20. x \div 128 = f[1]  BY <1>12, <1>19, LowerBits
<1>21. (x \div 128) % 2 = b[1]  BY <1>1, <1>4, <1>20
<1>22. (x \div 1) % 2 = b[8]  BY <1>12, <1>13, LowerBits
<1>23. (x \div 2) % 2 = b[7]  BY <1>12, <1>14, LowerBits
<1>24. (x \div 4) % 2 = b[6]  BY <1>12, <1>15, LowerBits
<1>25. (x \div 8) % 2 = b[5]  BY <1>12, <1>16, LowerBits
<1>26. (x \div 16) % 2 = b[4]  BY <1>12, <1>17, LowerBits
<1>27. (x \div 32) % 2 = b[3]  BY <1>12, <1>18, LowerBits
<1>28. (x \div 64) % 2 = b[2]  BY <1>12, <1>19, LowerBits
<1>29. EightBits(b, x)
  BY <1>11, <1>21, <1>22, <1>23, <1>24, <1>25, <1>26, <1>27, <1>28 DEF EightBits
<1> QED  BY <1>29 DEF x

LEMMA ByteOfBits ==
  ASSUME NEW b \in [1 .. 8 -> {0, 1}]
  PROVE  /\ Folded(b, 2) \in 0 .. 255
         /\ \A q \in 0 .. 7 : (Folded(b, 2) \div 2^(7 - q)) % 2 = b[q + 1]
<1>1. b \in Seq(Int) /\ Len(b) = 8 /\ \A i \in 1 .. 8 : b[i] \in 0 .. 1
  <2>1. b \in [1 .. 8 -> Int] /\ 8 \in Nat  OBVIOUS
  <2>2. b \in Seq(Int)  BY <2>1, SeqDef
  <2>3. Len(b) = 8  BY <2>1, <2>2, LenProperties
  <2> QED  BY <2>2, <2>3
<1>2. PICK f : FoldedBy(f, b, 2) /\ Folded(b, 2) = f[8]
  <2>1. 2 \in Int  OBVIOUS
  <2> QED  BY <1>1, <2>1, FoldedIs
<1>3. f[0] = 0 /\ \A n \in 1 .. 8 : f[n] = 2 * f[n - 1] + b[n]
  BY <1>1, <1>2 DEF FoldedBy
<1> DEFINE x == f[8]
<1>4. EightBits(b, x)  BY <1>1, <1>3, EightBitsOf
<1> HIDE DEF x
<1>5. ASSUME NEW q \in 0 .. 7  PROVE (x \div 2^(7 - q)) % 2 = b[q + 1]
  <2> DEFINE m == 7 - q
             a == 2^m
             D == (x \div a) % 2
  <2>1. m \in 0 .. 7 /\ q + 1 = 8 - m  OBVIOUS
  <2> HIDE DEF m
  <2>2. PICK i \in 1 .. 8 : i = 8 - m  BY <2>1
  <2>3. /\ i = 8 => a = 1
        /\ i = 7 => a = 2
        /\ i = 6 => a = 4
        /\ i = 5 => a = 8
        /\ i = 4 => a = 16
        /\ i = 3 => a = 32
        /\ i = 2 => a = 64
        /\ i = 1 => a = 128
    BY <2>1, <2>2, PowersAre
  <2> HIDE DEF a
  <2>4. /\ a = 1 => D = b[8]
        /\ a = 2 => D = b[7]
        /\ a = 4 => D = b[6]
        /\ a = 8 => D = b[5]
        /\ a = 16 => D = b[4]
        /\ a = 32 => D = b[3]
        /\ a = 64 => D = b[2]
        /\ a = 128 => D = b[1]
    BY <1>4 DEF EightBits
  <2> HIDE DEF D
  <2>5. D = b[i]  BY <2>3, <2>4
  <2> QED  BY <2>1, <2>2, <2>5 DEF a, m, D
<1> QED  BY <1>2, <1>4, <1>5 DEF x, EightBits
-----------------------------------------------------------------------------
(* The bits of the stream from p on are those of d.                        *)
IsBits(d) == d \in Seq({0, 1})
At(p, d) ==
  /\ p \in Nat /\ IsBits(d)
  /\ p + Len(d) <= 8 * Len(bytes)
  /\ \A i \in 1 .. Len(d) : BitAt(p + i - 1) = d[i]

LEMMA BitsAre ==
  ASSUME NEW n \in 0 .. 21, NEW v \in Nat
  PROVE  IsBits(Bits(v, n)) /\ Len(Bits(v, n)) = n
<1>1. ASSUME NEW i \in 1 .. n  PROVE (v \div 2^(n - i)) % 2 \in {0, 1}
  <2> DEFINE m == n - i
             a == 2^m
  <2>1. m \in 0 .. 21  OBVIOUS
  <2> HIDE DEF m
  <2>2. a \in Nat \ {0}  BY <2>1, Powers
  <2> HIDE DEF a
  <2>3. (v \div a) % 2 \in {0, 1}  BY <2>2
  <2> QED  BY <2>3 DEF a, m
<1>2. Bits(v, n) \in [1 .. n -> {0, 1}]  BY <1>1 DEF Bits
<1>3. n \in Nat  OBVIOUS
<1>4. Bits(v, n) \in Seq({0, 1})  BY <1>2, <1>3, SeqDef
<1> QED  BY <1>2, <1>3, <1>4, LenProperties DEF IsBits

(* One behind the other.                                                   *)
LEMMA BitsJoined ==
  ASSUME NEW x, IsBits(x), NEW y, IsBits(y)
  PROVE  /\ IsBits(x \o y) /\ Len(x \o y) = Len(x) + Len(y)
         /\ Len(x) \in Nat /\ Len(y) \in Nat
BY DEF IsBits

LEMMA AtParts ==
  ASSUME NEW p, NEW x, IsBits(x), NEW y, IsBits(y), At(p, x \o y), Len(bytes) \in Nat
  PROVE  At(p, x) /\ At(p + Len(x), y)
<1> DEFINE d == x \o y
<1>1. d \in Seq({0, 1}) /\ Len(d) = Len(x) + Len(y) /\ Len(x) \in Nat /\ Len(y) \in Nat
  BY BitsJoined DEF IsBits
<1>2. /\ \A i \in 1 .. Len(x) : d[i] = x[i]
      /\ \A i \in 1 .. Len(y) : d[Len(x) + i] = y[i]
  BY DEF IsBits
<1>3. /\ p \in Nat /\ p + Len(d) <= 8 * Len(bytes)
      /\ \A i \in 1 .. Len(d) : BitAt(p + i - 1) = d[i]
  BY DEF At
<1> HIDE DEF d
<1>4. At(p, x)
  <2>1. \A i \in 1 .. Len(x) : i \in 1 .. Len(d)  BY <1>1
  <2>2. p + Len(x) <= 8 * Len(bytes)  BY <1>1, <1>3
  <2> QED  BY <1>2, <1>3, <2>1, <2>2 DEF At
<1>5. At(p + Len(x), y)
  <2>1. ASSUME NEW i \in 1 .. Len(y)  PROVE BitAt((p + Len(x)) + i - 1) = y[i]
    <3> DEFINE k == Len(x) + i
    <3>1. k \in 1 .. Len(d) /\ p + k - 1 = (p + Len(x)) + i - 1  BY <1>1, <1>3
    <3>2. d[k] = y[i]  BY <1>2
    <3> HIDE DEF k
    <3>3. BitAt(p + k - 1) = y[i]  BY <1>3, <3>1, <3>2
    <3> QED  BY <3>1, <3>3
  <2>2. p + Len(x) \in Nat /\ (p + Len(x)) + Len(y) <= 8 * Len(bytes)  BY <1>1, <1>3
  <2> QED  BY <2>1, <2>2 DEF At
<1> QED  BY <1>4, <1>5

(* A field is read as the number that was written.                         *)
LEMMA PeekAt ==
  ASSUME NEW p, NEW d, At(p, d), Len(bytes) \in Nat
  PROVE  /\ Peek(p, Len(d)) = Folded(d, 2)
         /\ Len(d) >= 1 => CanRead(p, Len(d))
<1>1. /\ p \in Nat /\ d \in Seq({0, 1}) /\ Len(d) \in Nat
      /\ p + Len(d) <= 8 * Len(bytes)
      /\ \A i \in 1 .. Len(d) : BitAt(p + i - 1) = d[i]
  BY DEF At, IsBits
<1>2. d = [i \in 1 .. Len(d) |-> d[i]]  BY <1>1
<1>3. [i \in 1 .. Len(d) |-> BitAt(p + i - 1)] = d  BY <1>1, <1>2
<1>4. Peek(p, Len(d)) = Folded(d, 2)  BY <1>3 DEF Peek
<1>5. Len(d) >= 1 => CanRead(p, Len(d))  BY <1>1 DEF CanRead, Available
<1> QED  BY <1>4, <1>5

LEMMA ReadBits ==
  ASSUME NEW p, NEW n \in 1 .. 21, NEW v \in Nat, v < 2^n, At(p, Bits(v, n)),
         Len(bytes) \in Nat
  PROVE  CanRead(p, n) /\ Peek(p, n) = v
<1>0. n >= 1 /\ n \in 0 .. 21  OBVIOUS
<1>1. Len(Bits(v, n)) = n  BY <1>0, BitsAre
<1>2. Folded(Bits(v, n), 2) = v  BY <1>0, FoldedBits
<1> QED  BY <1>0, <1>1, <1>2, PeekAt
-----------------------------------------------------------------------------
(* The bytes that TerminateBits makes hold the bits and then zeros.        *)
LEMMA PaddedBits ==
  ASSUME NEW b, IsBits(b), NEW N \in Nat, NEW used \in 0 .. N, bytes = Padded(b, used, N)
  PROVE  /\ bytes \in Seq(0 .. 255) /\ Len(bytes) = N
         /\ \A p \in 0 .. 8 * used - 1 :
              BitAt(p) = IF p < Len(b) THEN b[p + 1] ELSE 0
<1> DEFINE Bit(k) == IF k <= Len(b) THEN b[k] ELSE 0
           D(n) == [i \in 1 .. 8 |-> Bit(8 * (n - 1) + i)]
           F(n) == Folded(D(n), 2)
<1>1. Len(b) \in Nat /\ \A k \in 1 .. Len(b) : b[k] \in {0, 1}  BY DEF IsBits
<1>2. \A k \in Nat \ {0} : Bit(k) \in {0, 1}  BY <1>1
<1>3. ASSUME NEW n \in 1 .. N
      PROVE  F(n) \in 0 .. 255 /\ \A q \in 0 .. 7 : (F(n) \div 2^(7 - q)) % 2 = D(n)[q + 1]
  <2>1. \A i \in 1 .. 8 : 8 * (n - 1) + i \in Nat \ {0}  OBVIOUS
  <2> HIDE DEF Bit
  <2>2. D(n) \in [1 .. 8 -> {0, 1}]  BY <1>2, <2>1
  <2> HIDE DEF D
  <2> QED  BY <2>2, ByteOfBits
<1>4. bytes = [n \in 1 .. N |-> IF n <= used THEN F(n) ELSE IF (n - used) % 2 = 1 THEN 236 ELSE 17]
  BY DEF Padded
<1> HIDE DEF F
<1>5. bytes \in [1 .. N -> 0 .. 255]  BY <1>3, <1>4
<1>6. bytes \in Seq(0 .. 255) /\ Len(bytes) = N
  <2>1. bytes \in Seq(0 .. 255)  BY <1>5, SeqDef
  <2> QED  BY <1>5, <2>1, LenProperties
<1>7. ASSUME NEW p \in 0 .. 8 * used - 1  PROVE BitAt(p) = Bit(p + 1)
  <2> DEFINE n == (p \div 8) + 1
             q == p % 8
  <2>1. n \in 1 .. used /\ q \in 0 .. 7 /\ 8 * (n - 1) + (q + 1) = p + 1  OBVIOUS
  <2>2. BitAt(p) = (bytes[n] \div 2^(7 - q)) % 2  BY DEF BitAt
  <2> HIDE DEF n, q, Bit
  <2>3. n \in 1 .. N /\ n <= used  BY <2>1
  <2>4. bytes[n] = F(n)  BY <1>4, <2>3
  <2>5. (F(n) \div 2^(7 - q)) % 2 = D(n)[q + 1]  BY <1>3, <2>1, <2>3
  <2>6. q + 1 \in 1 .. 8  BY <2>1
  <2>7. D(n)[q + 1] = Bit(8 * (n - 1) + (q + 1))  BY <2>6
  <2> QED  BY <2>1, <2>2, <2>4, <2>5, <2>7
<1>8. ASSUME NEW p \in 0 .. 8 * used - 1
      PROVE  BitAt(p) = IF p < Len(b) THEN b[p + 1] ELSE 0
  <2>1. p + 1 <= Len(b) <=> p < Len(b)  BY <1>1
  <2> QED  BY <1>7, <2>1
<1> QED  BY <1>6, <1>8

(* Behind the bits there are up to `terminator` zeros.                     *)
LEMMA Terminated ==
  ASSUME NEW b, IsBits(b), NEW N \in Nat, Len(b) <= 8 * N, NEW t \in Nat,
         bytes = TerminateBits(b, t, N)
  PROVE  /\ bytes \in Seq(0 .. 255) /\ Len(bytes) = N
         /\ At(0, b)
         /\ \A p \in Len(b) .. 8 * N - 1 : p < Len(b) + t => BitAt(p) = 0
<1> DEFINE ended == IF Len(b) + t <= 8 * N THEN Len(b) + t ELSE 8 * N
           used == (ended + 7) \div 8
<1>1. Len(b) \in Nat  BY DEF IsBits
<1>2. ended \in Nat /\ ended <= 8 * N /\ Len(b) <= ended
      /\ \A p \in Len(b) .. 8 * N - 1 : p < Len(b) + t => p < ended
  BY <1>1
<1>3. bytes = Padded(b, used, N)  BY DEF TerminateBits
<1> HIDE DEF ended
<1>4. used \in 0 .. N /\ ended <= 8 * used  BY <1>2
<1> HIDE DEF used
<1>5. /\ bytes \in Seq(0 .. 255) /\ Len(bytes) = N
      /\ \A p \in 0 .. 8 * used - 1 : BitAt(p) = IF p < Len(b) THEN b[p + 1] ELSE 0
  BY <1>3, <1>4, PaddedBits
<1>6. ASSUME NEW i \in 1 .. Len(b)  PROVE BitAt(0 + i - 1) = b[i]
  <2> DEFINE p == 0 + i - 1
  <2>1. p \in 0 .. 8 * used - 1 /\ p < Len(b) /\ p + 1 = i  BY <1>1, <1>2, <1>4
  <2> HIDE DEF p
  <2>2. BitAt(p) = b[p + 1]  BY <1>5, <2>1
  <2> QED  BY <2>1, <2>2 DEF p
<1>7. At(0, b)
  <2>1. 0 \in Nat /\ 0 + Len(b) <= 8 * Len(bytes)  BY <1>1, <1>5
  <2> QED  BY <1>6, <2>1 DEF At
<1>8. ASSUME NEW p \in Len(b) .. 8 * N - 1, p < Len(b) + t  PROVE BitAt(p) = 0
  <2>1. p < ended  BY <1>2, <1>8
  <2>2. p \in 0 .. 8 * used - 1 /\ ~(p < Len(b))  BY <1>1, <1>2, <1>4, <2>1
  <2> QED  BY <1>5, <2>2
<1> QED  BY <1>5, <1>7, <1>8

(* Zeros are a terminator.                                                 *)
LEMMA FoldedZeros ==
  ASSUME NEW n \in 0 .. 21
  PROVE  Folded([i \in 1 .. n |-> 0], 2) = 0
<1>1. 0 < 2^n
  <2> DEFINE a == 2^n
  <2>1. a \in Nat \ {0}  BY Powers
  <2> HIDE DEF a
  <2>2. 0 < a  BY <2>1
  <2> QED  BY <2>2 DEF a
<1>2. Folded(Bits(0, n), 2) = 0  BY <1>1, FoldedBits
<1>3. Bits(0, n) = [i \in 1 .. n |-> 0]
  <2>1. ASSUME NEW i \in 1 .. n  PROVE (0 \div 2^(n - i)) % 2 = 0
    <3> DEFINE m == n - i
               a == 2^m
    <3>1. m \in 0 .. 21  OBVIOUS
    <3> HIDE DEF m
    <3>2. a \in Nat \ {0}  BY <3>1, Powers
    <3> HIDE DEF a
    <3>3. (0 \div a) % 2 = 0  BY <3>2
    <3> QED  BY <3>3 DEF a, m
  <2> QED  BY <2>1 DEF Bits
<1> QED  BY <1>2, <1>3
-----------------------------------------------------------------------------
(* Groups of characters as numbers.                                        *)
LEMMA TensAre ==
  \A k : /\ k = 0 => 10^k = 1
         /\ k = 1 => 10^k = 10
         /\ k = 2 => 10^k = 100
         /\ k = 3 => 10^k = 1000
<1>1. \A k : k = 0 => 10^k = 10^0  BY Zenon
<1>2. \A k : k = 1 => 10^k = 10^1  BY Zenon
<1>3. \A k : k = 2 => 10^k = 10^2  BY Zenon
<1>4. \A k : k = 3 => 10^k = 10^3  BY Zenon
<1> QED  BY <1>1, <1>2, <1>3, <1>4

LEMMA PowersOf45 ==
  \A k : /\ k = 0 => 45^k = 1
         /\ k = 1 => 45^k = 45
         /\ k = 2 => 45^k = 2025
<1>1. \A k : k = 0 => 45^k = 45^0  BY Zenon
<1>2. \A k : k = 1 => 45^k = 45^1  BY Zenon
<1>3. \A k : k = 2 => 45^k = 45^2  BY Zenon
<1> QED  BY <1>1, <1>2, <1>3

LEMMA OneDigit ==
  ASSUME NEW B \in {10, 45}, NEW d \in 0 .. B - 1
  PROVE  (d \div 1) % B = d
<1>1. d \div 1 = d  OBVIOUS
<1>2. CASE B = 10
  <2>1. d % 10 = d  BY <1>2
  <2> QED  BY <1>1, <1>2, <2>1
<1>3. CASE B = 45
  <2>1. d % 45 = d  BY <1>3
  <2> QED  BY <1>1, <1>3, <2>1
<1> QED  BY <1>2, <1>3

DecimalAt(v, i, size) == (v \div 10^(size - i)) % 10
At45(v, i, size) == (v \div 45^(size - i)) % 45

LEMMA DecimalDigits ==
  ASSUME NEW d \in Seq(Int), NEW N \in 1 .. 3, Len(d) = N, \A i \in 1 .. N : d[i] \in 0 .. 9
  PROVE  LET v == Folded(d, 10)
         IN  /\ v \in Nat /\ v < 10^N /\ v < 2^(3 * N + 1)
             /\ \A i \in 1 .. N : DecimalAt(v, i, N) = d[i]
<1> DEFINE v == Folded(d, 10)
           T == 10^N
           m == 3 * N + 1
           W == 2^m
           D(a) == (v \div a) % 10
<1>1. /\ N = 1 => v = d[1]
      /\ N = 2 => v = 10 * d[1] + d[2]
      /\ N = 3 => v = 10 * (10 * d[1] + d[2]) + d[3]
  <2>1. 10 \in Int  OBVIOUS
  <2> QED  BY <2>1, FoldedFew
<1>2. /\ N = 1 => T = 10
      /\ N = 2 => T = 100
      /\ N = 3 => T = 1000
  BY TensAre
<1>3. /\ N = 1 => W = 16
      /\ N = 2 => W = 128
      /\ N = 3 => W = 1024
  <2>1. /\ N = 1 => m = 4
        /\ N = 2 => m = 7
        /\ N = 3 => m = 10
    OBVIOUS
  <2> HIDE DEF m
  <2>2. /\ m = 4 => W = 2^4
        /\ m = 7 => W = 2^7
        /\ m = 10 => W = 2^10
    BY Zenon
  <2> HIDE DEF W
  <2> QED  BY <2>1, <2>2
<1>4. /\ d[1] \in 0 .. 9
      /\ N >= 2 => d[2] \in 0 .. 9
      /\ N >= 3 => d[3] \in 0 .. 9
  OBVIOUS
<1> HIDE DEF T, W, m
<1>5. ASSUME NEW i \in 1 .. N
      PROVE  \E k \in 0 .. 2 : k = N - i /\ DecimalAt(v, i, N) = (v \div 10^k) % 10
  <2>1. N - i \in 0 .. 2  OBVIOUS
  <2> QED  BY <2>1 DEF DecimalAt
<1>6. ASSUME NEW k \in 0 .. 2
      PROVE  (v \div 10^k) % 10 = D(IF k = 0 THEN 1 ELSE IF k = 1 THEN 10 ELSE 100)
  <2>1. 10^k = IF k = 0 THEN 1 ELSE IF k = 1 THEN 10 ELSE 100
    <3> DEFINE a == 10^k
    <3>1. /\ k = 0 => a = 1
          /\ k = 1 => a = 10
          /\ k = 2 => a = 100
      BY TensAre
    <3> HIDE DEF a
    <3>2. a = IF k = 0 THEN 1 ELSE IF k = 1 THEN 10 ELSE 100  BY <3>1
    <3> QED  BY <3>2 DEF a
  <2> HIDE DEF v
  <2> QED  BY <2>1, Zenon
<1> HIDE DEF v, D
<1>7. ASSUME NEW i \in 1 .. N
      PROVE  DecimalAt(v, i, N) = D(IF N - i = 0 THEN 1 ELSE IF N - i = 1 THEN 10 ELSE 100)
  BY <1>5, <1>6
<1>8. CASE N = 1
  <2>1. D(1) = d[1]  BY <1>1, <1>4, <1>8, OneDigit DEF D
  <2>2. \A i \in 1 .. N : DecimalAt(v, i, N) = d[i]
    <3>1. \A i \in 1 .. N : i = 1  BY <1>8
    <3>2. DecimalAt(v, 1, N) = D(1)  BY <1>7, <1>8
    <3> QED  BY <2>1, <3>1, <3>2
  <2>3. v \in Nat /\ v < T /\ v < W  BY <1>1, <1>2, <1>3, <1>4, <1>8
  <2> QED  BY <2>2, <2>3 DEF v, T, W, m
<1>9. CASE N = 2
  <2>0. PICK x \in 0 .. 9, y \in 0 .. 9 : d[1] = x /\ d[2] = y  BY <1>4, <1>9
  <2>1. v = 10 * x + y  BY <1>1, <1>9, <2>0
  <2>9. 10 \in {10, 45} /\ 10 - 1 = 9  OBVIOUS
  <2>2. D(10) = x /\ D(1) = y
    <3>2. (10 * x + y) \div 10 = x /\ (10 * x + y) % 10 = y  OBVIOUS
    <3>3. v \div 10 = x /\ v % 10 = y /\ v \div 1 = v /\ x % 10 = x  BY <2>1, <3>2
    <3>1. (v \div 10) % 10 = x /\ (v \div 1) % 10 = y  BY <3>3
    <3> QED  BY <3>1, Zenon DEF D
  <2>3. \A i \in 1 .. N : DecimalAt(v, i, N) = d[i]
    <3>1. \A i \in 1 .. N : i = 1 \/ i = 2  BY <1>9
    <3>2. DecimalAt(v, 1, N) = D(10) /\ DecimalAt(v, 2, N) = D(1)  BY <1>7, <1>9
    <3> QED  BY <2>0, <2>2, <3>1, <3>2
  <2>4. v \in Nat /\ v < T /\ v < W  BY <1>2, <1>3, <1>9, <2>1
  <2> QED  BY <2>3, <2>4 DEF v, T, W, m
<1>10. CASE N = 3
  <2>0. PICK x \in 0 .. 9, y \in 0 .. 9, z \in 0 .. 9 : d[1] = x /\ d[2] = y /\ d[3] = z
    BY <1>4, <1>10
  <2>1. v = 10 * (10 * x + y) + z  BY <1>1, <1>10, <2>0
  <2>2. D(100) = x /\ D(10) = y /\ D(1) = z /\ v \in 0 .. 999
    <3>1. /\ v \in 0 .. 999
          /\ (v \div 100) % 10 = x /\ (v \div 10) % 10 = y /\ (v \div 1) % 10 = z
      <4>1. v = 100 * x + (10 * y + z) /\ 10 * y + z \in 0 .. 99 /\ v \in 0 .. 999
        BY <2>1
      <4>2. v = 10 * (10 * x + y) + z /\ 10 * x + y \in 0 .. 99  BY <2>1
      <4>3. v \div 100 = x  BY <4>1
      <4>4. v \div 10 = 10 * x + y /\ v % 10 = z  BY <4>2
      <4>5. (10 * x + y) % 10 = y /\ x % 10 = x /\ v \div 1 = v  BY <4>1
      <4> QED  BY <4>1, <4>3, <4>4, <4>5
    <3> QED  BY <3>1, Zenon DEF D
  <2>3. \A i \in 1 .. N : DecimalAt(v, i, N) = d[i]
    <3>1. \A i \in 1 .. N : i = 1 \/ i = 2 \/ i = 3  BY <1>10
    <3>2. DecimalAt(v, 1, N) = D(100) /\ DecimalAt(v, 2, N) = D(10)
          /\ DecimalAt(v, 3, N) = D(1)
      BY <1>7, <1>10
    <3> QED  BY <2>0, <2>2, <3>1, <3>2
  <2>4. v \in Nat /\ v < T /\ v < W  BY <1>2, <1>3, <1>10, <2>2
  <2> QED  BY <2>3, <2>4 DEF v, T, W, m
<1> QED  BY <1>8, <1>9, <1>10

LEMMA Base45Digits ==
  ASSUME NEW d \in Seq(Int), NEW N \in 1 .. 2, Len(d) = N, \A i \in 1 .. N : d[i] \in 0 .. 44
  PROVE  LET v == Folded(d, 45)
         IN  /\ v \in Nat /\ v < 45^N /\ v < 2^(5 * N + 1)
             /\ \A i \in 1 .. N : At45(v, i, N) = d[i]
<1> DEFINE v == Folded(d, 45)
           T == 45^N
           m == 5 * N + 1
           W == 2^m
           D(a) == (v \div a) % 45
<1>1. /\ N = 1 => v = d[1]
      /\ N = 2 => v = 45 * d[1] + d[2]
  <2>1. 45 \in Int  OBVIOUS
  <2> QED  BY <2>1, FoldedFew
<1>2. /\ N = 1 => T = 45
      /\ N = 2 => T = 2025
  BY PowersOf45
<1>3. /\ N = 1 => W = 64
      /\ N = 2 => W = 2048
  <2>1. /\ N = 1 => m = 6
        /\ N = 2 => m = 11
    OBVIOUS
  <2> HIDE DEF m
  <2>2. /\ m = 6 => W = 2^6
        /\ m = 11 => W = 2^11
    BY Zenon
  <2> HIDE DEF W
  <2> QED  BY <2>1, <2>2
<1>4. /\ d[1] \in 0 .. 44
      /\ N >= 2 => d[2] \in 0 .. 44
  <2>1. 1 \in 1 .. N /\ (N >= 2 => 2 \in 1 .. N)  OBVIOUS
  <2> QED  BY <2>1
<1> HIDE DEF T, W, m
<1>5. ASSUME NEW i \in 1 .. N
      PROVE  \E k \in 0 .. 1 : k = N - i /\ At45(v, i, N) = (v \div 45^k) % 45
  <2>1. N - i \in 0 .. 1  OBVIOUS
  <2> QED  BY <2>1 DEF At45
<1>6. ASSUME NEW k \in 0 .. 1
      PROVE  (v \div 45^k) % 45 = D(IF k = 0 THEN 1 ELSE 45)
  <2>1. 45^k = IF k = 0 THEN 1 ELSE 45
    <3> DEFINE a == 45^k
    <3>1. /\ k = 0 => a = 1
          /\ k = 1 => a = 45
      BY PowersOf45
    <3> HIDE DEF a
    <3>2. a = IF k = 0 THEN 1 ELSE 45  BY <3>1
    <3> QED  BY <3>2 DEF a
  <2> HIDE DEF v
  <2> QED  BY <2>1, Zenon
<1> HIDE DEF v, D
<1>7. ASSUME NEW i \in 1 .. N
      PROVE  At45(v, i, N) = D(IF N - i = 0 THEN 1 ELSE 45)
  BY <1>5, <1>6
<1>8. CASE N = 1
  <2>0. PICK x \in 0 .. 44 : d[1] = x  BY <1>4
  <2>9. v = x /\ 45 \in {10, 45} /\ 45 - 1 = 44  BY <1>1, <1>8, <2>0
  <2>1. D(1) = d[1]
    <3>1. (x \div 1) % 45 = x  BY <2>9, OneDigit
    <3> QED  BY <2>0, <2>9, <3>1 DEF D
  <2>2. \A i \in 1 .. N : At45(v, i, N) = d[i]
    <3>1. \A i \in 1 .. N : i = 1  BY <1>8
    <3>2. At45(v, 1, N) = D(1)  BY <1>7, <1>8
    <3> QED  BY <2>1, <3>1, <3>2
  <2>3. v \in Nat /\ v < T /\ v < W  BY <1>2, <1>3, <1>8, <2>9
  <2> QED  BY <2>2, <2>3 DEF v, T, W, m
<1>9. CASE N = 2
  <2>0. PICK x \in 0 .. 44, y \in 0 .. 44 : d[1] = x /\ d[2] = y  BY <1>4, <1>9
  <2>1. v = 45 * x + y  BY <1>1, <1>9, <2>0
  <2>9. 45 \in {10, 45} /\ 45 - 1 = 44  OBVIOUS
  <2>2. D(45) = x /\ D(1) = y
    <3>2. (45 * x + y) \div 45 = x /\ (45 * x + y) % 45 = y  OBVIOUS
    <3>3. v \div 45 = x /\ v % 45 = y /\ v \div 1 = v /\ x % 45 = x  BY <2>1, <3>2
    <3>1. (v \div 45) % 45 = x /\ (v \div 1) % 45 = y  BY <3>3
    <3> QED  BY <3>1, Zenon DEF D
  <2>3. \A i \in 1 .. N : At45(v, i, N) = d[i]
    <3>1. \A i \in 1 .. N : i = 1 \/ i = 2  BY <1>9
    <3>2. At45(v, 1, N) = D(45) /\ At45(v, 2, N) = D(1)  BY <1>7, <1>9
    <3> QED  BY <2>0, <2>2, <3>1, <3>2
  <2>4. v \in Nat /\ v < T /\ v < W  BY <1>2, <1>3, <1>9, <2>1
  <2> QED  BY <2>3, <2>4 DEF v, T, W, m
<1> QED  BY <1>8, <1>9
-----------------------------------------------------------------------------
(* The alphanumeric characters and their codes.                            *)
LEMMA AlphanumericTable ==
  /\ \A i \in 1 .. 10 : Alphanumeric[i] = 47 + i
  /\ \A i \in 11 .. 36 : Alphanumeric[i] = 54 + i
  /\ Alphanumeric[37] = 32 /\ Alphanumeric[38] = 36 /\ Alphanumeric[39] = 37
  /\ Alphanumeric[40] = 42 /\ Alphanumeric[41] = 43 /\ Alphanumeric[42] = 45
  /\ Alphanumeric[43] = 46 /\ Alphanumeric[44] = 47 /\ Alphanumeric[45] = 58
<1> DEFINE x == [i \in 1 .. 10 |-> 47 + i]
           y == [i \in 1 .. 26 |-> 64 + i]
           z == <<32, 36, 37, 42, 43, 45, 46, 47, 58>>
<1>1. x \in Seq(Int) /\ Len(x) = 10
  <2>1. x \in [1 .. 10 -> Int] /\ 10 \in Nat  OBVIOUS
  <2>2. x \in Seq(Int)  BY <2>1, SeqDef
  <2> QED  BY <2>1, <2>2, LenProperties
<1>2. y \in Seq(Int) /\ Len(y) = 26
  <2>1. y \in [1 .. 26 -> Int] /\ 26 \in Nat  OBVIOUS
  <2>2. y \in Seq(Int)  BY <2>1, SeqDef
  <2> QED  BY <2>1, <2>2, LenProperties
<1>3. z \in Seq(Int) /\ Len(z) = 9
      /\ z[1] = 32 /\ z[2] = 36 /\ z[3] = 37 /\ z[4] = 42 /\ z[5] = 43
      /\ z[6] = 45 /\ z[7] = 46 /\ z[8] = 47 /\ z[9] = 58
  OBVIOUS
<1>4. (\A i \in 1 .. 10 : x[i] = 47 + i) /\ (\A i \in 1 .. 26 : y[i] = 64 + i)
  OBVIOUS
<1>5. Alphanumeric = (x \o y) \o z  BY DEF Alphanumeric
<1> HIDE DEF x, y, z
<1> DEFINE w == x \o y
           u == w \o z
<1>6. Joined(w, Int, x, 10, y, 26)
  <2>1. 10 \in Nat /\ 26 \in Nat  OBVIOUS
  <2> QED  BY <1>1, <1>2, <2>1, Behind
<1> HIDE DEF w
<1>7. w \in Seq(Int) /\ Len(w) = 36  BY <1>6 DEF Joined
<1>8. Joined(u, Int, w, 36, z, 9)
  <2>1. 36 \in Nat /\ 9 \in Nat  OBVIOUS
  <2> QED  BY <1>3, <1>7, <2>1, Behind
<1>9. Alphanumeric = u  BY <1>5 DEF w
<1> HIDE DEF u
<1>10. \A i \in 1 .. 10 : u[i] = 47 + i
  <2> TAKE i \in 1 .. 10
  <2>1. i \in 1 .. 36  OBVIOUS
  <2>2. u[i] = w[i]  BY <1>8, <2>1 DEF Joined
  <2>3. w[i] = x[i]  BY <1>6 DEF Joined
  <2> QED  BY <1>4, <2>2, <2>3
<1>11. \A i \in 11 .. 36 : u[i] = 54 + i
  <2> TAKE i \in 11 .. 36
  <2> DEFINE k == i - 10
  <2>1. i \in 1 .. 36 /\ k \in 1 .. 26 /\ 10 + k = i /\ 64 + k = 54 + i  OBVIOUS
  <2> HIDE DEF k
  <2>2. u[i] = w[i]  BY <1>8, <2>1 DEF Joined
  <2>3. w[10 + k] = y[k]  BY <1>6, <2>1 DEF Joined
  <2>4. y[k] = 64 + k  BY <1>4, <2>1
  <2> QED  BY <2>1, <2>2, <2>3, <2>4
<1>12. \A k \in 1 .. 9 : u[36 + k] = z[k]  BY <1>8 DEF Joined
<1>13. /\ u[36 + 1] = z[1] /\ u[36 + 2] = z[2] /\ u[36 + 3] = z[3] /\ u[36 + 4] = z[4]
       /\ u[36 + 5] = z[5] /\ u[36 + 6] = z[6] /\ u[36 + 7] = z[7] /\ u[36 + 8] = z[8]
       /\ u[36 + 9] = z[9]
  BY <1>12
<1>14. Alphanumeric[37] = 32 /\ Alphanumeric[38] = 36 /\ Alphanumeric[39] = 37
       /\ Alphanumeric[40] = 42 /\ Alphanumeric[41] = 43 /\ Alphanumeric[42] = 45
       /\ Alphanumeric[43] = 46 /\ Alphanumeric[44] = 47 /\ Alphanumeric[45] = 58
  BY <1>3, <1>9, <1>13
<1> QED  BY <1>9, <1>10, <1>11, <1>14

LEMMA CodesOfAlphanumeric ==
  ASSUME NEW b \in AlphanumericBytes
  PROVE  /\ GetAlphanumericCode(b) \in 0 .. 44
         /\ Alphanumeric[GetAlphanumericCode(b) + 1] = b
         /\ b \in 32 .. 90
<1>1. PICK i \in 1 .. 45 : Alphanumeric[i] = b  BY DEF AlphanumericBytes
<1>2. i \in 1 .. 10 \/ i \in 11 .. 36 \/ i \in 37 .. 45  OBVIOUS
<1>3. CASE b \in DigitBytes
  <2>1. GetAlphanumericCode(b) = b - 48 /\ b \in 48 .. 57
    BY <1>3 DEF GetAlphanumericCode, DigitBytes
  <2>2. b - 47 \in 1 .. 10 /\ 47 + (b - 47) = b  BY <2>1
  <2>3. Alphanumeric[b - 47] = b  BY <2>2, AlphanumericTable
  <2>4. (b - 48) + 1 = b - 47 /\ b - 48 \in 0 .. 44  BY <2>1
  <2> QED  BY <2>1, <2>3, <2>4
<1>4. CASE b \in 65 .. 90
  <2>1. GetAlphanumericCode(b) = b - 55
    BY <1>4 DEF GetAlphanumericCode, DigitBytes
  <2>2. b - 54 \in 11 .. 36 /\ 54 + (b - 54) = b  BY <1>4
  <2>3. Alphanumeric[b - 54] = b  BY <2>2, AlphanumericTable
  <2>4. (b - 55) + 1 = b - 54 /\ b - 55 \in 0 .. 44  BY <1>4
  <2> QED  BY <1>4, <2>1, <2>3, <2>4
<1>5. CASE b \notin DigitBytes /\ b \notin 65 .. 90
  <2>1. i \in 37 .. 45
    <3>1. i \in 1 .. 10 => b = 47 + i  BY <1>1, AlphanumericTable
    <3>2. i \in 11 .. 36 => b = 54 + i  BY <1>1, AlphanumericTable
    <3>3. i \in 1 .. 10 => b \in 48 .. 57  BY <3>1
    <3>4. i \in 11 .. 36 => b \in 65 .. 90  BY <3>2
    <3> QED  BY <1>2, <1>5, <3>3, <3>4 DEF DigitBytes
  <2> DEFINE c == CHOOSE k \in 37 .. 45 : Alphanumeric[k] = b
  <2>2. c \in 37 .. 45 /\ Alphanumeric[c] = b  BY <1>1, <2>1
  <2>3. GetAlphanumericCode(b) = c - 1  BY <1>5 DEF GetAlphanumericCode
  <2> HIDE DEF c
  <2>4. c - 1 \in 0 .. 44 /\ (c - 1) + 1 = c  BY <2>2
  <2>5. b \in 32 .. 90
    <3>1. i = 37 \/ i = 38 \/ i = 39 \/ i = 40 \/ i = 41 \/ i = 42 \/ i = 43 \/ i = 44 \/ i = 45
      BY <2>1
    <3> QED  BY <1>1, <3>1, AlphanumericTable
  <2> QED  BY <2>2, <2>3, <2>4, <2>5
<1> QED  BY <1>3, <1>4, <1>5
-----------------------------------------------------------------------------
(* The bytes of a Kanji as a number.                                       *)
PlaceOf(b, h, r) ==
  \/ h \in 0 .. 30 /\ b = h + 129
  \/ h \in 31 .. 41 /\ b = h + 193
  \/ h = 42 /\ b = 235 /\ r <= 127

KanjiNumbers == 0 .. 8191
KanjiPair(v) == FromTwoBytes(v, 192, 7936, 33088, 49472)
KanjiBack(v, b, c) == v \in KanjiNumbers /\ KanjiPair(v) = <<b, c>>

LEMMA KanjiRead ==
  ASSUME NEW h \in 0 .. 42, NEW r \in 0 .. 188, NEW b \in 129 .. 235, PlaceOf(b, h, r),
         NEW v, v = 192 * h + r
  PROVE  KanjiBack(v, b, r + 64)
<1>1. v \in KanjiNumbers
  <2>1. h <= 41 \/ (h = 42 /\ r <= 127)  BY DEF PlaceOf
  <2>2. h <= 41 => v <= 192 * 41 + 188  OBVIOUS
  <2>3. h = 42 /\ r <= 127 => v <= 192 * 42 + 127  OBVIOUS
  <2>4. v \in Nat  OBVIOUS
  <2> QED  BY <2>1, <2>2, <2>3, <2>4 DEF KanjiNumbers
<1>2. v \div 192 = h /\ v % 192 = r  OBVIOUS
<1> DEFINE a == (v \div 192) * 256 + (v % 192)
           code == a + (IF a < 7936 THEN 33088 ELSE 49472)
<1>3. a = 256 * h + r  BY <1>2
<1> HIDE DEF a
<1>4. code = 256 * b + (r + 64)
  <2>1. h \in 0 .. 30 => a < 7936 /\ code = 256 * (h + 129) + (r + 64)  BY <1>3
  <2>2. h \in 31 .. 42 => ~(a < 7936) /\ code = 256 * (h + 193) + (r + 64)  BY <1>3
  <2>3. h \in 0 .. 30 \/ h \in 31 .. 42  OBVIOUS
  <2>4. /\ h \in 0 .. 30 => b = h + 129
        /\ h \in 31 .. 42 => b = h + 193
    BY DEF PlaceOf
  <2> HIDE DEF code
  <2> QED  BY <2>1, <2>2, <2>3, <2>4
<1> HIDE DEF code
<1>5. code \div 256 = b /\ code % 256 = r + 64 /\ b % 256 = b  BY <1>4
<1>6. KanjiPair(v) = <<(code \div 256) % 256, code % 256>>
  BY DEF KanjiPair, FromTwoBytes, code, a
<1>7. KanjiPair(v) = <<b, r + 64>>  BY <1>5, <1>6
<1> QED  BY <1>1, <1>7, Zenon DEF KanjiBack

LEMMA PlaceOfKanji ==
  ASSUME NEW b \in (129 .. 159) \cup (224 .. 235), NEW c \in 64 .. 252, HasKanjiCode(b, c)
  PROVE  LET h == b - (IF b < 224 THEN 129 ELSE 193)
         IN  PlaceOf(b, h, c - 64) /\ h \in 0 .. 42
<1>1. CASE b = 235
  <2>1. 256 * 235 + c <= 60351  BY <1>1 DEF HasKanjiCode
  <2> QED  BY <1>1, <2>1 DEF PlaceOf
<1>2. CASE b # 235
  BY <1>2 DEF PlaceOf
<1> QED  BY <1>1, <1>2

-----------------------------------------------------------------------------
(* A group of bytes that Encode packs, and that it comes back.             *)
Packable(mode, g) ==
  /\ g \in Seq(0 .. 255) /\ Len(g) \in 1 .. GroupSize[mode]
  /\ mode = "NUMERIC" => \A i \in 1 .. Len(g) : g[i] \in DigitBytes
  /\ mode = "ALPHANUMERIC" => \A i \in 1 .. Len(g) : g[i] \in AlphanumericBytes
  /\ mode = "KANJI" =>
       /\ Len(g) = 2
       /\ g[1] \in (129 .. 159) \cup (224 .. 235) /\ g[2] \in 64 .. 252
       /\ HasKanjiCode(g[1], g[2])

Restored(mode, g) ==
  LET v == Packed(mode, g)
  IN  /\ v \in Nat /\ v < 2^GroupBits(mode, Len(g))
      /\ IsValid(mode, v, Len(g)) /\ Unpacked(mode, v, Len(g)) = g

LEMMA DigitsRestored ==
  ASSUME NEW g, Packable("NUMERIC", g)
  PROVE  Restored("NUMERIC", g)
<1> DEFINE mode == "NUMERIC"
           N == Len(g)
           d == [i \in DOMAIN g |-> g[i] - 48]
           v == Packed(mode, g)
<1>1. g \in Seq(0 .. 255) /\ N \in 1 .. 3 /\ \A i \in 1 .. N : g[i] \in 48 .. 57
  BY DEF Packable, GroupSize, DigitBytes
<1>2. d \in [1 .. N -> 0 .. 9] /\ \A i \in 1 .. N : d[i] = g[i] - 48
  <2>1. DOMAIN g = 1 .. N  BY <1>1
  <2>2. \A i \in 1 .. N : g[i] - 48 \in 0 .. 9  BY <1>1
  <2> QED  BY <2>1, <2>2
<1> HIDE DEF d
<1>3. d \in Seq(Int) /\ Len(d) = N
  <2>0. N \in Nat  BY <1>1
  <2>1. d \in [1 .. N -> Int] /\ N \in Nat
    <3> HIDE DEF N
    <3>1. d = [i \in 1 .. N |-> d[i]]  BY <1>2
    <3>2. \A i \in 1 .. N : d[i] \in Int  BY <1>2
    <3> QED  BY <2>0, <3>1, <3>2
  <2>2. d \in Seq(Int)  BY <2>1, SeqDef
  <2> QED  BY <2>1, <2>2, LenProperties
<1>4. v = Folded(d, 10)  BY DEF Packed, d
<1>5. /\ v \in Nat /\ v < 10^N /\ v < 2^(3 * N + 1)
      /\ \A i \in 1 .. N : DecimalAt(v, i, N) = d[i]
  <2>1. \A i \in 1 .. N : d[i] \in 0 .. 9  BY <1>2
  <2> HIDE DEF N
  <2> QED  BY <1>1, <1>3, <1>4, <2>1, DecimalDigits
<1> HIDE DEF v
<1>6. GroupBits(mode, N) = 3 * N + 1
  <2>1. N > 0 /\ N # 0  BY <1>1
  <2> HIDE DEF N
  <2> QED  BY <2>1 DEF GroupBits
<1>7. IsValid(mode, v, N)  BY <1>5 DEF IsValid
<1>8. Unpacked(mode, v, N) = [i \in 1 .. N |-> 48 + DecimalAt(v, i, N)]
  BY DEF Unpacked, DecimalAt
<1>9. \A i \in 1 .. N : 48 + DecimalAt(v, i, N) = g[i]
  <2> TAKE i \in 1 .. N
  <2>1. DecimalAt(v, i, N) = g[i] - 48 /\ g[i] \in 48 .. 57  BY <1>1, <1>2, <1>5
  <2> HIDE DEF N
  <2> QED  BY <2>1
<1>10. Unpacked(mode, v, N) = g
  <2>1. g = [i \in 1 .. N |-> g[i]]  BY <1>1
  <2> HIDE DEF N
  <2> QED  BY <1>8, <1>9, <2>1
<1>11. v < 2^GroupBits(mode, N)
  <2> HIDE DEF N
  <2> QED  BY <1>5, <1>6, Zenon
<1> QED  BY <1>5, <1>7, <1>10, <1>11 DEF Restored, v

LEMMA AlphanumericRestored ==
  ASSUME NEW g, Packable("ALPHANUMERIC", g)
  PROVE  Restored("ALPHANUMERIC", g)
<1> DEFINE mode == "ALPHANUMERIC"
           N == Len(g)
           d == [i \in DOMAIN g |-> GetAlphanumericCode(g[i])]
           v == Packed(mode, g)
<1>1. g \in Seq(0 .. 255) /\ N \in 1 .. 2 /\ \A i \in 1 .. N : g[i] \in AlphanumericBytes
  BY DEF Packable, GroupSize
<1>2. /\ d \in [1 .. N -> 0 .. 44]
      /\ \A i \in 1 .. N : d[i] = GetAlphanumericCode(g[i])
      /\ \A i \in 1 .. N : d[i] \in Int
  <2>3. \A x \in 0 .. 44 : x \in Int  OBVIOUS
  <2>1. DOMAIN g = 1 .. N  BY <1>1
  <2>2. \A i \in 1 .. N : GetAlphanumericCode(g[i]) \in 0 .. 44  BY <1>1, CodesOfAlphanumeric
  <2>4. \A i \in 1 .. N : d[i] = GetAlphanumericCode(g[i])  BY <2>1
  <2>5. d = [i \in 1 .. N |-> d[i]]  BY <2>1
  <2> HIDE DEF d, N
  <2>6. \A i \in 1 .. N : d[i] \in 0 .. 44  BY <2>2, <2>4
  <2> QED  BY <2>3, <2>4, <2>5, <2>6
<1> HIDE DEF d
<1>3. d \in Seq(Int) /\ Len(d) = N
  <2>0. N \in Nat  BY <1>1
  <2>1. d \in [1 .. N -> Int] /\ N \in Nat
    <3> HIDE DEF N
    <3>1. d = [i \in 1 .. N |-> d[i]]  BY <1>2
    <3>2. \A i \in 1 .. N : d[i] \in Int  BY <1>2
    <3> QED  BY <2>0, <3>1, <3>2
  <2>2. d \in Seq(Int)  BY <2>1, SeqDef
  <2> QED  BY <2>1, <2>2, LenProperties
<1>4. v = Folded(d, 45)  BY DEF Packed, d
<1>5. /\ v \in Nat /\ v < 45^N /\ v < 2^(5 * N + 1)
      /\ \A i \in 1 .. N : At45(v, i, N) = d[i]
  <2>1. \A i \in 1 .. N : d[i] \in 0 .. 44  BY <1>2
  <2> HIDE DEF N
  <2> DEFINE w == Folded(d, 45)
  <2>2. N \in 1 .. 2  BY <1>1
  <2>3. w \in Nat /\ w < 45^N /\ w < 2^(5 * N + 1) /\ \A i \in 1 .. N : At45(w, i, N) = d[i]
    BY <1>3, <2>1, <2>2, Base45Digits, Zenon
  <2> QED  BY <1>4, <2>3, Zenon
<1> HIDE DEF v
<1>6. GroupBits(mode, N) = 5 * N + 1
  <2>1. N > 0 /\ N # 0  BY <1>1
  <2> HIDE DEF N
  <2> QED  BY <2>1 DEF GroupBits
<1>7. IsValid(mode, v, N)  BY <1>5 DEF IsValid
<1>8. Unpacked(mode, v, N) = [i \in 1 .. N |-> Alphanumeric[At45(v, i, N) + 1]]
  BY DEF Unpacked, At45
<1>9. \A i \in 1 .. N : Alphanumeric[At45(v, i, N) + 1] = g[i]
  <2> TAKE i \in 1 .. N
  <2>1. At45(v, i, N) = GetAlphanumericCode(g[i])  BY <1>2, <1>5
  <2>2. Alphanumeric[GetAlphanumericCode(g[i]) + 1] = g[i]  BY <1>1, CodesOfAlphanumeric
  <2> HIDE DEF N
  <2> QED  BY <2>1, <2>2
<1>10. Unpacked(mode, v, N) = g
  <2>1. g = [i \in 1 .. N |-> g[i]]  BY <1>1
  <2> HIDE DEF N
  <2> QED  BY <1>8, <1>9, <2>1
<1>11. v < 2^GroupBits(mode, N)
  <2> HIDE DEF N
  <2> QED  BY <1>5, <1>6, Zenon
<1> QED  BY <1>5, <1>7, <1>10, <1>11 DEF Restored, v

LEMMA GroupRestored ==
  ASSUME NEW mode \in TextModes, NEW g, Packable(mode, g)
  PROVE  Restored(mode, g)
<1>1. CASE mode = "NUMERIC"  BY <1>1, DigitsRestored
<1>2. CASE mode = "ALPHANUMERIC"  BY <1>2, AlphanumericRestored
<1>3. CASE mode = "BYTE"
  <2>0. g \in Seq(0 .. 255) /\ Len(g) \in 1 .. GroupSize["BYTE"]  BY <1>3 DEF Packable
  <2>9. GroupSize["BYTE"] = 1  BY DEF GroupSize
  <2>8. Len(g) = 1  BY <2>0, <2>9
  <2>1. g \in Seq(0 .. 255) /\ Len(g) = 1 /\ g[1] \in 0 .. 255
    <3>1. 1 \in 1 .. Len(g)  BY <2>8
    <3>2. \A i \in 1 .. Len(g) : g[i] \in 0 .. 255  BY <2>0, ElementOfSeq
    <3> QED  BY <2>0, <2>8, <3>1, <3>2
  <2>2. Packed(mode, g) = g[1] /\ Unpacked(mode, g[1], 1) = <<g[1]>>
    BY <1>3 DEF Packed, Unpacked
  <2>3. GroupBits(mode, 1) = 8 /\ IsValid(mode, g[1], 1)  BY <1>3 DEF GroupBits, IsValid
  <2>4. g[1] < 2^8 /\ g[1] \in Nat
    <3> DEFINE x == g[1]
    <3>1. x \in 0 .. 255  BY <2>1
    <3> HIDE DEF x
    <3>2. x < 2^8 /\ x \in Nat  BY <3>1
    <3> QED  BY <3>2 DEF x
  <2>5. g[1] < 2^GroupBits(mode, Len(g))  BY <2>1, <2>3, <2>4, Zenon
  <2>6. <<g[1]>> = g  BY <2>1
  <2> DEFINE x == g[1]
             N == Len(g)
  <2>7. Unpacked(mode, x, N) = g /\ IsValid(mode, x, N)  BY <2>1, <2>2, <2>3, <2>6
  <2>10. x \in Nat /\ x < 2^GroupBits(mode, N) /\ Packed(mode, g) = x  BY <2>2, <2>4, <2>5
  <2> HIDE DEF x
  <2> QED  BY <2>7, <2>10 DEF Restored
<1>4. CASE mode = "KANJI"
  <2> DEFINE b == g[1]
             c == g[2]
             h == b - (IF b < 224 THEN 129 ELSE 193)
             v == h * 192 + c - 64
  <2>1. /\ g \in Seq(0 .. 255) /\ Len(g) = 2
        /\ b \in (129 .. 159) \cup (224 .. 235) /\ c \in 64 .. 252 /\ HasKanjiCode(b, c)
    BY <1>4 DEF Packable
  <2>2. g = <<b, c>>  BY <2>1
  <2>3. Packed(mode, g) = v  BY <1>4 DEF Packed
  <2> HIDE DEF b, c
  <2>9. PlaceOf(b, h, c - 64) /\ h \in 0 .. 42  BY <2>1, PlaceOfKanji
  <2> HIDE DEF h
  <2>4. v \in 0 .. 8191 /\ FromTwoBytes(v, 192, 7936, 33088, 49472) = <<b, c>>
    <3> DEFINE r == c - 64
    <3>1. /\ r \in 0 .. 188 /\ c = r + 64 /\ b \in 129 .. 235 /\ v = 192 * h + r
          /\ PlaceOf(b, h, r)
      BY <2>1, <2>9
    <3> HIDE DEF r, v
    <3>2. KanjiBack(v, b, r + 64)  BY <2>9, <3>1, KanjiRead, Zenon
    <3> HIDE DEF KanjiBack
    <3>3. c = r + 64  BY <3>1
    <3>4. KanjiBack(v, b, c)  BY <3>2, <3>3
    <3>5. v \in KanjiNumbers /\ KanjiPair(v) = <<b, c>>  BY <3>4, Zenon DEF KanjiBack
    <3> QED  BY <3>5 DEF KanjiNumbers, KanjiPair
  <2> HIDE DEF v
  <2>5. Unpacked(mode, v, 2) = <<b, c>>  BY <1>4, <2>4 DEF Unpacked
  <2>6. GroupBits(mode, 2) = 13 /\ IsValid(mode, v, 2)  BY <1>4 DEF GroupBits, IsValid
  <2>7. v < 2^13 /\ v \in Nat  BY <2>4
  <2>8. v < 2^GroupBits(mode, Len(g))  BY <2>1, <2>6, <2>7, Zenon
  <2> QED  BY <2>1, <2>2, <2>3, <2>5, <2>6, <2>7, <2>8 DEF Restored
<1> QED  BY <1>1, <1>2, <1>3, <1>4 DEF TextModes
-----------------------------------------------------------------------------
(* A length in groups of s, of which the last may be smaller: in full ones *)
(* and the r that are left.                                                *)
InGroups(s, L, q, r) ==
  LET G == (L + s - 1) \div s
  IN  /\ G = IF r = 0 THEN q ELSE q + 1
      /\ \A n \in 1 .. G :
           \/ n <= q /\ n * s <= L
           \/ n = q + 1 /\ r # 0 /\ ~(n * s <= L) /\ (n - 1) * s + r = L
      /\ \A n \in 1 .. G :
           (n - 1) * s + (IF n * s <= L THEN s ELSE r) = IF n * s < L THEN n * s ELSE L
      /\ \A i \in 1 .. L :
           LET n == ((i - 1) \div s) + 1
           IN  /\ n \in 1 .. G /\ ((i - 1) % s) + 1 \in 1 .. (IF n * s <= L THEN s ELSE r)
               /\ (n - 1) * s + (((i - 1) % s) + 1) = i

LEMMA Grouping ==
  ASSUME NEW s \in 1 .. 3, NEW L \in Nat
  PROVE  InGroups(s, L, L \div s, L % s) /\ L \div s \in Nat /\ L % s \in 0 .. s - 1
<1> DEFINE q == L \div s
           r == L % s
<1>1. CASE s = 1
  <2>1. q \in Nat /\ r = 0 /\ L = q  BY <1>1
  <2> HIDE DEF q, r
  <2>2. InGroups(1, L, q, r)  BY <2>1 DEF InGroups
  <2> QED  BY <1>1, <2>1, <2>2 DEF q, r
<1>2. CASE s = 2
  <2>1. q \in Nat /\ r \in 0 .. 1 /\ L = 2 * q + r  BY <1>2
  <2> HIDE DEF q, r
  <2>2. InGroups(2, L, q, r)  BY <2>1 DEF InGroups
  <2> QED  BY <1>2, <2>1, <2>2 DEF q, r
<1>3. CASE s = 3
  <2>1. q \in Nat /\ r \in 0 .. 2 /\ L = 3 * q + r  BY <1>3
  <2> HIDE DEF q, r
  <2>2. InGroups(3, L, q, r)  BY <2>1 DEF InGroups
  <2> QED  BY <1>3, <2>1, <2>2 DEF q, r
<1> QED  BY <1>1, <1>2, <1>3

(* So many groups of w bits and one of b.                                  *)
InBits(w, q, b) ==
  \A k \in 1 .. q * w + b :
    LET n == ((k - 1) \div w) + 1
        j == ((k - 1) % w) + 1
    IN  (n \in 1 .. q /\ j \in 1 .. w) \/ (n = q + 1 /\ j \in 1 .. b /\ b # 0)

LEMMA InBitsIs ==
  ASSUME NEW w \in {8, 10, 11, 13}, NEW q \in Nat, NEW b \in 0 .. w
  PROVE  InBits(w, q, b)
<1>1. CASE w = 8  BY <1>1 DEF InBits
<1>2. CASE w = 10  BY <1>2 DEF InBits
<1>3. CASE w = 11  BY <1>3 DEF InBits
<1>4. CASE w = 13  BY <1>4 DEF InBits
<1> QED  BY <1>1, <1>2, <1>3, <1>4

(* The groups of the modes, with their widths.                             *)
LEMMA GroupWidths ==
  ASSUME NEW mode \in TextModes
  PROVE  /\ GroupSize[mode] \in 1 .. 3
         /\ GroupBits(mode, GroupSize[mode]) \in {8, 10, 11, 13}
         /\ GroupBits(mode, 0) = 0
         /\ \A z \in 1 .. GroupSize[mode] :
              GroupBits(mode, z) \in 1 .. GroupBits(mode, GroupSize[mode])
<1>1. GroupBits(mode, 0) = 0  BY DEF GroupBits
<1>2. CASE mode = "NUMERIC"
  <2>1. GroupSize[mode] = 3 /\ \A z \in 1 .. 3 : GroupBits(mode, z) = 3 * z + 1
    BY <1>2 DEF GroupSize, GroupBits
  <2> QED  BY <1>1, <2>1
<1>3. CASE mode = "ALPHANUMERIC"
  <2>1. GroupSize[mode] = 2 /\ \A z \in 1 .. 2 : GroupBits(mode, z) = 5 * z + 1
    BY <1>3 DEF GroupSize, GroupBits
  <2> QED  BY <1>1, <2>1
<1>4. CASE mode = "BYTE"
  <2>1. GroupSize[mode] = 1 /\ \A z \in 1 .. 1 : GroupBits(mode, z) = 8
    BY <1>4 DEF GroupSize, GroupBits
  <2> QED  BY <1>1, <2>1
<1>5. CASE mode = "KANJI"
  <2>1. GroupSize[mode] = 2 /\ \A z \in 1 .. 2 : GroupBits(mode, z) = 13
    BY <1>5 DEF GroupSize, GroupBits
  <2> QED  BY <1>1, <2>1
<1> QED  BY <1>2, <1>3, <1>4, <1>5 DEF TextModes

(* Where the groups of a text are, in bytes and in bits.                   *)
GroupsLaid(mode, L) ==
  LET s == GroupSize[mode]
      w == GroupBits(mode, s)
      e(n) == GroupBits(mode, SizeOf(mode, L, n))
  IN  /\ NumGroups(mode, L) \in Nat /\ DataBitsLength(mode, L) \in Nat
      /\ \A n \in 1 .. NumGroups(mode, L) :
           /\ SizeOf(mode, L, n) \in 1 .. s
           /\ (n - 1) * s + SizeOf(mode, L, n) = IF n * s < L THEN n * s ELSE L
           /\ e(n) \in 1 .. w /\ (n - 1) * w + e(n) <= DataBitsLength(mode, L)
      /\ \A i \in 1 .. L :
           LET n == ((i - 1) \div s) + 1
           IN  /\ n \in 1 .. NumGroups(mode, L)
               /\ ((i - 1) % s) + 1 \in 1 .. SizeOf(mode, L, n)
               /\ (n - 1) * s + (((i - 1) % s) + 1) = i
      /\ \A k \in 1 .. DataBitsLength(mode, L) :
           LET n == ((k - 1) \div w) + 1
           IN  n \in 1 .. NumGroups(mode, L) /\ ((k - 1) % w) + 1 \in 1 .. e(n)

LEMMA GroupsAreLaid ==
  ASSUME NEW mode \in TextModes, NEW L \in Nat
  PROVE  GroupsLaid(mode, L)
<1> DEFINE s == GroupSize[mode]
           w == GroupBits(mode, s)
           q == L \div s
           r == L % s
           b == GroupBits(mode, r)
           G == NumGroups(mode, L)
           D == DataBitsLength(mode, L)
           z(n) == SizeOf(mode, L, n)
           e(n) == GroupBits(mode, z(n))
<1>1. /\ s \in 1 .. 3 /\ w \in {8, 10, 11, 13} /\ GroupBits(mode, 0) = 0
      /\ \A y \in 1 .. s : GroupBits(mode, y) \in 1 .. w
  BY GroupWidths
<1>2. D = q * w + b /\ G = (L + s - 1) \div s
  BY DEF DataBitsLength, NumGroups
<1>3. \A n : z(n) = IF n * s <= L THEN s ELSE r  BY DEF SizeOf
<1> HIDE DEF s, w, z, G, D
<1>4. InGroups(s, L, q, r) /\ q \in Nat /\ r \in 0 .. s - 1  BY <1>1, Grouping
<1> HIDE DEF q, r
<1>5. b \in 0 .. w /\ (r = 0 => b = 0) /\ (r # 0 => b \in 1 .. w)
  <2>1. r # 0 => r \in 1 .. s  BY <1>1, <1>4
  <2>2. r = 0 => b = 0  BY <1>1
  <2>3. r # 0 => b \in 1 .. w  BY <1>1, <2>1
  <2> HIDE DEF b
  <2> QED  BY <1>1, <2>2, <2>3
<1>6. \A n \in 1 .. G : \/ n <= q /\ z(n) = s
                        \/ n = q + 1 /\ r # 0 /\ z(n) = r
  BY <1>2, <1>3, <1>4 DEF InGroups
<1>7. \A n \in 1 .. G : \/ n <= q /\ e(n) = w
                        \/ n = q + 1 /\ r # 0 /\ e(n) = b
  BY <1>6 DEF w
<1>8. G \in Nat /\ D \in Nat /\ G = IF r = 0 THEN q ELSE q + 1
  <2>1. G = IF r = 0 THEN q ELSE q + 1  BY <1>2, <1>4 DEF InGroups
  <2>2. q * w \in Nat /\ b \in Nat
    <3> HIDE DEF b
    <3> QED  BY <1>1, <1>4, <1>5
  <2> HIDE DEF b
  <2> QED  BY <1>2, <1>4, <2>1, <2>2
<1> HIDE DEF b
<1>9. ASSUME NEW n \in 1 .. G
      PROVE  /\ z(n) \in 1 .. s
             /\ (n - 1) * s + z(n) = IF n * s < L THEN n * s ELSE L
             /\ e(n) \in 1 .. w /\ (n - 1) * w + e(n) <= D
  <2>1. z(n) \in 1 .. s  BY <1>1, <1>4, <1>6
  <2>2. (n - 1) * s + z(n) = IF n * s < L THEN n * s ELSE L
    BY <1>2, <1>3, <1>4 DEF InGroups
  <2>3. e(n) \in 1 .. w  BY <1>1, <1>5, <1>7
  <2>4. (n - 1) * w + e(n) <= D
    <3>1. CASE n <= q /\ e(n) = w
      <4>1. (n - 1) * w + w = n * w /\ n * w <= q * w  BY <1>1, <1>4, <3>1
      <4>2. n * w \in Nat /\ q * w \in Nat  BY <1>1, <1>4
      <4> QED  BY <1>2, <1>5, <3>1, <4>1, <4>2
    <3>2. CASE n = q + 1 /\ e(n) = b
      <4>1. (n - 1) * w = q * w  BY <1>4, <3>2
      <4>2. q * w \in Nat  BY <1>1, <1>4
      <4> QED  BY <1>2, <1>5, <3>2, <4>1, <4>2
    <3> QED  BY <1>7, <3>1, <3>2
  <2> QED  BY <2>1, <2>2, <2>3, <2>4
<1>10. ASSUME NEW i \in 1 .. L
       PROVE  LET n == ((i - 1) \div s) + 1
              IN  /\ n \in 1 .. G /\ ((i - 1) % s) + 1 \in 1 .. z(n)
                  /\ (n - 1) * s + (((i - 1) % s) + 1) = i
  BY <1>2, <1>3, <1>4 DEF InGroups
<1>11. ASSUME NEW k \in 1 .. D
       PROVE  LET n == ((k - 1) \div w) + 1
              IN  n \in 1 .. G /\ ((k - 1) % w) + 1 \in 1 .. e(n)
  <2> DEFINE n == ((k - 1) \div w) + 1
             j == ((k - 1) % w) + 1
  <2>1. InBits(w, q, b)  BY <1>1, <1>4, <1>5, InBitsIs
  <2>2. k \in 1 .. q * w + b  BY <1>2
  <2>3. (n \in 1 .. q /\ j \in 1 .. w) \/ (n = q + 1 /\ j \in 1 .. b /\ b # 0)
    BY <2>1, <2>2 DEF InBits
  <2> HIDE DEF n, j
  <2>4. n \in 1 .. G  BY <1>4, <1>5, <1>8, <2>3
  <2>5. j \in 1 .. e(n)  BY <1>4, <1>7, <2>3, <2>4
  <2> QED  BY <2>4, <2>5 DEF n, j
<1> QED  BY <1>8, <1>9, <1>10, <1>11 DEF GroupsLaid, s, w, z, G, D
-----------------------------------------------------------------------------
(* A text that Encode can write in a mode, and its groups.                 *)
Writable(mode, text) ==
  /\ text \in Seq(0 .. 255)
  /\ mode = "NUMERIC" => \A i \in 1 .. Len(text) : text[i] \in DigitBytes
  /\ mode = "ALPHANUMERIC" => \A i \in 1 .. Len(text) : text[i] \in AlphanumericBytes
  /\ mode = "KANJI" =>
       /\ Len(text) % 2 = 0
       /\ \A i \in 1 .. Len(text) \div 2 :
            /\ text[2 * i - 1] \in (129 .. 159) \cup (224 .. 235) /\ text[2 * i] \in 64 .. 252
            /\ HasKanjiCode(text[2 * i - 1], text[2 * i])

PieceOf(mode, text, n) ==
  SubSeq(text, (n - 1) * GroupSize[mode] + 1,
         IF n * GroupSize[mode] < Len(text) THEN n * GroupSize[mode] ELSE Len(text))

LEMMA PieceIs ==
  ASSUME NEW mode \in TextModes, NEW text \in Seq(0 .. 255),
         NEW n \in 1 .. NumGroups(mode, Len(text))
  PROVE  /\ PieceOf(mode, text, n) \in Seq(0 .. 255)
         /\ Len(PieceOf(mode, text, n)) = SizeOf(mode, Len(text), n)
         /\ \A i \in 1 .. SizeOf(mode, Len(text), n) :
              /\ (n - 1) * GroupSize[mode] + i \in 1 .. Len(text)
              /\ PieceOf(mode, text, n)[i] = text[(n - 1) * GroupSize[mode] + i]
<1> DEFINE s == GroupSize[mode]
           L == Len(text)
           z == SizeOf(mode, L, n)
           a == (n - 1) * s
           last == IF n * s < L THEN n * s ELSE L
           g == PieceOf(mode, text, n)
<1>1. L \in Nat /\ s \in 1 .. 3  BY GroupWidths
<1>2. GroupsLaid(mode, L)  BY <1>1, GroupsAreLaid
<1>3. /\ NumGroups(mode, L) \in Nat /\ z \in 1 .. s /\ a + z = last
  BY <1>2 DEF GroupsLaid
<1>4. g = SubSeq(text, a + 1, last)  BY DEF PieceOf
<1>5. n \in Nat \ {0} /\ a \in Nat
  <2>1. n \in Nat \ {0}  BY <1>3
  <2> QED  BY <1>1, <2>1
<1>6. last \in Nat /\ last <= L
  <2>1. n * s \in Nat  BY <1>1, <1>5
  <2> QED  BY <1>1, <2>1
<1> HIDE DEF s, L, z, a, last, g
<1>7. /\ a + 1 \in 1 .. L + 1 /\ last \in a .. L /\ z = last - a /\ last = a + z
  BY <1>1, <1>3, <1>5, <1>6
<1>8. /\ g \in Seq(0 .. 255) /\ Len(g) = z
      /\ \A i \in 1 .. z : g[i] = text[a + i]
  <2>1. /\ SubSeq(text, a + 1, last) \in Seq(0 .. 255)
        /\ Len(SubSeq(text, a + 1, last)) = z
        /\ \A i \in 1 .. z : SubSeq(text, a + 1, last)[i] = text[a + i]
    <3>1. a + 1 \in Int /\ last \in Int /\ z \in Nat \ {0}  BY <1>1, <1>3, <1>5, <1>6
    <3>2. \A i \in a + 1 .. last : text[i] \in 0 .. 255
      <4>1. \A i \in a + 1 .. last : i \in 1 .. Len(text)  BY <1>1, <1>5, <1>6 DEF L
      <4> QED  BY <4>1, ElementOfSeq
    <3>3. /\ a + 1 <= last /\ last - (a + 1) + 1 = z
          /\ \A i \in 1 .. z : (a + 1) + i - 1 = a + i
      BY <1>1, <1>3, <1>5, <1>6, <1>7
    <3>4. /\ SubSeq(text, a + 1, last) \in Seq(0 .. 255)
          /\ Len(SubSeq(text, a + 1, last))
               = IF a + 1 <= last THEN last - (a + 1) + 1 ELSE 0
          /\ \A i \in 1 .. last - (a + 1) + 1 :
               SubSeq(text, a + 1, last)[i] = text[(a + 1) + i - 1]
      BY <3>1, <3>2, SubSeqProperties
    <3> QED  BY <3>3, <3>4
  <2> QED  BY <1>4, <2>1
<1>9. \A i \in 1 .. z : a + i \in 1 .. L  BY <1>1, <1>3, <1>5, <1>6, <1>7
<1> QED  BY <1>8, <1>9 DEF s, L, z, a, g

LEMMA PiecesPackable ==
  ASSUME NEW mode \in TextModes, NEW text, Writable(mode, text),
         NEW n \in 1 .. NumGroups(mode, Len(text))
  PROVE  Packable(mode, PieceOf(mode, text, n))
<1> DEFINE s == GroupSize[mode]
           L == Len(text)
           z == SizeOf(mode, L, n)
           a == (n - 1) * s
           g == PieceOf(mode, text, n)
<1>1. text \in Seq(0 .. 255) /\ L \in Nat  BY DEF Writable
<1>2. /\ g \in Seq(0 .. 255) /\ Len(g) = z
      /\ \A i \in 1 .. z : a + i \in 1 .. L /\ g[i] = text[a + i]
  BY <1>1, PieceIs
<1>3. GroupsLaid(mode, L)  BY <1>1, GroupsAreLaid
<1>4. NumGroups(mode, L) \in Nat /\ z \in 1 .. s /\ n \in Nat \ {0}
  BY <1>3 DEF GroupsLaid
<1> HIDE DEF z, g
<1>5. mode = "NUMERIC" => \A i \in 1 .. z : g[i] \in DigitBytes
  BY <1>2 DEF Writable
<1>6. mode = "ALPHANUMERIC" => \A i \in 1 .. z : g[i] \in AlphanumericBytes
  BY <1>2 DEF Writable
<1>7. ASSUME mode = "KANJI"
      PROVE  /\ z = 2 /\ g[1] \in (129 .. 159) \cup (224 .. 235) /\ g[2] \in 64 .. 252
             /\ HasKanjiCode(g[1], g[2])
  <2>1. s = 2 /\ L % 2 = 0  BY <1>7 DEF GroupSize, Writable
  <2>2. n \in 1 .. (L + 1) \div 2
    BY <2>1 DEF NumGroups
  <2>3. n * 2 <= L /\ n \in 1 .. L \div 2
    BY <1>1, <2>1, <2>2
  <2>4. z = 2  BY <2>1, <2>3 DEF z, SizeOf
  <2>5. a + 1 = 2 * n - 1 /\ a + 2 = 2 * n  BY <1>4, <2>1
  <2> HIDE DEF a
  <2>6. g[1] = text[a + 1] /\ g[2] = text[a + 2]  BY <1>2, <2>4
  <2>7. g[1] = text[2 * n - 1] /\ g[2] = text[2 * n]  BY <2>5, <2>6
  <2> HIDE DEF L
  <2>8. \A i \in 1 .. L \div 2 :
            /\ text[2 * i - 1] \in (129 .. 159) \cup (224 .. 235) /\ text[2 * i] \in 64 .. 252
            /\ HasKanjiCode(text[2 * i - 1], text[2 * i])
    BY <1>7 DEF Writable, L
  <2> QED  BY <2>3, <2>4, <2>7, <2>8
<1> QED  BY <1>2, <1>4, <1>5, <1>6, <1>7 DEF Packable, g
-----------------------------------------------------------------------------
(* The bits of a text: those of its groups, one behind the other.          *)
PieceBits(mode, text, n) ==
  Bits(Packed(mode, PieceOf(mode, text, n)), GroupBits(mode, SizeOf(mode, Len(text), n)))

LEMMA PieceBitsAre ==
  ASSUME NEW mode \in TextModes, NEW text, Writable(mode, text),
         NEW n \in 1 .. NumGroups(mode, Len(text))
  PROVE  /\ IsBits(PieceBits(mode, text, n))
         /\ Len(PieceBits(mode, text, n)) = GroupBits(mode, SizeOf(mode, Len(text), n))
         /\ GroupBits(mode, SizeOf(mode, Len(text), n)) \in 1 .. 13
<1> DEFINE g == PieceOf(mode, text, n)
           e == GroupBits(mode, SizeOf(mode, Len(text), n))
           w == GroupBits(mode, GroupSize[mode])
           v == Packed(mode, g)
<1>1. text \in Seq(0 .. 255) /\ Len(text) \in Nat  BY DEF Writable
<1>2. GroupsLaid(mode, Len(text))  BY <1>1, GroupsAreLaid
<1>3. e \in 1 .. w  BY <1>2 DEF GroupsLaid
<1>4. w \in {8, 10, 11, 13}  BY GroupWidths
<1> HIDE DEF e, w
<1>5. e \in 1 .. 13 /\ e \in 0 .. 21  BY <1>3, <1>4
<1>6. Packable(mode, g)  BY PiecesPackable
<1> HIDE DEF g
<1>7. v \in Nat  BY <1>6, GroupRestored DEF Restored
<1> HIDE DEF v
<1>8. IsBits(Bits(v, e)) /\ Len(Bits(v, e)) = e  BY <1>5, <1>7, BitsAre
<1>9. PieceBits(mode, text, n) = Bits(v, e)  BY DEF PieceBits, v, e, g
<1> QED  BY <1>5, <1>8, <1>9 DEF e

LEMMA DataBitsAre ==
  ASSUME NEW mode \in TextModes, NEW text, Writable(mode, text)
  PROVE  LET w == GroupBits(mode, GroupSize[mode])
         IN  /\ IsBits(DataBits(mode, text))
             /\ Len(DataBits(mode, text)) = DataBitsLength(mode, Len(text))
             /\ \A n \in 1 .. NumGroups(mode, Len(text)) :
                  \A j \in 1 .. GroupBits(mode, SizeOf(mode, Len(text), n)) :
                    /\ (n - 1) * w + j \in 1 .. DataBitsLength(mode, Len(text))
                    /\ DataBits(mode, text)[(n - 1) * w + j] = PieceBits(mode, text, n)[j]
<1> DEFINE w == GroupBits(mode, GroupSize[mode])
           L == Len(text)
           D == DataBitsLength(mode, L)
           G == NumGroups(mode, L)
           e(n) == GroupBits(mode, SizeOf(mode, L, n))
           P(n) == PieceBits(mode, text, n)
           groups == [n \in 1 .. G |-> P(n)]
           d == DataBits(mode, text)
           B(k) == groups[((k - 1) \div w) + 1][((k - 1) % w) + 1]
<1>1. text \in Seq(0 .. 255) /\ L \in Nat  BY DEF Writable
<1>2. GroupsLaid(mode, L)  BY <1>1, GroupsAreLaid
<1>3. /\ G \in Nat /\ D \in Nat
      /\ \A n \in 1 .. G : e(n) \in 1 .. w /\ (n - 1) * w + e(n) <= D
      /\ \A k \in 1 .. D : LET n == ((k - 1) \div w) + 1
                           IN  n \in 1 .. G /\ ((k - 1) % w) + 1 \in 1 .. e(n)
  BY <1>2 DEF GroupsLaid
<1>4. w \in {8, 10, 11, 13}  BY GroupWidths
<1>5. d = [k \in 1 .. D |-> B(k)]
  <2>1. \A n \in 1 .. G : P(n) = Bits(Packed(mode, PieceOf(mode, text, n)),
                                      GroupBits(mode, Len(PieceOf(mode, text, n))))
    <3> TAKE n \in 1 .. G
    <3>1. Len(PieceOf(mode, text, n)) = SizeOf(mode, L, n)  BY <1>1, PieceIs
    <3> QED  BY <3>1 DEF PieceBits
  <2>2. groups = [n \in 1 .. G |-> Bits(Packed(mode, PieceOf(mode, text, n)),
                                        GroupBits(mode, Len(PieceOf(mode, text, n))))]
    <3> HIDE DEF P
    <3> QED  BY <2>1
  <2> DEFINE made == [n \in 1 .. (L + GroupSize[mode] - 1) \div GroupSize[mode] |->
                        Bits(Packed(mode, PieceOf(mode, text, n)),
                             GroupBits(mode, Len(PieceOf(mode, text, n))))]
  <2>3. d = [k \in 1 .. D |-> made[((k - 1) \div w) + 1][((k - 1) % w) + 1]]
    BY Zenon DEF DataBits, PieceOf
  <2>4. made = groups  BY <2>2, Zenon DEF NumGroups
  <2> HIDE DEF groups, made, d, D, w
  <2> QED  BY <2>3, <2>4
<1> HIDE DEF w, L, D, G, e, P, d
<1>6. \A n \in 1 .. G : IsBits(P(n)) /\ Len(P(n)) = e(n) /\ groups[n] = P(n)
  BY PieceBitsAre DEF P, e, G, L
<1> HIDE DEF groups
<1>7. \A k \in 1 .. D : B(k) \in {0, 1}
  <2> TAKE k \in 1 .. D
  <2> DEFINE n == ((k - 1) \div w) + 1
             j == ((k - 1) % w) + 1
  <2>1. n \in 1 .. G /\ j \in 1 .. e(n)  BY <1>3
  <2> HIDE DEF n, j
  <2>2. P(n) \in Seq({0, 1}) /\ j \in 1 .. Len(P(n))  BY <1>6, <2>1 DEF IsBits
  <2>3. P(n)[j] \in {0, 1}  BY <2>2, ElementOfSeq
  <2>4. groups[n][j] \in {0, 1}  BY <1>6, <2>1, <2>3
  <2> QED  BY <2>4 DEF n, j
<1>8. IsBits(d) /\ Len(d) = D
  <2>1. d \in [1 .. D -> {0, 1}]
    <3> HIDE DEF B
    <3> QED  BY <1>5, <1>7
  <2>2. d \in Seq({0, 1})  BY <1>3, <2>1, SeqDef
  <2> QED  BY <1>3, <2>1, <2>2, LenProperties DEF IsBits
<1>9. ASSUME NEW n \in 1 .. G, NEW j \in 1 .. e(n)
      PROVE  (n - 1) * w + j \in 1 .. D /\ d[(n - 1) * w + j] = P(n)[j]
  <2> DEFINE k == (n - 1) * w + j
             q == n - 1
             r == j - 1
  <2>1. n \in Nat \ {0} /\ e(n) \in 1 .. w /\ q * w + e(n) <= D  BY <1>3
  <2>2. q \in Nat /\ r \in 0 .. w - 1 /\ w \in Nat \ {0} /\ q + 1 = n /\ r + 1 = j
    BY <1>4, <2>1
  <2>3. q * w \in Nat  BY <2>2
  <2>4. k = q * w + j  OBVIOUS
  <2> HIDE DEF q, r, k
  <2>5. k \in 1 .. D /\ k - 1 = q * w + r  BY <1>3, <2>1, <2>2, <2>3, <2>4
  <2>6. (k - 1) \div w = q /\ (k - 1) % w = r  BY <2>2, <2>5, Division
  <2>7. B(k) = groups[n][j]  BY <2>2, <2>6
  <2> HIDE DEF B
  <2>8. d[k] = P(n)[j]  BY <1>5, <1>6, <2>5, <2>7
  <2> QED  BY <2>5, <2>8 DEF k
<1> QED  BY <1>8, <1>9 DEF w, L, D, G, e, P, d
-----------------------------------------------------------------------------
(* A text that is written in the stream is read from there.                *)
LEMMA PieceRead ==
  ASSUME NEW mode \in TextModes, NEW text, Writable(mode, text),
         NEW p, At(p, DataBits(mode, text)), Len(bytes) \in Nat,
         NEW n \in 1 .. NumGroups(mode, Len(text))
  PROVE  LET size == SizeOf(mode, Len(text), n)
             v == Group(mode, p, Len(text), n)
         IN  /\ CanRead(p + (n - 1) * GroupBits(mode, GroupSize[mode]), GroupBits(mode, size))
             /\ IsValid(mode, v, size)
             /\ Unpacked(mode, v, size) = PieceOf(mode, text, n)
<1> DEFINE w == GroupBits(mode, GroupSize[mode])
           L == Len(text)
           D == DataBitsLength(mode, L)
           z == SizeOf(mode, L, n)
           e == GroupBits(mode, z)
           g == PieceOf(mode, text, n)
           v == Packed(mode, g)
           d == DataBits(mode, text)
           b == PieceBits(mode, text, n)
           a == (n - 1) * w
<1>1. /\ IsBits(d) /\ Len(d) = D
      /\ \A j \in 1 .. e : a + j \in 1 .. D /\ d[a + j] = b[j]
  BY DataBitsAre
<1>2. IsBits(b) /\ Len(b) = e /\ e \in 1 .. 13  BY PieceBitsAre
<1>3. text \in Seq(0 .. 255) /\ L \in Nat  BY DEF Writable
<1>4. Len(g) = z  BY <1>3, PieceIs
<1>5. Restored(mode, g)  BY PiecesPackable, GroupRestored
<1>6. v \in Nat /\ v < 2^e /\ IsValid(mode, v, z) /\ Unpacked(mode, v, z) = g
  <2> HIDE DEF g, z
  <2> QED  BY <1>4, <1>5, Zenon DEF Restored
<1>7. b = Bits(v, e)  BY Zenon DEF PieceBits
<1>8. p \in Nat /\ p + D <= 8 * Len(bytes) /\ \A i \in 1 .. D : BitAt(p + i - 1) = d[i]
  BY <1>1 DEF At
<1>9. a \in Nat
  <2>1. w \in {8, 10, 11, 13}  BY GroupWidths
  <2>2. GroupsLaid(mode, L)  BY <1>3, GroupsAreLaid
  <2>3. n \in Nat \ {0}  BY <2>2 DEF GroupsLaid
  <2> HIDE DEF w
  <2> QED  BY <2>1, <2>3
<1>10. Group(mode, p, L, n) = Peek(p + a, e)  BY DEF Group
<1> HIDE DEF w, L, D, z, e, g, v, d, b, a
<1>11. At(p + a, b)
  <2>1. e \in 1 .. e /\ a + e <= D  BY <1>1, <1>2
  <2>2. D \in Nat
    <3>1. Len(d) \in Nat  BY <1>1 DEF IsBits
    <3> QED  BY <1>1, <3>1
  <2>3. p + a \in Nat /\ (p + a) + e <= 8 * Len(bytes)
    BY <1>2, <1>8, <1>9, <2>1, <2>2
  <2>4. ASSUME NEW i \in 1 .. e  PROVE BitAt((p + a) + i - 1) = b[i]
    <3> DEFINE k == a + i
    <3>1. k \in 1 .. D /\ d[k] = b[i]  BY <1>1
    <3>2. p + k - 1 = (p + a) + i - 1  BY <1>2, <1>8, <1>9
    <3> HIDE DEF k
    <3>3. BitAt(p + k - 1) = d[k]  BY <1>8, <3>1
    <3> QED  BY <3>1, <3>2, <3>3
  <2> QED  BY <1>2, <2>3, <2>4 DEF At
<1>12. e \in 1 .. 21  BY <1>2
<1>13. CanRead(p + a, e) /\ Peek(p + a, e) = v
  <2>1. At(p + a, Bits(v, e))  BY <1>7, <1>11
  <2> QED  BY <1>6, <1>12, <2>1, ReadBits
<1>14. Group(mode, p, L, n) = v  BY <1>10, <1>13
<1>15. /\ CanRead(p + a, e)
       /\ IsValid(mode, Group(mode, p, L, n), z)
       /\ Unpacked(mode, Group(mode, p, L, n), z) = g
  BY <1>6, <1>13, <1>14
<1> QED  BY <1>15, Zenon DEF w, L, z, e, g, a

LEMMA DataRead ==
  ASSUME NEW mode \in TextModes, NEW text, Writable(mode, text),
         NEW p, At(p, DataBits(mode, text)), Len(bytes) \in Nat
  PROVE  /\ Unreadable(mode, p, Len(text)) = {}
         /\ TextAt(mode, p, Len(text), Len(text)) = text
<1> DEFINE s == GroupSize[mode]
           L == Len(text)
           G == NumGroups(mode, L)
           z(n) == SizeOf(mode, L, n)
           Of(n) == Unpacked(mode, Group(mode, p, L, n), z(n))
<1>1. text \in Seq(0 .. 255) /\ L \in Nat  BY DEF Writable
<1>2. \A n \in 1 .. G :
        /\ CanRead(p + (n - 1) * GroupBits(mode, s), GroupBits(mode, z(n)))
        /\ IsValid(mode, Group(mode, p, L, n), z(n))
        /\ Of(n) = PieceOf(mode, text, n)
  BY PieceRead
<1>3. Unreadable(mode, p, L) = {}
  <2> HIDE DEF L, G, z
  <2> QED  BY <1>2, Zenon DEF Unreadable, L, G, z
<1>4. GroupsLaid(mode, L)  BY <1>1, GroupsAreLaid
<1>5. ASSUME NEW i \in 1 .. L
      PROVE  Of(((i - 1) \div s) + 1)[((i - 1) % s) + 1] = text[i]
  <2> DEFINE n == ((i - 1) \div s) + 1
             j == ((i - 1) % s) + 1
  <2>1. n \in 1 .. G /\ j \in 1 .. z(n) /\ (n - 1) * s + j = i
    BY <1>4 DEF GroupsLaid
  <2> HIDE DEF n, j, s, L, G, z, Of
  <2>2. Of(n) = PieceOf(mode, text, n)  BY <1>2, <2>1
  <2>3. PieceOf(mode, text, n)[j] = text[(n - 1) * s + j]
    BY <1>1, <2>1, PieceIs DEF s, L, G, z
  <2>4. Of(n)[j] = text[i]  BY <2>1, <2>2, <2>3
  <2> QED  BY <2>4 DEF n, j
<1>6. TextAt(mode, p, L, L) = [i \in 1 .. L |-> Of(((i - 1) \div s) + 1)[((i - 1) % s) + 1]]
  BY Zenon DEF TextAt
<1>7. text = [i \in 1 .. L |-> text[i]]  BY <1>1
<1>8. TextAt(mode, p, L, L) = text
  <2> HIDE DEF Of, L, s
  <2> QED  BY <1>5, <1>6, <1>7
<1> QED  BY <1>3, <1>8
-----------------------------------------------------------------------------
(* The blocks of a symbol that was printed: what the decoder finds there.  *)
(* They hold the first of the bytes; only a Model 1 symbol has others.     *)
DataLength(b) == NumBlocks(b) * b[3] + b[4]
BlocksPrinted(b) ==
  /\ b \in Seq(Nat) /\ Divided(b) /\ b = symbol.levels[input.level]
  /\ HasHalfCodeword => b[1] >= 2
  /\ bytes \in Seq(0 .. 255) /\ DataLength(b) <= Len(bytes)
  /\ BlocksFound(symbol, input.level, codewords)

(* The data bytes of the first j blocks.                                   *)
Before(b, j) == j * b[3] + (IF j < b[2] THEN 0 ELSE j - b[2])

LEMMA BytesBefore ==
  ASSUME NEW b, BlocksPrinted(b)
  PROVE  /\ Before(b, 0) = 0 /\ Before(b, NumBlocks(b)) = DataLength(b)
         /\ NumBlocks(b) \in Nat \ {0} /\ DataLength(b) \in 0 .. Len(bytes)
         /\ \A j \in 0 .. NumBlocks(b) : Before(b, j) \in 0 .. Len(bytes)
         /\ \A j \in 1 .. NumBlocks(b) :
              /\ NumDataCodewords(b, j) \in Nat
              /\ Before(b, j) = Before(b, j - 1) + NumDataCodewords(b, j)
<1> DEFINE n == NumBlocks(b)
           k == b[3]
           n1 == b[2]
           n2 == b[4]
           D == DataLength(b)
<1>1. b \in Seq(Nat) /\ Divided(b) /\ Len(bytes) \in Nat /\ D = n * k + n2 /\ D <= Len(bytes)
  BY DEF BlocksPrinted, DataLength
<1>2. /\ n1 \in Nat /\ k \in Nat /\ n2 \in Nat /\ n = n1 + n2 /\ n \in Nat \ {0} /\ n1 # 0
      /\ \A j \in 1 .. n : NumDataCodewords(b, j) = k + (IF j < n1 + 1 THEN 0 ELSE 1)
  BY <1>1, BlockSizes
<1>3. \A j : Before(b, j) = j * k + (IF j < n1 THEN 0 ELSE j - n1)  BY DEF Before
<1> HIDE DEF n, k, n1, n2, D
<1>4. Before(b, 0) = 0  BY <1>2, <1>3
<1>5. Before(b, n) = D /\ D \in 0 .. Len(bytes)  BY <1>1, <1>2, <1>3
<1>6. ASSUME NEW j \in 0 .. n  PROVE Before(b, j) \in 0 .. Len(bytes)
  <2> DEFINE h == j * k
             g == (n - j) * k
             t == n * k
  <2>1. h \in Nat /\ g \in Nat  BY <1>2
  <2>2. h + g = t  BY <1>2
  <2>3. Before(b, j) = h + (IF j < n1 THEN 0 ELSE j - n1) /\ D = t + n2
    BY <1>1, <1>3
  <2> HIDE DEF h, g, t
  <2> QED  BY <1>1, <1>2, <2>1, <2>2, <2>3
<1>7. ASSUME NEW j \in 1 .. n
      PROVE  /\ NumDataCodewords(b, j) \in Nat
             /\ Before(b, j) = Before(b, j - 1) + NumDataCodewords(b, j)
  <2> DEFINE h == (j - 1) * k
             g == j * k
  <2>1. h + k = g /\ h \in Int /\ g \in Int  BY <1>2
  <2>2. /\ Before(b, j) = g + (IF j < n1 THEN 0 ELSE j - n1)
        /\ Before(b, j - 1) = h + (IF j - 1 < n1 THEN 0 ELSE j - 1 - n1)
    BY <1>3
  <2>3. NumDataCodewords(b, j) = k + (IF j < n1 + 1 THEN 0 ELSE 1)  BY <1>2
  <2> HIDE DEF h, g
  <2> QED  BY <1>2, <2>1, <2>2, <2>3
<1> QED  BY <1>2, <1>4, <1>5, <1>6, <1>7 DEF n, D

(* The data bytes are in the blocks one behind the other.                  *)
LEMMA DataByteIs ==
  ASSUME NEW b, BlocksPrinted(b), NEW j \in 1 .. NumBlocks(b),
         NEW i \in 1 .. NumDataCodewords(b, j)
  PROVE  /\ Before(b, j - 1) + i \in 1 .. Len(bytes)
         /\ DataByte(<<j, i>>) = bytes[Before(b, j - 1) + i]
         /\ DataByte(<<j, i>>) \in 0 .. 255
<1> DEFINE n == NumBlocks(b)
           k == b[3]
           n1 == b[2]
           d == NumDataCodewords(b, j)
           h == (j - 1) * k
<1>1. /\ b \in Seq(Nat) /\ Divided(b) /\ bytes \in Seq(0 .. 255) /\ Blocks = b
  BY DEF BlocksPrinted, Blocks
<1>2. /\ n1 \in Nat /\ k \in Nat /\ n \in Nat \ {0} /\ n1 # 0
      /\ \A m \in 1 .. n : NumDataCodewords(b, m) = k + (IF m < n1 + 1 THEN 0 ELSE 1)
      /\ LongerBlocksStartAt(b) = n1 + 1
  BY <1>1, BlockSizes
<1>3. NumDataCodewords(b, 1) = k
  <2>1. 1 \in 1 .. n /\ 1 < n1 + 1  BY <1>2
  <2> QED  BY <1>2, <2>1
<1>4. /\ d \in Nat /\ Before(b, j - 1) \in 0 .. Len(bytes) /\ Before(b, j) \in 0 .. Len(bytes)
      /\ Before(b, j) = Before(b, j - 1) + d
  <2>1. j - 1 \in 0 .. n /\ j \in 0 .. n /\ j \in 1 .. n  BY <1>2
  <2> QED  BY <2>1, BytesBefore
<1>5. Before(b, j - 1) + i \in 1 .. Len(bytes)
  <2>1. Len(bytes) \in Nat  BY <1>1
  <2> HIDE DEF d
  <2>2. i \in 1 .. d  BY DEF d
  <2> QED  BY <1>4, <2>1, <2>2
<1>6. Before(b, j - 1) = h + (IF j - 1 < n1 THEN 0 ELSE (j - 1) - n1)  BY DEF Before
<1>7. DataByte(<<j, i>>) = bytes[h + i + (IF j < n1 + 1 THEN 0 ELSE j - (n1 + 1))]
  <2>1. ~(i > d)  BY <1>4
  <2>2. DataByte(<<j, i>>)
          = IF i > d THEN 0
            ELSE bytes[(j - 1) * NumDataCodewords(Blocks, 1) + i
                         + (IF j < LongerBlocksStartAt(Blocks) THEN 0
                            ELSE j - LongerBlocksStartAt(Blocks))]
    BY <1>1 DEF DataByte
  <2> HIDE DEF d
  <2> QED  BY <1>1, <1>2, <1>3, <2>1, <2>2
<1>8. h \in Int  BY <1>2
<1> HIDE DEF h, k, n1
<1>9. Before(b, j - 1) + i = h + i + (IF j < n1 + 1 THEN 0 ELSE j - (n1 + 1))
  BY <1>2, <1>6, <1>8
<1>10. bytes[Before(b, j - 1) + i] \in 0 .. 255
  <2> DEFINE place == Before(b, j - 1) + i
  <2>1. bytes \in Seq(0 .. 255) /\ place \in 1 .. Len(bytes)  BY <1>1, <1>5
  <2> HIDE DEF place
  <2>2. bytes[place] \in 0 .. 255  BY <2>1, ElementOfSeq
  <2> QED  BY <2>2 DEF place
<1>11. DataByte(<<j, i>>) = bytes[Before(b, j - 1) + i]
  <2> DEFINE x == h + i + (IF j < n1 + 1 THEN 0 ELSE j - (n1 + 1))
  <2>1. DataByte(<<j, i>>) = bytes[x] /\ Before(b, j - 1) + i = x  BY <1>7, <1>9
  <2> HIDE DEF x
  <2> QED  BY <2>1
<1>12. DataByte(<<j, i>>) \in 0 .. 255  BY <1>10, <1>11
<1> QED  BY <1>5, <1>11, <1>12

(* The wrong codewords are those that are read wrong where they were       *)
(* printed.                                                                *)
LEMMA WrongAre ==
  ASSUME NEW b, BlocksPrinted(b), NEW j \in 1 .. NumBlocks(b)
  PROVE  LET blocks == GetDataBlocks(symbol, input.level)
         IN  /\ DOMAIN blocks = 1 .. NumBlocks(b)
             /\ WrongIn(blocks, j) = {i \in 1 .. b[1] + NumDataCodewords(b, j) :
                                        AsRead(<<j, i>>) # DataByte(<<j, i>>)}
<1> DEFINE blocks == GetDataBlocks(symbol, input.level)
           I == 1 .. b[1] + NumDataCodewords(b, j)
<1>1. b \in Seq(Nat) /\ Divided(b) /\ b = symbol.levels[input.level]  BY DEF BlocksPrinted
<1>2. DOMAIN blocks = 1 .. NumBlocks(b) /\ DOMAIN blocks[j] = I
  BY <1>1, BlocksAre
<1>3. \A i \in I : codewords[blocks[j][i]] = <<j, i>>
  <2>1. BlocksFound(symbol, input.level, codewords)  BY DEF BlocksPrinted
  <2> HIDE DEF blocks
  <2>2. \A m \in DOMAIN blocks : \A i \in DOMAIN blocks[m] : codewords[blocks[m][i]] = <<m, i>>
    BY <2>1 DEF BlocksFound, blocks
  <2> QED  BY <1>2, <2>2
<1> HIDE DEF blocks, I
<1>4. WrongIn(blocks, j) = {i \in I : AsRead(<<j, i>>) # DataByte(<<j, i>>)}
  BY <1>2, <1>3, Zenon DEF WrongIn
<1> QED  BY <1>2, <1>4 DEF blocks, I

(* Damage up to half of the parity of a block is corrected, the half       *)
(* codeword of M1 and M3, which is read wrong, among it.                   *)
LEMMA NoneLost ==
  ASSUME NEW b, BlocksPrinted(b), NEW j \in 1 .. NumBlocks(b),
         input.damage \in {"none", "repairable"}
  PROVE  ~Lost(GetDataBlocks(symbol, input.level), j)
<1> DEFINE blocks == GetDataBlocks(symbol, input.level)
           W == WrongIn(blocks, j)
           e == b[1]
           correctable == e - (IF HasHalfCodeword THEN 2 ELSE 0)
           m == correctable \div 2
           half == {i \in {NumDataCodewords(b, 1)} : HasHalfCodeword}
<1>1. /\ b \in Seq(Nat) /\ Divided(b) /\ Blocks = b /\ (HasHalfCodeword => e >= 2)
  BY DEF BlocksPrinted, Blocks
<1>2. e \in Nat /\ NumDataCodewords(b, j) \in Nat  BY <1>1, BlockSizes, BytesBefore
<1>3. W = {i \in 1 .. e + NumDataCodewords(b, j) : AsRead(<<j, i>>) # DataByte(<<j, i>>)}
  BY WrongAre
<1>4. m \in Nat /\ 2 * m <= correctable /\ \A i \in Nat : 2 * i <= correctable => i <= m
  <2>1. correctable \in Nat
    <3> HIDE DEF e
    <3> QED  BY <1>1, <1>2
  <2> HIDE DEF correctable
  <2> QED  BY <2>1
<1> HIDE DEF W, blocks
<1>5. ASSUME NEW i \in W, i \notin half  PROVE i \in 1 .. m
  <2>1. i \in Nat \ {0} /\ AsRead(<<j, i>>) # DataByte(<<j, i>>)  BY <1>2, <1>3
  <2>2. <<j, i>>[2] = i  OBVIOUS
  <2>3. Damaged(<<j, i>>)
    <3>1. ~IsHalf(<<j, i>>)
      <4>1. HasHalfCodeword => i # NumDataCodewords(b, 1)  BY <1>5
      <4> QED  BY <1>1, <2>2, <4>1, Zenon DEF IsHalf
    <3> QED  BY <2>1, <3>1, Zenon DEF AsRead
  <2>4. 2 * i <= correctable
    <3>1. input.damage # "beyond"  OBVIOUS
    <3> HIDE DEF correctable
    <3>2. 2 * <<j, i>>[2] <= Blocks[1] - (IF HasHalfCodeword THEN 2 ELSE 0)
      BY <2>3, <3>1, Zenon DEF Damaged
    <3> QED  BY <1>1, <2>2, <3>2 DEF correctable
  <2> HIDE DEF m, correctable
  <2> QED  BY <1>4, <2>1, <2>4
<1>6. IsFiniteSet(half) /\ Cardinality(half) \in Nat
      /\ (~HasHalfCodeword => Cardinality(half) = 0) /\ (HasHalfCodeword => Cardinality(half) = 1)
  <2> DEFINE d == NumDataCodewords(b, 1)
  <2> HIDE DEF d
  <2>1. CASE HasHalfCodeword
    <3>1. half = {d}  BY <2>1 DEF d
    <3> QED  BY <2>1, <3>1, FS_Singleton
  <2>2. CASE ~HasHalfCodeword
    <3>1. half = {}  BY <2>2
    <3> QED  BY <2>2, <3>1, FS_EmptySet
  <2> QED  BY <2>1, <2>2
<1> HIDE DEF half
<1>7. Cardinality(W) <= m + Cardinality(half) /\ Cardinality(W) \in Nat
  <2> HIDE DEF m
  <2> DEFINE M == 1 .. m
             U == M \cup half
  <2>0. 1 \in Int /\ m \in Int /\ ~(1 > m + 1) /\ m - 1 + 1 = m  BY <1>4
  <2>1. IsFiniteSet(M) /\ Cardinality(M) = m
    <3>1. IsFiniteSet(1 .. m)  BY <2>0, FS_Interval
    <3>2. Cardinality(1 .. m) = IF 1 > m THEN 0 ELSE m - 1 + 1  BY <2>0, FS_Interval
    <3> QED  BY <1>4, <3>1, <3>2
  <2>2. W \subseteq U  BY <1>5
  <2> HIDE DEF M
  <2>3. IsFiniteSet(U) /\ Cardinality(U) = m + Cardinality(half) - Cardinality(M \cap half)
    BY <1>6, <2>1, FS_Union
  <2>4. Cardinality(M \cap half) \in Nat
    <3>1. IsFiniteSet(M \cap half)  BY <2>1, FS_Intersection
    <3> QED  BY <3>1, FS_CardinalityType
  <2>5. Cardinality(U) <= m + Cardinality(half) /\ Cardinality(U) \in Int
    <3> HIDE DEF U
    <3> QED  BY <1>4, <1>6, <2>3, <2>4
  <2> HIDE DEF U
  <2>6. IsFiniteSet(W) /\ Cardinality(W) <= Cardinality(U)  BY <2>2, <2>3, FS_Subset
  <2>7. Cardinality(W) \in Nat  BY <2>6, FS_CardinalityType
  <2> QED  BY <1>4, <1>6, <2>5, <2>6, <2>7
<1>8. Lost(blocks, j) <=> 2 * Cardinality(W) > e  BY <1>1 DEF Lost, W
<1> DEFINE x == Cardinality(W)
           y == Cardinality(half)
<1> HIDE DEF e, m, x, y
<1>9. ~(2 * x > e)
  <2>1. x \in Nat /\ y \in Nat /\ x <= m + y  BY <1>6, <1>7 DEF x, y
  <2>2. CASE HasHalfCodeword
    <3>1. y = 1  BY <1>6, <2>2 DEF y
    <3> QED  BY <1>2, <1>4, <2>1, <2>2, <3>1
  <2>3. CASE ~HasHalfCodeword
    <3>1. y = 0  BY <1>6, <2>3 DEF y
    <3> QED  BY <1>2, <1>4, <2>1, <2>3, <3>1
  <2> QED  BY <2>2, <2>3
<1>10. ~Lost(blocks, j)  BY <1>8, <1>9 DEF x
<1> QED  BY <1>10 DEF blocks

(* One more wrong codeword than that and the first block is lost.          *)
LEMMA FirstLost ==
  ASSUME NEW b, BlocksPrinted(b), input.damage = "beyond"
  PROVE  Lost(GetDataBlocks(symbol, input.level), 1)
<1> DEFINE blocks == GetDataBlocks(symbol, input.level)
           W == WrongIn(blocks, 1)
           e == b[1]
           m == (e \div 2) + 1
           d == NumDataCodewords(b, 1)
<1>1. b \in Seq(Nat) /\ Divided(b) /\ Blocks = b
  BY DEF BlocksPrinted, Blocks
<1>2. e \in Nat /\ e # 0 /\ 1 \in 1 .. NumBlocks(b)
  <2>1. e # 0  BY <1>1, Zenon DEF Divided
  <2>2. e \in Nat /\ NumBlocks(b) \in Nat \ {0}  BY <1>1, BlockSizes
  <2> HIDE DEF e
  <2> QED  BY <2>1, <2>2
<1>3. d \in Nat  BY <1>2, BytesBefore
<1>4. W = {i \in 1 .. e + d : AsRead(<<1, i>>) # DataByte(<<1, i>>)}
  BY <1>2, WrongAre
<1>5. \A i \in 1 .. d : DataByte(<<1, i>>) \in 0 .. 255  BY <1>2, DataByteIs
<1>6. \A i \in 1 .. e + d : DataByte(<<1, i>>) \in 0 .. 255
  <2> TAKE i \in 1 .. e + d
  <2>1. CASE i > d
    <3>1. DataByte(<<1, i>>) = 0  BY <1>1, <2>1 DEF DataByte
    <3> QED  BY <3>1
  <2>2. CASE ~(i > d)
    <3> HIDE DEF d, e
    <3>1. i \in 1 .. d  BY <1>2, <1>3, <2>2
    <3> QED  BY <1>5, <3>1
  <2> QED  BY <2>1, <2>2
<1>7. m \in Nat /\ 2 * m > e /\ \A i \in 1 .. m : i \in 1 .. e + d /\ 2 * i - 2 <= e
  <2> HIDE DEF e, d
  <2> QED  BY <1>2, <1>3
<1> HIDE DEF W, blocks
<1>8. ASSUME NEW i \in 1 .. m  PROVE i \in W
  <2>1. i \in 1 .. e + d /\ 2 * i - 2 <= e  BY <1>7
  <2>2. Damaged(<<1, i>>)
    <3>1. <<1, i>>[1] = 1 /\ <<1, i>>[2] = i  OBVIOUS
    <3> HIDE DEF m, d
    <3> QED  BY <1>1, <2>1, <3>1 DEF Damaged
  <2>3. AsRead(<<1, i>>) = 255 - DataByte(<<1, i>>)  BY <2>2 DEF AsRead
  <2>4. AsRead(<<1, i>>) # DataByte(<<1, i>>)
    <3> DEFINE x == DataByte(<<1, i>>)
    <3>1. x \in 0 .. 255  BY <1>6, <2>1
    <3> HIDE DEF x
    <3>2. 255 - x # x  BY <3>1
    <3> QED  BY <2>3, <3>2 DEF x
  <2> QED  BY <1>4, <2>1, <2>4
<1> HIDE DEF m
<1>9. Cardinality(W) >= m /\ Cardinality(W) \in Nat
  <2>0. 1 \in Int /\ m \in Int /\ m - 1 + 1 = m /\ e + d \in Int  BY <1>2, <1>3, <1>7
  <2>1. Cardinality(1 .. m) = m
    <3>1. Cardinality(1 .. m) = IF 1 > m THEN 0 ELSE m - 1 + 1  BY <2>0, FS_Interval
    <3> QED  BY <1>7, <3>1
  <2>2. 1 .. m \subseteq W  BY <1>8
  <2>3. IsFiniteSet(W)
    <3>1. IsFiniteSet(1 .. e + d)  BY <2>0, FS_Interval
    <3>2. W \subseteq 1 .. e + d  BY <1>4
    <3> QED  BY <3>1, <3>2, FS_Subset
  <2>4. Cardinality(1 .. m) <= Cardinality(W)  BY <2>2, <2>3, FS_Subset
  <2>5. Cardinality(W) \in Nat  BY <2>3, FS_CardinalityType
  <2> QED  BY <1>7, <2>1, <2>4, <2>5
<1>10. Lost(blocks, 1) <=> 2 * Cardinality(W) > e  BY <1>1 DEF Lost, W
<1> HIDE DEF e
<1>11. Lost(blocks, 1)  BY <1>2, <1>7, <1>9, <1>10
<1> QED  BY <1>11 DEF blocks

(* The first of a sequence.                                                *)
LEMMA SubSeqIs ==
  ASSUME NEW B, NEW s \in Seq(B), NEW D \in 0 .. Len(s)
  PROVE  LET w == SubSeq(s, 1, D)
         IN  w \in Seq(B) /\ Len(w) = D /\ \A k \in 1 .. D : w[k] = s[k]
<1> DEFINE w == SubSeq(s, 1, D)
<1>1. Len(s) \in Nat /\ D \in Nat /\ 1 \in Int /\ D \in Int  OBVIOUS
<1>2. \A k \in 1 .. D : s[k] \in B
  <2> TAKE k \in 1 .. D
  <2>1. k \in 1 .. Len(s)  BY <1>1
  <2> QED  BY <2>1, ElementOfSeq
<1>3. /\ w \in Seq(B)
      /\ Len(w) = IF 1 <= D THEN D - 1 + 1 ELSE 0
      /\ \A k \in 1 .. D - 1 + 1 : w[k] = s[1 + k - 1]
  BY <1>1, <1>2, SubSeqProperties
<1> HIDE DEF w
<1>4. D - 1 + 1 = D /\ \A k \in 1 .. D : 1 + k - 1 = k  BY <1>1
<1>5. Len(w) = D  BY <1>1, <1>3
<1>6. \A k \in 1 .. D : w[k] = s[k]
  <2> TAKE k \in 1 .. D
  <2>1. k \in 1 .. D - 1 + 1 /\ 1 + k - 1 = k  BY <1>4
  <2> QED  BY <1>3, <2>1
<1> QED  BY <1>3, <1>5, <1>6 DEF w

LEMMA WholeIs ==
  ASSUME NEW B, NEW s \in Seq(B)
  PROVE  SubSeq(s, 1, Len(s)) = s
<1> DEFINE w == SubSeq(s, 1, Len(s))
<1>1. Len(s) \in 0 .. Len(s)  OBVIOUS
<1>2. w \in Seq(B) /\ Len(w) = Len(s) /\ \A k \in 1 .. Len(s) : w[k] = s[k]
  BY <1>1, SubSeqIs
<1> HIDE DEF w
<1>3. w = s  BY <1>2, SeqEqual
<1> QED  BY <1>3 DEF w

(* The blocks, corrected and one behind the other, are the bytes that were *)
(* put into them.                                                          *)
LEMMA BytesRestored ==
  ASSUME NEW b, BlocksPrinted(b), input.damage \in {"none", "repairable"}
  PROVE  ResultBytes(GetDataBlocks(symbol, input.level)) = SubSeq(bytes, 1, DataLength(b))
<1> DEFINE blocks == GetDataBlocks(symbol, input.level)
           n == NumBlocks(b)
           T == Seq(0 .. 255)
           Block(j) == [i \in 1 .. NumDataCodewords(b, j) |-> DataByte(<<j, i>>)]
           Calls(f) == f = [j \in 0 .. n |-> IF j = 0 THEN <<>> ELSE f[j - 1] \o Block(j)]
           f == CHOOSE x : Calls(x)
<1>1. /\ n \in Nat \ {0} /\ bytes \in T /\ Len(bytes) \in Nat /\ Blocks = b
      /\ Before(b, 0) = 0 /\ Before(b, n) = DataLength(b) /\ DataLength(b) \in 0 .. Len(bytes)
      /\ \A j \in 0 .. n : Before(b, j) \in 0 .. Len(bytes)
      /\ \A j \in 1 .. n : /\ NumDataCodewords(b, j) \in Nat
                           /\ Before(b, j) = Before(b, j - 1) + NumDataCodewords(b, j)
  <2>1. bytes \in T /\ Blocks = b  BY DEF BlocksPrinted, Blocks
  <2>2. Len(bytes) \in Nat  BY <2>1
  <2> HIDE DEF T
  <2> QED  BY <2>1, <2>2, BytesBefore
<1>2. ASSUME NEW j \in 1 .. n
      PROVE  Block(j) \in T /\ Len(Block(j)) = NumDataCodewords(b, j)
  <2> DEFINE d == NumDataCodewords(b, j)
  <2>1. d \in Nat  BY <1>1
  <2>2. \A i \in 1 .. d : DataByte(<<j, i>>) \in 0 .. 255  BY DataByteIs
  <2> HIDE DEF d
  <2> DEFINE g == [i \in 1 .. d |-> DataByte(<<j, i>>)]
  <2>3. g \in [1 .. d -> 0 .. 255]  BY <2>2
  <2> HIDE DEF g
  <2>4. g \in T  BY <2>1, <2>3, SeqDef
  <2>5. Len(g) = d  BY <2>1, <2>3, <2>4, LenProperties
  <2> QED  BY <2>4, <2>5 DEF g, d
<1>3. \A j \in 1 .. n : Corrected(blocks, j) = Block(j)
  <2> TAKE j \in 1 .. n
  <2>1. ~Lost(blocks, j)  BY NoneLost
  <2> HIDE DEF blocks
  <2> QED  BY <1>1, <2>1, Zenon DEF Corrected
<1>4. Len(blocks) = n
  <2>1. DOMAIN blocks = 1 .. n
    <3>1. 1 \in 1 .. n  BY <1>1
    <3> QED  BY <3>1, WrongAre
  <2>2. blocks = [j \in 1 .. n |-> blocks[j]]  BY <2>1, Zenon DEF GetDataBlocks
  <2> HIDE DEF blocks, n
  <2> DEFINE R == {blocks[j] : j \in 1 .. n}
  <2>3. blocks \in [1 .. n -> R]  BY <2>2
  <2>4. n \in Nat  BY <1>1
  <2> HIDE DEF R
  <2>5. blocks \in Seq(R)  BY <2>3, <2>4, SeqDef
  <2> QED  BY <2>1, <2>4, <2>5, LenProperties
<1>5. ResultBytes(blocks) = f[n]
  <2> DEFINE Calls0(g) == g = [j \in 0 .. n |-> IF j = 0 THEN <<>>
                                                ELSE g[j - 1] \o Corrected(blocks, j)]
  <2>1. \A g : Calls0(g) <=> Calls(g)
    <3> TAKE g
    <3> HIDE DEF blocks, Block, n
    <3>1. \A j \in 0 .. n : j # 0 => j \in 1 .. n  BY <1>1
    <3>2. \A j \in 0 .. n : (IF j = 0 THEN <<>> ELSE g[j - 1] \o Corrected(blocks, j))
                            = (IF j = 0 THEN <<>> ELSE g[j - 1] \o Block(j))
      BY <1>3, <3>1, Zenon
    <3> QED  BY <3>2, Zenon
  <2>2. (CHOOSE g : Calls0(g)) = f
    <3> HIDE DEF Calls, Calls0
    <3> QED  BY <2>1, Zenon
  <2>3. ResultBytes(blocks) = (CHOOSE g : Calls0(g))[n]
    <3> HIDE DEF blocks, n
    <3> QED  BY <1>4, Zenon DEF ResultBytes
  <2> HIDE DEF Calls, Calls0, f
  <2> QED  BY <2>2, <2>3 DEF f
<1> HIDE DEF Block
<1>6. \E g : Calls(g)
  <2> DEFINE step == [p \in (1 .. n) \X T |-> p[2] \o Block(p[1])]
             start == <<>>
  <2>0. start \in T  BY EmptySeq
  <2> HIDE DEF T, start
  <2>1. step \in [(1 .. n) \X T -> T]
    <3>1. ASSUME NEW p \in (1 .. n) \X T  PROVE p[2] \o Block(p[1]) \in T
      <4>1. p[1] \in 1 .. n /\ p[2] \in T  OBVIOUS
      <4>2. Block(p[1]) \in T  BY <1>2, <4>1
      <4> HIDE DEF n
      <4> QED  BY <4>1, <4>2, ConcatProperties DEF T
    <3> QED  BY <3>1
  <2>2. \A j \in 1 .. n : \A t \in T : step[<<j, t>>] = t \o Block(j)
    <3> HIDE DEF n
    <3> QED  OBVIOUS
  <2> HIDE DEF step, n
  <2>3. PICK g : Iterates(g, n, T, start, step)  BY <1>1, <2>0, <2>1, Recursion
  <2>4. \A j \in 0 .. n : j # 0 => step[<<j, g[j - 1]>>] = g[j - 1] \o Block(j)
    <3> TAKE j \in 0 .. n
    <3>1. j # 0 => j - 1 \in 0 .. n /\ j \in 1 .. n  BY <1>1
    <3>2. j # 0 => g[j - 1] \in T  BY <2>3, <3>1 DEF Iterates
    <3> QED  BY <2>2, <3>1, <3>2
  <2>5. Calls(g)  BY <2>3, <2>4 DEF Iterates, start
  <2> QED  BY <2>5
<1>7. Calls(f)  BY <1>6
<1> HIDE DEF f
<1>8. f[0] = <<>> /\ \A j \in 1 .. n : f[j] = f[j - 1] \o Block(j)
  <2>0. f = [j \in 0 .. n |-> IF j = 0 THEN <<>> ELSE f[j - 1] \o Block(j)]  BY <1>7
  <2> HIDE DEF n, Calls
  <2>1. f[0] = <<>>  BY <1>1, <2>0
  <2>2. ASSUME NEW j \in 1 .. n  PROVE f[j] = f[j - 1] \o Block(j)
    <3>1. j \in 0 .. n /\ j # 0  BY <1>1
    <3> QED  BY <2>0, <3>1
  <2> QED  BY <2>1, <2>2
<1> DEFINE S == {j \in 0 .. n : /\ f[j] \in T /\ Len(f[j]) = Before(b, j)
                                /\ \A k \in 1 .. Before(b, j) : f[j][k] = bytes[k]}
<1>9. 0 \in S
  <2>1. f[0] \in T /\ Len(f[0]) = 0  BY <1>8, EmptySeq
  <2>2. 0 \in 0 .. n /\ Before(b, 0) = 0  BY <1>1
  <2>3. \A k : k \notin 1 .. 0  OBVIOUS
  <2> QED  BY <2>1, <2>2, <2>3
<1>10. ASSUME NEW j \in 0 .. n - 1, j \in S  PROVE j + 1 \in S
  <2> DEFINE t == f[j]
             c == Block(j + 1)
             h == Before(b, j)
             d == NumDataCodewords(b, j + 1)
             u == t \o c
  <2>1. j + 1 \in 1 .. n /\ (j + 1) - 1 = j /\ j + 1 \in 0 .. n /\ j \in 0 .. n  BY <1>1
  <2>2. t \in T /\ Len(t) = h /\ \A k \in 1 .. h : t[k] = bytes[k]  BY <1>10
  <2>3. f[j + 1] = u  BY <1>8, <2>1
  <2>4. c \in T /\ Len(c) = d  BY <1>2, <2>1
  <2>5. d \in Nat /\ h \in Nat /\ Before(b, j + 1) = h + d  BY <1>1, <2>1
  <2>6. \A i \in 1 .. d : c[i] = bytes[h + i]
    <3> TAKE i \in 1 .. d
    <3>1. c[i] = DataByte(<<j + 1, i>>)  BY DEF Block
    <3>2. DataByte(<<j + 1, i>>) = bytes[Before(b, (j + 1) - 1) + i]  BY <2>1, DataByteIs
    <3> QED  BY <2>1, <3>1, <3>2
  <2> DEFINE B == 0 .. 255
  <2>7. Joined(u, B, t, h, c, d)
    <3>1. t \in Seq(B) /\ c \in Seq(B)  BY <2>2, <2>4
    <3> HIDE DEF B, t, c, h, d
    <3> QED  BY <2>2, <2>4, <2>5, <3>1, Behind
  <2>9. /\ u \in T /\ Len(u) = h + d
        /\ \A k \in 1 .. h : u[k] = t[k]
        /\ \A k \in 1 .. d : u[h + k] = c[k]
    BY <2>7 DEF Joined
  <2> HIDE DEF t, c, h, d, T, u
  <2>8. \A k \in 1 .. h + d : u[k] = bytes[k]
    <3> TAKE k \in 1 .. h + d
    <3>1. CASE k <= h
      <4>1. k \in 1 .. h  BY <2>5, <3>1
      <4> QED  BY <2>2, <2>9, <4>1
    <3>2. CASE ~(k <= h)
      <4>1. k - h \in 1 .. d /\ h + (k - h) = k  BY <2>5, <3>2
      <4>2. u[h + (k - h)] = c[k - h] /\ c[k - h] = bytes[h + (k - h)]  BY <2>6, <2>9, <4>1
      <4> QED  BY <4>1, <4>2
    <3> QED  BY <3>1, <3>2
  <2> QED  BY <2>1, <2>3, <2>5, <2>8, <2>9 DEF t, h
<1> HIDE DEF S
<1>11. n \in S
  <2>1. \A j \in 0 .. n : j \in S  BY <1>1, <1>9, <1>10, Induct
  <2> QED  BY <1>1, <2>1
<1> DEFINE D == DataLength(b)
<1>12. f[n] \in T /\ Len(f[n]) = D /\ \A k \in 1 .. D : f[n][k] = bytes[k]
  BY <1>1, <1>11 DEF S
<1>13. f[n] = SubSeq(bytes, 1, D)
  <2> DEFINE u == f[n]
             w == SubSeq(bytes, 1, D)
             B == 0 .. 255
  <2>0. u \in Seq(B) /\ bytes \in Seq(B) /\ D \in 0 .. Len(bytes) /\ Len(bytes) \in Nat
    BY <1>1, <1>12
  <2> HIDE DEF B, D
  <2>1. w \in Seq(B) /\ Len(w) = D /\ \A k \in 1 .. D : w[k] = bytes[k]
    BY <2>0, SubSeqIs
  <2> HIDE DEF w
  <2>2. Len(u) = Len(w) /\ \A k \in 1 .. Len(u) : u[k] = w[k]  BY <1>12, <2>1
  <2> HIDE DEF u
  <2>3. u = w  BY <2>0, <2>1, <2>2, SeqEqual
  <2> QED  BY <2>3 DEF u, w
<1> QED  BY <1>5, <1>13 DEF blocks

(* What there is of data in the blocks.                                    *)
LEMMA DataOfBlocks ==
  ASSUME NEW b \in Seq(Nat), Divided(b)
  PROVE  AllCodewords(b) - TotalECCodewords(b) = DataLength(b) /\ DataLength(b) \in Nat
         /\ AllCodewords(b) \in Nat /\ TotalECCodewords(b) \in Nat
<1> DEFINE e == b[1]
           n1 == b[2]
           k1 == b[3]
           n2 == b[4]
           k2 == b[5]
<1>1. AllCodewords(b) = n1 * (k1 + e) + n2 * (k2 + e) /\ TotalECCodewords(b) = e * (n1 + n2)
  BY Zenon DEF AllCodewords, TotalECCodewords
<1>2. e \in Nat /\ n1 \in Nat /\ k1 \in Nat /\ n2 \in Nat /\ k2 \in Nat
      /\ NumBlocks(b) = n1 + n2
  BY BlockSizes
<1>3. n2 = 0 \/ k2 = k1 + 1  BY DEF Divided
<1>4. DataLength(b) = NumBlocks(b) * k1 + n2  BY DEF DataLength
<1> HIDE DEF e, n1, k1, n2, k2
<1>5. AllCodewords(b) - TotalECCodewords(b) = k1 * (n1 + n2) + n2
  BY <1>1, <1>2, <1>3, CodewordsOf
<1>6. k1 * (n1 + n2) = (n1 + n2) * k1 /\ (n1 + n2) * k1 \in Nat  BY <1>2
<1>7. /\ n1 * (k1 + e) \in Nat /\ n2 * (k2 + e) \in Nat /\ e * (n1 + n2) \in Nat
  BY <1>2
<1> QED  BY <1>1, <1>2, <1>4, <1>5, <1>6, <1>7

(* So either all data are restored, or the loss is noticed.                *)
LEMMA Corrections ==
  ASSUME input \in Inputs, BlocksPrinted(Blocks), CorrectErrors
  PROVE  /\ input.damage = "beyond" => error' = "Checksum"
         /\ input.damage # "beyond" =>
              error' = None /\ bytes' = SubSeq(bytes, 1, DataLength(Blocks))
<1> DEFINE blocks == GetDataBlocks(symbol, input.level)
           b == Blocks
<1>1. /\ bytes' = ResultBytes(blocks)
      /\ error' = IF \E j \in DOMAIN blocks : Lost(blocks, j) THEN "Checksum" ELSE None
  BY Zenon DEF CorrectErrors
<1> HIDE DEF b
<1>2. BlocksPrinted(b)  BY DEF b
<1>3. NumBlocks(b) \in Nat \ {0} /\ 1 \in 1 .. NumBlocks(b)
  <2>1. NumBlocks(b) \in Nat \ {0}  BY <1>2, BytesBefore
  <2> QED  BY <2>1
<1>4. DOMAIN blocks = 1 .. NumBlocks(b)  BY <1>2, <1>3, WrongAre
<1>5. CASE input.damage = "beyond"
  <2>1. Lost(blocks, 1)  BY <1>2, <1>5, FirstLost
  <2>2. 1 \in DOMAIN blocks  BY <1>3, <1>4
  <2> HIDE DEF blocks
  <2>3. \E j \in DOMAIN blocks : Lost(blocks, j)  BY <2>1, <2>2, Zenon
  <2> QED  BY <1>1, <1>5, <2>3
<1>6. CASE input.damage # "beyond"
  <2>1. input.damage \in {"none", "repairable"}  BY <1>6, InputsAssumption
  <2>2. \A j \in 1 .. NumBlocks(b) : ~Lost(blocks, j)  BY <1>2, <2>1, NoneLost
  <2>3. ResultBytes(blocks) = SubSeq(bytes, 1, DataLength(b))  BY <1>2, <2>1, BytesRestored
  <2> HIDE DEF blocks
  <2>4. ~\E j \in DOMAIN blocks : Lost(blocks, j)  BY <1>4, <2>2
  <2> QED  BY <1>1, <1>6, <2>3, <2>4 DEF b
<1> QED  BY <1>5, <1>6
-----------------------------------------------------------------------------
(* Fields of the bit stream.                                               *)
(* The end of a number's bits are bits of the number.                      *)
LEMMA AtEndOf ==
  ASSUME NEW p, NEW n \in 0 .. 21, NEW k \in 0 .. n, NEW v \in Nat, At(p, Bits(v, n)),
         Len(bytes) \in Nat
  PROVE  At(p + k, Bits(v, n - k))
<1> DEFINE m == n - k
           a == Bits(v, n)
           b == Bits(v, m)
<1>1. m \in 0 .. 21 /\ m + k = n  OBVIOUS
<1>2. Len(a) = n /\ Len(b) = m /\ IsBits(b)  BY <1>1, BitsAre
<1>3. p \in Nat /\ p + n <= 8 * Len(bytes) /\ \A i \in 1 .. n : BitAt(p + i - 1) = a[i]
  BY <1>2 DEF At
<1>4. ASSUME NEW i \in 1 .. m  PROVE BitAt((p + k) + i - 1) = b[i]
  <2> DEFINE j == k + i
  <2>1. j \in 1 .. n /\ p + j - 1 = (p + k) + i - 1 /\ n - j = m - i  BY <1>3
  <2>2. a[j] = (v \div 2^(n - j)) % 2 /\ b[i] = (v \div 2^(m - i)) % 2  BY <2>1, Zenon DEF Bits
  <2>3. BitAt(p + j - 1) = a[j]  BY <1>3, <2>1
  <2> HIDE DEF j, m, a, b
  <2>4. a[j] = b[i]  BY <2>1, <2>2, Zenon
  <2> QED  BY <2>1, <2>3, <2>4, Zenon
<1>5. p + k \in Nat /\ (p + k) + m <= 8 * Len(bytes)  BY <1>1, <1>3
<1> HIDE DEF m, a, b
<1>6. At(p + k, b)  BY <1>2, <1>4, <1>5 DEF At
<1> QED  BY <1>6 DEF b, m

(* And the start of it those of its quotient.                              *)
LEMMA AtStartOf ==
  ASSUME NEW p, NEW d, At(p, d), NEW n \in 0 .. Len(d), NEW b, IsBits(b), Len(b) = n,
         \A i \in 1 .. n : b[i] = d[i], Len(bytes) \in Nat
  PROVE  At(p, b)
<1>1. /\ p \in Nat /\ Len(d) \in Nat /\ p + Len(d) <= 8 * Len(bytes)
      /\ \A i \in 1 .. Len(d) : BitAt(p + i - 1) = d[i]
  BY DEF At, IsBits
<1>2. \A i \in 1 .. n : i \in 1 .. Len(d)  BY <1>1
<1>3. p + n <= 8 * Len(bytes)  BY <1>1
<1> QED  BY <1>1, <1>2, <1>3 DEF At

(* A mode is read.                                                         *)
WrittenModes == TextModes \cup {"ECI", "FNC1_FIRST_POSITION"}

LEMMA ModeValues ==
  ASSUME NEW mode \in WrittenModes
  PROVE  /\ QRModes[mode] \in 1 .. 15
         /\ \A m \in DOMAIN QRModes : QRModes[m] = QRModes[mode] <=> m = mode
         /\ mode \in DOMAIN QRModes
<1>1. mode \in {"NUMERIC", "ALPHANUMERIC", "BYTE", "KANJI", "ECI", "FNC1_FIRST_POSITION"}
  BY DEF WrittenModes, TextModes
<1>2. DOMAIN QRModes = {"TERMINATOR", "NUMERIC", "ALPHANUMERIC", "STRUCTURED_APPEND", "BYTE",
                        "FNC1_FIRST_POSITION", "ECI", "KANJI", "FNC1_SECOND_POSITION", "HANZI"}
  BY DEF QRModes
<1> QED  BY <1>1, <1>2 DEF QRModes

LEMMA ModeRead ==
  ASSUME NEW mode \in WrittenModes, symbol.type = "Model2", Len(bytes) \in Nat,
         At(pos, Bits(QRModes[mode], 4))
  PROVE  ~IsEndOfStream /\ Modes = {mode} /\ Start = pos + 4
<1> DEFINE v == QRModes[mode]
<1>1. v \in 1 .. 15  BY ModeValues
<1>2. CanRead(pos, 4) /\ Peek(pos, 4) = v
  <2> DEFINE w == 2^4
  <2>1. w = 16  BY PowersAre
  <2> HIDE DEF v, w
  <2>2. v \in Nat /\ v < w /\ 4 \in 1 .. 21  BY <1>1, <2>1
  <2>3. v < 2^4  BY <2>2 DEF w
  <2> QED  BY <2>2, <2>3, ReadBits DEF v
<1>3. ModeLength = 4 /\ TerminatorBitsLength(symbol) = 4
  BY DEF ModeLength, CodecModeBitsLength, TerminatorBitsLength
<1>4. pos \in Nat  BY DEF At
<1>5. Available(pos) \in Int /\ 4 <= Available(pos)
  BY <1>2, <1>4 DEF CanRead, Available
<1>6. ~IsEndOfStream
  <2>1. (IF Available(pos) < 4 THEN Available(pos) ELSE 4) = 4  BY <1>5
  <2> HIDE DEF v
  <2>2. Peek(pos, 4) # 0  BY <1>1, <1>2
  <2> QED  BY <1>3, <2>1, <2>2 DEF IsEndOfStream
<1>7. Modes = {m \in DOMAIN QRModes : QRModes[m] = v}
  <2>1. Modes = CodecModesForBits(v, "Model2")  BY <1>2, <1>3 DEF Modes
  <2> HIDE DEF v
  <2> QED  BY <2>1 DEF CodecModesForBits, ModesOf
<1>8. Modes = {mode}  BY <1>7, ModeValues
<1> QED  BY <1>3, <1>6, <1>8 DEF Start

(* The end is found behind the last segment.                               *)
LEMMA EndRead ==
  ASSUME symbol.type = "Model2", Len(bytes) \in Nat, pos \in 0 .. 8 * Len(bytes),
         \A p \in pos .. 8 * Len(bytes) - 1 : p < pos + 4 => BitAt(p) = 0
  PROVE  IsEndOfStream
<1> DEFINE a == 8 * Len(bytes) - pos
           n == IF a < 4 THEN a ELSE 4
<1>0. a \in Nat  OBVIOUS
<1>1. n \in 0 .. 21 /\ n <= 4 /\ n <= a
  <2> HIDE DEF a
  <2> QED  BY <1>0
<1>2. Peek(pos, n) = 0
  <2>1. \A i \in 1 .. n : BitAt(pos + i - 1) = 0
    <3> TAKE i \in 1 .. n
    <3>1. pos + i - 1 \in pos .. 8 * Len(bytes) - 1 /\ pos + i - 1 < pos + 4  BY <1>0, <1>1
    <3> QED  BY <3>1
  <2> HIDE DEF n, a
  <2>2. [i \in 1 .. n |-> BitAt(pos + i - 1)] = [i \in 1 .. n |-> 0]  BY <2>1
  <2> QED  BY <1>1, <2>2, FoldedZeros DEF Peek
<1>3. Available(pos) = a /\ TerminatorBitsLength(symbol) = 4
  BY DEF Available, TerminatorBitsLength
<1> QED  BY <1>2, <1>3 DEF IsEndOfStream

(* An ECI is read.                                                         *)
WrittenECIs == {20, 26, 32, 899}
LengthOfECI(e) == IF e = 899 THEN 16 ELSE 8

TwoBytesOf899 == 33667                       \* 10, and 14 bits
FirstOf899 == 131

LEMMA ECIBitsAre ==
  ASSUME NEW e \in WrittenECIs
  PROVE  /\ e # 899 => ECIBits(e) = Bits(e, 8)
         /\ e = 899 => ECIBits(e) = Bits(TwoBytesOf899, 16)
         /\ IsBits(ECIBits(e)) /\ Len(ECIBits(e)) = LengthOfECI(e)
<1>1. e # 899 => ECIBits(e) = Bits(e, 8)
  <2>1. e # 899 => e <= 127 /\ ~(127 < e) /\ ~(16383 < e)  BY DEF WrittenECIs
  <2> QED  BY <2>1 DEF ECIBits
<1>2. e = 899 => ECIBits(e) = Bits(TwoBytesOf899, 16)
  <2>1. e = 899 => /\ ~(e <= 127) /\ 127 < e /\ e <= 16383
                   /\ ~(16383 < e) /\ 32768 + e = TwoBytesOf899
    BY DEF WrittenECIs, TwoBytesOf899
  <2>2. e = 899 => ECIBits(e) = Bits(32768 + e, 16)  BY <2>1 DEF ECIBits
  <2> QED  BY <2>1, <2>2
<1>3. e \in Nat /\ TwoBytesOf899 \in Nat /\ 8 \in 0 .. 21 /\ 16 \in 0 .. 21
  BY DEF WrittenECIs, TwoBytesOf899
<1>4. /\ IsBits(Bits(e, 8)) /\ Len(Bits(e, 8)) = 8
      /\ IsBits(Bits(TwoBytesOf899, 16)) /\ Len(Bits(TwoBytesOf899, 16)) = 16
  BY <1>3, BitsAre
<1> QED  BY <1>1, <1>2, <1>4 DEF LengthOfECI

LEMMA ShortECIRead ==
  ASSUME NEW e \in {20, 26, 32}, NEW p, At(p, Bits(e, 8)), Len(bytes) \in Nat
  PROVE  CanRead(p, 8) /\ Peek(p, 8) = e /\ Peek(p + 1, 7) = e
<1> DEFINE a == 2^8
           b == 2^7
<1>1. a = 256 /\ b = 128  BY PowersAre
<1>2. e \in Nat /\ e < a /\ e < b /\ 8 \in 1 .. 21 /\ 7 \in 1 .. 21 /\ 1 \in 0 .. 8 /\ 8 - 1 = 7
      /\ 8 \in 0 .. 21
  BY <1>1
<1>3. CanRead(p, 8) /\ Peek(p, 8) = e  BY <1>2, ReadBits
<1>4. At(p + 1, Bits(e, 7))
  <2>1. At(p + 1, Bits(e, 8 - 1))  BY <1>2, AtEndOf
  <2> QED  BY <1>2, <2>1
<1>5. Peek(p + 1, 7) = e  BY <1>2, <1>4, ReadBits
<1> QED  BY <1>3, <1>5

LEMMA Bits899 ==
  /\ \A k \in 0 .. 13 : BitValue(TwoBytesOf899, k) = BitValue(899, k)
  /\ \A k \in 0 .. 7 : BitValue(TwoBytesOf899, k + 8) = BitValue(FirstOf899, k)
<1>1. ASSUME NEW k \in 0 .. 13  PROVE BitValue(TwoBytesOf899, k) = BitValue(899, k)
  <2> DEFINE a == 2^k
  <2>1. \/ k = 0 \/ k = 1 \/ k = 2 \/ k = 3 \/ k = 4 \/ k = 5 \/ k = 6 \/ k = 7
        \/ k = 8 \/ k = 9 \/ k = 10 \/ k = 11 \/ k = 12 \/ k = 13
    OBVIOUS
  <2> HIDE DEF a
  <2>2. \/ a = 1 \/ a = 2 \/ a = 4 \/ a = 8 \/ a = 16 \/ a = 32 \/ a = 64 \/ a = 128
        \/ a = 256 \/ a = 512 \/ a = 1024 \/ a = 2048 \/ a = 4096 \/ a = 8192
    BY <2>1, PowersAre, SMT DEF a
  <2>3. (TwoBytesOf899 \div a) % 2 = (899 \div a) % 2  BY <2>2, SMT DEF TwoBytesOf899
  <2> QED  BY <2>3, Zenon DEF BitValue, a
<1>2. ASSUME NEW k \in 0 .. 7
      PROVE  BitValue(TwoBytesOf899, k + 8) = BitValue(FirstOf899, k)
  <2> DEFINE c == k + 8
             a == 2^k
             b == 2^c
  <2>0. \/ k = 0 \/ k = 1 \/ k = 2 \/ k = 3 \/ k = 4 \/ k = 5 \/ k = 6 \/ k = 7
    OBVIOUS
  <2>1. /\ k = 0 => c = 8
        /\ k = 1 => c = 9
        /\ k = 2 => c = 10
        /\ k = 3 => c = 11
        /\ k = 4 => c = 12
        /\ k = 5 => c = 13
        /\ k = 6 => c = 14
        /\ k = 7 => c = 15
    OBVIOUS
  <2> HIDE DEF a, b, c
  <2>2. /\ k = 0 => a = 1
        /\ k = 1 => a = 2
        /\ k = 2 => a = 4
        /\ k = 3 => a = 8
        /\ k = 4 => a = 16
        /\ k = 5 => a = 32
        /\ k = 6 => a = 64
        /\ k = 7 => a = 128
    BY PowersAre, SMT DEF a
  <2>3. /\ c = 8 => b = 256
        /\ c = 9 => b = 512
        /\ c = 10 => b = 1024
        /\ c = 11 => b = 2048
        /\ c = 12 => b = 4096
        /\ c = 13 => b = 8192
        /\ c = 14 => b = 16384
        /\ c = 15 => b = 32768
    BY PowersAre, SMT DEF b
  <2>4. (TwoBytesOf899 \div b) % 2 = (FirstOf899 \div a) % 2
    BY <2>0, <2>1, <2>2, <2>3, SMT DEF TwoBytesOf899, FirstOf899
  <2> QED  BY <2>4, Zenon DEF BitValue, a, b, c
<1> QED  BY <1>1, <1>2

LEMMA BitsByValue ==
  ASSUME NEW v, NEW n
  PROVE  Bits(v, n) = [i \in 1 .. n |-> BitValue(v, n - i)]
BY Zenon DEF Bits, BitValue

LEMMA LongECIRead ==
  ASSUME NEW p, At(p, Bits(TwoBytesOf899, 16)), Len(bytes) \in Nat
  PROVE  CanRead(p, 8) /\ Peek(p, 8) = FirstOf899 /\ CanRead(p, 16) /\ Peek(p + 2, 14) = 899
<1> DEFINE d == Bits(TwoBytesOf899, 16)
           b == Bits(FirstOf899, 8)
<1>1. /\ TwoBytesOf899 \in Nat /\ FirstOf899 \in Nat /\ 899 \in Nat
      /\ 8 \in 1 .. 21 /\ 14 \in 1 .. 21 /\ 2 \in 0 .. 16 /\ 16 - 2 = 14
      /\ 16 \in 0 .. 21 /\ 8 \in 0 .. 21 /\ 14 \in 0 .. 21 /\ 8 \in 0 .. 16 /\ 16 >= 1
  BY DEF TwoBytesOf899, FirstOf899
<1>2. Len(d) = 16 /\ IsBits(b) /\ Len(b) = 8 /\ IsBits(d)
  <2> HIDE DEF d, b
  <2>1. 16 \in 0 .. 21 /\ 8 \in 0 .. 21 /\ TwoBytesOf899 \in Nat /\ FirstOf899 \in Nat
    BY <1>1
  <2>2. IsBits(d) /\ Len(d) = 16  BY <2>1, BitsAre DEF d
  <2>3. IsBits(b) /\ Len(b) = 8  BY <2>1, BitsAre DEF b
  <2> QED  BY <2>2, <2>3
<1>3. CanRead(p, 16)
  <2>1. At(p, d)  OBVIOUS
  <2> HIDE DEF d
  <2> QED  BY <1>1, <1>2, <2>1, PeekAt
<1>4. At(p, b)
  <2>1. ASSUME NEW i \in 1 .. 8  PROVE b[i] = d[i]
    <3> DEFINE k == 8 - i
    <3>1. k \in 0 .. 7 /\ k + 8 = 16 - i /\ i \in 1 .. 16  OBVIOUS
    <3>2. d[i] = BitValue(TwoBytesOf899, k + 8) /\ b[i] = BitValue(FirstOf899, k)
      <4>1. /\ d = [m \in 1 .. 16 |-> BitValue(TwoBytesOf899, 16 - m)]
            /\ b = [m \in 1 .. 8 |-> BitValue(FirstOf899, 8 - m)]
        BY BitsByValue
      <4> HIDE DEF d, b
      <4> QED  BY <3>1, <4>1
    <3>3. BitValue(TwoBytesOf899, k + 8) = BitValue(FirstOf899, k)  BY <3>1, Bits899
    <3> QED  BY <3>2, <3>3
  <2> HIDE DEF b, d
  <2>2. At(p, d)  BY DEF d
  <2>3. 8 \in 0 .. Len(d)  BY <1>2
  <2> QED  BY <1>2, <2>1, <2>2, <2>3, AtStartOf
<1>5. Peek(p, 8) = FirstOf899 /\ CanRead(p, 8)
  <2> DEFINE a == 2^8
  <2>1. a = 256  BY PowersAre
  <2> HIDE DEF a
  <2>2. FirstOf899 < a  BY <2>1 DEF FirstOf899
  <2>3. FirstOf899 < 2^8  BY <2>2 DEF a
  <2> QED  BY <1>1, <1>4, <2>3, ReadBits
<1>6. At(p + 2, Bits(TwoBytesOf899, 14))
  <2>1. At(p + 2, Bits(TwoBytesOf899, 16 - 2))  BY <1>1, AtEndOf
  <2> QED  BY <1>1, <2>1
<1>7. Bits(TwoBytesOf899, 14) = Bits(899, 14)
  <2>1. \A i \in 1 .. 14 : BitValue(TwoBytesOf899, 14 - i) = BitValue(899, 14 - i)
    <3> TAKE i \in 1 .. 14
    <3>1. 14 - i \in 0 .. 13  OBVIOUS
    <3> QED  BY <3>1, Bits899
  <2>2. /\ Bits(TwoBytesOf899, 14) = [i \in 1 .. 14 |-> BitValue(TwoBytesOf899, 14 - i)]
        /\ Bits(899, 14) = [i \in 1 .. 14 |-> BitValue(899, 14 - i)]
    BY BitsByValue
  <2> QED  BY <2>1, <2>2
<1>8. Peek(p + 2, 14) = 899
  <2> DEFINE a == 2^14
  <2>1. a = 16384  BY PowersAre
  <2> HIDE DEF a
  <2>2. 899 < a  BY <2>1
  <2>3. 899 < 2^14  BY <2>2 DEF a
  <2>4. At(p + 2, Bits(899, 14))  BY <1>6, <1>7
  <2> QED  BY <1>1, <2>3, <2>4, ReadBits
<1> QED  BY <1>3, <1>5, <1>8

(* Whatever its length, what ReadECI makes of it is the number.            *)
LEMMA ECIRead ==
  ASSUME NEW e \in WrittenECIs, At(Start, ECIBits(e)), Len(bytes) \in Nat
  PROVE  /\ CanRead(Start, 8) /\ CanRead(Start, ECILength)
         /\ ECILength = LengthOfECI(e)
         /\ Peek(Start + (ECILength \div 8), ECILength - (ECILength \div 8)) = e
<1>0. ECILength = LET first == Peek(Start, 8)
                  IN  CASE first < 128 -> 8 [] first \in 128 .. 191 -> 16
                        [] first \in 192 .. 223 -> 24 [] OTHER -> 0
  BY DEF ECILength
<1>1. CASE e # 899
  <2>1. e \in {20, 26, 32} /\ At(Start, Bits(e, 8))  BY <1>1, ECIBitsAre DEF WrittenECIs
  <2>2. CanRead(Start, 8) /\ Peek(Start, 8) = e /\ Peek(Start + 1, 7) = e
    BY <2>1, ShortECIRead
  <2>3. ECILength = 8
    <3>1. e < 128 /\ ~(e \in 128 .. 191) /\ ~(e \in 192 .. 223)  BY <2>1
    <3> QED  BY <1>0, <2>2, <3>1
  <2>4. 8 \div 8 = 1 /\ 8 - 1 = 7  OBVIOUS
  <2> QED  BY <1>1, <2>2, <2>3, <2>4 DEF LengthOfECI
<1>2. CASE e = 899
  <2>1. At(Start, Bits(TwoBytesOf899, 16))  BY <1>2, ECIBitsAre
  <2>2. /\ CanRead(Start, 8) /\ Peek(Start, 8) = FirstOf899
        /\ CanRead(Start, 16) /\ Peek(Start + 2, 14) = 899
    BY <2>1, LongECIRead
  <2>3. ECILength = 16
    <3>1. /\ ~(FirstOf899 < 128) /\ FirstOf899 \in 128 .. 191
          /\ ~(FirstOf899 \in 192 .. 223)
      BY DEF FirstOf899
    <3> QED  BY <1>0, <2>2, <3>1
  <2>4. 16 \div 8 = 2 /\ 16 - 2 = 14  OBVIOUS
  <2> QED  BY <1>2, <2>2, <2>3, <2>4 DEF LengthOfECI
<1> QED  BY <1>1, <1>2
-----------------------------------------------------------------------------
(* The parts of the stream that Encode writes, and where they begin.       *)
TextCall(call) == call \in Inputs /\ call.kind = "text"
ECIOf(call) == ToECI[Charset(call)]

ECIPart(call) ==
  IF NeedsECI(call, ModeOf(call)) THEN Bits(QRModes["ECI"], 4) \o ECIBits(ECIOf(call)) ELSE <<>>
FNC1Part(call) == IF call.gs1 THEN Bits(QRModes["FNC1_FIRST_POSITION"], 4) ELSE <<>>
ModePart(call) == Bits(QRModes[ModeOf(call)], 4)
CountOf(call) == NumLetters(ModeOf(call), Len(call.text))
CountPart(call, v) == Bits(CountOf(call), CharacterCountBits(ModeOf(call), v))
DataPart(call) == DataBits(ModeOf(call), call.text)
StreamBits(call, v) ==
  HeaderBits(call, ModeOf(call)) \o CountPart(call, v) \o DataPart(call)

FNC1At(call) == IF NeedsECI(call, ModeOf(call)) THEN 4 + LengthOfECI(ECIOf(call)) ELSE 0
ModeAt(call) == FNC1At(call) + (IF call.gs1 THEN 4 ELSE 0)
DataAt(call, v) == ModeAt(call) + 4 + CharacterCountBits(ModeOf(call), v)
EndAt(call, v) == DataAt(call, v) + DataBitsLength(ModeOf(call), Len(call.text))

LEMMA ECIIsWritten ==
  ASSUME NEW call, TextCall(call), NeedsECI(call, ModeOf(call))
  PROVE  ECIOf(call) \in WrittenECIs /\ ModeOf(call) = "BYTE"
<1>1. call.charset \in DOMAIN ToECI  BY InputsAssumption DEF TextCall
<1>2. Charset(call) \in {"Shift_JIS", "UTF8", "GB18030", "Binary"}
  BY <1>1 DEF NeedsECI, Charset, ToECI
<1> QED  BY <1>2 DEF ECIOf, ToECI, WrittenECIs, NeedsECI

LEMMA PartsAre ==
  ASSUME NEW call, TextCall(call)
  PROVE  /\ IsBits(ECIPart(call)) /\ Len(ECIPart(call)) = FNC1At(call)
         /\ IsBits(FNC1Part(call)) /\ Len(FNC1Part(call)) = (IF call.gs1 THEN 4 ELSE 0)
         /\ IsBits(ModePart(call)) /\ Len(ModePart(call)) = 4
         /\ FNC1At(call) \in Nat /\ ModeAt(call) \in Nat
         /\ ModeOf(call) \in TextModes
         /\ HeaderBits(call, ModeOf(call)) = (ECIPart(call) \o FNC1Part(call)) \o ModePart(call)
<1> DEFINE mode == ModeOf(call)
           needs == NeedsECI(call, mode)
           e == ECIOf(call)
<1>1. mode \in TextModes  BY TextOf DEF TextCall
<1>2. ASSUME NEW m \in WrittenModes
      PROVE  IsBits(Bits(QRModes[m], 4)) /\ Len(Bits(QRModes[m], 4)) = 4
  <2>1. QRModes[m] \in Nat /\ 4 \in 0 .. 21  BY ModeValues
  <2> QED  BY <2>1, BitsAre
<1>3. IsBits(<<>>) /\ Len(<<>>) = 0  BY DEF IsBits
<1>4. ASSUME needs  PROVE IsBits(ECIPart(call)) /\ Len(ECIPart(call)) = 4 + LengthOfECI(e)
  <2> DEFINE x == Bits(QRModes["ECI"], 4)
             y == ECIBits(e)
  <2>1. IsBits(y) /\ Len(y) = LengthOfECI(e)  BY <1>4, ECIIsWritten, ECIBitsAre
  <2>2. IsBits(x) /\ Len(x) = 4
    <3>1. "ECI" \in WrittenModes  BY DEF WrittenModes
    <3> QED  BY <1>2, <3>1
  <2>3. ECIPart(call) = x \o y  BY <1>4 DEF ECIPart
  <2> HIDE DEF x, y
  <2> QED  BY <2>1, <2>2, <2>3, BitsJoined
<1>5. ASSUME ~needs  PROVE ECIPart(call) = <<>>  BY <1>5 DEF ECIPart
<1>6. IsBits(ECIPart(call)) /\ Len(ECIPart(call)) = FNC1At(call)
  BY <1>3, <1>4, <1>5 DEF FNC1At
<1>7. IsBits(FNC1Part(call)) /\ Len(FNC1Part(call)) = (IF call.gs1 THEN 4 ELSE 0)
  <2>1. "FNC1_FIRST_POSITION" \in WrittenModes  BY DEF WrittenModes
  <2>2. call.gs1 => FNC1Part(call) = Bits(QRModes["FNC1_FIRST_POSITION"], 4)
    BY DEF FNC1Part
  <2>3. ~call.gs1 => FNC1Part(call) = <<>>  BY DEF FNC1Part
  <2> QED  BY <1>2, <1>3, <2>1, <2>2, <2>3
<1>8. IsBits(ModePart(call)) /\ Len(ModePart(call)) = 4
  <2>1. mode \in WrittenModes  BY <1>1 DEF WrittenModes
  <2> QED  BY <1>2, <2>1 DEF ModePart
<1>9. HeaderBits(call, mode) = (ECIPart(call) \o FNC1Part(call)) \o ModePart(call)
  BY Zenon DEF HeaderBits, ECIPart, FNC1Part, ModePart, ECIOf
<1>10. FNC1At(call) \in Nat /\ ModeAt(call) \in Nat
  <2>1. LengthOfECI(e) \in Nat  BY DEF LengthOfECI
  <2>2. FNC1At(call) \in Nat  BY <2>1 DEF FNC1At
  <2> QED  BY <2>2 DEF ModeAt
<1> QED  BY <1>1, <1>6, <1>7, <1>8, <1>9, <1>10

(* A text that Encode accepts, and its count.                              *)
LEMMA TextIsWritable ==
  ASSUME NEW call, TextCall(call), NEW n \in VersionsFor(call, ModeOf(call))
  PROVE  /\ Writable(ModeOf(call), call.text)
         /\ CharacterCountBits(ModeOf(call), Model2Version(n)) \in 8 .. 16
         /\ CountOf(call) \in Nat
         /\ CountOf(call) < 2^CharacterCountBits(ModeOf(call), Model2Version(n))
         /\ NumBytes(ModeOf(call), CountOf(call)) = Len(call.text)
<1> DEFINE mode == ModeOf(call)
           text == call.text
           w == CharacterCountBits(mode, Model2Version(n))
           L == Len(text)
<1>1. /\ text \in Seq(0 .. 255) /\ call.charset \in DOMAIN ToECI
      /\ call.charset = "Shift_JIS" => IsShiftJIS(text)
  BY InputsAssumption DEF TextCall
<1>2. mode \in TextModes /\ L \in Nat  BY <1>1, TextOf DEF TextCall
<1>3. /\ n \in DOMAIN Model2
      /\ mode = "KANJI" => HaveKanjiCodes(text)
      /\ CountOf(call) < 2^w
  BY DEF VersionsFor, Encodable, CountOf
<1>4. mode = "NUMERIC" => \A i \in DOMAIN text : text[i] \in DigitBytes
  BY Zenon DEF ModeOf, ChooseMode
<1>5. mode = "ALPHANUMERIC" => \A i \in DOMAIN text : text[i] \in AlphanumericBytes
  BY DEF ModeOf, ChooseMode
<1>6. mode = "KANJI" => Charset(call) = "Shift_JIS" /\ IsOnlyDoubleByteKanji(text)
  BY DEF ModeOf, ChooseMode
<1>7. Charset(call) = "Shift_JIS" => call.charset = "Shift_JIS"
  BY DEF Charset
<1> HIDE DEF mode, text, w, L
<1>8. DOMAIN text = 1 .. L  BY <1>1 DEF L
<1>9. mode = "KANJI" =>
        /\ L % 2 = 0
        /\ \A i \in 1 .. L \div 2 :
             /\ text[2 * i - 1] \in (129 .. 159) \cup (224 .. 235) /\ text[2 * i] \in 64 .. 252
             /\ HasKanjiCode(text[2 * i - 1], text[2 * i])
  <2> HAVE mode = "KANJI"
  <2>1. IsOnlyDoubleByteKanji(text) /\ IsShiftJIS(text) /\ HaveKanjiCodes(text)
    BY <1>1, <1>3, <1>6, <1>7
  <2>2. /\ L % 2 = 0
        /\ \A i \in 1 .. L \div 2 : text[2 * i - 1] \in (129 .. 159) \cup (224 .. 235)
    BY <2>1, Zenon DEF IsOnlyDoubleByteKanji, L
  <2>3. \A i \in 1 .. L \div 2 : text[2 * i] \in 64 .. 252
    BY <2>1, Zenon DEF IsShiftJIS, L
  <2>4. \A i \in 1 .. L \div 2 : HasKanjiCode(text[2 * i - 1], text[2 * i])
    BY <2>1, Zenon DEF HaveKanjiCodes, L
  <2> QED  BY <2>2, <2>3, <2>4
<1>10. Writable(mode, text)
  BY <1>1, <1>4, <1>5, <1>8, <1>9, Zenon DEF Writable, L
<1>11. w \in 8 .. 16
  <2>1. n \in Nat  BY <1>3, VersionsAssumption
  <2>2. ClassOf(n) \in 1 .. 3  BY <2>1 DEF ClassOf
  <2>3. w = QRCountBits[mode][ClassOf(n)]
    BY <1>2 DEF w, CharacterCountBits, Model2Version, Version, Width, TextModes, QRCountBits
  <2>4. \A i \in 1 .. 3 : QRCountBits[mode][i] \in 8 .. 16
    BY <1>2 DEF TextModes, QRCountBits
  <2> QED  BY <2>2, <2>3, <2>4
<1>12. CountOf(call) \in Nat /\ NumBytes(mode, CountOf(call)) = L
  <2>1. CountOf(call) = NumLetters(mode, L)  BY DEF CountOf, mode, L, text
  <2>2. CASE mode = "KANJI"
    <3>1. L % 2 = 0  BY <1>9, <2>2
    <3>2. L \div 2 \in Nat /\ 2 * (L \div 2) = L  BY <1>2, <3>1
    <3> QED  BY <2>1, <2>2, <3>2 DEF NumLetters, NumBytes
  <2>3. CASE mode # "KANJI"
    <3>1. mode \notin {"KANJI", "HANZI"}  BY <1>2, <2>3 DEF TextModes
    <3> QED  BY <1>2, <2>1, <3>1 DEF NumLetters, NumBytes
  <2> QED  BY <2>2, <2>3
<1> QED  BY <1>3, <1>10, <1>11, <1>12 DEF mode, text, w, L

(* The whole stream: its parts behind one another, and zeros behind them.  *)
Laid(call, v) ==
  /\ At(0, ECIPart(call)) /\ At(FNC1At(call), FNC1Part(call))
  /\ At(ModeAt(call), ModePart(call)) /\ At(ModeAt(call) + 4, CountPart(call, v))
  /\ At(DataAt(call, v), DataPart(call))
  /\ EndAt(call, v) \in 0 .. 8 * Len(bytes) /\ Len(bytes) \in Nat
  /\ \A p \in EndAt(call, v) .. 8 * Len(bytes) - 1 : p < EndAt(call, v) + 4 => BitAt(p) = 0

WrittenAs(call, n, b) ==
  b = TerminateBits(StreamBits(call, Model2Version(n)), 4,
                    NumDataBytes(Model2Version(n), call.level))

LEMMA StreamFits ==
  ASSUME NEW call, TextCall(call), NEW n \in VersionsFor(call, ModeOf(call))
  PROVE  LET v == Model2Version(n)
             b == StreamBits(call, v)
         IN  /\ IsBits(b) /\ Len(b) = EndAt(call, v)
             /\ NumDataBytes(v, call.level) \in Nat
             /\ Len(b) <= 8 * NumDataBytes(v, call.level)
             /\ IsBits(CountPart(call, v)) /\ IsBits(DataPart(call))
             /\ IsBits(HeaderBits(call, ModeOf(call)))
             /\ Len(CountPart(call, v)) = CharacterCountBits(ModeOf(call), v)
             /\ Len(HeaderBits(call, ModeOf(call))) = ModeAt(call) + 4
             /\ Len(DataPart(call)) = DataBitsLength(ModeOf(call), Len(call.text))
<1> DEFINE mode == ModeOf(call)
           v == Model2Version(n)
           h == HeaderBits(call, mode)
           c == CountPart(call, v)
           d == DataPart(call)
           w == CharacterCountBits(mode, v)
           D == DataBitsLength(mode, Len(call.text))
           N == NumDataBytes(v, call.level)
<1>1. /\ Writable(mode, call.text) /\ w \in 8 .. 16 /\ CountOf(call) \in Nat
  BY TextIsWritable
<1>2. /\ IsBits(ECIPart(call)) /\ Len(ECIPart(call)) = FNC1At(call)
      /\ IsBits(FNC1Part(call)) /\ Len(FNC1Part(call)) = (IF call.gs1 THEN 4 ELSE 0)
      /\ IsBits(ModePart(call)) /\ Len(ModePart(call)) = 4
      /\ FNC1At(call) \in Nat /\ ModeAt(call) \in Nat
      /\ mode \in TextModes
      /\ h = (ECIPart(call) \o FNC1Part(call)) \o ModePart(call)
  BY PartsAre
<1>3. IsBits(h) /\ Len(h) = ModeAt(call) + 4
  <2> DEFINE x == ECIPart(call) \o FNC1Part(call)
  <2>1. IsBits(x) /\ Len(x) = ModeAt(call)
    <3>1. IsBits(x) /\ Len(x) = Len(ECIPart(call)) + Len(FNC1Part(call))
      BY <1>2, BitsJoined
    <3> HIDE DEF x
    <3> QED  BY <1>2, <3>1 DEF ModeAt
  <2> HIDE DEF x, h
  <2>2. h = x \o ModePart(call)  BY <1>2 DEF x
  <2> QED  BY <1>2, <2>1, <2>2, BitsJoined
<1>4. IsBits(c) /\ Len(c) = w
  <2>1. w \in 0 .. 21  BY <1>1
  <2>2. c = Bits(CountOf(call), w)  BY DEF CountPart
  <2> HIDE DEF c, w
  <2> QED  BY <1>1, <2>1, <2>2, BitsAre
<1>5. IsBits(d) /\ Len(d) = D
  <2> HIDE DEF mode
  <2>1. IsBits(DataBits(mode, call.text)) /\ Len(DataBits(mode, call.text)) = D
    BY <1>1, <1>2, DataBitsAre
  <2> QED  BY <2>1 DEF DataPart, mode
<1>6. D \in Nat
  <2>1. Len(d) \in Nat  BY <1>5 DEF IsBits
  <2> QED  BY <1>5, <2>1
<1>7. n \in DOMAIN Model2 /\ HasRoom(HeaderAndDataLength(call, mode), mode, call.level, n)
  <2>1. n \in DOMAIN Model2 /\ IsVersionFor(call, mode, n)  BY DEF VersionsFor, Encodable
  <2>2. CASE call.version \in DOMAIN Model2
    BY <2>1, <2>2 DEF IsVersionFor
  <2>3. CASE call.version \notin DOMAIN Model2
    <3> DEFINE bits == HeaderAndDataLength(call, mode)
    <3>1. RecommendedVersion(bits, mode, call.level, n)  BY <2>1, <2>3 DEF IsVersionFor
    <3>2. bits \in Nat /\ call.level \in Level  BY TextOf DEF TextCall
    <3> HIDE DEF bits, mode
    <3>3. SmallestWithRoom(bits, mode, call.level, n)
      BY <1>2, <3>1, <3>2, RecommendedIsSmallest
    <3> QED  BY <2>1, <3>3 DEF SmallestWithRoom, bits
  <2> QED  BY <2>2, <2>3
<1>8. N >= (((ModeAt(call) + 4) + D) + w + 7) \div 8
  <2>1. HeaderAndDataLength(call, mode) = (ModeAt(call) + 4) + D
    BY <1>3 DEF HeaderAndDataLength
  <2>2. WillFit(HeaderAndDataLength(call, mode) + w, v, call.level)
    BY <1>7 DEF HasRoom, Fits, BitsNeeded
  <2> HIDE DEF mode, v, w, D
  <2> QED  BY <2>1, <2>2 DEF WillFit
<1>9. N \in Nat
  <2>1. call.level \in Level  BY TextOf DEF TextCall
  <2>2. Capacity(call.level, n) \in Nat  BY <1>7, <2>1, CapacityGrows
  <2> QED  BY <2>2 DEF Capacity
<1>10. EndAt(call, v) = ((ModeAt(call) + 4) + w) + D  BY DEF EndAt, DataAt
<1> DEFINE b == StreamBits(call, v)
<1>11. b = (h \o c) \o d  BY DEF StreamBits
<1> HIDE DEF mode, v, h, c, d, w, D, N, b
<1>12. IsBits(b) /\ Len(b) = ((ModeAt(call) + 4) + w) + D
  <2> DEFINE x == h \o c
  <2>1. IsBits(x) /\ Len(x) = (ModeAt(call) + 4) + w  BY <1>3, <1>4, BitsJoined
  <2> HIDE DEF x
  <2>2. b = x \o d  BY <1>11 DEF x
  <2> QED  BY <1>5, <2>1, <2>2, BitsJoined
<1>13. Len(b) <= 8 * N
  <2> DEFINE m == ModeAt(call)
  <2>1. m \in Nat /\ w \in Nat /\ Len(b) = ((m + 4) + w) + D /\ N >= (((m + 4) + D) + w + 7) \div 8
    BY <1>1, <1>2, <1>8, <1>12
  <2> HIDE DEF m
  <2> QED  BY <1>6, <1>9, <2>1
<1> QED  BY <1>3, <1>4, <1>5, <1>9, <1>10, <1>12, <1>13 DEF mode, v, h, c, d, w, D, N, b

LEMMA StreamIsLaid ==
  ASSUME NEW call, TextCall(call), NEW n \in VersionsFor(call, ModeOf(call)),
         WrittenAs(call, n, bytes)
  PROVE  Laid(call, Model2Version(n)) /\ bytes \in Seq(0 .. 255)
         /\ Len(bytes) = NumDataBytes(Model2Version(n), call.level)
<1> DEFINE v == Model2Version(n)
           N == NumDataBytes(v, call.level)
           b == StreamBits(call, v)
           h == HeaderBits(call, ModeOf(call))
           c == CountPart(call, v)
           d == DataPart(call)
           x == ECIPart(call)
           y == FNC1Part(call)
           z == ModePart(call)
<1>1. /\ IsBits(b) /\ Len(b) = EndAt(call, v) /\ N \in Nat /\ Len(b) <= 8 * N
      /\ IsBits(c) /\ IsBits(d) /\ IsBits(h)
      /\ Len(c) = CharacterCountBits(ModeOf(call), v) /\ Len(h) = ModeAt(call) + 4
  BY StreamFits
<1>2. /\ IsBits(x) /\ Len(x) = FNC1At(call)
      /\ IsBits(y) /\ Len(y) = (IF call.gs1 THEN 4 ELSE 0)
      /\ IsBits(z) /\ Len(z) = 4
      /\ FNC1At(call) \in Nat /\ ModeAt(call) \in Nat
      /\ h = (x \o y) \o z
  BY PartsAre
<1>3. b = (h \o c) \o d  BY DEF StreamBits
<1>4. bytes = TerminateBits(b, 4, N)  BY Zenon DEF WrittenAs
<1> HIDE DEF N, b, h, c, d, x, y, z
<1>5. /\ bytes \in Seq(0 .. 255) /\ Len(bytes) = N /\ At(0, b)
      /\ \A p \in Len(b) .. 8 * N - 1 : p < Len(b) + 4 => BitAt(p) = 0
  BY <1>1, <1>4, Terminated
<1>6. Len(bytes) \in Nat  BY <1>1, <1>5
<1> DEFINE hc == h \o c
           xy == x \o y
<1>7. IsBits(hc) /\ Len(hc) = Len(h) + Len(c)  BY <1>1, BitsJoined
<1>8. IsBits(xy) /\ Len(xy) = Len(x) + Len(y)  BY <1>2, BitsJoined
<1>9. b = hc \o d /\ hc = h \o c /\ h = xy \o z /\ xy = x \o y  BY <1>2, <1>3
<1> HIDE DEF hc, xy
<1>10. At(0, hc) /\ At(0 + Len(hc), d)
  <2>1. At(0, hc \o d)  BY <1>5, <1>9
  <2> QED  BY <1>1, <1>6, <1>7, <2>1, AtParts
<1>11. At(0, h) /\ At(0 + Len(h), c)
  <2>1. At(0, h \o c)  BY <1>9, <1>10
  <2> QED  BY <1>1, <1>6, <2>1, AtParts
<1>12. At(0, xy) /\ At(0 + Len(xy), z)
  <2>1. At(0, xy \o z)  BY <1>9, <1>11
  <2> QED  BY <1>2, <1>6, <1>8, <2>1, AtParts
<1>13. At(0, x) /\ At(0 + Len(x), y)
  <2>1. At(0, x \o y)  BY <1>9, <1>12
  <2> QED  BY <1>2, <1>6, <2>1, AtParts
<1>14. /\ 0 + Len(x) = FNC1At(call)
       /\ 0 + Len(xy) = ModeAt(call)
       /\ 0 + Len(h) = ModeAt(call) + 4
  BY <1>1, <1>2, <1>8 DEF ModeAt
<1>15. 0 + Len(hc) = DataAt(call, v)
  <2>1. Len(c) \in Nat  BY <1>1 DEF IsBits
  <2> QED  BY <1>1, <1>2, <1>7, <2>1 DEF DataAt
<1>16. EndAt(call, v) \in 0 .. 8 * Len(bytes)
  <2>1. Len(b) \in Nat  BY <1>1 DEF IsBits
  <2> QED  BY <1>1, <1>5, <2>1
<1>17. /\ At(0, x) /\ At(FNC1At(call), y) /\ At(ModeAt(call), z)
       /\ At(ModeAt(call) + 4, c) /\ At(DataAt(call, v), d)
  BY <1>10, <1>11, <1>12, <1>13, <1>14, <1>15, Zenon
<1>18. Laid(call, v)
  BY <1>1, <1>5, <1>6, <1>16, <1>17, Zenon DEF Laid, x, y, z, c, d
<1> QED  BY <1>5, <1>18 DEF N
-----------------------------------------------------------------------------
(* The steps of DecodeBitStream through that stream.                       *)
ECIContent(call) ==
  IF NeedsECI(call, ModeOf(call)) THEN C!SwitchEncoding(C!Empty, ECIOf(call), TRUE) ELSE C!Empty
FlagOf(call) == IF call.gs1 THEN "GS1" ELSE None
TextSaid(call) ==
  IF ModeOf(call) = "ALPHANUMERIC" /\ FlagOf(call) # None
    THEN UndoublePercents(call.text) ELSE call.text
FullContent(call) ==
  Added(C!SwitchEncoding(ECIContent(call), ToECI[CharacterSetOf[ModeOf(call)]], FALSE),
        TextSaid(call))

BeforeECI(call, p, c, flag) ==
  NeedsECI(call, ModeOf(call)) /\ p = 0 /\ c = C!Empty /\ flag = None
BeforeFNC1(call, p, c, flag) ==
  call.gs1 /\ p = FNC1At(call) /\ c = ECIContent(call) /\ flag = None
BeforeText(call, p, c, flag) ==
  p = ModeAt(call) /\ c = ECIContent(call) /\ flag = FlagOf(call)
BehindText(call, v, p, c, flag) ==
  p = EndAt(call, v) /\ c = FullContent(call) /\ flag = FlagOf(call)
Stage(call, v, p, c, flag) ==
  \/ BeforeECI(call, p, c, flag) \/ BeforeFNC1(call, p, c, flag)
  \/ BeforeText(call, p, c, flag) \/ BehindText(call, v, p, c, flag)

(* The mode that is read decides which action is taken.                    *)
LEMMA OnlyAction ==
  ASSUME pc = "stream", ~IsEndOfStream, NEW mode, Modes = {mode}, Next
  PROVE  /\ mode = "ECI" => ReadECI
         /\ mode = "FNC1_FIRST_POSITION" => ReadFNC1First
         /\ mode \in TextModes => ReadSegment(mode)
<1>1. ~Encode /\ ~PrintSymbol /\ ~CorrectErrors /\ ~Returned
  BY Zenon DEF Encode, PrintSymbol, CorrectErrors, Returned
<1>2. ~EndOfStream /\ ~InvalidMode
  <2>1. Modes # {}  OBVIOUS
  <2> QED  BY <2>1, Zenon DEF EndOfStream, InvalidMode
<1>3. \A m : Reading(m) => m = mode  BY Zenon DEF Reading
<1>4. /\ ReadFNC1First => mode = "FNC1_FIRST_POSITION"
      /\ ReadFNC1Second => mode = "FNC1_SECOND_POSITION"
      /\ ReadStructuredAppend => mode = "STRUCTURED_APPEND"
      /\ ReadECI => mode = "ECI"
      /\ ReadHanzi => mode = "HANZI"
  BY <1>3, Zenon DEF ReadFNC1First, ReadFNC1Second, ReadStructuredAppend, ReadECI, ReadHanzi
<1>5. \A m : ReadSegment(m) => m = mode  BY <1>3, Zenon DEF ReadSegment
<1>6. \/ ReadFNC1First \/ ReadFNC1Second \/ ReadStructuredAppend \/ ReadECI \/ ReadHanzi
      \/ \E m \in {"NUMERIC", "ALPHANUMERIC", "BYTE", "KANJI"} : ReadSegment(m)
  BY <1>1, <1>2, Zenon DEF Next
<1>7. TextModes = {"NUMERIC", "ALPHANUMERIC", "BYTE", "KANJI"}  BY DEF TextModes
<1>8. \/ ReadFNC1First /\ mode = "FNC1_FIRST_POSITION"
      \/ mode = "FNC1_SECOND_POSITION" \/ mode = "STRUCTURED_APPEND"
      \/ ReadECI /\ mode = "ECI"
      \/ mode = "HANZI"
      \/ ReadSegment(mode) /\ mode \in TextModes
  BY <1>4, <1>5, <1>6, <1>7, Zenon
<1> QED  BY <1>7, <1>8

(* What is common to the states in which the stream is read.               *)
Decoding(call, n) ==
  /\ TextCall(call) /\ n \in VersionsFor(call, ModeOf(call))
  /\ input = call /\ symbol = Model2Version(n) /\ WrittenAs(call, n, bytes)

LEMMA DecodingIs ==
  ASSUME NEW call, NEW n, Decoding(call, n)
  PROVE  Laid(call, symbol) /\ symbol.type = "Model2" /\ Len(bytes) \in Nat
<1>1. Laid(call, symbol)  BY StreamIsLaid DEF Decoding
<1>2. symbol.type = "Model2"  BY DEF Decoding, Model2Version, Version
<1> QED  BY <1>1, <1>2, Zenon DEF Laid

LEMMA ECIStep ==
  ASSUME NEW call, NEW n, Decoding(call, n), pc = "stream",
         BeforeECI(call, pos, content, symbology.aiFlag), Next
  PROVE  /\ Stage(call, symbol, pos', content', symbology'.aiFlag) /\ pc' = pc
         /\ UNCHANGED <<printed, error, structuredAppend>>
<1> DEFINE e == ECIOf(call)
<1>1. Laid(call, symbol) /\ symbol.type = "Model2" /\ Len(bytes) \in Nat
  BY DecodingIs
<1>2. TextCall(call) /\ NeedsECI(call, ModeOf(call)) /\ pos = 0 /\ content = C!Empty
      /\ symbology.aiFlag = None
  BY Zenon DEF Decoding, BeforeECI
<1>3. e \in WrittenECIs  BY <1>2, ECIIsWritten
<1> DEFINE x == Bits(QRModes["ECI"], 4)
           y == ECIBits(e)
<1>4. At(0, x \o y)  BY <1>1, <1>2, Zenon DEF Laid, ECIPart
<1>5. "ECI" \in WrittenModes  BY DEF WrittenModes
<1>6. IsBits(x) /\ Len(x) = 4
  <2>1. QRModes["ECI"] \in Nat /\ 4 \in 0 .. 21  BY <1>5, ModeValues
  <2> QED  BY <2>1, BitsAre
<1>7. IsBits(y)  BY <1>3, ECIBitsAre
<1>8. At(0, x) /\ At(4, y)
  <2> HIDE DEF x, y
  <2>1. At(0, x) /\ At(0 + Len(x), y)  BY <1>1, <1>4, <1>6, <1>7, AtParts
  <2>2. 0 + Len(x) = 4  BY <1>6
  <2> QED  BY <2>1, <2>2
<1>9. ~IsEndOfStream /\ Modes = {"ECI"} /\ Start = 4
  <2>1. At(pos, x)  BY <1>2, <1>8
  <2>2. ~IsEndOfStream /\ Modes = {"ECI"} /\ Start = pos + 4  BY <1>1, <1>5, <2>1, ModeRead
  <2> QED  BY <1>2, <2>2
<1>10. ReadECI  BY <1>9, OnlyAction
<1> HIDE DEF e, x
<1>11. /\ CanRead(Start, 8) /\ CanRead(Start, ECILength) /\ ECILength = LengthOfECI(e)
       /\ Peek(Start + (ECILength \div 8), ECILength - (ECILength \div 8)) = e
  <2>1. At(Start, ECIBits(e))  BY <1>8, <1>9
  <2> QED  BY <1>1, <1>3, <2>1, ECIRead
<1>12. /\ content' = C!SwitchEncoding(content, e, TRUE) /\ pos' = Start + ECILength
       /\ Stay /\ UNCHANGED <<symbology, structuredAppend>>
  BY <1>1, <1>10, <1>11 DEF ReadECI
<1>13. pos' = FNC1At(call)
  BY <1>2, <1>9, <1>11, <1>12 DEF FNC1At, e
<1>14. content' = ECIContent(call)
  BY <1>2, <1>12, Zenon DEF ECIContent, e
<1>15. symbology'.aiFlag = None  BY <1>2, <1>12
<1>16. CASE call.gs1
  <2>1. BeforeFNC1(call, pos', content', symbology'.aiFlag)
    BY <1>13, <1>14, <1>15, <1>16, Zenon DEF BeforeFNC1
  <2> QED  BY <1>12, <2>1, Zenon DEF Stage, Stay
<1>17. CASE ~call.gs1
  <2>1. ModeAt(call) = FNC1At(call)
    <3>1. FNC1At(call) \in Nat  BY <1>2, PartsAre
    <3> QED  BY <1>17, <3>1 DEF ModeAt
  <2>2. BeforeText(call, pos', content', symbology'.aiFlag)
    BY <1>13, <1>14, <1>15, <1>17, <2>1, Zenon DEF BeforeText, FlagOf
  <2> QED  BY <1>12, <2>2, Zenon DEF Stage, Stay
<1> QED  BY <1>16, <1>17

LEMMA FNC1Step ==
  ASSUME NEW call, NEW n, Decoding(call, n), pc = "stream",
         BeforeFNC1(call, pos, content, symbology.aiFlag), Next
  PROVE  /\ Stage(call, symbol, pos', content', symbology'.aiFlag) /\ pc' = pc
         /\ UNCHANGED <<printed, error, structuredAppend>>
<1>1. Laid(call, symbol) /\ symbol.type = "Model2" /\ Len(bytes) \in Nat
  BY DecodingIs
<1>2. TextCall(call) /\ call.gs1 /\ pos = FNC1At(call) /\ content = ECIContent(call)
  BY Zenon DEF Decoding, BeforeFNC1
<1>3. At(pos, Bits(QRModes["FNC1_FIRST_POSITION"], 4))
  BY <1>1, <1>2, Zenon DEF Laid, FNC1Part
<1>4. "FNC1_FIRST_POSITION" \in WrittenModes  BY DEF WrittenModes
<1>5. ~IsEndOfStream /\ Modes = {"FNC1_FIRST_POSITION"} /\ Start = pos + 4
  BY <1>1, <1>3, <1>4, ModeRead
<1>6. ReadFNC1First  BY <1>5, OnlyAction
<1>7. /\ pos' = Start /\ symbology' = [modifier |-> 3, aiFlag |-> "GS1"]
      /\ Stay /\ UNCHANGED <<content, structuredAppend>>
  BY <1>6, Zenon DEF ReadFNC1First
<1>8. pos' = ModeAt(call)  BY <1>2, <1>5, <1>7 DEF ModeAt
<1>9. symbology'.aiFlag = FlagOf(call)
  <2>1. symbology'.aiFlag = "GS1"  BY <1>7
  <2> QED  BY <1>2, <2>1, Zenon DEF FlagOf
<1>10. BeforeText(call, pos', content', symbology'.aiFlag)
  BY <1>2, <1>7, <1>8, <1>9, Zenon DEF BeforeText
<1> QED  BY <1>7, <1>10, Zenon DEF Stage, Stay

LEMMA TextStep ==
  ASSUME NEW call, NEW n, Decoding(call, n), pc = "stream",
         BeforeText(call, pos, content, symbology.aiFlag), Next
  PROVE  /\ Stage(call, symbol, pos', content', symbology'.aiFlag) /\ pc' = pc
         /\ UNCHANGED <<printed, error, structuredAppend>>
<1> DEFINE mode == ModeOf(call)
           w == CharacterCountBits(mode, symbol)
           L == Len(call.text)
<1>1. Laid(call, symbol) /\ symbol.type = "Model2" /\ Len(bytes) \in Nat
  BY DecodingIs
<1>2. /\ TextCall(call) /\ n \in VersionsFor(call, mode) /\ symbol = Model2Version(n)
      /\ pos = ModeAt(call) /\ content = ECIContent(call) /\ symbology.aiFlag = FlagOf(call)
  BY Zenon DEF Decoding, BeforeText
<1>3. /\ Writable(mode, call.text) /\ w \in 8 .. 16 /\ CountOf(call) \in Nat
      /\ CountOf(call) < 2^w /\ NumBytes(mode, CountOf(call)) = L
  BY <1>2, TextIsWritable
<1>4. mode \in TextModes /\ ModeAt(call) \in Nat  BY <1>2, PartsAre
<1>5. /\ At(pos, Bits(QRModes[mode], 4)) /\ At(pos + 4, Bits(CountOf(call), w))
      /\ At(DataAt(call, symbol), DataBits(mode, call.text))
  BY <1>1, <1>2, Zenon DEF Laid, ModePart, CountPart, DataPart
<1> HIDE DEF mode, w, L
<1>6. ~IsEndOfStream /\ Modes = {mode} /\ Start = pos + 4
  <2>1. mode \in WrittenModes  BY <1>4 DEF WrittenModes
  <2> QED  BY <1>1, <1>5, <2>1, ModeRead
<1>7. ReadSegment(mode)  BY <1>4, <1>6, OnlyAction
<1>8. ReadCounted(mode, Start, w) /\ UNCHANGED <<symbology, structuredAppend>>
  BY <1>7, Zenon DEF ReadSegment, w
<1>9. CanRead(Start, w) /\ Peek(Start, w) = CountOf(call)
  <2>1. w \in 1 .. 21  BY <1>3
  <2>2. At(Start, Bits(CountOf(call), w))  BY <1>5, <1>6
  <2> QED  BY <1>1, <1>3, <2>1, <2>2, ReadBits
<1>10. Start + w = DataAt(call, symbol)
  BY <1>2, <1>3, <1>4, <1>6 DEF DataAt, w, mode
<1>11. Unreadable(mode, Start + w, L) = {} /\ TextAt(mode, Start + w, L, L) = call.text
  <2>1. At(Start + w, DataBits(mode, call.text))  BY <1>5, <1>10
  <2> QED  BY <1>1, <1>3, <1>4, <2>1, DataRead DEF L
<1>12. ReadGroups(mode, Start + w, L, {})
  BY <1>3, <1>8, <1>9, <1>11 DEF ReadCounted
<1>13. /\ content' = AfterSegment(mode, call.text)
       /\ pos' = Start + w + DataBitsLength(mode, L) /\ Stay
  BY <1>11, <1>12 DEF ReadGroups
<1>14. content' = FullContent(call)
  BY <1>2, <1>13, Zenon DEF AfterSegment, FullContent, TextSaid, mode
<1>15. pos' = EndAt(call, symbol)
  BY <1>10, <1>13 DEF EndAt, mode, L
<1>16. BehindText(call, symbol, pos', content', symbology'.aiFlag)
  BY <1>2, <1>8, <1>14, <1>15, Zenon DEF BehindText
<1> QED  BY <1>8, <1>13, <1>16, Zenon DEF Stage, Stay

LEMMA EndStep ==
  ASSUME NEW call, NEW n, Decoding(call, n), pc = "stream",
         BehindText(call, symbol, pos, content, symbology.aiFlag), Next
  PROVE  pc' = "done" /\ UNCHANGED <<printed, pos, content, symbology, structuredAppend, error>>
<1>1. Laid(call, symbol) /\ symbol.type = "Model2" /\ Len(bytes) \in Nat
  BY DecodingIs
<1>2. IsEndOfStream
  <2>1. pos = EndAt(call, symbol)  BY DEF BehindText
  <2>2. /\ pos \in 0 .. 8 * Len(bytes)
        /\ \A p \in pos .. 8 * Len(bytes) - 1 : p < pos + 4 => BitAt(p) = 0
    BY <1>1, <2>1, Zenon DEF Laid
  <2> QED  BY <1>1, <2>2, EndRead
<1>3. ~Encode /\ ~PrintSymbol /\ ~CorrectErrors /\ ~Returned
  BY Zenon DEF Encode, PrintSymbol, CorrectErrors, Returned
<1>4. \A m : ~Reading(m)  BY <1>2, Zenon DEF Reading
<1>5. ~ReadFNC1First /\ ~ReadFNC1Second /\ ~ReadStructuredAppend /\ ~ReadECI /\ ~ReadHanzi
      /\ (\A m : ~ReadSegment(m)) /\ ~InvalidMode
  BY <1>2, <1>4, Zenon DEF ReadFNC1First, ReadFNC1Second, ReadStructuredAppend, ReadECI, ReadHanzi,
                     ReadSegment, InvalidMode
<1>6. EndOfStream  BY <1>3, <1>5, Zenon DEF Next
<1> QED  BY <1>6, Zenon DEF EndOfStream
-----------------------------------------------------------------------------
(* What a text means, and what is read of it.                              *)
(* Without a percent sign there is nothing to undouble.                    *)
LEMMA Longer ==
  ASSUME NEW T, NEW s \in Seq(T), NEW i \in 1 .. Len(s)
  PROVE  SubSeq(s, 1, i) = Append(SubSeq(s, 1, i - 1), s[i])
<1> DEFINE x == SubSeq(s, 1, i)
           y == SubSeq(s, 1, i - 1)
           z == Append(y, s[i])
<1>1. Len(s) \in Nat /\ s[i] \in T  OBVIOUS
<1>2. x \in Seq(T) /\ Len(x) = i /\ \A k \in 1 .. i : x[k] = s[k]
  <2>1. 1 \in 1 .. Len(s) + 1 /\ i \in 1 - 1 .. Len(s)  BY <1>1
  <2> QED  BY <1>1, <2>1, SubSeqProperties
<1>3. y \in Seq(T) /\ Len(y) = i - 1 /\ \A k \in 1 .. i - 1 : y[k] = s[k]
  <2>1. 1 \in 1 .. Len(s) + 1 /\ i - 1 \in 1 - 1 .. Len(s)  BY <1>1
  <2> QED  BY <1>1, <2>1, SubSeqProperties
<1> HIDE DEF x, y
<1>4. z \in Seq(T) /\ Len(z) = i /\ z[i] = s[i] /\ \A k \in 1 .. i - 1 : z[k] = y[k]
  <2>1. Len(y) + 1 = i  BY <1>1, <1>3
  <2> QED  BY <1>1, <1>3, <2>1, AppendProperties
<1> HIDE DEF z
<1>5. \A k \in 1 .. i : x[k] = z[k]
  <2> TAKE k \in 1 .. i
  <2>1. k = i \/ k \in 1 .. i - 1  OBVIOUS
  <2> QED  BY <1>2, <1>3, <1>4, <2>1
<1>6. x = z  BY <1>2, <1>4, <1>5, SeqEqual
<1> QED  BY <1>6 DEF x, y, z

LEMMA NothingUndoubled ==
  ASSUME NEW T, NEW s \in Seq(T), \A i \in 1 .. Len(s) : s[i] # Percent
  PROVE  UndoublePercents(s) = s
<1> DEFINE L == Len(s)
           Runs(f) == f = [i \in 0 .. L |-> IF i = 0 THEN 0
                                            ELSE IF s[i] = Percent THEN f[i - 1] + 1 ELSE 0]
           run == CHOOSE f : Runs(f)
           Keeps(f) == f = [i \in 0 .. L |->
                              IF i = 0 THEN <<>>
                              ELSE IF run[i] % 2 = 0 THEN Append(f[i - 1], s[i])
                              ELSE IF i < L /\ s[i + 1] = Percent THEN f[i - 1]
                              ELSE Append(f[i - 1], GS)]
           kept == CHOOSE f : Keeps(f)
<1>1. UndoublePercents(s) = kept[L]  BY Zenon DEF UndoublePercents
<1>2. L \in Nat  OBVIOUS
<1>3. \A i \in 0 .. L : run[i] = 0
  <2> DEFINE g == [i \in 0 .. L |-> 0]
  <2>1. Runs(g)
    <3>1. \A i \in 0 .. L : i # 0 => i \in 1 .. L  BY <1>2
    <3> QED  BY <3>1
  <2>2. Runs(run)  BY <2>1, Zenon
  <2> HIDE DEF run
  <2> TAKE i \in 0 .. L
  <2>3. i # 0 => i \in 1 .. L  BY <1>2
  <2> QED  BY <2>2, <2>3
<1> HIDE DEF run
<1> DEFINE p == [i \in 0 .. L |-> SubSeq(s, 1, i)]
<1>4. \A f : Keeps(f) <=> f = [i \in 0 .. L |-> IF i = 0 THEN <<>> ELSE Append(f[i - 1], s[i])]
  <2> TAKE f
  <2>1. 0 % 2 = 0  OBVIOUS
  <2>2. \A i \in 0 .. L :
          (IF i = 0 THEN <<>>
           ELSE IF run[i] % 2 = 0 THEN Append(f[i - 1], s[i])
           ELSE IF i < L /\ s[i + 1] = Percent THEN f[i - 1]
           ELSE Append(f[i - 1], GS))
          = IF i = 0 THEN <<>> ELSE Append(f[i - 1], s[i])
    BY <1>3, <2>1, Zenon
  <2> HIDE DEF L
  <2> QED  BY <2>2, Zenon
<1>5. Keeps(p)
  <2>1. ASSUME NEW i \in 0 .. L
        PROVE  p[i] = IF i = 0 THEN <<>> ELSE Append(p[i - 1], s[i])
    <3>1. CASE i = 0
      <4>1. SubSeq(s, 1, 0) = <<>>  OBVIOUS
      <4> QED  BY <3>1, <4>1
    <3>2. CASE i # 0
      <4>1. i \in 1 .. L /\ i - 1 \in 0 .. L  BY <1>2, <3>2
      <4>2. SubSeq(s, 1, i) = Append(SubSeq(s, 1, i - 1), s[i])  BY <4>1, Longer
      <4> QED  BY <3>2, <4>1, <4>2
    <3> QED  BY <3>1, <3>2
  <2>2. p = [i \in 0 .. L |-> IF i = 0 THEN <<>> ELSE Append(p[i - 1], s[i])]
    <3>1. p = [i \in 0 .. L |-> p[i]]  OBVIOUS
    <3> HIDE DEF p, L
    <3> QED  BY <2>1, <3>1
  <2> HIDE DEF Keeps
  <2> QED  BY <1>4, <2>2
<1>6. kept = [i \in 0 .. L |-> IF i = 0 THEN <<>> ELSE Append(kept[i - 1], s[i])]
  <2>1. Keeps(kept)
    <3> HIDE DEF Keeps
    <3> QED  BY <1>5, Zenon
  <2> HIDE DEF Keeps, kept
  <2> QED  BY <1>4, <2>1
<1> HIDE DEF kept, Keeps
<1> DEFINE S == {i \in 0 .. L : kept[i] = SubSeq(s, 1, i)}
<1>7. 0 \in S
  <2>1. 0 \in 0 .. L /\ SubSeq(s, 1, 0) = <<>>  OBVIOUS
  <2> HIDE DEF L
  <2>2. kept[0] = <<>>  BY <1>6, <2>1
  <2> QED  BY <2>1, <2>2
<1>8. ASSUME NEW i \in 0 .. L - 1, i \in S  PROVE i + 1 \in S
  <2>1. i + 1 \in 0 .. L /\ i + 1 # 0 /\ (i + 1) - 1 = i /\ i + 1 \in 1 .. L  BY <1>2
  <2>2. SubSeq(s, 1, i + 1) = Append(SubSeq(s, 1, i), s[i + 1])
    <3>1. SubSeq(s, 1, i + 1) = Append(SubSeq(s, 1, (i + 1) - 1), s[i + 1])
      BY <2>1, Longer
    <3> QED  BY <2>1, <3>1
  <2>3. kept[i] = SubSeq(s, 1, i)  BY <1>8
  <2> HIDE DEF L
  <2>4. kept[i + 1] = Append(kept[i], s[i + 1])  BY <1>6, <2>1
  <2> QED  BY <2>1, <2>2, <2>3, <2>4
<1> HIDE DEF S
<1>9. kept[L] = SubSeq(s, 1, L)
  <2>1. \A i \in 0 .. L : i \in S  BY <1>2, <1>7, <1>8, Induct
  <2>2. L \in S  BY <1>2, <2>1
  <2> QED  BY <2>2 DEF S
<1>10. SubSeq(s, 1, L) = s
  <2> DEFINE x == SubSeq(s, 1, L)
  <2>1. x \in Seq(T) /\ Len(x) = L /\ \A k \in 1 .. L : x[k] = s[k]
    <3>1. 1 \in 1 .. L + 1 /\ L \in 1 - 1 .. L  BY <1>2
    <3> QED  BY <3>1, SubSeqProperties
  <2> HIDE DEF x
  <2>2. x = s  BY <2>1, SeqEqual
  <2> QED  BY <2>2 DEF x
<1> QED  BY <1>1, <1>9, <1>10

(* The Content that is read of a text without percent signs.               *)
MarkOfText(call) ==
  IF NeedsECI(call, ModeOf(call)) THEN ECIOf(call) ELSE ToECI[CharacterSetOf[ModeOf(call)]]
PercentIn(call) == call.gs1 /\ \E i \in DOMAIN call.text : call.text[i] = Percent
StreamOfText(call) ==
  [text |-> [i \in DOMAIN call.text |-> <<call.text[i], MarkOfText(call)>>],
   current |-> MarkOfText(call), eci |-> NeedsECI(call, ModeOf(call))]

LEMMA FullContentIs ==
  ASSUME NEW call, TextCall(call), ~PercentIn(call)
  PROVE  FullContent(call)
           = [bytes |-> call.text, encodings |-> <<[eci |-> MarkOfText(call), pos |-> 0]>>,
              hasECI |-> NeedsECI(call, ModeOf(call))]
<1> DEFINE needs == NeedsECI(call, ModeOf(call))
           x == ToECI[CharacterSetOf[ModeOf(call)]]
           m == MarkOfText(call)
           text == call.text
<1>1. text \in Seq(0 .. 255) /\ call.gs1 \in BOOLEAN  BY InputsAssumption DEF TextCall
<1>2. TextSaid(call) = text
  <2>1. CASE ModeOf(call) = "ALPHANUMERIC" /\ FlagOf(call) # None
    <3>1. call.gs1  BY <2>1 DEF FlagOf
    <3>2. \A i \in 1 .. Len(text) : text[i] # Percent  BY <1>1, <3>1 DEF PercentIn
    <3> DEFINE B == 0 .. 255
    <3>3. text \in Seq(B)  BY <1>1
    <3> HIDE DEF B, text
    <3>4. UndoublePercents(text) = text  BY <3>2, <3>3, NothingUndoubled
    <3> QED  BY <2>1, <3>4, Zenon DEF TextSaid, text
  <2>2. CASE ~(ModeOf(call) = "ALPHANUMERIC" /\ FlagOf(call) # None)
    BY <2>2, Zenon DEF TextSaid
  <2> QED  BY <2>1, <2>2
<1>3. FullContent(call) = Added(C!SwitchEncoding(ECIContent(call), x, FALSE), text)
  BY <1>2, Zenon DEF FullContent
<1>4. <<>> \o text = text  BY <1>1
<1>5. \A r : Append(<<>>, r) = <<r>>  OBVIOUS
<1>6. Len(<<>>) = 0  OBVIOUS
<1>7. CASE needs
  <2>1. m = ECIOf(call)  BY <1>7 DEF MarkOfText
  <2>2. ECIContent(call) = C!SwitchEncoding(C!Empty, ECIOf(call), TRUE)
    BY <1>7, Zenon DEF ECIContent
  <2> DEFINE c == [bytes |-> <<>>, encodings |-> <<[eci |-> m, pos |-> 0]>>, hasECI |-> TRUE]
  <2> HIDE DEF m, x
  <2>3. C!SwitchEncoding(C!Empty, m, TRUE) = c
    BY <1>5, <1>6 DEF C!SwitchEncoding, C!Empty
  <2>4. C!SwitchEncoding(c, x, FALSE) = c  BY DEF C!SwitchEncoding
  <2>5. Added(c, text)
          = [bytes |-> <<>> \o text, encodings |-> <<[eci |-> m, pos |-> 0]>>, hasECI |-> TRUE]
    <3> DEFINE b == <<>>
               d == b \o text
               l == <<[eci |-> m, pos |-> 0]>>
    <3>1. Added(c, text) = [c EXCEPT !.bytes = d]  BY Zenon DEF Added
    <3>2. c = [bytes |-> b, encodings |-> l, hasECI |-> TRUE]  OBVIOUS
    <3> HIDE DEF b, d, l, c
    <3>3. Added(c, text) = [bytes |-> d, encodings |-> l, hasECI |-> TRUE]  BY <3>1, <3>2
    <3> QED  BY <3>3 DEF b, d, l
  <2>6. FullContent(call) = Added(c, text)  BY <1>3, <2>1, <2>2, <2>3, <2>4
  <2> QED  BY <1>4, <1>7, <2>5, <2>6 DEF m
<1>8. CASE ~needs
  <2>1. m = x  BY <1>8 DEF MarkOfText
  <2>2. ECIContent(call) = C!Empty  BY <1>8, Zenon DEF ECIContent
  <2> DEFINE c == [bytes |-> <<>>, encodings |-> <<[eci |-> x, pos |-> 0]>>, hasECI |-> FALSE]
  <2> HIDE DEF m, x
  <2>3. C!SwitchEncoding(C!Empty, x, FALSE) = c
    BY <1>5, <1>6 DEF C!SwitchEncoding, C!Empty
  <2>4. Added(c, text)
          = [bytes |-> <<>> \o text, encodings |-> <<[eci |-> x, pos |-> 0]>>, hasECI |-> FALSE]
    <3> DEFINE b == <<>>
               d == b \o text
               l == <<[eci |-> x, pos |-> 0]>>
    <3>1. Added(c, text) = [c EXCEPT !.bytes = d]  BY Zenon DEF Added
    <3>2. c = [bytes |-> b, encodings |-> l, hasECI |-> FALSE]  OBVIOUS
    <3> HIDE DEF b, d, l, c
    <3>3. Added(c, text) = [bytes |-> d, encodings |-> l, hasECI |-> FALSE]  BY <3>1, <3>2
    <3> QED  BY <3>3 DEF b, d, l
  <2>5. FullContent(call) = Added(c, text)  BY <1>3, <2>2, <2>3
  <2>6. needs = FALSE
    <3>1. needs \in BOOLEAN  BY DEF NeedsECI
    <3> QED  BY <1>8, <3>1
  <2> QED  BY <1>4, <2>1, <2>4, <2>5, <2>6 DEF m
<1> QED  BY <1>7, <1>8

LEMMA StreamOfContent ==
  ASSUME NEW call, TextCall(call), ~PercentIn(call)
  PROVE  C!StreamOf(FullContent(call)) = StreamOfText(call)
<1> DEFINE m == MarkOfText(call)
           text == call.text
           needs == NeedsECI(call, ModeOf(call))
           r == [eci |-> m, pos |-> 0]
           c == [bytes |-> text, encodings |-> <<r>>, hasECI |-> needs]
<1>1. text \in Seq(0 .. 255) /\ Len(text) \in Nat /\ DOMAIN text = 1 .. Len(text)
  BY InputsAssumption DEF TextCall
<1>2. FullContent(call) = c  BY FullContentIs
<1> HIDE DEF m, text, needs
<1>3. ASSUME NEW i \in Nat  PROVE C!MarkAt(c, i) = m
  <2> DEFINE S == {j \in DOMAIN c.encodings : c.encodings[j].pos <= i}
  <2>1. DOMAIN c.encodings = {1} /\ c.encodings[1] = r  OBVIOUS
  <2>2. r.pos = 0 /\ r.eci = m /\ 0 <= i  OBVIOUS
  <2> HIDE DEF c, r
  <2>3. S = {1}  BY <2>1, <2>2
  <2>4. Cardinality(S) = 1  BY <2>3, FS_Singleton
  <2>8. C!LastSwitch(c, i) = Cardinality(S)
    BY Zenon DEF C!LastSwitch, S, C!Cardinality, Cardinality
  <2> HIDE DEF S
  <2>5. C!LastSwitch(c, i) = 1  BY <2>4, <2>8
  <2>6. C!LastSwitch(c, i) # 0  BY <2>5
  <2>7. C!MarkAt(c, i) = c.encodings[C!LastSwitch(c, i)].eci
    BY <2>6, Zenon DEF C!MarkAt
  <2> QED  BY <2>1, <2>2, <2>5, <2>7
<1>4. c.bytes = text /\ c.hasECI = needs  OBVIOUS
<1> HIDE DEF c
<1>5. [i \in DOMAIN c.bytes |-> <<c.bytes[i], C!MarkAt(c, i - 1)>>]
        = [i \in DOMAIN text |-> <<text[i], m>>]
  <2>1. \A i \in DOMAIN text : C!MarkAt(c, i - 1) = m
    <3> TAKE i \in DOMAIN text
    <3>1. i - 1 \in Nat  BY <1>1
    <3> QED  BY <1>3, <3>1
  <2> QED  BY <1>4, <2>1
<1>6. C!MarkAt(c, Len(c.bytes)) = m  BY <1>1, <1>3, <1>4
<1>7. C!StreamOf(c) = StreamOfText(call)
  BY <1>4, <1>5, <1>6, Zenon DEF C!StreamOf, StreamOfText, m, text, needs
<1> QED  BY <1>2, <1>7
-----------------------------------------------------------------------------
(* What the segments of a text mean.                                       *)
NotSaid == {"ECI", "FNC1_FIRST_POSITION"}
SaidLast(call, s, k) ==
  /\ k \in 1 .. 3 /\ DOMAIN s = 1 .. k /\ Len(s) = k
  /\ s[k] = Segment(ModeOf(call), call.text, call.gs1)
  /\ \A j \in 1 .. k : j # k => s[j].mode \in NotSaid
  /\ \A j \in 1 .. k : s[j].mode = "ECI" <=> NeedsECI(call, ModeOf(call)) /\ j = 1
  /\ \A j \in 1 .. k : s[j].mode = "FNC1_FIRST_POSITION" <=> call.gs1 /\ j = k - 1
  /\ NeedsECI(call, ModeOf(call)) => 1 < k /\ s[1].text[1] = ECIOf(call)
  /\ call.gs1 => 1 < k

LEMMA OneJoined ==
  ASSUME NEW T, NEW x \in T
  PROVE  /\ <<x>> \in Seq(T) /\ DOMAIN <<x>> = 1 .. 1 /\ Len(<<x>>) = 1 /\ <<x>>[1] = x
         /\ <<>> \o <<x>> = <<x>>
OBVIOUS

LEMMA TwoJoined ==
  ASSUME NEW T, NEW x \in T, NEW y \in T
  PROVE  /\ <<x>> \o <<y>> \in Seq(T) /\ DOMAIN (<<x>> \o <<y>>) = 1 .. 2
         /\ Len(<<x>> \o <<y>>) = 2
         /\ (<<x>> \o <<y>>)[1] = x /\ (<<x>> \o <<y>>)[2] = y
<1> DEFINE a == <<x>>
           b == <<y>>
<1>1. a \in Seq(T) /\ b \in Seq(T) /\ Len(a) = 1 /\ Len(b) = 1 /\ a[1] = x /\ b[1] = y
  OBVIOUS
<1> HIDE DEF a, b
<1>3. /\ a \o b \in Seq(T) /\ Len(a \o b) = Len(a) + Len(b)
      /\ \A i \in 1 .. Len(a) + Len(b) :
           (a \o b)[i] = IF i <= Len(a) THEN a[i] ELSE b[i - Len(a)]
  BY <1>1, ConcatProperties
<1>4. DOMAIN (a \o b) = 1 .. Len(a \o b)  BY <1>3, LenProperties
<1>2. /\ a \o b \in Seq(T) /\ Len(a \o b) = 2 /\ DOMAIN (a \o b) = 1 .. 2
      /\ (a \o b)[1] = x /\ (a \o b)[2] = y
  BY <1>1, <1>3, <1>4
<1> QED  BY <1>2 DEF a, b

LEMMA ThreeJoined ==
  ASSUME NEW T, NEW x \in T, NEW y \in T, NEW z \in T
  PROVE  /\ DOMAIN ((<<x>> \o <<y>>) \o <<z>>) = 1 .. 3
         /\ Len((<<x>> \o <<y>>) \o <<z>>) = 3
         /\ ((<<x>> \o <<y>>) \o <<z>>)[1] = x
         /\ ((<<x>> \o <<y>>) \o <<z>>)[2] = y
         /\ ((<<x>> \o <<y>>) \o <<z>>)[3] = z
<1> DEFINE a == <<x>> \o <<y>>
           b == <<z>>
<1>1. a \in Seq(T) /\ Len(a) = 2 /\ a[1] = x /\ a[2] = y  BY TwoJoined
<1>2. b \in Seq(T) /\ Len(b) = 1 /\ b[1] = z  OBVIOUS
<1> HIDE DEF a, b
<1>4. /\ a \o b \in Seq(T) /\ Len(a \o b) = Len(a) + Len(b)
      /\ \A i \in 1 .. Len(a) + Len(b) :
           (a \o b)[i] = IF i <= Len(a) THEN a[i] ELSE b[i - Len(a)]
  BY <1>1, <1>2, ConcatProperties
<1>5. DOMAIN (a \o b) = 1 .. Len(a \o b)  BY <1>4, LenProperties
<1>3. /\ Len(a \o b) = 3 /\ DOMAIN (a \o b) = 1 .. 3
      /\ (a \o b)[1] = x /\ (a \o b)[2] = y /\ (a \o b)[3] = z
  BY <1>1, <1>2, <1>4, <1>5
<1> QED  BY <1>3 DEF a, b

LEMMA TextSegments ==
  ASSUME TextCall(input)
  PROVE  \E k \in 1 .. 3 : SaidLast(input, Segments, k)
<1> DEFINE E == Segment("ECI", <<ToECI[Charset(input)]>>, FALSE)
           F == Segment("FNC1_FIRST_POSITION", <<>>, FALSE)
           W == Segment(ModeOf(input), input.text, input.gs1)
           needs == NeedsECI(input, ModeOf(input))
           gs1 == input.gs1
           T == {E, F, W}
<1>1. gs1 \in BOOLEAN /\ needs \in BOOLEAN
  BY InputsAssumption DEF TextCall, NeedsECI
<1>2. W.mode \notin NotSaid /\ W.mode # "ECI" /\ W.mode # "FNC1_FIRST_POSITION"
  <2>1. ModeOf(input) \in TextModes  BY PartsAre
  <2> QED  BY <2>1 DEF TextModes, Segment, NotSaid
<1>3. /\ E.mode = "ECI" /\ E.text[1] = ECIOf(input) /\ F.mode = "FNC1_FIRST_POSITION"
      /\ E.mode \in NotSaid /\ F.mode \in NotSaid
      /\ E.mode # "FNC1_FIRST_POSITION" /\ F.mode # "ECI"
  BY DEF Segment, ECIOf, NotSaid
<1>4. Segments = ((IF needs THEN <<E>> ELSE <<>>) \o (IF gs1 THEN <<F>> ELSE <<>>)) \o <<W>>
  <2>1. input.kind # "printed"  BY DEF TextCall
  <2> QED  BY <2>1, Zenon DEF Segments
<1>5. E \in T /\ F \in T /\ W \in T  OBVIOUS
<1>6. W = Segment(ModeOf(input), input.text, input.gs1)  OBVIOUS
<1>7. NeedsECI(input, ModeOf(input)) = needs /\ input.gs1 = gs1  OBVIOUS
<1>8. /\ 1 .. 1 = {1} /\ 1 .. 2 = {1, 2} /\ 1 .. 3 = {1, 2, 3}
      /\ 1 \in 1 .. 3 /\ 2 \in 1 .. 3 /\ 3 \in 1 .. 3
      /\ 1 - 1 = 0 /\ 2 - 1 = 1 /\ 3 - 1 = 2
  OBVIOUS
<1>9. \A x : <<>> \o <<x>> = <<x>> /\ <<x>> \o <<>> = <<x>> /\ <<>> \o <<>> = <<>>  OBVIOUS
<1> HIDE DEF E, F, W, T, needs, gs1
<1>10. CASE ~needs /\ ~gs1
  <2>1. Segments = <<W>>  BY <1>4, <1>9, <1>10
  <2> DEFINE s == <<W>>
  <2>2. DOMAIN s = 1 .. 1 /\ Len(s) = 1 /\ s[1] = W  OBVIOUS
  <2> HIDE DEF s
  <2>3. SaidLast(input, s, 1)
    BY <1>2, <1>6, <1>7, <1>8, <1>10, <2>2 DEF SaidLast
  <2> QED  BY <1>8, <2>1, <2>3, Zenon DEF s
<1>11. CASE needs /\ ~gs1
  <2> DEFINE s == <<E>> \o <<W>>
  <2>1. Segments = s  BY <1>4, <1>9, <1>11
  <2>2. DOMAIN s = 1 .. 2 /\ Len(s) = 2 /\ s[1] = E /\ s[2] = W  BY <1>5, TwoJoined
  <2> HIDE DEF s
  <2>3. SaidLast(input, s, 2)
    BY <1>2, <1>3, <1>6, <1>7, <1>8, <1>11, <2>2 DEF SaidLast
  <2> QED  BY <1>8, <2>1, <2>3, Zenon
<1>12. CASE ~needs /\ gs1
  <2> DEFINE s == <<F>> \o <<W>>
  <2>1. Segments = s  BY <1>4, <1>9, <1>12
  <2>2. DOMAIN s = 1 .. 2 /\ Len(s) = 2 /\ s[1] = F /\ s[2] = W  BY <1>5, TwoJoined
  <2> HIDE DEF s
  <2>4. \A j \in 1 .. 2 : j # 2 => s[j].mode \in NotSaid
    BY <1>3, <1>8, <2>2
  <2>5. \A j \in 1 .. 2 : s[j].mode = "ECI" <=> needs /\ j = 1
    BY <1>2, <1>3, <1>8, <1>12, <2>2
  <2>6. \A j \in 1 .. 2 : s[j].mode = "FNC1_FIRST_POSITION" <=> gs1 /\ j = 2 - 1
    BY <1>2, <1>3, <1>8, <1>12, <2>2
  <2>7. 1 < 2 /\ 2 \in 1 .. 3 /\ (needs => s[1].text[1] = ECIOf(input))
    BY <1>3, <1>12, <2>2
  <2>3. SaidLast(input, s, 2)
    BY <1>6, <1>7, <2>2, <2>4, <2>5, <2>6, <2>7, Zenon DEF SaidLast
  <2> QED  BY <1>8, <2>1, <2>3, Zenon
<1>13. CASE needs /\ gs1
  <2> DEFINE s == (<<E>> \o <<F>>) \o <<W>>
  <2>1. Segments = s  BY <1>4, <1>13
  <2>2. DOMAIN s = 1 .. 3 /\ Len(s) = 3 /\ s[1] = E /\ s[2] = F /\ s[3] = W
    BY <1>5, ThreeJoined
  <2> HIDE DEF s
  <2>4. \A j \in 1 .. 3 : j # 3 => s[j].mode \in NotSaid
    BY <1>3, <1>8, <2>2
  <2>5. \A j \in 1 .. 3 : s[j].mode = "ECI" <=> needs /\ j = 1
    BY <1>2, <1>3, <1>8, <1>13, <2>2
  <2>6. \A j \in 1 .. 3 : s[j].mode = "FNC1_FIRST_POSITION" <=> gs1 /\ j = 3 - 1
    BY <1>2, <1>3, <1>8, <1>13, <2>2
  <2>7. 1 < 3 /\ 3 \in 1 .. 3 /\ (needs => s[1].text[1] = ECIOf(input))
    BY <1>3, <1>13, <2>2
  <2>3. SaidLast(input, s, 3)
    BY <1>6, <1>7, <2>2, <2>4, <2>5, <2>6, <2>7, Zenon DEF SaidLast
  <2> QED  BY <1>8, <2>1, <2>3, Zenon
<1> QED  BY <1>1, <1>10, <1>11, <1>12, <1>13

LEMMA LastOfOne == ASSUME NEW n \in Int  PROVE LastOf({n}) = n
<1>1. n \in {n} /\ \A k \in {n} : k <= n  OBVIOUS
<1>2. \A x \in {n} : x = n  OBVIOUS
<1> QED  BY <1>1, <1>2, Zenon DEF LastOf

LEMMA SoundSegments ==
  ASSUME TextCall(input), symbol.type = "Model2", NEW s, NEW k, SaidLast(input, s, k)
  PROVE  /\ Sound(s) = 1 .. k /\ Cardinality(Sound(s)) = k
         /\ NeedsECI(input, ModeOf(input)) => SoundWith(s, {"ECI"}) = {1}
         /\ ~NeedsECI(input, ModeOf(input)) => SoundWith(s, {"ECI"}) = {}
         /\ input.gs1 => SoundWith(s, {"FNC1_FIRST_POSITION", "FNC1_SECOND_POSITION"}) = {k - 1}
         /\ ~input.gs1 => SoundWith(s, {"FNC1_FIRST_POSITION", "FNC1_SECOND_POSITION"}) = {}
         /\ SoundWith(s, {"STRUCTURED_APPEND"}) = {}
         /\ SoundWith(s, Counted) = {k}
         /\ s[k].mode = ModeOf(input) /\ s[k].text = input.text
         /\ \A j \in 1 .. k : j # k => s[j].mode \notin Counted \cup {"FNC1_SECOND_POSITION"}
<1> DEFINE mode == ModeOf(input)
<1>1. mode \in TextModes  BY PartsAre
<1>2. k \in 1 .. 3 /\ DOMAIN s = 1 .. k  BY DEF SaidLast
<1>3. s[k].mode = mode /\ s[k].text = input.text
  <2>1. s[k] = Segment(mode, input.text, input.gs1)  BY DEF SaidLast
  <2> QED  BY <2>1 DEF Segment
<1>4. \A j \in 1 .. k : j # k => s[j].mode \in NotSaid  BY DEF SaidLast
<1>5. \A j \in 1 .. k : s[j].mode = "ECI" <=> NeedsECI(input, mode) /\ j = 1  BY DEF SaidLast
<1>6. \A j \in 1 .. k : s[j].mode = "FNC1_FIRST_POSITION" <=> input.gs1 /\ j = k - 1
  BY DEF SaidLast
<1>7. (NeedsECI(input, mode) => 1 < k) /\ (input.gs1 => 1 < k)  BY DEF SaidLast
<1> HIDE DEF mode
<1>8. \A j \in 1 .. k : s[j].mode \in TextModes \cup NotSaid  BY <1>1, <1>3, <1>4
<1>9. \A x \in TextModes \cup NotSaid :
        x \notin {"BITS", "FNC1_SECOND_POSITION", "STRUCTURED_APPEND"}
  BY DEF TextModes, NotSaid
<1>10. \A j \in 1 .. k : ~HasFault(s, j)  BY <1>8, <1>9 DEF HasFault
<1>11. Sound(s) = 1 .. k
  <2>1. \A n \in 1 .. k : \A j \in 1 .. n : ~HasFault(s, j)  BY <1>2, <1>10
  <2> QED  BY <1>2, <2>1 DEF Sound
<1>12. Cardinality(1 .. k) = k
  <2>1. 1 \in Int /\ k \in Int /\ ~(1 > k) /\ k - 1 + 1 = k  BY <1>2
  <2>2. Cardinality(1 .. k) = IF 1 > k THEN 0 ELSE k - 1 + 1  BY <2>1, FS_Interval
  <2> QED  BY <2>1, <2>2
<1>13. \A modes : SoundWith(s, modes) = {j \in 1 .. k : s[j].mode \in modes}
  BY <1>11, Zenon DEF SoundWith
<1>14. \A x \in NotSaid : x \notin Counted  BY DEF NotSaid, Counted
<1>15. \A x \in TextModes : x \in Counted  BY DEF TextModes, Counted
<1>16. SoundWith(s, Counted) = {k}  BY <1>1, <1>2, <1>3, <1>4, <1>13, <1>14, <1>15
<1>17. SoundWith(s, {"STRUCTURED_APPEND"}) = {}  BY <1>8, <1>9, <1>13
<1>18. SoundWith(s, {"ECI"}) = {j \in 1 .. k : NeedsECI(input, mode) /\ j = 1}
  BY <1>5, <1>13
<1>19. SoundWith(s, {"FNC1_FIRST_POSITION", "FNC1_SECOND_POSITION"})
         = {j \in 1 .. k : input.gs1 /\ j = k - 1}
  BY <1>6, <1>8, <1>9, <1>13
<1>20. \A j \in 1 .. k : j # k => s[j].mode \notin Counted \cup {"FNC1_SECOND_POSITION"}
  BY <1>4, <1>9, <1>14
<1>21. NeedsECI(input, mode) => 1 \in 1 .. k  BY <1>2
<1>22. input.gs1 => k - 1 \in 1 .. k  BY <1>2, <1>7
<1>23. /\ NeedsECI(input, mode) => SoundWith(s, {"ECI"}) = {1}
       /\ ~NeedsECI(input, mode) => SoundWith(s, {"ECI"}) = {}
  BY <1>18, <1>21
<1>24. /\ input.gs1 => SoundWith(s, {"FNC1_FIRST_POSITION", "FNC1_SECOND_POSITION"}) = {k - 1}
       /\ ~input.gs1 => SoundWith(s, {"FNC1_FIRST_POSITION", "FNC1_SECOND_POSITION"}) = {}
  BY <1>19, <1>22
<1> QED  BY <1>3, <1>11, <1>12, <1>16, <1>17, <1>20, <1>23, <1>24 DEF mode

(* A sequence that is joined from empty ones and a last one is the last.   *)
LEMMA OnlyLastJoined ==
  ASSUME NEW T, NEW k \in 1 .. 3, NEW m, m[k] \in Seq(T), \A j \in 1 .. k : j # k => m[j] = <<>>,
         NEW f, f = CHOOSE g : g = [n \in 0 .. k |-> IF n = 0 THEN <<>> ELSE g[n - 1] \o m[n]]
  PROVE  f[k] = m[k]
<1> DEFINE Calls(g) == g = [n \in 0 .. k |-> IF n = 0 THEN <<>> ELSE g[n - 1] \o m[n]]
           w == [n \in 0 .. k |-> IF n = k THEN m[k] ELSE <<>>]
           e == <<>>
<1>1. e \o e = e /\ e \o m[k] = m[k]
  <2>1. e \in Seq(T)  OBVIOUS
  <2> QED  BY <2>1, ConcatEmptySeq
<1>2. k # 0 /\ 0 \in 0 .. k  OBVIOUS
<1>3. \A n \in 0 .. k : n # 0 => n \in 1 .. k /\ n - 1 \in 0 .. k /\ n - 1 # k  OBVIOUS
<1>4. \A n \in 0 .. k : w[n] = IF n = k THEN m[k] ELSE e  OBVIOUS
<1>5. \A n \in 0 .. k : w[n] = IF n = 0 THEN e ELSE w[n - 1] \o m[n]
  <2> TAKE n \in 0 .. k
  <2> HIDE DEF e, w
  <2>1. CASE n = 0  BY <1>2, <1>4, <2>1
  <2>2. CASE n # 0
    <3>1. n \in 1 .. k /\ w[n - 1] = e  BY <1>3, <1>4, <2>2
    <3>2. CASE n = k  BY <1>1, <1>4, <2>2, <3>1, <3>2
    <3>3. CASE n # k
      <4>1. m[n] = e  BY <3>1, <3>3 DEF e
      <4> QED  BY <1>1, <1>4, <2>2, <3>1, <3>3, <4>1
    <3> QED  BY <3>2, <3>3
  <2> QED  BY <2>1, <2>2
<1>6. Calls(w)
  <2>1. w = [n \in 0 .. k |-> w[n]]  OBVIOUS
  <2> HIDE DEF w
  <2> QED  BY <1>5, <2>1, Zenon DEF e
<1>7. Calls(f)
  <2> HIDE DEF w
  <2>1. \E g : Calls(g)  BY <1>6, Zenon
  <2>2. f = CHOOSE g : Calls(g)  BY Zenon
  <2> HIDE DEF Calls
  <2> QED  BY <2>1, <2>2, Zenon
<1>8. \A n \in 0 .. k : f[n] = IF n = 0 THEN e ELSE f[n - 1] \o m[n]
  BY <1>7, Zenon DEF e
<1> HIDE DEF e, w, Calls
<1>9. f[0] = e  BY <1>2, <1>8
<1>10. \A n \in 1 .. k : f[n] = f[n - 1] \o m[n]
  <2>1. \A n \in 1 .. k : n \in 0 .. k /\ n # 0  OBVIOUS
  <2> QED  BY <1>8, <2>1
<1>11. \A j \in 1 .. k : j # k => m[j] = e  BY DEF e
<1>12. \A n \in 1 .. k : n # k /\ f[n - 1] = e => f[n] = e
  <2> TAKE n \in 1 .. k
  <2> HAVE n # k /\ f[n - 1] = e
  <2>1. f[n] = f[n - 1] \o m[n] /\ m[n] = e  BY <1>10, <1>11
  <2>2. f[n] = e \o e  BY <2>1
  <2> QED  BY <1>1, <2>2
<1>13. k \in 1 .. k  OBVIOUS
<1>14. f[k - 1] = e
  <2>1. CASE k = 1  BY <1>9, <2>1
  <2>2. k # 1 => f[1] = e
    <3>1. k # 1 => 1 \in 1 .. k /\ 1 - 1 = 0  OBVIOUS
    <3> QED  BY <1>9, <1>12, <3>1
  <2>3. CASE k = 2  BY <2>2, <2>3
  <2>4. CASE k = 3
    <3>1. 2 \in 1 .. k /\ 2 - 1 = 1 /\ 2 # k  BY <2>4
    <3>2. f[2] = e  BY <1>12, <2>2, <2>4, <3>1
    <3> QED  BY <2>4, <3>2
  <2> QED  BY <2>1, <2>3, <2>4
<1>15. f[k] = e \o m[k]  BY <1>10, <1>13, <1>14
<1> QED  BY <1>1, <1>15

(* The marks of the segments, and what they say.                           *)
LEMMA MarksOfSegments ==
  ASSUME TextCall(input), symbol.type = "Model2", NEW s, NEW k, SaidLast(input, s, k)
  PROVE  /\ MarkOf(s, k) = MarkOfText(input) /\ MarkOf(s, k + 1) = MarkOfText(input)
         /\ SaidIn(s, k) = input.text
         /\ \A j \in 1 .. k : j # k => SaidIn(s, j) = <<>>
<1> DEFINE mode == ModeOf(input)
           needs == NeedsECI(input, mode)
           ecis == SoundWith(s, {"ECI"})
           counted == SoundWith(s, Counted)
<1>1. /\ needs => ecis = {1}
      /\ ~needs => ecis = {}
      /\ counted = {k} /\ s[k].mode = mode /\ s[k].text = input.text
      /\ \A j \in 1 .. k : j # k => s[j].mode \notin Counted \cup {"FNC1_SECOND_POSITION"}
  BY SoundSegments
<1>2. k \in 1 .. 3 /\ (needs => 1 < k /\ s[1].text[1] = ECIOf(input))  BY DEF SaidLast
<1>3. mode \in Counted
  <2>1. mode \in TextModes  BY PartsAre
  <2> QED  BY <2>1 DEF TextModes, Counted
<1>4. SaidIn(s, k) = input.text
  <2>1. s[k].mode \in Counted  BY <1>1, <1>3
  <2>2. s[k].mode # "FNC1_SECOND_POSITION"  BY <2>1 DEF Counted
  <2>3. SaidIn(s, k) = s[k].text  BY <2>1, <2>2, Zenon DEF SaidIn
  <2> QED  BY <1>1, <2>3
<1>5. \A j \in 1 .. k : j # k => SaidIn(s, j) = <<>>
  <2> TAKE j \in 1 .. k
  <2> HAVE j # k
  <2>1. s[j].mode \notin Counted /\ s[j].mode # "FNC1_SECOND_POSITION"  BY <1>1
  <2> QED  BY <2>1, Zenon DEF SaidIn
<1>6. LastOf({1}) = 1 /\ LastOf({k}) = k
  <2>1. 1 \in Int /\ k \in Int  BY <1>2
  <2> QED  BY <2>1, LastOfOne
<1>7. ASSUME NEW n \in {k, k + 1}  PROVE MarkOf(s, n) = MarkOfText(input)
  <2> DEFINE before == {j \in ecis : j < n}
             upTo == {j \in counted : j <= n}
  <2> HIDE DEF mode, needs, ecis, counted
  <2>1. k <= n  BY <1>2
  <2>2. upTo = {k}  BY <1>1, <2>1
  <2>3. CASE needs
    <3>1. 1 < n  BY <1>2, <2>1, <2>3
    <3>2. before = {1}  BY <1>1, <2>3, <3>1
    <3>3. before # {} /\ s[LastOf(before)].text[1] = ECIOf(input)
      BY <1>2, <1>6, <2>3, <3>2
    <3>4. MarkOf(s, n) = s[LastOf(before)].text[1]
      <4>1. before # {}  BY <3>3
      <4> QED  BY <4>1, Zenon DEF MarkOf, ecis
    <3>5. MarkOfText(input) = ECIOf(input)  BY <2>3, Zenon DEF MarkOfText, needs, mode
    <3> QED  BY <3>3, <3>4, <3>5
  <2>4. CASE ~needs
    <3>1. ecis = {} /\ before = {} /\ upTo # {}  BY <1>1, <2>2, <2>4
    <3>2. MarkOf(s, n) = ToECI[CharacterSetOf[s[LastOf(upTo)].mode]]
      BY <3>1, Zenon DEF MarkOf, ecis, counted
    <3>3. s[LastOf(upTo)].mode = mode  BY <1>1, <1>6, <2>2
    <3>4. MarkOfText(input) = ToECI[CharacterSetOf[mode]]
      BY <2>4, Zenon DEF MarkOfText, needs, mode
    <3> QED  BY <3>2, <3>3, <3>4
  <2> QED  BY <2>3, <2>4
<1> QED  BY <1>4, <1>5, <1>7

LEMMA TextMeaning ==
  ASSUME TextCall(input), symbol.type = "Model2"
  PROVE  Meaning(Segments)
           = [text |-> StreamOfText(input).text, current |-> StreamOfText(input).current,
              eci |-> StreamOfText(input).eci, aiFlag |-> FlagOf(input),
              sai |-> NoStructuredAppend, error |-> None]
<1> DEFINE s == Segments
           mode == ModeOf(input)
           needs == NeedsECI(input, mode)
           m == MarkOfText(input)
           text == input.text
           fnc1 == SoundWith(s, {"FNC1_FIRST_POSITION", "FNC1_SECOND_POSITION"})
           parts == SoundWith(s, {"STRUCTURED_APPEND"})
           Marked(n) == [i \in DOMAIN SaidIn(s, n) |-> <<SaidIn(s, n)[i], MarkOf(s, n)>>]
           f == CHOOSE g : g = [n \in 0 .. Cardinality(Sound(s)) |->
                                  IF n = 0 THEN <<>> ELSE g[n - 1] \o Marked(n)]
           flag == CASE fnc1 = {} -> None
                     [] OTHER -> IF s[LastOf(fnc1)].mode = "FNC1_FIRST_POSITION"
                                   THEN "GS1" ELSE "AIM"
           sai == IF parts = {} THEN NoStructuredAppend
                  ELSE LET t == s[LastOf(parts)] IN <<t.text[1], t.text[2] + 1, t.text[3]>>
           error0 == IF Sound(s) = DOMAIN s THEN None ELSE "Format"
<1>1. PICK k \in 1 .. 3 : SaidLast(input, s, k)  BY TextSegments
<1>2. DOMAIN s = 1 .. k /\ Len(s) = k /\ (input.gs1 => 1 < k)  BY <1>1 DEF SaidLast
<1>3. /\ Sound(s) = 1 .. k /\ Cardinality(Sound(s)) = k
      /\ needs => SoundWith(s, {"ECI"}) = {1}
      /\ ~needs => SoundWith(s, {"ECI"}) = {}
      /\ input.gs1 => fnc1 = {k - 1}
      /\ ~input.gs1 => fnc1 = {}
      /\ parts = {}
  <2> HIDE DEF s
  <2> QED  BY <1>1, SoundSegments
<1>4. /\ MarkOf(s, k) = m /\ MarkOf(s, k + 1) = m /\ SaidIn(s, k) = text
      /\ \A j \in 1 .. k : j # k => SaidIn(s, j) = <<>>
  <2> HIDE DEF s
  <2> QED  BY <1>1, MarksOfSegments
<1>5. Meaning(s)
        = [text |-> f[Cardinality(Sound(s))], current |-> MarkOf(s, Len(s) + 1),
           eci |-> SoundWith(s, {"ECI"}) # {}, aiFlag |-> flag, sai |-> sai, error |-> error0]
  <2> HIDE DEF s
  <2> QED  BY Zenon DEF Meaning
<1> HIDE DEF s
<1>6. error0 = None /\ sai = NoStructuredAppend  BY <1>2, <1>3
<1>7. MarkOf(s, Len(s) + 1) = m  BY <1>2, <1>4
<1>8. needs \in BOOLEAN /\ input.gs1 \in BOOLEAN
  BY InputsAssumption DEF TextCall, NeedsECI
<1>9. (SoundWith(s, {"ECI"}) # {}) = needs  BY <1>3, <1>8
<1>10. flag = FlagOf(input)
  <2> HIDE DEF fnc1
  <2>1. CASE ~input.gs1
    <3>1. fnc1 = {}  BY <1>3, <2>1
    <3> QED  BY <2>1, <3>1, Zenon DEF FlagOf
  <2>2. CASE input.gs1
    <3>1. fnc1 = {k - 1} /\ k - 1 \in Int /\ k - 1 \in 1 .. k  BY <1>2, <1>3, <2>2
    <3>2. fnc1 # {} /\ LastOf(fnc1) = k - 1
      <4>1. LastOf({k - 1}) = k - 1  BY <3>1, LastOfOne
      <4> QED  BY <3>1, <4>1
    <3>3. s[k - 1].mode = "FNC1_FIRST_POSITION"
      <4>1. \A j \in 1 .. k : s[j].mode = "FNC1_FIRST_POSITION" <=> input.gs1 /\ j = k - 1
        BY <1>1 DEF SaidLast
      <4> QED  BY <2>2, <3>1, <4>1, Zenon
    <3> QED  BY <2>2, <3>2, <3>3, Zenon DEF FlagOf
  <2> QED  BY <1>8, <2>1, <2>2
<1>11. f[k] = StreamOfText(input).text
  <2> DEFINE M == [n \in 1 .. k |-> Marked(n)]
             h == CHOOSE g : g = [n \in 0 .. k |-> IF n = 0 THEN <<>> ELSE g[n - 1] \o M[n]]
             T == (0 .. 255) \X {m}
             marked == [i \in DOMAIN text |-> <<text[i], m>>]
  <2>1. M[k] = marked
    <3>1. k \in 1 .. k  BY <1>2
    <3>2. Marked(k) = marked  BY <1>4, Zenon
    <3> HIDE DEF marked, Marked
    <3> QED  BY <3>1, <3>2
  <2>2. marked \in Seq(T)
    <3> DEFINE B == 0 .. 255
    <3>1. text \in Seq(B)  BY InputsAssumption DEF TextCall
    <3> HIDE DEF B, text
    <3>2. /\ Len(text) \in Nat /\ text \in [1 .. Len(text) -> B]
          /\ DOMAIN text = 1 .. Len(text)
      BY <3>1, LenProperties
    <3>3. \A i \in 1 .. Len(text) : <<text[i], m>> \in T
      <4> TAKE i \in 1 .. Len(text)
      <4>1. text[i] \in 0 .. 255  BY <3>2 DEF B
      <4> HIDE DEF m
      <4> QED  BY <4>1
    <3> HIDE DEF text, T, m
    <3>4. marked \in [1 .. Len(text) -> T]  BY <3>2, <3>3
    <3> HIDE DEF marked
    <3> QED  BY <3>2, <3>4, SeqDef
  <2>3. \A j \in 1 .. k : j # k => M[j] = <<>>
    <3> TAKE j \in 1 .. k
    <3> HAVE j # k
    <3>1. SaidIn(s, j) = <<>> /\ DOMAIN SaidIn(s, j) = {}  BY <1>4
    <3>2. Marked(j) = [i \in {} |-> <<SaidIn(s, j)[i], MarkOf(s, j)>>]  BY <3>1
    <3>3. [i \in {} |-> <<SaidIn(s, j)[i], MarkOf(s, j)>>] = <<>>  OBVIOUS
    <3>4. Marked(j) = <<>>  BY <3>2, <3>3
    <3> HIDE DEF Marked
    <3> QED  BY <3>4
  <2>4. h[k] = M[k]
    <3>1. M[k] \in Seq(T)  BY <2>1, <2>2
    <3> HIDE DEF M, T
    <3> QED  BY <2>3, <3>1, OnlyLastJoined
  <2>5. f = h
    <3> DEFINE A(g) == g = [n \in 0 .. k |-> IF n = 0 THEN <<>> ELSE g[n - 1] \o Marked(n)]
               B(g) == g = [n \in 0 .. k |-> IF n = 0 THEN <<>> ELSE g[n - 1] \o M[n]]
    <3>1. \A g : A(g) <=> B(g)
      <4> TAKE g
      <4> HIDE DEF Marked
      <4>1. \A n \in 0 .. k : n # 0 => n \in 1 .. k  BY <1>2
      <4>2. \A n \in 1 .. k : M[n] = Marked(n)  BY Zenon
      <4> HIDE DEF M
      <4>3. \A n \in 0 .. k : (IF n = 0 THEN <<>> ELSE g[n - 1] \o Marked(n))
                              = (IF n = 0 THEN <<>> ELSE g[n - 1] \o M[n])
        BY <4>1, <4>2, Zenon
      <4> QED  BY <4>3, Zenon
    <3>2. f = CHOOSE g : A(g)
      <4> HIDE DEF Marked
      <4> QED  BY <1>3, Zenon
    <3>3. (CHOOSE g : A(g)) = (CHOOSE g : B(g))
      <4> HIDE DEF A, B
      <4> QED  BY <3>1, Zenon
    <3>4. h = CHOOSE g : B(g)  BY Zenon
    <3> QED  BY <3>2, <3>3, <3>4, Zenon
  <2>6. StreamOfText(input).text = marked  BY DEF StreamOfText
  <2> QED  BY <2>1, <2>4, <2>5, <2>6
<1>12. StreamOfText(input).current = m /\ StreamOfText(input).eci = needs  BY DEF StreamOfText
<1>13. f[Cardinality(Sound(s))] = StreamOfText(input).text  BY <1>3, <1>11
<1> HIDE DEF f, flag, sai, error0, m, needs
<1>14. Meaning(s)
         = [text |-> StreamOfText(input).text, current |-> StreamOfText(input).current,
            eci |-> StreamOfText(input).eci, aiFlag |-> FlagOf(input),
            sai |-> NoStructuredAppend, error |-> None]
  BY <1>5, <1>6, <1>7, <1>9, <1>10, <1>12, <1>13, Zenon
<1> QED  BY <1>14, Zenon DEF s
-----------------------------------------------------------------------------
(* What is read of a text that was written: each step of the program.      *)
LEMMA BlocksArePrinted ==
  ASSUME TextCall(input), NEW n \in VersionsFor(input, ModeOf(input)),
         symbol = Model2Version(n), WrittenAs(input, n, bytes),
         BlocksFound(symbol, input.level, codewords)
  PROVE  BlocksPrinted(Model2[n][input.level]) /\ Len(bytes) = DataLength(Model2[n][input.level])
<1> DEFINE level == input.level
           b == Model2[n][level]
           v == Model2Version(n)
<1>1. level \in Level  BY InputsAssumption DEF TextCall
<1>2. n \in DOMAIN Model2  BY DEF VersionsFor
<1>3. b \in Seq(Nat) /\ Divided(b)  BY <1>1, <1>2, EncoderBlocks
<1>4. v.levels[level] = b /\ v.type = "Model2" /\ v.levels = Model2[n]
  BY DEF Model2Version, Version
<1>5. bytes \in Seq(0 .. 255) /\ Len(bytes) = NumDataBytes(v, level)  BY StreamIsLaid
<1>6. TotalCodewords(v) = AllCodewords(b)
  <2>1. TotalCodewords(v) = AllCodewords(Model2[n][2])  BY <1>4 DEF TotalCodewords
  <2> QED  BY <1>1, <1>2, <2>1, BlocksAssumption
<1>7. NumDataBytes(v, level) = AllCodewords(b) - TotalECCodewords(b)
  BY <1>4, <1>6, Zenon DEF NumDataBytes
<1>8. AllCodewords(b) - TotalECCodewords(b) = DataLength(b) /\ DataLength(b) \in Nat
  <2> HIDE DEF b
  <2> QED  BY <1>3, DataOfBlocks
<1>9. DataLength(b) <= Len(bytes) /\ Len(bytes) = DataLength(b)
  <2> HIDE DEF b, v
  <2> QED  BY <1>5, <1>7, <1>8
<1>10. ~HasHalfCodeword
  <2>1. symbol.type # "Micro"  BY <1>4
  <2> QED  BY <2>1 DEF HasHalfCodeword
<1> QED  BY <1>3, <1>4, <1>5, <1>9, <1>10, Zenon DEF BlocksPrinted

(* The three kinds of reading that ReadAsMeant tells apart.                *)
LEMMA ReadFully ==
  ASSUME TextCall(input), symbol.type = "Model2", input.damage # "beyond", ~HasPercent,
         content = FullContent(input), symbology.aiFlag = FlagOf(input),
         structuredAppend = NoStructuredAppend, error = None
  PROVE  ReadAs(Meaning(Segments), C!StreamOf(content))
<1> DEFINE meaning == Meaning(Segments)
           stream == C!StreamOf(content)
           t == StreamOfText(input)
           m == MarkOfText(input)
           text == input.text
<1>1. ~PercentIn(input)
  <2>1. input.kind = "text"  BY DEF TextCall
  <2> QED  BY <2>1, Zenon DEF HasPercent, PercentIn
<1>2. stream = t  BY <1>1, StreamOfContent
<1>3. meaning = [text |-> t.text, current |-> t.current, eci |-> t.eci,
                 aiFlag |-> FlagOf(input), sai |-> NoStructuredAppend, error |-> None]
  BY TextMeaning
<1>4. meaning.text = [i \in DOMAIN text |-> <<text[i], m>>]
  <2>1. t.text = [i \in DOMAIN text |-> <<text[i], m>>]  BY DEF StreamOfText
  <2>2. meaning.text = t.text
    <3> HIDE DEF meaning, t
    <3> QED  BY <1>3
  <2> QED  BY <2>1, <2>2
<1>5. content.bytes = text
  <2>1. FullContent(input).bytes = text  BY <1>1, FullContentIs
  <2> QED  BY <2>1
<1>6. text \in Seq(0 .. 255) /\ Len(text) \in Nat /\ DOMAIN text = 1 .. Len(text)
  BY InputsAssumption DEF TextCall
<1>7. Len(meaning.text) = Len(text)
  <2> DEFINE T == {<<text[i], m>> : i \in DOMAIN text}
  <2>1. meaning.text \in [1 .. Len(text) -> T]
    <3>1. \A i \in DOMAIN text : <<text[i], m>> \in T  OBVIOUS
    <3> HIDE DEF T, meaning
    <3>2. meaning.text \in [DOMAIN text -> T]  BY <1>4, <3>1
    <3> QED  BY <1>6, <3>2
  <2> HIDE DEF T, meaning, text
  <2>2. meaning.text \in Seq(T) /\ DOMAIN meaning.text = 1 .. Len(text)
    BY <1>6, <2>1, SeqDef
  <2>3. DOMAIN meaning.text = 1 .. Len(meaning.text) /\ Len(meaning.text) \in Nat
    BY <2>2, LenProperties
  <2> QED  BY <1>6, <2>2, <2>3
<1>8. \A i \in DOMAIN content.bytes \cap DOMAIN meaning.text :
        content.bytes[i] = meaning.text[i][1]
  <2> HIDE DEF meaning, m, text
  <2> QED  BY <1>4, <1>5
<1>9. meaning = [text |-> stream.text, current |-> stream.current, eci |-> stream.eci,
                 aiFlag |-> symbology.aiFlag, sai |-> structuredAppend, error |-> error]
  <2> HIDE DEF meaning, stream, t
  <2> QED  BY <1>2, <1>3, Zenon
<1>10. Len(meaning.text) <= Len(content.bytes)
  <2> HIDE DEF meaning, text
  <2> QED  BY <1>5, <1>6, <1>7
<1>11. error \in {None, "Format"}  OBVIOUS
<1> HIDE DEF meaning, stream
<1>12. ReadAs(meaning, stream)
  <2>1. CASE IsCut \/ EndsInBits  BY <1>8, <1>10, <1>11, <2>1, Zenon DEF ReadAs
  <2>2. CASE ~(IsCut \/ EndsInBits)  BY <1>9, <2>2, Zenon DEF ReadAs
  <2> QED  BY <2>1, <2>2
<1> QED  BY <1>12 DEF meaning, stream

(* Where Decode stands in the stream of a text: before the ECI, the FNC1,  *)
(* the text or the terminator, with what came before in the content; or,   *)
(* if a block was lost, anywhere, but the error of the blocks stays.       *)
Untouched ==
  /\ pos = 0 /\ content = C!Empty /\ symbology.aiFlag = None
  /\ structuredAppend = NoStructuredAppend /\ error = None
Undisturbed == structuredAppend = NoStructuredAppend /\ error = None
ReadingInv ==
  input.kind = "text" =>
    /\ input \in Inputs /\ pc \in {"encode", "blocks", "stream", "done", "thrown"}
    /\ pc \in {"encode", "blocks"} => Untouched
    /\ pc = "blocks" => \E n : Decoding(input, n)
    /\ pc \in {"stream", "done"} /\ input.damage = "beyond" => error = "Checksum"
    /\ pc = "stream" /\ input.damage # "beyond" =>
         /\ \E n : Decoding(input, n)
         /\ Stage(input, symbol, pos, content, symbology.aiFlag) /\ Undisturbed
    /\ pc = "done" /\ input.damage # "beyond" =>
         /\ \E n : Decoding(input, n)
         /\ BehindText(input, symbol, pos, content, symbology.aiFlag) /\ Undisturbed

(* Which actions there are in each place.                                  *)
LEMMA ActionsOf ==
  ASSUME Next
  PROVE  /\ pc = "encode" => Encode
         /\ pc = "blocks" => CorrectErrors
         /\ pc = "done" \/ pc = "thrown" => Returned
<1>1. /\ Encode => pc = "encode"
      /\ PrintSymbol => pc = "print"
      /\ CorrectErrors => pc = "blocks"
      /\ EndOfStream => pc = "stream"
      /\ InvalidMode => pc = "stream"
      /\ Returned => pc = "done" \/ pc = "thrown"
  BY DEF Encode, PrintSymbol, CorrectErrors, EndOfStream, InvalidMode, Returned
<1>2. \A mode : Reading(mode) => pc = "stream"  BY Zenon DEF Reading
<1>3. /\ ReadFNC1First => pc = "stream"
      /\ ReadFNC1Second => pc = "stream"
      /\ ReadStructuredAppend => pc = "stream"
      /\ ReadECI => pc = "stream"
      /\ ReadHanzi => pc = "stream"
      /\ \A mode : ReadSegment(mode) => pc = "stream"
  BY <1>2, Zenon DEF ReadFNC1First, ReadFNC1Second, ReadStructuredAppend, ReadECI, ReadHanzi,
                     ReadSegment
<1>4. ASSUME pc # "stream"  PROVE Encode \/ PrintSymbol \/ CorrectErrors \/ Returned
  <2>1. /\ ~EndOfStream /\ ~InvalidMode /\ ~ReadFNC1First /\ ~ReadFNC1Second
        /\ ~ReadStructuredAppend /\ ~ReadECI /\ ~ReadHanzi
    BY <1>1, <1>3, <1>4, Zenon
  <2>2. \A mode : ~ReadSegment(mode)  BY <1>3, <1>4, Zenon
  <2> QED  BY <2>1, <2>2, Zenon DEF Next
<1> QED  BY <1>1, <1>4

LEMMA OnlyPrinting ==
  ASSUME Next, pc \notin {"encode", "blocks", "stream", "done", "thrown"}
  PROVE  PrintSymbol
<1>1. /\ Encode => pc = "encode"
      /\ CorrectErrors => pc = "blocks"
      /\ EndOfStream => pc = "stream"
      /\ InvalidMode => pc = "stream"
      /\ Returned => pc = "done" \/ pc = "thrown"
  BY DEF Encode, CorrectErrors, EndOfStream, InvalidMode, Returned
<1>2. \A mode : ~Reading(mode)  BY Zenon DEF Reading
<1>3. /\ ~ReadFNC1First /\ ~ReadFNC1Second /\ ~ReadStructuredAppend /\ ~ReadECI /\ ~ReadHanzi
      /\ \A mode : ~ReadSegment(mode)
  BY <1>2, Zenon DEF ReadFNC1First, ReadFNC1Second, ReadStructuredAppend, ReadECI, ReadHanzi,
                     ReadSegment
<1>4. ~Encode /\ ~CorrectErrors /\ ~EndOfStream /\ ~InvalidMode /\ ~Returned
  BY <1>1
<1> QED  BY <1>3, <1>4, Zenon DEF Next

LEMMA EncodeReads ==
  ASSUME ReadingInv, input.kind = "text", pc = "encode", Next
  PROVE  ReadingInv'
<1>1. Encode  BY ActionsOf
<1>2. UNCHANGED <<input, pos, content, symbology, structuredAppend, error>>  BY <1>1 DEF Encode
<1>3. input \in Inputs /\ Untouched  BY Zenon DEF ReadingInv
<1>4. Untouched' /\ input' \in Inputs  BY <1>2, <1>3 DEF Untouched
<1> DEFINE mode == ModeOf(input)
<1>5. CASE \E n \in VersionsFor(input, mode) : EncodedAs(mode, Model2Version(n))
  <2>1. PICK n \in VersionsFor(input, mode) : EncodedAs(mode, Model2Version(n))  BY <1>5
  <2> DEFINE v == Model2Version(n)
  <2>2. /\ symbol' = v /\ pc' = "blocks"
        /\ bytes' = TerminateBits(
             HeaderBits(input, mode)
               \o Bits(NumLetters(mode, Len(input.text)), CharacterCountBits(mode, v))
               \o DataBits(mode, input.text),
             4, NumDataBytes(v, input.level))
    BY <2>1, Zenon DEF EncodedAs
  <2>3. WrittenAs(input, n, bytes')
    BY <2>2, Zenon DEF WrittenAs, StreamBits, CountPart, CountOf, DataPart
  <2>4. TextCall(input)  BY <1>3 DEF TextCall
  <2>5. Decoding(input, n)'
    <3>1. TextCall(input') /\ n \in VersionsFor(input', ModeOf(input'))
          /\ WrittenAs(input', n, bytes') /\ input' = input
      BY <1>2, <2>1, <2>3, <2>4
    <3> QED  BY <2>2, <3>1, Zenon DEF Decoding
  <2>6. \E k : Decoding(input, k)'  BY <2>5, Zenon
  <2> QED  BY <1>4, <2>2, <2>6 DEF ReadingInv
<1>6. CASE pc' = "thrown"  BY <1>4, <1>6 DEF ReadingInv
<1>7. EncodedOrThrown(mode, VersionsFor(input, mode))  BY <1>1, Zenon DEF Encode
<1> QED  BY <1>5, <1>6, <1>7, Zenon DEF EncodedOrThrown

LEMMA StageStart ==
  ASSUME NEW call, TextCall(call), NEW v
  PROVE  Stage(call, v, 0, C!Empty, None)
<1>1. call.gs1 \in BOOLEAN /\ NeedsECI(call, ModeOf(call)) \in BOOLEAN
  BY InputsAssumption DEF TextCall, NeedsECI
<1>2. CASE NeedsECI(call, ModeOf(call))  BY <1>2, Zenon DEF Stage, BeforeECI
<1>3. CASE ~NeedsECI(call, ModeOf(call))
  <2>1. FNC1At(call) = 0 /\ ECIContent(call) = C!Empty  BY <1>3, Zenon DEF FNC1At, ECIContent
  <2>2. CASE call.gs1  BY <2>1, <2>2, Zenon DEF Stage, BeforeFNC1
  <2>3. CASE ~call.gs1
    <3>1. ModeAt(call) = 0  BY <2>1, <2>3 DEF ModeAt
    <3>2. FlagOf(call) = None  BY <2>3 DEF FlagOf
    <3> QED  BY <2>1, <3>1, <3>2, Zenon DEF Stage, BeforeText
  <2> QED  BY <1>1, <2>2, <2>3
<1> QED  BY <1>1, <1>2, <1>3

LEMMA CorrectReads ==
  ASSUME ReadingInv, input.kind = "text", pc = "blocks", Next, OriginalBlocks
  PROVE  ReadingInv'
<1> DEFINE blocks == GetDataBlocks(symbol, input.level)
<1>1. CorrectErrors  BY ActionsOf
<1>2. /\ bytes' = ResultBytes(blocks)
      /\ error' = IF \E j \in DOMAIN blocks : Lost(blocks, j) THEN "Checksum" ELSE None
      /\ pos' = IF symbol.type = "Model1" THEN 4 ELSE 0
      /\ symbology' = [symbology EXCEPT !.modifier = IF symbol.type = "Model1" THEN 0 ELSE 1]
      /\ pc' = "stream"
      /\ UNCHANGED <<input, symbol, codewords, content, structuredAppend>>
  BY <1>1, Zenon DEF CorrectErrors
<1>3. input \in Inputs /\ Untouched  BY Zenon DEF ReadingInv
<1>4. PICK n : Decoding(input, n)  BY Zenon DEF ReadingInv
<1>5. /\ TextCall(input) /\ n \in VersionsFor(input, ModeOf(input))
      /\ symbol = Model2Version(n) /\ WrittenAs(input, n, bytes)
  BY <1>4, Zenon DEF Decoding
<1> DEFINE b == Model2[n][input.level]
<1>6. BlocksPrinted(b) /\ Len(bytes) = DataLength(b)
  <2>1. BlocksFound(symbol, input.level, codewords)
    BY Zenon DEF OriginalBlocks, BlocksFound
  <2> QED  BY <1>5, <2>1, BlocksArePrinted
<1>7. symbol.type = "Model2"  BY <1>5 DEF Model2Version, Version
<1>8. Blocks = b  BY <1>6 DEF BlocksPrinted, Blocks
<1> HIDE DEF b
<1>9. /\ input.damage = "beyond" => error' = "Checksum"
      /\ input.damage # "beyond" => error' = None /\ bytes' = SubSeq(bytes, 1, DataLength(b))
  BY <1>1, <1>3, <1>6, <1>8, Corrections
<1>10. input' = input /\ input' \in Inputs /\ pc' = "stream"  BY <1>2, <1>3
<1>12. CASE input.damage = "beyond"
  BY <1>9, <1>10, <1>12 DEF ReadingInv
<1>13. CASE input.damage # "beyond"
  <2>3. bytes' = bytes
    <3> DEFINE B == 0 .. 255
    <3>1. bytes \in Seq(B)  BY <1>6 DEF BlocksPrinted
    <3> HIDE DEF B
    <3>2. SubSeq(bytes, 1, Len(bytes)) = bytes  BY <3>1, WholeIs
    <3>3. bytes' = SubSeq(bytes, 1, DataLength(b))  BY <1>9, <1>13
    <3> QED  BY <1>6, <3>2, <3>3
  <2>4. error' = None  BY <1>9, <1>13
  <2>5. pos' = 0 /\ content' = C!Empty /\ symbology'.aiFlag = None
        /\ structuredAppend' = NoStructuredAppend
    <3> HIDE DEF blocks
    <3>1. symbology' = [symbology EXCEPT !.modifier = 1]  BY <1>2, <1>7
    <3>2. symbology'.aiFlag = symbology.aiFlag  BY <3>1
    <3> QED  BY <1>2, <1>3, <1>7, <3>2 DEF Untouched
  <2>6. Stage(input', symbol', pos', content', symbology'.aiFlag)
    <3>1. Stage(input, symbol, 0, C!Empty, None)  BY <1>5, StageStart
    <3> QED  BY <1>2, <2>5, <3>1
  <2>7. Decoding(input, n)'
    <3>1. TextCall(input') /\ n \in VersionsFor(input', ModeOf(input'))
          /\ symbol' = Model2Version(n) /\ WrittenAs(input', n, bytes')
      <4> HIDE DEF blocks
      <4> QED  BY <1>2, <1>5, <2>3
    <3> QED  BY <3>1, Zenon DEF Decoding
  <2>8. \E k : Decoding(input, k)'  BY <2>7, Zenon
  <2>9. Undisturbed'  BY <2>4, <2>5 DEF Undisturbed
  <2> QED  BY <1>10, <1>13, <2>6, <2>8, <2>9 DEF ReadingInv
<1> QED  BY <1>12, <1>13

(* The error of the blocks stays whatever is read.                         *)
LEMMA ErrorStays ==
  ASSUME Next, pc = "stream", error = "Checksum"
  PROVE  error' = "Checksum" /\ input' = input /\ pc' \in {"stream", "done"}
<1>1. ~Encode /\ ~PrintSymbol /\ ~CorrectErrors /\ ~Returned
  BY DEF Encode, PrintSymbol, CorrectErrors, Returned
<1>2. /\ Stay => error' = error /\ input' = input /\ pc' = pc
      /\ Fail => error' = error /\ input' = input /\ pc' = "done"
  BY DEF Stay, Fail, printed
<1>3. EndOfStream => error' = error /\ input' = input /\ pc' = "done"
  BY DEF EndOfStream, printed
<1>4. InvalidMode \/ ReadFNC1First \/ ReadFNC1Second \/ ReadStructuredAppend \/ ReadECI
        => Stay \/ Fail
  BY Zenon DEF InvalidMode, ReadFNC1First, ReadFNC1Second, ReadStructuredAppend, ReadECI
<1>5. \A mode, p, width : ReadCounted(mode, p, width) => Stay \/ Fail
  <2>1. \A mode, p, length, u : ReadGroups(mode, p, length, u) => Stay \/ Fail
    BY Zenon DEF ReadGroups
  <2> QED  BY <2>1, Zenon DEF ReadCounted
<1>6. ReadHanzi => Stay \/ Fail  BY <1>5, Zenon DEF ReadHanzi
<1>7. \A mode : ReadSegment(mode) => Stay \/ Fail  BY <1>5, Zenon DEF ReadSegment
<1>8. Stay \/ Fail \/ EndOfStream  BY <1>1, <1>4, <1>6, <1>7, Zenon DEF Next
<1> QED  BY <1>2, <1>3, <1>8

LEMMA StreamReads ==
  ASSUME ReadingInv, input.kind = "text", pc = "stream", Next
  PROVE  ReadingInv'
<1>1. input \in Inputs  BY Zenon DEF ReadingInv
<1>2. CASE input.damage = "beyond"
  <2>1. error = "Checksum"  BY <1>2 DEF ReadingInv
  <2>2. error' = "Checksum" /\ input' = input /\ pc' \in {"stream", "done"}
    BY <2>1, ErrorStays
  <2> QED  BY <1>1, <1>2, <2>2 DEF ReadingInv
<1>3. CASE input.damage # "beyond"
  <2>1. /\ \E n : Decoding(input, n)
        /\ Stage(input, symbol, pos, content, symbology.aiFlag) /\ Undisturbed
    BY <1>3, Zenon DEF ReadingInv
  <2>2. PICK n : Decoding(input, n)  BY <2>1
  <2>3. ASSUME UNCHANGED printed  PROVE (\E k : Decoding(input, k))' /\ input' = input
                                        /\ symbol' = symbol
    <3>1. /\ TextCall(input) /\ n \in VersionsFor(input, ModeOf(input))
          /\ symbol = Model2Version(n) /\ WrittenAs(input, n, bytes)
      BY <2>2, Zenon DEF Decoding
    <3>2. input' = input /\ symbol' = symbol /\ bytes' = bytes  BY <2>3 DEF printed
    <3>3. Decoding(input, n)'  BY <3>1, <3>2, Zenon DEF Decoding
    <3> QED  BY <3>2, <3>3, Zenon
  <2>4. CASE BehindText(input, symbol, pos, content, symbology.aiFlag)
    <3>1. pc' = "done" /\ UNCHANGED <<printed, pos, content, symbology, structuredAppend, error>>
      BY <2>2, <2>4, EndStep
    <3>2. UNCHANGED printed /\ pos' = pos /\ content' = content /\ symbology' = symbology
          /\ structuredAppend' = structuredAppend /\ error' = error
      BY <3>1
    <3>3. (\E k : Decoding(input, k))' /\ input' = input /\ symbol' = symbol  BY <2>3, <3>2
    <3>4. BehindText(input', symbol', pos', content', symbology'.aiFlag)
      BY <2>4, <3>2, <3>3
    <3>5. Undisturbed'  BY <2>1, <3>2 DEF Undisturbed
    <3> QED  BY <1>1, <1>3, <3>1, <3>3, <3>4, <3>5 DEF ReadingInv
  <2>5. ASSUME /\ Stage(input, symbol, pos', content', symbology'.aiFlag) /\ pc' = pc
               /\ UNCHANGED <<printed, error, structuredAppend>>
        PROVE  ReadingInv'
    <3>1. /\ UNCHANGED printed /\ pc' = "stream"
          /\ structuredAppend' = structuredAppend /\ error' = error
      BY <2>5
    <3>2. (\E k : Decoding(input, k))' /\ input' = input /\ symbol' = symbol  BY <2>3, <3>1
    <3>3. Stage(input', symbol', pos', content', symbology'.aiFlag)
      BY <2>5, <3>2
    <3>4. Undisturbed'  BY <2>1, <3>1 DEF Undisturbed
    <3> QED  BY <1>1, <1>3, <3>1, <3>2, <3>3, <3>4 DEF ReadingInv
  <2>6. CASE BeforeECI(input, pos, content, symbology.aiFlag)
    <3>1. /\ Stage(input, symbol, pos', content', symbology'.aiFlag) /\ pc' = pc
          /\ UNCHANGED <<printed, error, structuredAppend>>
      BY <2>2, <2>6, ECIStep
    <3> QED  BY <2>5, <3>1
  <2>7. CASE BeforeFNC1(input, pos, content, symbology.aiFlag)
    <3>1. /\ Stage(input, symbol, pos', content', symbology'.aiFlag) /\ pc' = pc
          /\ UNCHANGED <<printed, error, structuredAppend>>
      BY <2>2, <2>7, FNC1Step
    <3> QED  BY <2>5, <3>1
  <2>8. CASE BeforeText(input, pos, content, symbology.aiFlag)
    <3>1. /\ Stage(input, symbol, pos', content', symbology'.aiFlag) /\ pc' = pc
          /\ UNCHANGED <<printed, error, structuredAppend>>
      BY <2>2, <2>8, TextStep
    <3> QED  BY <2>5, <3>1
  <2> QED  BY <2>1, <2>4, <2>6, <2>7, <2>8, Zenon DEF Stage
<1> QED  BY <1>2, <1>3

LEMMA ReadingKept ==
  ASSUME ReadingInv, OriginalBlocks, [Next]_vars
  PROVE  ReadingInv'
<1>1. CASE UNCHANGED vars
  <2>1. /\ pc' = pc /\ input' = input /\ symbol' = symbol /\ bytes' = bytes /\ pos' = pos
        /\ content' = content /\ symbology' = symbology
        /\ structuredAppend' = structuredAppend /\ error' = error
    BY <1>1 DEF vars
  <2> QED  BY <2>1, Zenon DEF ReadingInv, Untouched, Undisturbed, Decoding
<1>2. CASE Next /\ input.kind = "text"
  <2>1. pc \in {"encode", "blocks", "stream", "done", "thrown"}  BY <1>2, Zenon DEF ReadingInv
  <2>2. CASE pc = "encode"  BY <1>2, <2>2, EncodeReads
  <2>3. CASE pc = "blocks"  BY <1>2, <2>3, CorrectReads
  <2>4. CASE pc = "stream"  BY <1>2, <2>4, StreamReads
  <2>5. CASE pc = "done" \/ pc = "thrown"
    <3>1. UNCHANGED vars  BY <1>2, <2>5, ActionsOf, Zenon DEF Returned
    <3> QED  BY <1>1, <3>1
  <2> QED  BY <2>1, <2>2, <2>3, <2>4, <2>5
<1>3. CASE Next /\ input.kind # "text"
  <2>1. input' = input
    <3>1. CASE Encode \/ PrintSymbol  BY <3>1 DEF Encode, PrintSymbol
    <3>2. CASE ~Encode /\ ~PrintSymbol
      <4>1. (input' = input /\ pc' \in {"stream", "done"}) \/ UNCHANGED vars
        BY <1>3, <3>2, StepsFromBlocks
      <4> QED  BY <4>1 DEF vars
    <3> QED  BY <3>1, <3>2
  <2> QED  BY <1>3, <2>1 DEF ReadingInv
<1> QED  BY <1>1, <1>2, <1>3

(* Whatever the text, its character set, the level, the version and the    *)
(* table: what Encode prints of it is read by Decode as that text, in its  *)
(* encoding, with the FNC1 of a GS1 text and without an error, if as many  *)
(* codewords of each block are damaged as can be corrected; and a text of  *)
(* which a block is lost is not read without an error.                     *)
THEOREM TextIsReadAsMeant == Spec => [](input.kind = "text" => ReadAsMeant)
<1>1. Init => ReadingInv
  BY DEF Init, ReadingInv, Untouched
<1>2. ReadingInv /\ OriginalBlocks /\ [Next]_vars => ReadingInv'  BY ReadingKept
<1>3. ReadingInv => (input.kind = "text" => ReadAsMeant)
  <2> SUFFICES ASSUME ReadingInv, input.kind = "text", pc = "done", ~HasPercent
               PROVE  ReadAs(Meaning(Segments), C!StreamOf(content))
    BY Zenon DEF ReadAsMeant
  <2>1. CASE input.damage = "beyond"
    <3>1. error = "Checksum"  BY <2>1 DEF ReadingInv
    <3> QED  BY <2>1, <3>1, Zenon DEF ReadAs
  <2>2. CASE input.damage # "beyond"
    <3>1. /\ \E n : Decoding(input, n)
          /\ BehindText(input, symbol, pos, content, symbology.aiFlag) /\ Undisturbed
      BY <2>2, Zenon DEF ReadingInv
    <3>2. PICK n : Decoding(input, n)  BY <3>1
    <3>3. TextCall(input)  BY <3>2, Zenon DEF Decoding
    <3>4. symbol.type = "Model2"  BY <3>2, DecodingIs
    <3>5. content = FullContent(input) /\ symbology.aiFlag = FlagOf(input)
          /\ structuredAppend = NoStructuredAppend /\ error = None
      BY <3>1, Zenon DEF BehindText, Undisturbed
    <3> QED  BY <2>2, <3>3, <3>4, <3>5, ReadFully
  <2> QED  BY <2>1, <2>2
<1> QED  BY <1>1, <1>2, <1>3, BlocksAreOriginal, PTL DEF Spec
-----------------------------------------------------------------------------
(* The symbols of other encoders, up to the end of the blocks.             *)
PrintedBits(call) ==
  (IF call.symbol.type = "Model1" THEN <<0, 0, 0, 0>> ELSE <<>>)
  \o ConcatenatedBits(call.symbol, call.segments)
PrintedAs(call, b) ==
  b = TerminateBits(PrintedBits(call), TerminatorBitsLength(call.symbol),
                    NumDataBytes(call.symbol, call.level))

LEMMA OthersArePrinted ==
  ASSUME input \in Inputs, input.kind = "printed", symbol = input.symbol,
         PrintedAs(input, bytes), BlocksFound(symbol, input.level, codewords)
  PROVE  BlocksPrinted(Blocks)
<1> DEFINE v == input.symbol
           b == v.levels[input.level]
           N == NumDataBytes(v, input.level)
           t == TerminatorBitsLength(v)
           d == PrintedBits(input)
<1>1. Blocks = b  BY DEF Blocks
<1>2. Printable(v, b)  BY InputsAssumption
<1>3. b \in Seq(Nat) /\ Divided(b) /\ v.number \in Nat
      /\ TotalCodewords(v) \in Nat /\ AllCodewords(b) <= TotalCodewords(v)
  BY <1>2, Zenon DEF Printable, ECBlocks
<1>4. HasHalfCodeword => b[1] >= 2
  <2>1. HasHalfCodeword => v.type = "Micro" /\ v.number % 2 = 1
    BY Zenon DEF HasHalfCodeword
  <2>2. v.type = "Micro" /\ v.number % 2 = 1 => b[1] >= 2  BY <1>2, Zenon DEF Printable
  <2> QED  BY <2>1, <2>2, Zenon
<1>5. N \in Nat /\ DataLength(b) <= N
  <2>1. N = TotalCodewords(v) - TotalECCodewords(b)  BY Zenon DEF NumDataBytes
  <2> HIDE DEF b, v, N
  <2>2. AllCodewords(b) - TotalECCodewords(b) = DataLength(b) /\ DataLength(b) \in Nat
        /\ AllCodewords(b) \in Nat /\ TotalECCodewords(b) \in Nat
    BY <1>3, DataOfBlocks
  <2> QED  BY <1>3, <2>1, <2>2
<1>6. t \in Nat
  <2> HIDE DEF v
  <2>1. 2 * v.number + 1 \in Nat  BY <1>3
  <2> QED  BY <2>1 DEF TerminatorBitsLength, t
<1>7. IsBits(d)
  <2> DEFINE s == ConcatenatedBits(v, input.segments)
             h == IF v.type = "Model1" THEN <<0, 0, 0, 0>> ELSE <<>>
  <2>1. s \in Seq({0, 1})  BY SegmentsAssumption
  <2>2. h \in Seq({0, 1})
    <3>1. <<0, 0, 0, 0>> \in Seq({0, 1}) /\ <<>> \in Seq({0, 1})  OBVIOUS
    <3> QED  BY <3>1, Zenon
  <2>3. d = h \o s  BY Zenon DEF PrintedBits
  <2> HIDE DEF s, h, d
  <2> QED  BY <2>1, <2>2, <2>3, ConcatProperties DEF IsBits
<1>8. bytes = TerminateBits(d, t, N)  BY Zenon DEF PrintedAs
<1> HIDE DEF v, b, N, t, d
<1>9. bytes \in Seq(0 .. 255) /\ Len(bytes) = N
  <2> DEFINE ended == IF Len(d) + t <= 8 * N THEN Len(d) + t ELSE 8 * N
             used == (ended + 7) \div 8
  <2>1. Len(d) \in Nat  BY <1>7 DEF IsBits
  <2>2. ended \in 0 .. 8 * N  BY <1>5, <1>6, <2>1
  <2>3. bytes = Padded(d, used, N)  BY <1>8 DEF TerminateBits
  <2> HIDE DEF ended
  <2>4. used \in 0 .. N  BY <1>5, <2>2
  <2> HIDE DEF used
  <2> QED  BY <1>5, <1>7, <2>3, <2>4, PaddedBits
<1>10. DataLength(b) <= Len(bytes) /\ b = symbol.levels[input.level]
  BY <1>5, <1>9 DEF b, v
<1> QED  BY <1>1, <1>3, <1>4, <1>9, <1>10, Zenon DEF BlocksPrinted

PrintedInv ==
  input.kind = "printed" =>
    /\ pc = "blocks" => symbol = input.symbol /\ PrintedAs(input, bytes)
    /\ pc \in {"stream", "done"} /\ input.damage = "beyond" => error = "Checksum"
    /\ pc \in {"print", "blocks", "stream", "done"}
CorrectionsInv == BlocksInv /\ ReadingInv /\ PrintedInv

LEMMA BlocksOfAll ==
  ASSUME CorrectionsInv, pc = "blocks"
  PROVE  BlocksPrinted(Blocks)
<1>1. input \in Inputs /\ OriginalBlocks
  BY Zenon DEF CorrectionsInv, BlocksInv, VersionInv
<1>2. BlocksFound(symbol, input.level, codewords)
  BY <1>1, Zenon DEF OriginalBlocks, BlocksFound
<1>3. input.kind \in {"text", "printed"}  BY <1>1, InputsAssumption
<1>4. CASE input.kind = "printed"
  <2>1. symbol = input.symbol /\ PrintedAs(input, bytes)
    BY <1>4, Zenon DEF CorrectionsInv, PrintedInv
  <2> QED  BY <1>1, <1>2, <1>4, <2>1, OthersArePrinted
<1>5. CASE input.kind = "text"
  <2>1. PICK n : Decoding(input, n)  BY <1>5, Zenon DEF CorrectionsInv, ReadingInv
  <2>2. /\ TextCall(input) /\ n \in VersionsFor(input, ModeOf(input))
        /\ symbol = Model2Version(n) /\ WrittenAs(input, n, bytes)
    BY <2>1, Zenon DEF Decoding
  <2> DEFINE b == Model2[n][input.level]
  <2>3. BlocksPrinted(b)  BY <1>2, <2>2, BlocksArePrinted
  <2> HIDE DEF b
  <2>4. Blocks = b  BY <2>3, Zenon DEF BlocksPrinted, Blocks
  <2> QED  BY <2>3, <2>4
<1> QED  BY <1>3, <1>4, <1>5

LEMMA PrintedKept ==
  ASSUME CorrectionsInv, [Next]_vars
  PROVE  PrintedInv'
<1>1. CASE UNCHANGED vars
  <2>1. pc' = pc /\ input' = input /\ symbol' = symbol /\ bytes' = bytes /\ error' = error
    BY <1>1 DEF vars
  <2>2. PrintedInv  BY DEF CorrectionsInv
  <2> QED  BY <2>1, <2>2, Zenon DEF PrintedInv
<1>2. CASE Next /\ PrintSymbol
  <2>1. /\ symbol' = input.symbol /\ input' = input /\ pc' = "blocks"
        /\ bytes' = TerminateBits(PrintedBits(input), TerminatorBitsLength(input.symbol),
                                  NumDataBytes(input.symbol, input.level))
    BY <1>2, Zenon DEF PrintSymbol, PrintedBits
  <2>2. PrintedAs(input', bytes')  BY <2>1, Zenon DEF PrintedAs
  <2> QED  BY <2>1, <2>2 DEF PrintedInv
<1>3. CASE Next /\ Encode
  <2>1. input.kind = "text" /\ input' = input
    BY <1>3, Zenon DEF Encode, CorrectionsInv, BlocksInv, VersionInv
  <2> QED  BY <2>1 DEF PrintedInv
<1>4. CASE Next /\ ~PrintSymbol /\ ~Encode
  <2>1. CASE UNCHANGED vars  BY <1>1, <2>1
  <2>2. CASE ~UNCHANGED vars
    <3>1. input' = input /\ pc' \in {"stream", "done"}
      <4> HIDE DEF vars
      <4> QED  BY <1>4, <2>2, StepsFromBlocks
    <3>2. ASSUME input.kind = "printed", input.damage = "beyond"  PROVE error' = "Checksum"
      <4>1. /\ pc \in {"print", "blocks", "stream", "done"}
            /\ pc \in {"stream", "done"} => error = "Checksum"
        BY <3>2, Zenon DEF CorrectionsInv, PrintedInv
      <4>2. CASE CorrectErrors
        <5>1. input \in Inputs  BY Zenon DEF CorrectionsInv, BlocksInv, VersionInv
        <5>2. pc = "blocks"  BY <4>2 DEF CorrectErrors
        <5>3. BlocksPrinted(Blocks)  BY <5>2, BlocksOfAll
        <5> QED  BY <3>2, <4>2, <5>1, <5>3, Corrections
      <4>3. CASE pc = "stream"  BY <1>4, <4>1, <4>3, ErrorStays
      <4>4. CASE pc = "done" \/ pc = "blocks"
        BY <1>4, <2>2, <4>2, <4>4, ActionsOf, Zenon DEF Returned
      <4>5. pc # "print"
        <5>1. pc = "print" => PrintSymbol
          <6> SUFFICES ASSUME pc = "print"  PROVE PrintSymbol
            OBVIOUS
          <6>1. pc \notin {"encode", "blocks", "stream", "done", "thrown"}  OBVIOUS
          <6> QED  BY <1>4, <6>1, OnlyPrinting
        <5> QED  BY <1>4, <5>1
      <4> QED  BY <4>1, <4>3, <4>4, <4>5
    <3> QED  BY <3>1, <3>2 DEF PrintedInv
  <2> QED  BY <2>1, <2>2
<1> QED  BY <1>1, <1>2, <1>3, <1>4

LEMMA CorrectionsStay == Spec => []CorrectionsInv
<1>1. Init => ReadingInv /\ PrintedInv
  BY DEF Init, ReadingInv, Untouched, PrintedInv
<1>2. BlocksInv /\ ReadingInv /\ PrintedInv /\ [Next]_vars => ReadingInv' /\ PrintedInv'
  BY ReadingKept, PrintedKept DEF CorrectionsInv, BlocksInv
<1>3. BlocksInv /\ ReadingInv /\ PrintedInv => CorrectionsInv  BY DEF CorrectionsInv
<1> QED  BY <1>1, <1>2, <1>3, BlocksStay, PTL DEF Spec

(* Whoever encoded the symbol, of whatever type and with whatever blocks:  *)
(* what is read of the blocks is what was put into them, without an error, *)
(* if as many codewords of each are damaged as can be corrected, also if   *)
(* the half codeword of a Micro QR Code is read wrong besides.             *)
DamageRepaired ==
  CorrectErrors /\ input.damage # "beyond" =>
    error' = None /\ bytes' = SubSeq(bytes, 1, NumBlocks(Blocks) * Blocks[3] + Blocks[4])

THEOREM DamageIsRepaired == Spec => [][DamageRepaired]_vars
<1>1. CorrectionsInv /\ [Next]_vars => [DamageRepaired]_vars
  <2> SUFFICES ASSUME CorrectionsInv, CorrectErrors, input.damage # "beyond"
               PROVE  /\ error' = None
                      /\ bytes' = SubSeq(bytes, 1, NumBlocks(Blocks) * Blocks[3] + Blocks[4])
    BY Zenon DEF DamageRepaired
  <2>1. input \in Inputs  BY Zenon DEF CorrectionsInv, BlocksInv, VersionInv
  <2>2. pc = "blocks"  BY DEF CorrectErrors
  <2>3. BlocksPrinted(Blocks)  BY <2>2, BlocksOfAll
  <2>4. error' = None /\ bytes' = SubSeq(bytes, 1, DataLength(Blocks))
    BY <2>1, <2>3, Corrections
  <2> QED  BY <2>4, Zenon DEF DataLength
<1> QED  BY <1>1, CorrectionsStay, PTL DEF Spec

(* And if a block is lost, the reading ends with the error of the blocks,  *)
(* whatever is found in the bytes of the others (QRDecoder.cpp, Decode:    *)
(* `if (error) ret.setError(error)`, after the bit stream has been read).  *)
THEOREM LossIsReported == Spec => [](input.damage = "beyond" => ReadAsMeant)
<1>1. CorrectionsInv => (input.damage = "beyond" => ReadAsMeant)
  <2> SUFFICES ASSUME CorrectionsInv, input.damage = "beyond", pc = "done"
               PROVE  ReadAs(Meaning(Segments), C!StreamOf(content))
    BY Zenon DEF ReadAsMeant
  <2>1. input.kind \in {"text", "printed"}
    BY InputsAssumption DEF CorrectionsInv, BlocksInv, VersionInv
  <2>2. error = "Checksum"
    BY <2>1, Zenon DEF CorrectionsInv, ReadingInv, PrintedInv
  <2> QED  BY <2>2, Zenon DEF ReadAs
<1> QED  BY <1>1, CorrectionsStay, PTL
=============================================================================
