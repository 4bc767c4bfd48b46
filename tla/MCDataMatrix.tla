----------------------------- MODULE MCDataMatrix -----------------------------
(***************************************************************************)
(* Texts that switch between encodations and end at the limits of symbols, *)
(* symbols with the segments of other encoders, and every layout.          *)
(***************************************************************************)
EXTENDS DataMatrix

ToEncode(text, shape, limits) ==
  [kind |-> "text", text |-> text, shape |-> shape, limits |-> limits]
Repeated(c, n) == [i \in 1 .. n |-> c]
A == 65
Hyphen == 45
EAcute == 233
Caret == 94

(* Beginnings that lead into an encodation, and every ending of at most    *)
(* two characters: A 1 a space * - e-acute CR ^ DEL.                       *)
UpTo(set, n) == UNION {[1 .. k -> set] : k \in 0 .. n}
Beginnings ==
  {<<>>, Repeated(A, 6), Repeated(97, 6), <<A, 66, 42, 62, A, 66>>, <<A, Hyphen, 67, Hyphen>>,
   Repeated(EAcute, 4), Repeated(49, 3), <<A, A, A, A, A, A, Hyphen, 42>>}
Endings == UpTo({A, 49, 97, Space, 42, Hyphen, EAcute, CR, Caret, 127}, 2)
Short ==
  {ToEncode(b \o e, shape, NoLimits) :
     b \in Beginnings, e \in Endings, shape \in {"NONE", "RECTANGLE"}}

(* Repeated patterns of every length up to 24, in the sizes they allow.    *)
Patterns == {<<A, 49>>, <<97, 98, A>>, <<A, Hyphen>>, <<42, A, 62>>, <<97, EAcute>>, <<Caret, 42>>}
Ends == {<<>>, <<EAcute>>, <<Hyphen>>}
Lengths ==
  {ToEncode([i \in 1 .. n |-> p[((i - 1) % Len(p)) + 1]] \o e, shape, limits) :
     p \in Patterns, n \in 1 .. 20, e \in Ends, shape \in {"NONE", "SQUARE"},
     limits \in {NoLimits, Limits(16, 16, 20, 20)}}

(* Base 256 at its limits, macros, texts the encoder refuses, and those it *)
(* gets wrong.                                                             *)
Macro(digit, text) == Header(digit) \o text \o Trailer
Special ==
  {Repeated(EAcute, n) : n \in {249, 250, 279, 280, 1555, 1556, 1557}}
  \cup {Repeated(EAcute, n) \o Repeated(49, 6) : n \in {249, 250, 1556}}
  \cup {Repeated(A, 2335), Repeated(A, 2336)}
  \cup {Macro(d, t) : d \in {53, 54}, t \in {<<>>, <<A>>, Repeated(A, 6), <<Caret, 42, A, 50, 49>>}}
  \cup {Header(53), Header(55) \o Trailer}
  \cup {<<32, 49, 94, 49, 32, 32, 65, 32, 65, 62, 13, 65, 42, 42, 49>>,
        <<98, 45, 98, 98, 98, 98, 98, 98, 98, 98, 65, 98, 65, 233>>}
(* Those whose backtracking cuts the buffer at the wrong value, and one    *)
(* that ends in EDIFACT without unlatch in a symbol that grows.            *)
Backtracked ==
  {ToEncode(<<13, 50, 49, 65, 98, 98, 97, 50, 98, 65, 97, 50, 98, 49, 45, 98, 45, 98, 45, 233, 233, 233>>,
            shape, NoLimits) : shape \in Shapes}
  \cup {ToEncode(<<98, 45, 98, 98, 98, 98, 98, 98, 98, 98, 65, 98, 65, 233>>, "RECTANGLE", NoLimits)}
Unlatched == {ToEncode(<<A, A, A, A, A, A, Hyphen, 42, EAcute>>, "NONE", NoLimits)}
TextInputs ==
  Short \cup Lengths \cup Backtracked \cup Unlatched
    \cup {ToEncode(t, "NONE", NoLimits) : t \in Special}
-----------------------------------------------------------------------------
Symbol48(version, segments, damage, mirrored, turned) ==
  [kind |-> "symbol", version |-> version, segments |-> segments, damage |-> damage,
   mirrored |-> mirrored, turned |-> turned]
S(kind, text) == Segment(kind, text)
ASCII == S("ASCII", <<A, EAcute, 0, 255>>)
Digits == S("DIGITS", <<48, 57, 53, 48>>)
C40 == S("C40", <<A, 97, 95, 7, 200, 29, 32, 66>>)
TextMode == S("TEXT", <<97, A, 126, 33, 224, 31, 98>>)
X12 == S("X12", <<CR, 42, 62, 32, 57, 90>>)
EDIFACT(n) == S("EDIFACT", [i \in 1 .. n |-> <<32, 94, 64, 63, 48>>[i]])
Base == S("BASE256", <<0, 255, 128>>)
LongBase == S("BASE256", [i \in 1 .. 300 |-> (i * 7) % 256])
FNC1 == S("FNC1", <<>>)
ECI(e) == S("ECI", <<e>>)
Part(i, n) == S("PART", <<i, n, 7, 200>>)
Init234 == S("INIT", <<>>)
Macro5(d) == S("MACRO", <<d>>)
Codewords(s) == S("CODEWORDS", s)

Orders ==
  {<<ASCII, Digits, C40>>, <<C40, TextMode, X12>>, <<X12, EDIFACT(4), ASCII>>, <<Base, ASCII>>,
   <<EDIFACT(1), EDIFACT(2), EDIFACT(3), EDIFACT(5)>>, <<TextMode, Base, Digits>>,
   <<FNC1, Digits, FNC1, ASCII>>, <<S("ASCII", <<A>>), FNC1, Digits>>, <<Digits, FNC1>>,
   <<FNC1, FNC1, Digits>>, <<Part(2, 3), FNC1, Digits>>, <<Part(1, 16), Digits, FNC1>>,
   <<Part(15, 3), ASCII>>, <<Part(3, 17), S("ASCII", <<A>>), FNC1>>, <<ASCII, Part(1, 2), Digits>>,
   <<Init234, ASCII>>, <<ASCII, Init234, Digits>>, <<Macro5(53), ASCII>>, <<Macro5(54), C40, ECI(26)>>,
   <<ASCII, ECI(26), TextMode>>, <<ECI(126), ASCII, ECI(127), Digits>>, <<ECI(899), Base>>,
   <<ECI(16382), ASCII, ECI(16383), Digits>>, <<ECI(999999), ASCII>>,
   <<ASCII, Codewords(<<0>>), Digits>>, <<ASCII, Codewords(<<255>>), Digits>>}

(* Values no encodation has, and fields the symbol cuts off.               *)
Cut ==
  {Symbol48(1, segments, "none", FALSE, FALSE) : segments \in
     {<<Digits, ECI(899)>>, <<Digits, ECI(3)>>, <<Part(1, 2)>>, <<Digits, Base>>, <<Base>>,
      <<S("ASCII", <<A>>), S("C40", <<A, A, A>>)>>, <<Digits, S("ASCII", <<EAcute>>)>>,
      <<Digits, Codewords(<<254, 65>>)>>, <<S("ASCII", <<A, A, A, A>>)>>}}
InvalidValues ==
  {Symbol48(2, <<S("NOISE", <<latch>> \o values \o <<66, 66>>)>>, "none", FALSE, FALSE) :
     latch \in {230, 238, 239}, values \in {<<0, 0>>, <<255, 255>>, Triplet(<<1, 28, 5>>),
       Triplet(<<2, 39, 5>>), Triplet(<<5, 6, 2>>)}}
Whole ==
  {Symbol48(v, segments, "none", m, FALSE) : v \in {8, 30, 48}, segments \in Orders, m \in {FALSE}}
  \cup {Symbol48(8, segments, "none", TRUE, FALSE) : segments \in Orders}
Versions48 ==
  {Symbol48(v, <<ASCII>>, d, FALSE, FALSE) : v \in 2 .. 48, d \in {"none", "beyond"}}
  \cup {Symbol48(v, <<LongBase, Digits>>, "none", FALSE, v = 24) : v \in {17, 23, 24}}
  \cup {Symbol48(24, <<ASCII, LongBase, Digits>>, d, m, TRUE) :
          d \in {"none", "beyond"}, m \in BOOLEAN}
Layouts == {[kind |-> "layout", version |-> v] : v \in 1 .. 48}

MCInputs == TextInputs \cup Cut \cup Whole \cup Versions48 \cup Layouts \cup InvalidValues
=============================================================================
