-------------------------- MODULE DMHighLevelEncoder --------------------------
(***************************************************************************)
(* Encode (DMHighLevelEncoder.cpp): a text becomes the data codewords of a *)
(* symbol.  Each encodation takes characters until LookAheadTest prefers   *)
(* another or the text ends; its HandleEOD then decides, by the room left  *)
(* in the symbol, whether an unlatch is written and which characters go    *)
(* back to be encoded in ASCII.                                            *)
(***************************************************************************)
EXTENDS DMSymbols

(***************************************************************************)
(* The encodations of Data Matrix: which characters each is made for, the  *)
(* values of a character in C40 and Text, and LookAheadTest                *)
(* (DMHighLevelEncoder.cpp), which guesses the one that will take the      *)
(* fewest codewords.                                                       *)
(***************************************************************************)

Encodations == {"ASCII", "C40", "TEXT", "X12", "EDIFACT", "BASE256"}

CR == 13
Space == 32
Digit == 48 .. 57
Capital == 65 .. 90
Small == 97 .. 122
ExtendedASCII == 128 .. 255
X12TermSep == {CR, 42, 62}

Native ==
  [C40 |-> {Space} \cup Digit \cup Capital,
   TEXT |-> {Space} \cup Digit \cup Small,
   X12 |-> X12TermSep \cup {Space} \cup Digit \cup Capital,
   EDIFACT |-> 32 .. 94]
-----------------------------------------------------------------------------
(* The counts are floats: whole numbers of 2^-24, and their sums rounded   *)
(* to 24 significant bits.  They must stay below 128 here.                 *)
One == 16777216
Float == [third2 |-> 11184811, third4 |-> 22369622, third8 |-> 44739244,
          third10 |-> 55924052, third13 |-> 72701272]

UnitOf(x) ==                                 \* of the last bit of x
  CASE x < 2 * One -> IF x < One THEN 1 ELSE 2
    [] x >= 2 * One /\ x < 8 * One -> IF x < 4 * One THEN 4 ELSE 8
    [] x >= 8 * One /\ x < 32 * One -> IF x < 16 * One THEN 16 ELSE 32
    [] OTHER -> IF x < 64 * One THEN 64 ELSE 128
RoundedTo(x, unit) ==                        \* to the nearest, ties to the even one
  LET q == x \div unit
      r == 2 * (x % unit)
  IN  unit * (IF r > unit \/ (r = unit /\ q % 2 = 1) THEN q + 1 ELSE q)
Plus(x, y) == RoundedTo(x + y, UnitOf(x + y))
Ceiling(x) == (x + One - 1) \div One

NativeCost == [C40 |-> Float.third2, TEXT |-> Float.third2, X12 |-> Float.third2,
               EDIFACT |-> 3 * (One \div 4)]
ExtendedCost == [C40 |-> Float.third8, TEXT |-> Float.third8, X12 |-> Float.third13,
                 EDIFACT |-> 17 * (One \div 4)]
OtherCost == [C40 |-> Float.third4, TEXT |-> Float.third4, X12 |-> Float.third10,
              EDIFACT |-> 13 * (One \div 4)]

FirstCounts(mode) ==
  IF mode = "ASCII"
    THEN [m \in Encodations |->
            CASE m = "ASCII" -> 0 [] m = "BASE256" -> 5 * (One \div 4) [] OTHER -> One]
    ELSE [m \in Encodations |->
            CASE m = mode -> 0 [] m = "ASCII" -> One
              [] m = "BASE256" -> 9 * (One \div 4) [] OTHER -> 2 * One]

Count(m, x, c) ==
  CASE m = "BASE256" -> Plus(x, One)
    [] m = "ASCII" -> IF c \in Digit THEN Plus(x, One \div 2)
                      ELSE One * (Ceiling(x) + (IF c \in ExtendedASCII THEN 2 ELSE 1))
    [] OTHER -> Plus(x, CASE c \in Native[m] -> NativeCost[m]
                          [] c \in ExtendedASCII -> ExtendedCost[m]
                          [] OTHER -> OtherCost[m])

(* Steps K and R; `ceilings` are the counts rounded up.                    *)
Minimal(ceilings) == {m \in Encodations : \A n \in Encodations : ceilings[m] <= ceilings[n]}
Undecided == "undecided"

AtEnd(minimal) ==
  CASE "ASCII" \in minimal -> "ASCII"
    [] minimal \in {{"BASE256"}, {"EDIFACT"}, {"TEXT"}, {"X12"}} -> CHOOSE m \in minimal : TRUE
    [] OTHER -> "C40"

(* C40 and X12 are level: what comes after the next character decides.     *)
X12Follows(msg, p) ==
  \E i \in p + 1 .. Len(msg) :
     msg[i] \in X12TermSep /\ \A k \in p + 1 .. i - 1 : msg[k] \in Native.X12

AfterFour(ceilings, minimal, msg, p) ==
  LET Below(m, others) == \A n \in others : ceilings[m] < ceilings[n]
      ascii == Below("ASCII", Encodations \ {"ASCII"})
      base256 == ~ascii /\ (Below("BASE256", {"ASCII"}) \/ minimal \subseteq {"ASCII", "BASE256"})
      other == ~ascii /\ ~base256 /\ minimal \in {{"EDIFACT"}, {"TEXT"}, {"X12"}}
      c40 == /\ ~ascii /\ ~base256 /\ ~other
             /\ \A n \in {"ASCII", "BASE256", "EDIFACT", "TEXT"} :
                  ceilings["C40"] + 1 < ceilings[n]
  IN  CASE ascii -> "ASCII"
        [] base256 -> "BASE256"
        [] other -> CHOOSE m \in minimal : TRUE
        [] c40 /\ ceilings["C40"] < ceilings["X12"] -> "C40"
        [] c40 /\ ceilings["C40"] = ceilings["X12"] ->
             IF X12Follows(msg, p + 1) THEN "X12" ELSE "C40"
        [] OTHER -> Undecided

(* Characters p + 1 .. p + n of msg have been counted.                     *)
RECURSIVE CountFrom(_, _, _, _), Decided(_, _, _, _, _)
Decided(msg, p, n, counts, ceilings) ==
  LET early == IF n >= 4 THEN AfterFour(ceilings, Minimal(ceilings), msg, p + n) ELSE Undecided
  IN  IF early # Undecided THEN early ELSE CountFrom(msg, p, n, counts)
CountFrom(msg, p, n, counts) ==
  IF p + n = Len(msg) THEN AtEnd(Minimal([m \in Encodations |-> Ceiling(counts[m])]))
  ELSE LET next == [m \in Encodations |-> Count(m, counts[m], msg[p + n + 1])]
       IN  Decided(msg, p, n + 1, next, [m \in Encodations |-> Ceiling(next[m])])

LookAheadTest(msg, p, mode) ==
  IF p >= Len(msg) THEN mode ELSE CountFrom(msg, p, 0, FirstCounts(mode))
-----------------------------------------------------------------------------
(* C40 and Text: the values of a character.                                *)
BasicValue(mode, c) ==
  CASE c = Space -> 3
    [] c \in Digit -> c - 48 + 4
    [] OTHER -> c - (IF mode = "C40" THEN 65 ELSE 97) + 14
Shifted(mode, c) ==
  CASE c < 32 -> <<0, c>>
    [] c \in 33 .. 47 -> <<1, c - 33>>
    [] c \in 58 .. 64 -> <<1, c - 58 + 15>>
    [] c \in 91 .. 95 -> <<1, c - 91 + 22>>
    [] c = 96 \/ c \in Small -> <<2, c - 96>>
    [] c \in Capital -> <<2, c - 65 + 1>>
    [] OTHER -> <<2, c - 123 + 27>>
ASCIIValues(mode, c) ==
  IF c \in Native[mode] THEN <<BasicValue(mode, c)>> ELSE Shifted(mode, c)
Values(mode, c) ==
  IF c \in ExtendedASCII THEN <<1, 30>> \o ASCIIValues(mode, c - 128) ELSE ASCIIValues(mode, c)

(* The value of a character of X12.                                        *)
X12Value(c) ==
  CASE c = CR -> 0 [] c = 42 -> 1 [] c = 62 -> 2 [] OTHER -> BasicValue("C40", c)

(* Three values are two codewords, four of EDIFACT are three, fewer than   *)
(* four as many as there are; unused bits are zero.                        *)
Triplet(v) ==
  LET n == 1600 * v[1] + 40 * v[2] + v[3] + 1
  IN  <<n \div 256, n % 256>>
EDIFACTCodewords(v) ==
  LET At(k) == IF k <= Len(v) THEN v[k] % 64 ELSE 0
      all == <<4 * At(1) + At(2) \div 16, 16 * (At(2) % 16) + At(3) \div 4, 64 * (At(3) % 4) + At(4)>>
  IN  SubSeq(all, 1, IF Len(v) < 3 THEN Len(v) ELSE 3)
-----------------------------------------------------------------------------

VARIABLES
  call,               \* text, shape, limits
  phase,              \* of the encoder: "start", "encode", "encoded" or "thrown"
  position,           \* number of characters taken
  mode, step,         \* encodation, and where in it the encoder is
  buffer,             \* values or characters not yet written
  lastCharSize, available,
  symbolInfo,         \* index of the symbol last looked up
  codewords,
  history             \* what went wrong without notice
encoding == <<position, mode, step, buffer, lastCharSize, available>>
encoderVars == <<call, phase, encoding, symbolInfo, codewords, history>>

PAD == 129
UPPER_SHIFT == 235
UNLATCH == 254
EDIFACTUnlatch == 31
LATCHES == [C40 |-> 230, TEXT |-> 239, X12 |-> 238, EDIFACT |-> 240, BASE256 |-> 231]
MacroHeader == [m \in {236, 237} |-> <<91, 41, 62, 30, 48, IF m = 236 THEN 53 ELSE 54, 29>>]
MacroTrailer == <<30, 4>>

NoHistory == [lost |-> FALSE, omittedAt |-> 0, room |-> 0]

EncoderInit ==
  /\ phase = "start" /\ position = 0 /\ mode = "ASCII" /\ step = "characters"
  /\ buffer = <<>> /\ lastCharSize = 0 /\ available = 0
  /\ symbolInfo = NoSymbol /\ codewords = <<>> /\ history = NoHistory

(* EncoderContext.                                                         *)
IsMacro(text, m) ==
  /\ Len(text) >= 9 /\ SubSeq(text, 1, 7) = MacroHeader[m]
  /\ SubSeq(text, Len(text) - 1, Len(text)) = MacroTrailer
MacroOf(text) == {m \in {236, 237} : IsMacro(text, m)}
Total == Len(call.text) - (IF MacroOf(call.text) = {} THEN 0 ELSE 2)
RemainingAfter(p) == Total - p
HasMoreAfter(p) == p < Total
CurrentChar == call.text[position + 1]

FirstSymbolInfo(info, len) ==                \* mutant: looked up once
  IF info = NoSymbol THEN Lookup(len, call.shape, call.limits) ELSE info
UpdatedSymbolInfo(info, len) ==
  IF info = NoSymbol \/ len > Capacity(info)
    THEN Lookup(len, call.shape, call.limits) ELSE info

Throw(what) ==
  /\ phase' = "thrown" /\ step' = what
  /\ UNCHANGED <<call, position, mode, buffer, lastCharSize, available, symbolInfo, codewords, history>>
NoSymbolFits == "no symbol"
IllegalCharacter == "illegal character"
UnexpectedCase == "unexpected case"

(* Without an unlatch the decoder reads on unless the room is all there is. *)
Omitted(room) == [history EXCEPT !.omittedAt = Len(codewords), !.room = room]

EncodingIn(modes, s) == phase = "encode" /\ mode \in modes /\ step = s
Stays == UNCHANGED <<call, phase>>

(* The encodation is left; the next character is looked at in ASCII.       *)
ToASCII(written, p) ==
  /\ codewords' = codewords \o written /\ position' = p
  /\ mode' = "ASCII" /\ step' = "characters" /\ buffer' = <<>>
  /\ lastCharSize' = 0 /\ available' = 0
-----------------------------------------------------------------------------
StartEncoding ==
  /\ phase = "start" /\ phase' = "encode"
  /\ LET macro == MacroOf(call.text)
     IN  IF macro = {} THEN UNCHANGED <<codewords, position>>
         ELSE codewords' = <<CHOOSE m \in macro : TRUE>> /\ position' = 7
  /\ UNCHANGED <<call, mode, step, buffer, lastCharSize, available, symbolInfo, history>>

TwoDigits ==
  /\ position + 2 <= Len(call.text)
  /\ CurrentChar \in Digit /\ call.text[position + 2] \in Digit

InASCII(c) == IF c \in ExtendedASCII THEN <<UPPER_SHIFT, c - 128 + 1>> ELSE <<c + 1>>

EncodeASCII ==
  /\ EncodingIn({"ASCII"}, "characters") /\ HasMoreAfter(position)
  /\ \/ /\ TwoDigits
        /\ ToASCII(<<10 * (CurrentChar - 48) + (call.text[position + 2] - 48) + 130>>, position + 2)
     \/ /\ ~TwoDigits
        /\ \E newMode \in {LookAheadTest(call.text, position, "ASCII")} :
             IF newMode = "ASCII" THEN ToASCII(InASCII(CurrentChar), position + 1)
             ELSE /\ codewords' = Append(codewords, LATCHES[newMode]) /\ mode' = newMode
                  /\ UNCHANGED <<position, step, buffer, lastCharSize, available>>
  /\ Stays /\ UNCHANGED <<symbolInfo, history>>
-----------------------------------------------------------------------------
(* C40 and Text.                                                           *)
Unwritten(values) == 2 * (Len(values) \div 3)
Triplets(values) ==
  [n \in 1 .. Unwritten(values) |->
     LET first == 3 * ((n + 1) \div 2) - 2
     IN  Triplet(SubSeq(values, first, first + 2))[2 - (n % 2)]]

AfterC40Char(values, p) ==
  CASE ~HasMoreAfter(p) -> "last"
    [] HasMoreAfter(p) /\ Len(values) % 3 = 0 /\ LookAheadTest(call.text, p, mode) # mode -> "end"
    [] OTHER -> "characters"

TakeC40(values, p, needed, info) ==
  IF info = NoSymbol THEN Throw(NoSymbolFits)
  ELSE /\ buffer' = values /\ position' = p /\ symbolInfo' = info
       /\ lastCharSize' = Len(values) - Len(buffer)
       /\ available' = Capacity(info) - needed
       /\ step' = AfterC40Char(values, p)
       /\ Stays /\ UNCHANGED <<mode, codewords, history>>

EncodeC40Char ==
  /\ EncodingIn({"C40", "TEXT"}, "characters")
  /\ \E values \in {buffer \o Values(mode, CurrentChar)} :
     \E needed \in {Len(codewords) + Unwritten(values)} :
       TakeC40(values, position + 1, needed, UpdatedSymbolInfo(symbolInfo, needed))

(* BacktrackOneCharacter leaves the size of the removed character in       *)
(* lastCharSize, not that of the one that is the last now.                 *)
MustRemove ==
  \/ step = "last" /\ Len(buffer) % 3 = 2 /\ available # 2
  \/ Len(buffer) % 3 = 1 /\ (lastCharSize > 3 \/ available # 1)

Backtrack ==
  /\ \E s \in {"last", "single"} : EncodingIn({"C40", "TEXT"}, s)
  /\ CASE ~MustRemove ->
              /\ step' = "end" /\ Stays
              /\ UNCHANGED <<position, mode, buffer, lastCharSize, available, symbolInfo, codewords, history>>
       [] MustRemove /\ lastCharSize > Len(buffer) -> Throw(UnexpectedCase)   \* by resize
       [] OTHER ->
            LET removed == Len(Values(mode, call.text[position]))
            IN  /\ buffer' = SubSeq(buffer, 1, Len(buffer) - lastCharSize)
                /\ position' = position - 1 /\ lastCharSize' = removed
                /\ history' = [history EXCEPT !.lost = @ \/ lastCharSize # removed]
                /\ symbolInfo' = NoSymbol /\ step' = "single" /\ Stays
                /\ UNCHANGED <<mode, available, codewords>>

C40EndForMore(more, room, rest) ==           \* mutant: room alone needs no unlatch
  CASE rest = 2 -> <<Triplets(Append(buffer, 0)) \o (IF more THEN <<UNLATCH>> ELSE <<>>), position>>
    [] rest = 1 /\ room = 1 ->
         <<Triplets(buffer) \o (IF more THEN <<UNLATCH>> ELSE <<>>), position - 1>>
    [] rest = 0 -> <<Triplets(buffer) \o (IF more THEN <<UNLATCH>> ELSE <<>>), position>>
C40End(more, room, rest) ==
  CASE rest = 2 -> <<Triplets(Append(buffer, 0)) \o (IF more THEN <<UNLATCH>> ELSE <<>>), position>>
    [] rest = 1 /\ room = 1 ->
         <<Triplets(buffer) \o (IF more THEN <<UNLATCH>> ELSE <<>>), position - 1>>
    [] rest = 0 -> <<Triplets(buffer) \o (IF room > 0 \/ more THEN <<UNLATCH>> ELSE <<>>), position>>

HandleC40End ==
  /\ EncodingIn({"C40", "TEXT"}, "end")
  /\ \E needed \in {Len(codewords) + Unwritten(buffer)} :
     \E info \in {UpdatedSymbolInfo(symbolInfo, needed)} :
       CASE info = NoSymbol -> Throw(NoSymbolFits)
         [] info # NoSymbol /\ Len(buffer) % 3 = 1 /\ Capacity(info) - needed # 1 ->
              Throw(UnexpectedCase)
         [] OTHER ->
              /\ \E end \in {C40End(HasMoreAfter(position), Capacity(info) - needed, Len(buffer) % 3)} :
                   ToASCII(end[1], end[2])
              /\ symbolInfo' = info /\ Stays /\ UNCHANGED history
-----------------------------------------------------------------------------
(* X12.                                                                    *)
EncodeX12Char ==
  /\ EncodingIn({"X12"}, "characters")
  /\ IF CurrentChar \notin Native.X12 THEN Throw(IllegalCharacter)
     ELSE \E values \in {Append(buffer, X12Value(CurrentChar))} :
            /\ position' = position + 1
            /\ IF Len(values) < 3
                 THEN buffer' = values /\ UNCHANGED codewords
                 ELSE buffer' = <<>> /\ codewords' = codewords \o Triplet(values)
            /\ step' = IF \/ ~HasMoreAfter(position + 1)
                          \/ Len(values) = 3 /\ LookAheadTest(call.text, position + 1, "X12") # "X12"
                       THEN "end" ELSE "characters"
            /\ Stays /\ UNCHANGED <<mode, lastCharSize, available, symbolInfo, history>>

(* What is not a whole triplet is encoded in ASCII.  No unlatch is needed  *)
(* if one codeword is left for one character.                              *)
HandleX12End ==
  /\ EncodingIn({"X12"}, "end")
  /\ \E info \in {UpdatedSymbolInfo(symbolInfo, Len(codewords))} :
       IF info = NoSymbol THEN Throw(NoSymbolFits)
       ELSE LET p == position - Len(buffer)
                room == Capacity(info) - Len(codewords)
                unlatch == RemainingAfter(p) > 1 \/ room > 1 \/ RemainingAfter(p) # room
            IN  /\ ToASCII(IF unlatch THEN <<UNLATCH>> ELSE <<>>, p)
                /\ history' = IF unlatch THEN history ELSE Omitted(1)
                /\ symbolInfo' = info /\ Stays
-----------------------------------------------------------------------------
(* EDIFACT.                                                                *)
EncodeEDIFACTChar ==
  /\ EncodingIn({"EDIFACT"}, "characters")
  /\ IF CurrentChar \notin Native.EDIFACT THEN Throw(IllegalCharacter)
     ELSE \E values \in {Append(buffer, CurrentChar)} :
            /\ position' = position + 1
            /\ IF Len(values) < 4
                 THEN buffer' = values /\ UNCHANGED codewords
                 ELSE buffer' = <<>> /\ codewords' = codewords \o EDIFACTCodewords(values)
            /\ step' = IF \/ ~HasMoreAfter(position + 1)
                          \/ Len(values) = 4 /\ LookAheadTest(call.text, position + 1, mode) # mode
                       THEN "end" ELSE "characters"
            /\ Stays /\ UNCHANGED <<mode, lastCharSize, available, symbolInfo, history>>

(* Less than three codewords at the end of the symbol are read as ASCII    *)
(* without an unlatch.                                                     *)
RoomIn(info) == Capacity(info) - Len(codewords)
EDIFACTRest(info) ==
  LET rest == Len(buffer)
      encoded == EDIFACTCodewords(Append(buffer, EDIFACTUnlatch))
      ascii == rest <= 2 /\ ~HasMoreAfter(position)
      ends == UpdatedSymbolInfo(info, Len(codewords) + rest)
      roomy == rest <= 2 /\ ends # NoSymbol /\ RoomIn(ends) >= 3
      after == CASE rest > 2 -> info
                 [] rest <= 2 /\ ~roomy -> IF ends # NoSymbol /\ ascii THEN 0 ELSE ends
                 [] rest <= 2 /\ roomy -> UpdatedSymbolInfo(ends, Len(codewords) + Len(encoded))
  IN  IF rest <= 2 /\ (ends = NoSymbol \/ (roomy /\ after = NoSymbol)) THEN Throw(NoSymbolFits)
      ELSE /\ IF ascii /\ ~roomy THEN ToASCII(<<>>, position - rest) ELSE ToASCII(encoded, position)
           /\ symbolInfo' = after /\ Stays /\ UNCHANGED history

HandleEDIFACTEnd ==
  /\ EncodingIn({"EDIFACT"}, "end")
  /\ \/ buffer # <<>> /\ EDIFACTRest(symbolInfo)
     \/ /\ buffer = <<>>
        /\ \E first \in {UpdatedSymbolInfo(symbolInfo, Len(codewords))} :
           \E grown \in {IF first # NoSymbol /\ RemainingAfter(position) > RoomIn(first)
                           THEN UpdatedSymbolInfo(first, Len(codewords) + 1) ELSE first} :
             CASE grown = NoSymbol -> Throw(NoSymbolFits)
               [] grown # NoSymbol /\ RemainingAfter(position) <= RoomIn(grown) /\ RoomIn(grown) <= 2 ->
                    /\ ToASCII(<<>>, position)
                    /\ history' = Omitted(2)
                    /\ symbolInfo' = grown /\ Stays
               [] OTHER -> EDIFACTRest(grown)
-----------------------------------------------------------------------------
(* Base 256.                                                               *)
Randomize255State(b, n) == (b + ((149 * n) % 255) + 1) % 256
Randomize253State(b, n) ==
  LET r == b + ((149 * n) % 253) + 1 IN IF r <= 254 THEN r ELSE r - 254

EncodeBase256Char ==
  /\ EncodingIn({"BASE256"}, "characters")
  /\ buffer' = Append(buffer, CurrentChar) /\ position' = position + 1
  /\ step' = IF \/ ~HasMoreAfter(position + 1)
                \/ LookAheadTest(call.text, position + 1, mode) # mode
             THEN "end" ELSE "characters"
  /\ Stays /\ UNCHANGED <<mode, lastCharSize, available, symbolInfo, codewords, history>>

(* A length of 0 is the rest of the symbol.                                *)
LengthField(count, isRest) ==
  CASE isRest -> <<0>>
    [] ~isRest /\ count <= 249 -> <<count>>
    [] OTHER -> <<count \div 250 + 249, count % 250>>

HandleBase256End ==
  /\ EncodingIn({"BASE256"}, "end")
  /\ \E size \in {Len(codewords) + Len(buffer) + 1} :
     \E info \in {UpdatedSymbolInfo(symbolInfo, size)} :
       CASE info = NoSymbol -> Throw(NoSymbolFits)
         [] info # NoSymbol /\ Len(buffer) > 1555 /\ (HasMoreAfter(position) \/ Capacity(info) > size) ->
              Throw("length")
         [] OTHER ->
              /\ \E bytes \in {LengthField(Len(buffer), ~HasMoreAfter(position) /\ Capacity(info) = size)
                               \o buffer} :
                   ToASCII([n \in DOMAIN bytes |->
                              Randomize255State(bytes[n], Len(codewords) + n)], position)
              /\ symbolInfo' = info /\ Stays /\ UNCHANGED history
-----------------------------------------------------------------------------
Padded(data, capacity) ==
  [n \in 1 .. capacity |->
     CASE n <= Len(data) -> data[n]
       [] n = Len(data) + 1 -> PAD
       [] OTHER -> Randomize253State(PAD, n)]

Pad ==
  /\ EncodingIn({"ASCII"}, "characters") /\ ~HasMoreAfter(position)
  /\ \E info \in {UpdatedSymbolInfo(symbolInfo, Len(codewords))} :
       IF info = NoSymbol THEN Throw(NoSymbolFits)
       ELSE /\ codewords' = Padded(codewords, Capacity(info))
            /\ symbolInfo' = info /\ phase' = "encoded"
            /\ UNCHANGED <<call, encoding, history>>

EncoderNext ==
  \/ StartEncoding \/ EncodeASCII
  \/ EncodeC40Char \/ Backtrack \/ HandleC40End
  \/ EncodeX12Char \/ HandleX12End
  \/ EncodeEDIFACTChar \/ HandleEDIFACTEnd
  \/ EncodeBase256Char \/ HandleBase256End
  \/ Pad
=============================================================================
