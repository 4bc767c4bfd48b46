------------------------------ MODULE AZDecoder ------------------------------
(***************************************************************************)
(* Decode of the corrected bits of an Aztec symbol (AZDecoder.cpp): codes  *)
(* of 4 or 5 bits are looked up in the table shifted or latched to; what   *)
(* the tables do not hold is read from a binary shift or an FLG(n).  What  *)
(* readBits cannot read is thrown and becomes a format error.              *)
(***************************************************************************)
EXTENDS Integers, Sequences, SequencesExt

VARIABLES
  reading,          \* "no", "content" or "done"
  allBits, remBits, \* the message, and how much of it is read
  latchTable, shiftTable,
  content, haveFNC1,
  modifier, aiFlag, sai, error
tableVars == <<latchTable, shiftTable>>
outcomeVars == <<modifier, aiFlag, sai, error>>
decoderVars == <<reading, allBits, remBits, tableVars, content, haveFNC1, outcomeVars>>

C == INSTANCE Content WITH
       Bytes <- 0 .. 255, ECIs <- Int, CharacterSets <- {-1}, Backslash <- 92,
       ISO8859_1 <- 3, Unknown <- -1, NoSwitch <- -2,
       EraseCalls <- {}, Headers <- {}, InsertCalls <- {},
       MaxBytes <- 0, MaxEncodings <- 0,
       merged <- content, cut <- content

GS == 29
NoPart == [index |-> -1, count |-> -1, id |-> <<>>]
Upper == 65 .. 90
Digits == 48 .. 57

(* The five tables: what is appended, or the table a control code leads    *)
(* to, for good or for the next code.                                      *)
Chars(s) == [kind |-> "chars", chars |-> s]
Latch(t) == [kind |-> "latch", table |-> t]
Shift(t) == [kind |-> "shift", table |-> t]
FLGN == [kind |-> "flg"]
Single(s) == [i \in DOMAIN s |-> Chars(<<s[i]>>)]
From(first, last) == [i \in 1 .. last - first + 1 |-> Chars(<<first + i - 1>>)]

UPPER_TABLE ==
  <<Shift("PUNCT"), Chars(<<32>>)>> \o From(65, 90)
  \o <<Latch("LOWER"), Latch("MIXED"), Latch("DIGIT"), Shift("BINARY")>>
LOWER_TABLE ==
  <<Shift("PUNCT"), Chars(<<32>>)>> \o From(97, 122)
  \o <<Shift("UPPER"), Latch("MIXED"), Latch("DIGIT"), Shift("BINARY")>>
MIXED_TABLE ==
  <<Shift("PUNCT"), Chars(<<32>>)>> \o From(1, 13) \o From(27, 31)
  \o Single(<<64, 92, 94, 95, 96, 124, 126, 127>>)
  \o <<Latch("LOWER"), Latch("UPPER"), Latch("PUNCT"), Shift("BINARY")>>
PUNCT_TABLE ==
  <<FLGN, Chars(<<13>>), Chars(<<13, 10>>), Chars(<<46, 32>>), Chars(<<44, 32>>), Chars(<<58, 32>>)>>
  \o From(33, 47) \o From(58, 63) \o Single(<<91, 93, 123, 125>>) \o <<Latch("UPPER")>>
DIGIT_TABLE ==
  <<Shift("PUNCT"), Chars(<<32>>)>> \o From(48, 57) \o Single(<<44, 46>>)
  \o <<Latch("UPPER"), Shift("UPPER")>>
TABLES ==
  [UPPER |-> UPPER_TABLE, LOWER |-> LOWER_TABLE, MIXED |-> MIXED_TABLE,
   PUNCT |-> PUNCT_TABLE, DIGIT |-> DIGIT_TABLE]

DecoderInit ==
  /\ reading = "no" /\ allBits = <<>> /\ remBits = 0
  /\ latchTable = "UPPER" /\ shiftTable = "UPPER"
  /\ content = C!Empty /\ haveFNC1 = FALSE
  /\ modifier = 0 /\ aiFlag = "None" /\ sai = NoPart /\ error = "None"

Decode(corrected) ==
  /\ reading' = "content" /\ allBits' = corrected /\ remBits' = 0
  /\ UNCHANGED <<tableVars, content, haveFNC1, outcomeVars>>
-----------------------------------------------------------------------------
(* DecodeContent.                                                          *)
Remaining == Len(allBits) - remBits
ValueAt(first, n) ==                         \* of n bits, after the first
  FoldLeft(LAMBDA v, b : 2 * v + b, 0, SubSeq(allBits, first + 1, first + n))
CodeSize == IF shiftTable = "DIGIT" THEN 4 ELSE 5
GoesOn == reading = "content" /\ Remaining >= CodeSize
Returned(e) == reading' = "done" /\ error' = e

ReadBinary ==
  /\ GoesOn /\ shiftTable = "BINARY" /\ Remaining > 6
  /\ LET short == ValueAt(remBits, 5)
         header == IF short = 0 THEN 16 ELSE 5
         length == IF short = 0 THEN ValueAt(remBits + 5, 11) + 31 ELSE short
     IN  IF Remaining < header \/ Remaining < header + 8 * length
           THEN /\ Returned("Format") /\ UNCHANGED <<remBits, tableVars, content>>
           ELSE /\ content' = [content EXCEPT !.bytes = @ \o
                      [i \in 1 .. length |-> ValueAt(remBits + header + 8 * (i - 1), 8)]]
                /\ remBits' = remBits + header + 8 * length
                /\ shiftTable' = latchTable /\ UNCHANGED <<reading, latchTable, error>>
  /\ UNCHANGED <<allBits, haveFNC1, modifier, aiFlag, sai>>

ReadingEntry(kind) ==
  /\ GoesOn /\ shiftTable # "BINARY"
  /\ TABLES[shiftTable][ValueAt(remBits, CodeSize) + 1].kind = kind
Entry == TABLES[shiftTable][ValueAt(remBits, CodeSize) + 1]
CharsUnchanged == UNCHANGED <<reading, allBits, content, haveFNC1, outcomeVars>>

ReadCharacter ==
  /\ ReadingEntry("chars")
  /\ content' = [content EXCEPT !.bytes = @ \o Entry.chars]
  /\ remBits' = remBits + CodeSize /\ shiftTable' = latchTable
  /\ UNCHANGED <<reading, allBits, latchTable, haveFNC1, outcomeVars>>

ReadLatch ==
  /\ ReadingEntry("latch")
  /\ remBits' = remBits + CodeSize /\ shiftTable' = Entry.table /\ latchTable' = Entry.table
  /\ CharsUnchanged

(* The table a shift comes from is returned to, be it one shifted to.      *)
ShiftBackToLatch ==                          \* mutant: latchTable is kept
  /\ ReadingEntry("shift")
  /\ remBits' = remBits + CodeSize /\ shiftTable' = Entry.table /\ UNCHANGED latchTable
  /\ CharsUnchanged
ReadShift ==
  /\ ReadingEntry("shift")
  /\ remBits' = remBits + CodeSize /\ shiftTable' = Entry.table /\ latchTable' = shiftTable
  /\ CharsUnchanged

(* FLG(0) is FNC1, FLG(1) to FLG(6) an ECI of as many digits; FLG(7) is    *)
(* passed over.                                                            *)
ECIValue(first, flg) ==                      \* ParseECIValue
  FoldLeft(LAMBDA v, i : 10 * v + ValueAt(first + 4 * (i - 1), 4) - 2, 0, [i \in 1 .. flg |-> i])
ReadFLG ==
  /\ ReadingEntry("flg")
  /\ LET first == remBits + CodeSize
         flg == ValueAt(first, 3)
         digits == IF flg <= 6 THEN 4 * flg ELSE 0
     IN  IF Len(allBits) < first + 3 \/ Len(allBits) < first + 3 + digits
           THEN Returned("Format") /\ UNCHANGED <<remBits, shiftTable, content, haveFNC1>>
           ELSE /\ remBits' = first + 3 + digits
                /\ haveFNC1' = (haveFNC1 \/ flg = 0)
                /\ content' = IF flg = 0 THEN C!PushBack(content, GS)
                              ELSE IF flg <= 6 THEN C!SwitchEncoding(content, ECIValue(first + 3, flg), TRUE)
                              ELSE content
                /\ shiftTable' = latchTable /\ UNCHANGED <<reading, error>>
  /\ UNCHANGED <<allBits, latchTable, modifier, aiFlag, sai>>
-----------------------------------------------------------------------------
(* After the loop: structured append and FNC1 are told from the text.      *)
SpaceAfter(s, i) ==                          \* places of spaces beyond i
  {k \in DOMAIN s : k > i /\ s[k] = 32}
FirstOf(places) == CHOOSE k \in places : \A j \in places : k <= j

(* The number of bytes removed and what they say.                          *)
PartAfter(s, i, id) ==
  IF Len(s) < i + 2 \/ ~({s[i + 1], s[i + 2]} \subseteq Upper)
    THEN [removed |-> 0, sai |-> NoPart]
  ELSE LET n == s[i + 2] - 65 + 1
           index == s[i + 1] - 65
       IN  [removed |-> i + 2,
            sai |-> [index |-> index, count |-> IF n = 1 \/ n <= index THEN 0 ELSE n, id |-> id]]
ParseStructuredAppend(s) ==
  IF s[1] # 32 THEN PartAfter(s, 0, <<>>)
  ELSE IF SpaceAfter(s, 1) = {} THEN [removed |-> 0, sai |-> NoPart]
  ELSE LET sp == FirstOf(SpaceAfter(s, 1)) IN PartAfter(s, sp, SubSeq(s, 2, sp - 1))

(* The place of the FNC1 that is removed, and what it makes of the symbol. *)
FNC1At(s) ==
  CASE s[1] = GS -> 1
    [] s[1] \in Upper /\ Len(s) > 2 /\ s[2] = GS -> 2
    [] s[1] \in Digits /\ Len(s) > 3 /\ s[2] \in Digits /\ s[3] = GS -> 3
    [] OTHER -> 0

HaveStructuredAppend ==
  Len(allBits) > 20 /\ ValueAt(0, 5) = 29 /\ ValueAt(5, 5) = 29

Finish ==
  /\ reading = "content"
  /\ Remaining < CodeSize \/ (shiftTable = "BINARY" /\ Remaining <= 6)
  /\ IF content.bytes = <<>> THEN Returned("Format") /\ UNCHANGED <<content, modifier, aiFlag, sai>>
     ELSE \E part \in {IF HaveStructuredAppend THEN ParseStructuredAppend(content.bytes)
                       ELSE [removed |-> 0, sai |-> NoPart]} :
          \E rest \in {IF part.removed = 0 THEN content ELSE C!Erase(content, 0, part.removed)} :
            IF rest.bytes = <<>>
              THEN Returned("Format") /\ content' = rest /\ UNCHANGED <<modifier, aiFlag, sai>>
              ELSE \E at \in {IF haveFNC1 THEN FNC1At(rest.bytes) ELSE 0} :
                     /\ Returned("None")
                     /\ content' = IF at = 0 THEN rest ELSE C!Erase(rest, at - 1, 1)
                     /\ aiFlag' = CASE at = 0 -> "None" [] at = 1 -> "GS1" [] at \in {2, 3} -> "AIM"
                     /\ sai' = part.sai
                     /\ modifier' = (CASE at = 0 -> 0 [] at = 1 -> 1 [] at \in {2, 3} -> 2)
                                    + IF part.sai.index # -1 THEN 6 ELSE 0
  /\ UNCHANGED <<allBits, remBits, tableVars, haveFNC1>>

DecoderNext ==
  \/ ReadBinary \/ ReadCharacter \/ ReadLatch \/ ReadShift \/ ReadFLG \/ Finish
=============================================================================
