---------------------------- MODULE ContentStream ----------------------------
(***************************************************************************)
(* What a Content promises its users: every byte is read in the encoding   *)
(* of the last switch before it, wherever it ends up when text before it   *)
(* is removed or inserted and when the symbols of a structured append      *)
(* sequence are joined.  As soon as there is an ECI, switches that are not *)
(* ECIs count for nothing.  Content implements this with a list of         *)
(* positions.                                                              *)
(***************************************************************************)
EXTENDS Integers, Sequences

CONSTANTS Bytes, ECIs, CharacterSets,
          NoSwitch    \* the mark of a byte before any switch
VARIABLES content, merged

EmptyStream == [text |-> <<>>, current |-> NoSwitch, eci |-> FALSE]

(* The text of s as it has to be read when nothing but ECIs counts.        *)
Unmarked(s, mark) == [i \in DOMAIN s.text |-> <<s.text[i][1], mark>>]
OnlyECIs(s) == IF s.eci THEN s.text ELSE Unmarked(s, NoSwitch)

(* What comes before the first switch of t is read like the end of s.      *)
Following(mark, text) ==
  [i \in DOMAIN text |->
     IF text[i][2] = NoSwitch THEN <<text[i][1], mark>> ELSE text[i]]
LaterOf(mark, next) == IF next = NoSwitch THEN mark ELSE next

Join(s, t) ==
  CASE s.eci = t.eci ->
         [text |-> s.text \o Following(s.current, t.text),
          current |-> LaterOf(s.current, t.current), eci |-> s.eci]
    [] s.eci /\ ~t.eci ->
         [s EXCEPT !.text = @ \o Unmarked(t, s.current)]
    [] ~s.eci /\ t.eci ->
         [t EXCEPT !.text = OnlyECIs(s) \o @]

Init == content = EmptyStream /\ merged = EmptyStream

Add(b) ==
  content' = [content EXCEPT !.text = Append(@, <<b, content.current>>)]
SwitchECI(e) ==
  content' = [text |-> OnlyECIs(content), current |-> e, eci |-> TRUE]
SwitchCharset(cs) ==
  content' = IF content.eci THEN content ELSE [content EXCEPT !.current = cs]
Remove(from, to) ==
  content' = [content EXCEPT !.text = SubSeq(@, 1, from) \o SubSeq(@, to + 1, Len(@))]

(* Inserted text is read like what it is inserted before, at the end like  *)
(* what would be added there.                                              *)
InsertBefore(i, text) ==
  LET mark == IF i > Len(content.text) THEN content.current ELSE content.text[i][2]
  IN  content' = [content EXCEPT !.text =
        SubSeq(@, 1, i - 1) \o [n \in DOMAIN text |-> <<text[n], mark>>]
                            \o SubSeq(@, i, Len(@))]
MergeNext == merged' = Join(merged, content) /\ content' = EmptyStream

Next ==
  \/ /\ UNCHANGED merged
     /\ \/ \E b \in Bytes : Add(b)
        \/ \E e \in ECIs : SwitchECI(e)
        \/ \E cs \in CharacterSets : SwitchCharset(cs)
        \/ \E to \in 1 .. Len(content.text) : \E from \in 0 .. to - 1 : Remove(from, to)
        \/ \E i \in 1 .. Len(content.text) + 1 : \E b \in Bytes : InsertBefore(i, <<b, b>>)
  \/ MergeNext

Spec == Init /\ [][Next]_<<content, merged>>
=============================================================================
