----------------------------- MODULE MCLinearScan -----------------------------
(* Images of seven rows with up to four symbols: the first two share       *)
(* columns, the third stands upright and the last is a DataBar reading     *)
(* made backwards.                                                         *)
EXTENDS LinearScan

Option(tryHarder, tryRotate, isPure, maxSymbolsAsked, minLineCount) ==
  [tryHarder |-> tryHarder, tryRotate |-> tryRotate, isPure |-> isPure,
   maxSymbols |-> maxSymbolsAsked, minLineCount |-> minLineCount]
FourKinds == <<1, 1, 1, 2>>
FourColumns == <<{0, 1}, {1, 2}, {1}, {3}>>

(* The rows of one symbol without gaps.                                    *)
Ranges == {lo .. hi : lo, hi \in Rows}

SearchOptions ==
  {Option(TRUE, TRUE, FALSE, 0, 2), Option(TRUE, TRUE, FALSE, 0, 1),
   Option(TRUE, FALSE, FALSE, 1, 2), Option(TRUE, TRUE, FALSE, 2, 2),
   Option(FALSE, TRUE, FALSE, 0, 2), Option(TRUE, TRUE, TRUE, 1, 2)}
SearchScenes ==
  {[made |-> <<first, second, upright, back>>, contrast |-> k] :
      first \in Ranges, second \in {{}, {0}, {3}, {5}, {2, 3, 4, 5}},
      upright \in {{}, {1, 2, 3}, {0, 1, 5, 6}}, back \in {{}, {0, 1}, {2, 3, 4}},
      k \in {Rows, Rows \ {3}}}

=============================================================================
