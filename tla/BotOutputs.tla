----------------------------- MODULE BotOutputs -----------------------------
(***************************************************************************)
(* What a bot's process may print when it is asked about a board, for the  *)
(* instances that TLC checks: legal moves, and answers of each kind that a *)
(* judge refuses.                                                          *)
(***************************************************************************)
EXTENDS Engine

Mover(b) ==
  IF Cardinality({c \in Cells : b[c] = "X"})
       = Cardinality({c \in Cells : b[c] = "O"})
    THEN "X" ELSE "O"

Opponent(b) == IF Mover(b) = "X" THEN "O" ELSE "X"

Empty(b) == {c \in Cells : b[c] = "."}

\* The first two moves are bounded: X opens in the centre and O answers in a
\* corner or on an edge (all there is, up to the symmetries of the board), or
\* X opens in a corner and O takes the centre.
FairChoices(b) ==
  CASE b = EMPTY_BOARD -> {<<1, 1>>, <<0, 0>>}
    [] Empty(b) = Cells \ {<<1, 1>>} -> {<<0, 0>>, <<0, 1>>}
    [] Empty(b) = Cells \ {<<0, 0>>} -> {<<1, 1>>}
    [] OTHER -> Empty(b)

LegalMoves(b) == { board_to_str([b EXCEPT ![c] = Mover(b)]) : c \in FairChoices(b) }

\* No move; the opponent's mark on an empty cell; two marks at once; an
\* overwritten mark.
IllegalMoves(b) ==
  {board_to_str(b)}
    \cup { board_to_str([b EXCEPT ![c] = Opponent(b)]) : c \in Empty(b) }
    \cup { board_to_str([c \in Cells |-> IF b[c] = "." THEN Mover(b) ELSE b[c]]) }
    \cup { board_to_str([b EXCEPT ![c] = Mover(b)]) :
             c \in {d \in Cells : b[d] = Opponent(b)} }

\* Nothing printed; two lines; a field too many; a field that is no mark.
Garbage ==
  { <<>>,
    << <<"X", ".", ".">>, <<".", ".", ".">> >>,
    << <<"X", ".", ".">>, <<".", ".", ".", ".">>, <<".", ".", ".">> >>,
    << <<"?", ".", ".">>, <<".", ".", ".">>, <<".", ".", ".">> >> }

AllOutputs(b) == LegalMoves(b) \cup IllegalMoves(b) \cup Garbage

=============================================================================
