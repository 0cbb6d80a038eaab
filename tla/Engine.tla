------------------------------- MODULE Engine -------------------------------
(***************************************************************************)
(* The rules of a match as runner/engine.py computes them: the textual     *)
(* board a bot prints, the judgement of one move and the outcome of a      *)
(* board.  The module has no state; MatchRunner is built on it.            *)
(*                                                                         *)
(* A text is the sequence of its lines and a line the sequence of its      *)
(* "|"-separated fields: what text.strip().splitlines() and row.split("|") *)
(* yield.  Fields are strings, so a malformed text has too few or too many *)
(* lines or fields, or a field that is no mark.                            *)
(***************************************************************************)
EXTENDS Naturals, Sequences, FiniteSets

Cells == (0 .. 2) \X (0 .. 2)

Symbols == {"X", "O"}

Marks == {"X", "O", "."}

Board == [Cells -> Marks]

\* What parse_board returns for a text that is no board (Python's None).
NoBoard == <<>>

MatchOutcome == {"x_wins", "o_wins", "x_forfeit", "o_forfeit", "cat"}

EMPTY_BOARD == [c \in Cells |-> "."]

\* In the order in which check_winner tries them.
WINNING_LINES ==
  << {<<0, 0>>, <<0, 1>>, <<0, 2>>},
     {<<1, 0>>, <<1, 1>>, <<1, 2>>},
     {<<2, 0>>, <<2, 1>>, <<2, 2>>},
     {<<0, 0>>, <<1, 0>>, <<2, 0>>},
     {<<0, 1>>, <<1, 1>>, <<2, 1>>},
     {<<0, 2>>, <<1, 2>>, <<2, 2>>},
     {<<0, 0>>, <<1, 1>>, <<2, 2>>},
     {<<0, 2>>, <<1, 1>>, <<2, 0>>} >>

parse_board(text) ==
  IF /\ Len(text) = 3
     /\ \A r \in 1 .. 3 :
          /\ Len(text[r]) = 3
          /\ \A c \in 1 .. 3 : text[r][c] \in Marks
    THEN [cell \in Cells |-> text[cell[1] + 1][cell[2] + 1]]
    ELSE NoBoard

board_to_str(board) ==
  [r \in 1 .. 3 |-> [c \in 1 .. 3 |-> board[<<r - 1, c - 1>>]]]

\* The cells in which two boards differ: the list `changes` of validate_move.
Changes(old, new) == {c \in Cells : old[c] # new[c]}

Owns(board, symbol, i) == \A c \in WINNING_LINES[i] : board[c] = symbol

Full(board) == \A c \in Cells : board[c] # "."

\* Faulty variant: a full board is not recognised.
check_winner_no_cat(board) ==
  IF \E i \in 1 .. 8 : /\ Owns(board, "X", i)
                       /\ \A j \in 1 .. (i - 1) : ~Owns(board, "O", j)
    THEN "x_wins"
    ELSE IF \E i \in 1 .. 8 : Owns(board, "O", i) THEN "o_wins" ELSE "None"

\* The first owned line decides; a full board without one is a cat's game.
check_winner(board) ==
  IF \E i \in 1 .. 8 : /\ Owns(board, "X", i)
                       /\ \A j \in 1 .. (i - 1) : ~Owns(board, "O", j)
    THEN "x_wins"
    ELSE IF \E i \in 1 .. 8 : Owns(board, "O", i)
      THEN "o_wins"
      ELSE IF Full(board) THEN "cat" ELSE "None"

\* Faulty variant: any symbol may be placed.
validate_move_any_symbol(old_board, new_board, symbol) ==
  LET changes == Changes(old_board, new_board) IN
  IF changes = {} THEN "no move made"
  ELSE IF Cardinality(changes) > 1 THEN "cells changed, expected 1"
  ELSE LET c == CHOOSE c \in changes : TRUE IN
       IF old_board[c] # "." THEN "already occupied" ELSE "None"

\* The error a move is refused with, or "None".
validate_move(old_board, new_board, symbol) ==
  LET changes == Changes(old_board, new_board) IN
  IF changes = {} THEN "no move made"
  ELSE IF Cardinality(changes) > 1 THEN "cells changed, expected 1"
  ELSE LET c == CHOOSE c \in changes : TRUE IN
       IF old_board[c] # "." THEN "already occupied"
       ELSE IF new_board[c] # symbol THEN "placed wrong symbol"
       ELSE "None"

=============================================================================
