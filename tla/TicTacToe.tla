----------------------------- MODULE TicTacToe ------------------------------
(***************************************************************************)
(* What a match promises: a game of tic-tac-toe.  X opens, the players     *)
(* mark empty cells in turn, the game ends with the first line or the last *)
(* empty cell, and the player to move may lose by forfeit.  A match can    *)
(* also be given up without a result.  Which conduct is a forfeit is left  *)
(* open here: it only says whose forfeit it is.  (Of the README's list of  *)
(* offences, README.md:45-50, the code does not take a crash for one, nor  *)
(* always a move that exceeds the limit: OffencesForfeit of module         *)
(* MatchRunner.)                                                           *)
(* Whose turn it is follows from the grid alone, and a line is defined by  *)
(* its geometry, so that nothing here depends on how the engine counts     *)
(* turns or lists the lines.                                               *)
(***************************************************************************)
EXTENDS Naturals, FiniteSets

VARIABLES grid, status

Squares == (0 .. 2) \X (0 .. 2)

Marked(s) == {c \in Squares : grid[c] = s}

ToMove == IF Cardinality(Marked("X")) = Cardinality(Marked("O"))
            THEN "X" ELSE "O"

\* Three cells in a row, a column, or on one of the two diagonals.
HasLine(g, s) ==
  \/ \E r \in 0 .. 2 : \A k \in 0 .. 2 : g[<<r, k>>] = s
  \/ \E c \in 0 .. 2 : \A k \in 0 .. 2 : g[<<k, c>>] = s
  \/ \A k \in 0 .. 2 : g[<<k, k>>] = s
  \/ \A k \in 0 .. 2 : g[<<k, 2 - k>>] = s

NoneEmpty(g) == \A c \in Squares : g[c] # "."

Wins(s) == IF s = "X" THEN "x_wins" ELSE "o_wins"

Forfeits(s) == IF s = "X" THEN "x_forfeit" ELSE "o_forfeit"

GameInit == /\ grid = [c \in Squares |-> "."]
            /\ status = "playing"

Mark(c) ==
  /\ status = "playing"
  /\ grid[c] = "."
  /\ grid' = [grid EXCEPT ![c] = ToMove]
  /\ status' = IF HasLine(grid', ToMove) THEN Wins(ToMove)
               ELSE IF NoneEmpty(grid') THEN "cat" ELSE "playing"

Forfeit ==
  /\ status = "playing"
  /\ status' = Forfeits(ToMove)
  /\ UNCHANGED grid

Abandon ==
  /\ status = "playing"
  /\ status' = "abandoned"
  /\ UNCHANGED grid

GameNext == (\E c \in Squares : Mark(c)) \/ Forfeit \/ Abandon

GameSpec == GameInit /\ [][GameNext]_<<grid, status>>

=============================================================================
