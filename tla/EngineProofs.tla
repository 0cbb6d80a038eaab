---------------------------- MODULE EngineProofs ----------------------------
(***************************************************************************)
(* Facts about the operators of Engine, for every board and every text.    *)
(***************************************************************************)
EXTENDS Engine, FiniteSetTheorems, TLAPS

\* parse_board returns a board or None, whatever the bot printed.
LEMMA ParseType ==
  ASSUME NEW text, parse_board(text) # NoBoard
  PROVE  parse_board(text) \in Board
<1>1. \A cell \in Cells : /\ cell[1] + 1 \in 1 .. 3
                          /\ cell[2] + 1 \in 1 .. 3
  BY DEF Cells
<1> QED
  BY <1>1 DEF parse_board, Board

\* None is not a board.
LEMMA NoBoardIsNone == NoBoard \notin Board
<1>1. <<0, 0>> \in Cells
  BY DEF Cells
<1> QED
  BY <1>1 DEF NoBoard, Board

\* board_to_str writes a text of marks.
LEMMA StrType ==
  ASSUME NEW b \in Board
  PROVE  board_to_str(b) \in Seq(Seq(Marks))
<1>1. \A r, c \in 1 .. 3 : b[<<r - 1, c - 1>>] \in Marks
  BY DEF Board, Cells
<1>2. \A r \in 1 .. 3 : [c \in 1 .. 3 |-> b[<<r - 1, c - 1>>]] \in Seq(Marks)
  BY <1>1
<1> QED
  BY <1>2 DEF board_to_str

\* The viewer and the bots read back the board that was written: parse_board
\* undoes board_to_str.
THEOREM RoundTrip ==
  ASSUME NEW b \in Board
  PROVE  parse_board(board_to_str(b)) = b
<1> DEFINE text == board_to_str(b)
<1>1. \A r, c \in 1 .. 3 : b[<<r - 1, c - 1>>] \in Marks
  BY DEF Board, Cells
<1>2. /\ Len(text) = 3
      /\ \A r \in 1 .. 3 : Len(text[r]) = 3
      /\ \A r, c \in 1 .. 3 : text[r][c] = b[<<r - 1, c - 1>>]
  BY StrType DEF board_to_str
<1>3. parse_board(text) = [cell \in Cells |-> text[cell[1] + 1][cell[2] + 1]]
  BY <1>1, <1>2 DEF parse_board
<1>4. ASSUME NEW cell \in Cells
      PROVE  text[cell[1] + 1][cell[2] + 1] = b[cell]
  <2>1. /\ cell[1] + 1 \in 1 .. 3
        /\ cell[2] + 1 \in 1 .. 3
        /\ cell = <<(cell[1] + 1) - 1, (cell[2] + 1) - 1>>
    BY DEF Cells
  <2> QED
    BY <2>1, <1>2
<1> QED
  BY <1>3, <1>4 DEF Board

\* The board has nine cells.
LEMMA CellsFinite == IsFiniteSet(Cells) /\ Cardinality(Cells) = 9
<1>1. \A a, b \in Int : /\ IsFiniteSet(a .. b)
                        /\ Cardinality(a .. b) = IF a > b THEN 0 ELSE b - a + 1
  BY FS_Interval
<1>2. IsFiniteSet(0 .. 2) /\ Cardinality(0 .. 2) = 3
  <2>1. 0 \in Int /\ 2 \in Int
    OBVIOUS
  <2>2. /\ IsFiniteSet(0 .. 2)
        /\ Cardinality(0 .. 2) = IF 0 > 2 THEN 0 ELSE 2 - 0 + 1
    BY <1>1, <2>1, Zenon
  <2> QED
    BY <2>2
<1>3. \A S, T : IsFiniteSet(S) /\ IsFiniteSet(T) =>
        /\ IsFiniteSet(S \X T)
        /\ Cardinality(S \X T) = Cardinality(S) * Cardinality(T)
  BY FS_Product
<1> QED
  BY <1>2, <1>3 DEF Cells

\* The accepting branch of validate_move: exactly one cell changed, it was
\* empty, and it holds the symbol now.
THEOREM AcceptedMove ==
  ASSUME NEW b \in Board, NEW nb \in Board, NEW s,
         validate_move(b, nb, s) = "None"
  PROVE  \E c \in Cells : b[c] = "." /\ nb = [b EXCEPT ![c] = s]
<1> DEFINE changes == Changes(b, nb)
           c == CHOOSE c \in changes : TRUE
<1>1. /\ changes # {}
      /\ ~(Cardinality(changes) > 1)
      /\ b[c] = "."
      /\ nb[c] = s
  BY DEF validate_move
<1>2. c \in changes
  BY <1>1
<1>3. IsFiniteSet(Cells)
  BY CellsFinite
<1>4. IsFiniteSet(changes) /\ changes \subseteq Cells
  BY <1>3, FS_Subset DEF Changes
<1>5. ASSUME NEW d \in changes PROVE d = c
  <2>1. SUFFICES ASSUME d # c PROVE FALSE
    OBVIOUS
  <2>2. /\ IsFiniteSet({c, d})
        /\ Cardinality({c, d}) = 2
    <3>1. IsFiniteSet({c}) /\ Cardinality({c}) = 1
      BY FS_Singleton
    <3>2. {c, d} = {c} \cup {d} /\ d \notin {c}
      BY <2>1
    <3> HIDE DEF c
    <3> QED
      BY <3>1, <3>2, FS_AddElement
  <2>3. {c, d} \in SUBSET changes
    BY <1>2
  <2>4. Cardinality({c, d}) <= Cardinality(changes)
    BY <1>4, <2>3, FS_Subset
  <2>5. Cardinality(changes) \in Nat
    BY <1>4, FS_CardinalityType
  <2> QED
    BY <1>1, <2>2, <2>4, <2>5
<1> HIDE DEF c
<1>6. \A d \in Cells \ {c} : b[d] = nb[d]
  BY <1>5 DEF Changes
<1>7. c \in Cells
  BY <1>2, <1>4
<1>8. nb = [b EXCEPT ![c] = s]
  BY <1>1, <1>6, <1>7 DEF Board
<1> QED
  BY <1>1, <1>7, <1>8

\* The cells that hold a mark.
Holding(b, s) == {c \in Cells : b[c] = s}

\* Sets of cells are finite and have a size.
LEMMA HoldingFinite ==
  ASSUME NEW b, NEW s
  PROVE  /\ IsFiniteSet(Holding(b, s))
         /\ Cardinality(Holding(b, s)) \in Nat
<1>1. Holding(b, s) \in SUBSET Cells
  BY DEF Holding
<1>2. IsFiniteSet(Holding(b, s))
  BY <1>1, CellsFinite, FS_Subset
<1> QED
  BY <1>2, FS_CardinalityType

\* Marking an empty cell adds one to the marks of that symbol and leaves the
\* others.
LEMMA MarkCounts ==
  ASSUME NEW b \in Board, NEW c \in Cells, b[c] = ".",
         NEW s \in Symbols, NEW t \in Symbols, s # t
  PROVE  /\ Cardinality(Holding([b EXCEPT ![c] = s], s)) = Cardinality(Holding(b, s)) + 1
         /\ Cardinality(Holding([b EXCEPT ![c] = s], t)) = Cardinality(Holding(b, t))
<1> DEFINE nb == [b EXCEPT ![c] = s]
<1>1. Holding(nb, s) = Holding(b, s) \cup {c} /\ c \notin Holding(b, s)
  BY DEF Holding, Board, Symbols
<1>2. Holding(nb, t) = Holding(b, t)
  BY DEF Holding, Board, Symbols
<1>3. Cardinality(Holding(b, s) \cup {c}) = Cardinality(Holding(b, s)) + 1
  BY <1>1, HoldingFinite, FS_AddElement
<1> QED
  BY <1>1, <1>2, <1>3

\* Nine marks fill the board.
LEMMA NineMarksFill ==
  ASSUME NEW b \in Board,
         Cardinality(Holding(b, "X")) + Cardinality(Holding(b, "O")) = 9
  PROVE  Full(b)
<1> DEFINE X == Holding(b, "X")
           O == Holding(b, "O")
<1>1. IsFiniteSet(X) /\ IsFiniteSet(O) /\ X \cap O = {}
  <2>1. X \cap O = {}
    BY DEF Holding
  <2> QED
    BY <2>1, HoldingFinite
<1>2. Cardinality(X \cup O) = Cardinality(X) + Cardinality(O) - Cardinality(X \cap O)
  BY <1>1, FS_Union
<1>3. Cardinality(X \cap O) = 0
  BY <1>1, FS_EmptySet
<1>4. Cardinality(X \cup O) = Cardinality(Cells)
  BY <1>2, <1>3, CellsFinite, HoldingFinite
<1>5. X \cup O \in SUBSET Cells
  BY DEF Holding
<1>6. X \cup O = Cells
  BY <1>4, <1>5, CellsFinite, FS_Subset
<1> QED
  BY <1>6 DEF Full, Holding

\* Every winning line is a set of cells.
LEMMA LinesAreCells == \A i \in 1 .. 8 : WINNING_LINES[i] \subseteq Cells
<1> SUFFICES ASSUME NEW i \in 1 .. 8 PROVE WINNING_LINES[i] \subseteq Cells
  OBVIOUS
<1>1. i \in {1, 2, 3, 4, 5, 6, 7, 8}
  OBVIOUS
<1> QED
  BY <1>1 DEF WINNING_LINES, Cells

\* No winning line is empty.
LEMMA LinesNonempty == \A i \in 1 .. 8 : \E c \in Cells : c \in WINNING_LINES[i]
<1>1. /\ <<0, 0>> \in WINNING_LINES[1] /\ <<1, 1>> \in WINNING_LINES[2]
      /\ <<2, 0>> \in WINNING_LINES[3] /\ <<0, 0>> \in WINNING_LINES[4]
      /\ <<1, 1>> \in WINNING_LINES[5] /\ <<0, 2>> \in WINNING_LINES[6]
      /\ <<1, 1>> \in WINNING_LINES[7] /\ <<1, 1>> \in WINNING_LINES[8]
  BY DEF WINNING_LINES
<1>2. \A i \in 1 .. 8 : i \in {1, 2, 3, 4, 5, 6, 7, 8}
  OBVIOUS
<1>3. \A i \in 1 .. 8 : \E c : c \in WINNING_LINES[i]
  BY <1>1, <1>2
<1> QED
  BY <1>3, LinesAreCells

\* The eight lines of WINNING_LINES are the rows, columns and diagonals.
LEMMA LinesGeometry ==
  ASSUME NEW b, NEW s
  PROVE  (\E i \in 1 .. 8 : Owns(b, s, i)) <=>
           \/ \E r \in 0 .. 2 : \A k \in 0 .. 2 : b[<<r, k>>] = s
           \/ \E c \in 0 .. 2 : \A k \in 0 .. 2 : b[<<k, c>>] = s
           \/ \A k \in 0 .. 2 : b[<<k, k>>] = s
           \/ \A k \in 0 .. 2 : b[<<k, 2 - k>>] = s
<1>1. \A i \in 1 .. 8 : i \in {1, 2, 3, 4, 5, 6, 7, 8}
  OBVIOUS
<1>2. /\ Owns(b, s, 1) <=> \A k \in 0 .. 2 : b[<<0, k>>] = s
      /\ Owns(b, s, 2) <=> \A k \in 0 .. 2 : b[<<1, k>>] = s
      /\ Owns(b, s, 3) <=> \A k \in 0 .. 2 : b[<<2, k>>] = s
  BY DEF Owns, WINNING_LINES
<1>3. /\ Owns(b, s, 4) <=> \A k \in 0 .. 2 : b[<<k, 0>>] = s
      /\ Owns(b, s, 5) <=> \A k \in 0 .. 2 : b[<<k, 1>>] = s
      /\ Owns(b, s, 6) <=> \A k \in 0 .. 2 : b[<<k, 2>>] = s
  BY DEF Owns, WINNING_LINES
<1>4. /\ Owns(b, s, 7) <=> \A k \in 0 .. 2 : b[<<k, k>>] = s
      /\ Owns(b, s, 8) <=> \A k \in 0 .. 2 : b[<<k, 2 - k>>] = s
  BY DEF Owns, WINNING_LINES
<1>5. \A r \in 0 .. 2 : r \in {0, 1, 2}
  OBVIOUS
<1> QED
  BY <1>1, <1>2, <1>3, <1>4, <1>5

\* A mark on an undecided board can complete lines of its own symbol only.
LEMMA NoForeignLine ==
  ASSUME NEW b \in Board, NEW c \in Cells, b[c] = ".",
         NEW s \in Symbols, NEW t \in Symbols, s # t,
         NEW nb, nb = [b EXCEPT ![c] = s],
         check_winner(b) = "None"
  PROVE  \A i \in 1 .. 8 : ~Owns(nb, t, i)
<1>1. \A i \in 1 .. 8 : ~Owns(b, "O", i)
  BY DEF check_winner
<1>2. \A i \in 1 .. 8 : ~Owns(b, "X", i)
  BY <1>1 DEF check_winner
<1>3. ASSUME NEW i \in 1 .. 8, Owns(nb, t, i) PROVE FALSE
  <2>1. \A d \in WINNING_LINES[i] : d \in Cells /\ nb[d] = t
    BY <1>3, LinesAreCells DEF Owns
  <2>2. \A d \in WINNING_LINES[i] : b[d] = t
    BY <2>1 DEF Board, Symbols
  <2>3. Owns(b, t, i)
    BY <2>2 DEF Owns
  <2> QED
    BY <2>3, <1>1, <1>2 DEF Symbols
<1> QED
  BY <1>3

\* How a move of symbol s that leads to board nb ends.
Verdict(nb, s) ==
  IF \E i \in 1 .. 8 : Owns(nb, s, i)
    THEN IF s = "X" THEN "x_wins" ELSE "o_wins"
    ELSE IF Full(nb) THEN "cat" ELSE "None"

\* The outcome of a move on an undecided board: a win of the mover, a cat's
\* game, or none; the board is undecided again exactly if the mover has no
\* line and a cell is left.
THEOREM OutcomeOfMove ==
  ASSUME NEW b \in Board, NEW c \in Cells, b[c] = ".",
         NEW s \in Symbols, NEW nb, nb = [b EXCEPT ![c] = s],
         check_winner(b) = "None"
  PROVE  check_winner(nb) = Verdict(nb, s)
<1>1. CASE s = "X"
  <2>1. \A i \in 1 .. 8 : ~Owns(nb, "O", i)
    BY <1>1, NoForeignLine DEF Symbols
  <2> QED
    BY <1>1, <2>1 DEF check_winner, Verdict
<1>2. CASE s = "O"
  <2>1. \A i \in 1 .. 8 : ~Owns(nb, "X", i)
    BY <1>2, NoForeignLine DEF Symbols
  <2> QED
    BY <1>2, <2>1 DEF check_winner, Verdict
<1> QED
  BY <1>1, <1>2 DEF Symbols

=============================================================================
