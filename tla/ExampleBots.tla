----------------------------- MODULE ExampleBots ----------------------------
(***************************************************************************)
(* The reference bots under example_bots/, each in a match against an      *)
(* opponent that makes any legal move, judged by the rules of Engine.      *)
(*                                                                         *)
(* A bot reads the board and the symbol to place and prints the board it   *)
(* wants; here it is a function from a board and a symbol to a board.      *)
(***************************************************************************)
EXTENDS Integers, Engine, SequencesExt, FiniteSetsExt

ExampleBots == {"Diagonal Blind", "Horizontal Blind", "Vertical Blind",
                "Defense Only", "Offense Only", "Double Mover", "Overwriter",
                "3.10", "Perfect", "PerfectV2"}

VARIABLES
  bot,       \* the bot that is watched
  me,        \* the symbol it plays
  board,
  turn,
  outcome,   \* check_winner's of the board, or a forfeit
  asked      \* history: the board the bot was last asked about

vars == <<bot, me, board, turn, outcome, asked>>

Other(symbol) == IF symbol = "X" THEN "O" ELSE "X"

\* range(3) by range(3).
ROW_MAJOR == << <<0, 0>>, <<0, 1>>, <<0, 2>>, <<1, 0>>, <<1, 1>>, <<1, 2>>,
                <<2, 0>>, <<2, 1>>, <<2, 2>> >>

PASSIVE_ORDER == << <<0, 1>>, <<1, 0>>, <<1, 2>>, <<2, 1>>, <<1, 1>>, <<0, 0>>,
                    <<0, 2>>, <<2, 0>>, <<2, 2>> >>

\* Also the AGGRESSIVE_ORDER of Offense Only Bot.
PREFERRED == << <<1, 1>>, <<0, 0>>, <<0, 2>>, <<2, 0>>, <<2, 2>>, <<0, 1>>,
                <<1, 0>>, <<1, 2>>, <<2, 1>> >>

\* The bots' LINES by their place in WINNING_LINES, which has them in the same
\* order.
Rows == {1, 2, 3}
Columns == {4, 5, 6}
Diagonals == {7, 8}

Place(b, cell, symbol) == [b EXCEPT ![cell] = symbol]

Empties(b) == {c \in Cells : b[c] = "."}

\* The first cell of an order with a property.
FirstIn(order, P(_)) == order[Min({i \in DOMAIN order : P(order[i])})]

FirstEmpty(b, order) == FirstIn(order, LAMBDA c : b[c] = ".")

\* A line with two of the symbol's marks and an empty cell.
Completable(b, symbol, i) ==
  /\ Cardinality({c \in WINNING_LINES[i] : b[c] = symbol}) = 2
  /\ Cardinality({c \in WINNING_LINES[i] : b[c] = "."}) = 1

\* The empty cell of such a line.
Gap(b, i) == CHOOSE c \in WINNING_LINES[i] : b[c] = "."

\* find_completion, find_block and find_win: the cells to try, of which
\* there is at most one, that of the first completable line.
find_completion(b, symbol, lines) ==
  LET open == {i \in lines : Completable(b, symbol, i)}
  IN  IF open = {} THEN {} ELSE {Gap(b, Min(open))}

Only(S) == CHOOSE x \in S : TRUE
-----------------------------------------------------------------------------
\* Faulty variant: the opponent's lines are not looked at.
blind_bot_no_block(b, symbol, lines) ==
  LET win == find_completion(b, symbol, lines)
  IN  IF win # {} THEN Only(win) ELSE FirstEmpty(b, PREFERRED)

\* What the three blind bots share: complete a line, or block one.
blind_bot(b, symbol, lines) ==
  LET win == find_completion(b, symbol, lines)
      block == find_completion(b, Other(symbol), lines)
  IN  IF win # {} THEN Only(win)
      ELSE IF block # {} THEN Only(block)
      ELSE FirstEmpty(b, PREFERRED)

diagonal_blind_bot(b, symbol) == blind_bot(b, symbol, Rows \cup Columns)

horizontal_blind_bot(b, symbol) == blind_bot(b, symbol, Columns \cup Diagonals)

vertical_blind_bot(b, symbol) == blind_bot(b, symbol, Rows \cup Diagonals)

defense_only_bot(b, symbol) ==
  LET block == find_completion(b, Other(symbol), 1 .. 8)
  IN  IF block # {} THEN Only(block) ELSE FirstEmpty(b, PASSIVE_ORDER)

score_move(b, symbol, cell) ==
  Cardinality({i \in 1 .. 8 : Completable(Place(b, cell, symbol), symbol, i)})

\* The first of the best in AGGRESSIVE_ORDER.
offense_only_bot(b, symbol) ==
  LET win == find_completion(b, symbol, 1 .. 8)
      best == Max({score_move(b, symbol, c) : c \in Empties(b)})
  IN  IF win # {} THEN Only(win)
      ELSE FirstIn(PREFERRED, LAMBDA c : /\ b[c] = "."
                                         /\ score_move(b, symbol, c) = best)

\* The b with marks in the first two empty cells.
double_mover_bot(b, symbol) ==
  LET empties == SelectSeq(ROW_MAJOR, LAMBDA c : b[c] = ".")
  IN  [c \in Cells |->
         IF \E i \in DOMAIN empties : i <= 2 /\ empties[i] = c THEN symbol ELSE b[c]]

overwriter_bot(b, symbol) ==
  IF \E c \in Cells : b[c] = Other(symbol)
  THEN FirstIn(ROW_MAJOR, LAMBDA c : b[c] = Other(symbol))
  ELSE FirstEmpty(b, ROW_MAJOR)

\* The five bots py310.py to py314.py, which differ in the Python they ask for.
py310(b) == FirstEmpty(b, ROW_MAJOR)

\* winner and the scores of minimax for a game that has ended.
Won(b, symbol) == \E i \in 1 .. 8 : Owns(b, symbol, i)

Marked(b) == 9 - Cardinality(Empties(b))

Terminal(b, m) ==
  CASE Won(b, m) -> 10 - Marked(b)
    [] Won(b, Other(m)) -> -10 + Marked(b)
    [] OTHER -> 0

Ended(b) == Won(b, "X") \/ Won(b, "O") \/ Full(b)

\* perfect_bot_v1.py: the opponent's branch never updates best_score.
minimax_v1(m) ==
  LET score[b \in Board, to_move \in Symbols] ==
        LET scores == {score[Place(b, c, to_move), Other(to_move)] : c \in Empties(b)}
        IN  IF Ended(b) THEN Terminal(b, m)
            ELSE IF to_move = m THEN Max(scores) ELSE 999
  IN  score

\* perfect_bot_v2.py.
minimax(m) ==
  LET score[b \in Board, to_move \in Symbols] ==
        LET scores == {score[Place(b, c, to_move), Other(to_move)] : c \in Empties(b)}
        IN  IF Ended(b) THEN Terminal(b, m)
            ELSE IF to_move = m THEN Max(scores) ELSE Min(scores)
  IN  score

\* The first of the best moves in row-major order.
BestMove(b, symbol, score) ==
  LET scored == {<<c, score[Place(b, c, symbol), Other(symbol)]>> : c \in Empties(b)}
      best == Max({s[2] : s \in scored})
  IN  FirstIn(ROW_MAJOR, LAMBDA c : <<c, best>> \in scored)

perfect_bot_v1(b, symbol) == BestMove(b, symbol, minimax_v1(symbol))

perfect_bot_v2(b, symbol) == BestMove(b, symbol, minimax(symbol))
-----------------------------------------------------------------------------
\* The board that a bot prints.
Answer(name, b, s) ==
  CASE name = "Diagonal Blind" -> Place(b, diagonal_blind_bot(b, s), s)
    [] name = "Horizontal Blind" -> Place(b, horizontal_blind_bot(b, s), s)
    [] name = "Vertical Blind" -> Place(b, vertical_blind_bot(b, s), s)
    [] name = "Defense Only" -> Place(b, defense_only_bot(b, s), s)
    [] name = "Offense Only" -> Place(b, offense_only_bot(b, s), s)
    [] name = "Double Mover" -> double_mover_bot(b, s)
    [] name = "Overwriter" -> Place(b, overwriter_bot(b, s), s)
    [] name = "3.10" -> Place(b, py310(b), s)
    [] name = "Perfect" -> Place(b, perfect_bot_v1(b, s), s)
    [] name = "PerfectV2" -> Place(b, perfect_bot_v2(b, s), s)

Win(s) == IF s = "X" THEN "x_wins" ELSE "o_wins"

Forfeit(s) == IF s = "X" THEN "x_forfeit" ELSE "o_forfeit"

Init ==
  /\ bot \in ExampleBots
  /\ me \in Symbols
  /\ board = EMPTY_BOARD
  /\ turn = "X"
  /\ outcome = "None"
  /\ asked = EMPTY_BOARD

Accept(new) ==
  /\ board' = new
  /\ turn' = Other(turn)
  /\ outcome' = check_winner(new)

BotMoves ==
  LET new == Answer(bot, board, me) IN
  /\ outcome = "None" /\ turn = me
  /\ asked' = board
  /\ \/ validate_move(board, new, me) = "None" /\ Accept(new)
     \/ /\ validate_move(board, new, me) # "None"
        /\ outcome' = Forfeit(me)
        /\ UNCHANGED <<board, turn>>
  /\ UNCHANGED <<bot, me>>

OpponentMoves(c) ==
  /\ outcome = "None" /\ turn # me
  /\ board[c] = "."
  /\ Accept(Place(board, c, turn))
  /\ UNCHANGED <<bot, me, asked>>

Next == BotMoves \/ \E c \in Cells : OpponentMoves(c)

Spec == Init /\ [][Next]_vars
-----------------------------------------------------------------------------
\* Perfect Bot V2 loses to nobody, in either role.
PerfectNeverLoses == bot = "PerfectV2" => outcome # Win(Other(me))

\* The lines that a bot looks at.
Lines(b) ==
  CASE b = "Diagonal Blind" -> Rows \cup Columns
    [] b = "Horizontal Blind" -> Columns \cup Diagonals
    [] b = "Vertical Blind" -> Rows \cup Diagonals
    [] OTHER -> Rows \cup Columns \cup Diagonals

\* The cells that complete one of the lines for the opponent.
Threats(b, lines) ==
  {Gap(b, i) : i \in {j \in lines : Completable(b, Other(me), j)}}

\* Each example bot loses the way it is there to show.  Double Mover and
\* Overwriter lose every match by forfeit, and no other ever forfeits; a bot
\* that blocks is beaten only by two threats at once, or on a line that it does
\* not look at.
LosesAsMeant ==
  /\ outcome # "None" =>
       (outcome = Forfeit(me)) = (bot \in {"Double Mover", "Overwriter"})
  /\ /\ bot \in {"Diagonal Blind", "Horizontal Blind", "Vertical Blind", "Defense Only"}
     /\ outcome = Win(Other(me))
     => \/ Cardinality(Threats(asked, Lines(bot))) >= 2
        \/ \A i \in Lines(bot) : ~Owns(board, Other(me), i)
=============================================================================
