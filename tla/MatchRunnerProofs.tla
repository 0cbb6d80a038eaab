------------------------- MODULE MatchRunnerProofs --------------------------
(***************************************************************************)
(* MatchRunner proved for all bots: no assumption is made about Outputs.   *)
(*                                                                         *)
(* The invariants of MatchRunner are not inductive by themselves: that the *)
(* loop returns within nine turns rests on the number of marks on the      *)
(* board being the number of moves made, and that the winner moved last on *)
(* the board being undecided before the move.  Live says both of a running *)
(* match, and that the record ends in the present position.                *)
(***************************************************************************)
EXTENDS MatchRunner, EngineProofs

Running == pc \in {"pods", "turn", "await"}

Live ==
  Running =>
    /\ Len(moves) < MaxTurns
    /\ check_winner(board) = "None"
    /\ result = "None"
    /\ Cardinality(Holding(board, "X")) + Cardinality(Holding(board, "O"))
         = Len(moves)
    /\ IF Player(move_number) = "x"
         THEN Cardinality(Holding(board, "X")) = Cardinality(Holding(board, "O"))
         ELSE Cardinality(Holding(board, "X")) = Cardinality(Holding(board, "O")) + 1
    /\ board = BoardAfter(Len(moves))
    /\ \A n \in 1 .. Len(moves) : ~moves[n].error

IInv ==
  /\ TypeOK
  /\ Live
  /\ RecordIsAGame
  /\ WinnerMadeLastMove
  /\ NeverFallsOff

MoveRecord == [move_number : 1 .. MaxTurns, player : {"x", "o"},
               board : Seq(Seq(Marks)), error : BOOLEAN]

\* The turn that the loop takes at a move number, and the next one's.
LEMMA TurnFacts ==
  ASSUME NEW n \in Nat
  PROVE  /\ Player(n) \in {"x", "o"}
         /\ Symbol(n) \in Symbols
         /\ Symbol(n + 1) \in Symbols /\ Symbol(n + 1) # Symbol(n)
         /\ Player(n + 1) # Player(n)
         /\ Player(n) = "x" <=> Symbol(n) = "X"
BY DEF Player, Symbol, Symbols

\* An answer play_turn accepts marks one empty cell with the mover's symbol.
LEMMA TurnAccepted ==
  ASSUME TypeOK, NEW response, play_turn(response) # NoBoard
  PROVE  /\ play_turn(response) \in Board
         /\ validate_move(board, play_turn(response), Symbol(move_number)) = "None"
         /\ \E c \in Cells : /\ board[c] = "."
                             /\ play_turn(response)
                                  = [board EXCEPT ![c] = Symbol(move_number)]
<1>1. /\ play_turn(response) = parse_board(response.board)
      /\ validate_move(board, play_turn(response), Symbol(move_number)) = "None"
  BY DEF play_turn
<1>2. play_turn(response) \in Board
  BY <1>1, ParseType
<1> QED
  BY <1>1, <1>2, AcceptedMove DEF TypeOK

\* Appending to the record keeps what is on it.
LEMMA RecordAppend ==
  ASSUME TypeOK, Len(moves) < MaxTurns, NEW b \in Board, NEW e \in BOOLEAN,
         moves' = Record(board_to_str(b), e)
  PROVE  /\ moves' \in Seq(MoveRecord)
         /\ Len(moves') = Len(moves) + 1
         /\ \A n \in 1 .. Len(moves) : moves'[n] = moves[n]
         /\ moves'[Len(moves')] = [move_number |-> Len(moves'),
                                   player |-> Player(Len(moves')),
                                   board |-> board_to_str(b), error |-> e]
         /\ \A n \in 0 .. Len(moves) : BoardAfter(n)' = BoardAfter(n)
         /\ BoardAfter(Len(moves))' = b
<1>1. moves \in Seq(MoveRecord) /\ Len(moves) \in Nat
  BY DEF TypeOK, MoveRecord
<1> DEFINE m == [move_number |-> move_number, player |-> Player(move_number),
                 board |-> board_to_str(b), error |-> e]
<1>2. m \in MoveRecord
  <2>1. move_number \in 1 .. MaxTurns /\ Player(move_number) \in {"x", "o"}
    BY <1>1 DEF move_number, MaxTurns, Player
  <2>2. board_to_str(b) \in Seq(Seq(Marks))
    BY StrType
  <2> QED
    BY <2>1, <2>2, Zenon DEF MoveRecord
<1>3. moves' = Append(moves, m)
  BY DEF Record
<1> HIDE DEF m
<1>4. /\ moves' \in Seq(MoveRecord)
      /\ Len(moves') = Len(moves) + 1
      /\ \A n \in 1 .. Len(moves) : moves'[n] = moves[n]
      /\ moves'[Len(moves')] = m
  BY <1>1, <1>2, <1>3
<1>5. m = [move_number |-> Len(moves'), player |-> Player(Len(moves')),
           board |-> board_to_str(b), error |-> e]
  BY <1>4 DEF m, move_number
<1>6. \A n \in 0 .. Len(moves) : BoardAfter(n)' = BoardAfter(n)
  BY <1>1, <1>4 DEF BoardAfter
<1>7. BoardAfter(Len(moves))' = parse_board(board_to_str(b))
  BY <1>1, <1>4, <1>5 DEF BoardAfter
<1> QED
  BY <1>4, <1>5, <1>6, <1>7, RoundTrip

\* The initial state: an empty board, on which nobody has won.
LEMMA InitInv == Init => IInv
<1> SUFFICES ASSUME Init PROVE IInv
  OBVIOUS
<1> USE DEF Init, Symbols
<1>1. TypeOK
  <2>1. crashed \in BOOLEAN
    BY Zenon
  <2>2. /\ board \in Board /\ pc \in Steps /\ raised \in Exceptions
        /\ moves \in Seq(MoveRecord) /\ result = "None"
    BY DEF Steps, Board, EMPTY_BOARD, Marks, Exceptions
  <2> QED
    BY <2>1, <2>2, Zenon DEF TypeOK, MoveRecord
<1>2. \A s \in Symbols, c \in Cells : board[c] # s /\ board[c] = "."
  BY DEF EMPTY_BOARD
<1>3. \A s \in Symbols, i \in 1 .. 8 : ~Owns(board, s, i)
  <2> SUFFICES ASSUME NEW s \in Symbols, NEW i \in 1 .. 8
               PROVE  ~Owns(board, s, i)
    OBVIOUS
  <2>1. \E c \in Cells : c \in WINNING_LINES[i]
    BY LinesNonempty
  <2> QED
    BY <2>1, <1>2 DEF Owns
<1>4. check_winner(board) = "None"
  <2>1. <<0, 0>> \in Cells
    BY DEF Cells
  <2>2. ~Full(board)
    BY <2>1, <1>2 DEF Full
  <2> QED
    BY <1>3, <2>2 DEF check_winner
<1>5. \A s \in Symbols : Cardinality(Holding(board, s)) = 0
  <2>1. \A s \in Symbols : Holding(board, s) = {}
    BY <1>2 DEF Holding
  <2> QED
    BY <2>1, FS_EmptySet
<1>6. Live
  BY <1>4, <1>5 DEF Live, BoardAfter, Player, move_number, MaxTurns
<1> QED
  BY <1>1, <1>6 DEF IInv, RecordIsAGame, WinnerMadeLastMove, NeverFallsOff

\* A forfeit ends the match and puts the mover's error on record.
LEMMA ForfeitInv ==
  ASSUME IInv, Running, ForfeitTurn, crashed' \in BOOLEAN
  PROVE  IInv'
<1>1. /\ TypeOK /\ Live /\ RecordIsAGame
      /\ pc' = "over"
      /\ board' = board
      /\ raised' = raised
      /\ moves' = Record(board_to_str(board), TRUE)
      /\ result' = forfeit_label(Player(move_number))
  BY DEF IInv, ForfeitTurn
<1>2. Len(moves) < MaxTurns /\ board \in Board
  BY <1>1 DEF Live, TypeOK
<1>3. /\ moves' \in Seq(MoveRecord)
      /\ Len(moves') = Len(moves) + 1
      /\ \A n \in 1 .. Len(moves) : moves'[n] = moves[n]
      /\ moves'[Len(moves')] = [move_number |-> Len(moves'),
                                player |-> Player(Len(moves')),
                                board |-> board_to_str(board), error |-> TRUE]
      /\ \A n \in 0 .. Len(moves) : BoardAfter(n)' = BoardAfter(n)
      /\ BoardAfter(Len(moves))' = board
  BY <1>1, <1>2, RecordAppend
<1>4. Len(moves) \in Nat
  BY <1>1 DEF TypeOK
<1>5. result' \in {"x_forfeit", "o_forfeit"}
  BY <1>1 DEF forfeit_label
<1>6. TypeOK'
  BY <1>1, <1>3, <1>5 DEF TypeOK, Steps, MatchOutcome, MoveRecord
<1>7. Live' /\ WinnerMadeLastMove' /\ NeverFallsOff'
  BY <1>1, <1>5 DEF Live, Running, WinnerMadeLastMove, NeverFallsOff
<1>8. RecordIsAGame'
  <2> SUFFICES ASSUME NEW n \in 1 .. Len(moves')
               PROVE
      /\ moves'[n].move_number = n
      /\ moves'[n].player = Player(n)
      /\ check_winner(BoardAfter(n - 1)') = "None"
      /\ IF moves'[n].error
           THEN /\ n = Len(moves')
                /\ BoardAfter(n)' = BoardAfter(n - 1)'
                /\ pc' = "over"
                /\ result' = forfeit_label(Player(n))
           ELSE validate_move(BoardAfter(n - 1)', BoardAfter(n)', Symbol(n)) = "None"
    BY DEF RecordIsAGame
  <2>1. CASE n = Len(moves')
    <3>1. n - 1 = Len(moves) /\ n = Len(moves) + 1
      BY <1>3, <1>4, <2>1
    <3>2. BoardAfter(n - 1)' = board /\ check_winner(board) = "None"
      BY <1>1, <1>3, <1>4, <3>1 DEF Live
    <3>3. BoardAfter(n)' = board
      BY <1>3, <2>1
    <3>4. /\ moves'[n].move_number = n
          /\ moves'[n].player = Player(n)
          /\ moves'[n].error = TRUE
      BY <1>3, <2>1
    <3>5. result' = forfeit_label(Player(n))
      BY <1>1, <3>1 DEF move_number
    <3> QED
      BY <1>1, <2>1, <3>2, <3>3, <3>4, <3>5
  <2>2. CASE n # Len(moves')
    <3>1. n \in 1 .. Len(moves) /\ n - 1 \in 0 .. Len(moves) /\ n \in 0 .. Len(moves)
      BY <1>3, <1>4, <2>2
    <3>2. ~moves[n].error
      BY <1>1, <3>1 DEF Live
    <3> QED
      BY <1>1, <1>3, <3>1, <3>2 DEF RecordIsAGame
  <2> QED
    BY <2>1, <2>2
<1> QED
  BY <1>6, <1>7, <1>8 DEF IInv

\* An accepted move: the counts of marks, the record and the outcome go
\* forward together.
LEMMA AcceptInv ==
  ASSUME IInv, Running,
         NEW nb \in Board, AcceptTurn(nb), crashed' \in BOOLEAN,
         validate_move(board, nb, Symbol(move_number)) = "None",
         NEW c \in Cells, board[c] = ".",
         nb = [board EXCEPT ![c] = Symbol(move_number)]
  PROVE  IInv'
<1>0. PICK s, t : s = Symbol(move_number) /\ t = Symbol(move_number + 1)
  OBVIOUS
<1>1. /\ TypeOK /\ Live /\ RecordIsAGame
      /\ board' = nb
      /\ raised' = raised
      /\ moves' = Record(board_to_str(nb), FALSE)
      /\ result' = check_winner(nb)
      /\ pc' = IF check_winner(nb) # "None" THEN "over"
               ELSE IF move_number = MaxTurns THEN "fell_off" ELSE "turn"
  BY DEF IInv, AcceptTurn
<1>2. /\ Len(moves) < MaxTurns
      /\ board \in Board
      /\ Len(moves) \in Nat
      /\ check_winner(board) = "None"
  BY <1>1 DEF Live, TypeOK
<1>3. /\ moves' \in Seq(MoveRecord)
      /\ Len(moves') = Len(moves) + 1
      /\ \A n \in 1 .. Len(moves) : moves'[n] = moves[n]
      /\ moves'[Len(moves')] = [move_number |-> Len(moves'),
                                player |-> Player(Len(moves')),
                                board |-> board_to_str(nb), error |-> FALSE]
      /\ \A n \in 0 .. Len(moves) : BoardAfter(n)' = BoardAfter(n)
      /\ BoardAfter(Len(moves))' = nb
  BY <1>1, <1>2, RecordAppend
<1>4. /\ move_number \in Nat
      /\ move_number = Len(moves')
      /\ move_number' = move_number + 1
  BY <1>2, <1>3 DEF move_number
<1>5. /\ s \in Symbols
      /\ t \in Symbols /\ s # t
      /\ Player(move_number) = "x" <=> s = "X"
      /\ Player(move_number + 1) = "x" <=> s = "O"
  BY <1>0, <1>4 DEF Player, Symbol, Symbols
<1>mark. nb = [board EXCEPT ![c] = s] /\ board \in Board
  BY <1>0, <1>2
<1>6. check_winner(nb) = Verdict(nb, s)
  <2>1. /\ board \in Board /\ c \in Cells /\ board[c] = "."
        /\ s \in Symbols /\ check_winner(board) = "None"
        /\ nb = [board EXCEPT ![c] = s]
    BY <1>mark, <1>2, <1>5
  <2> QED
    BY <2>1, OutcomeOfMove
<1>7. \A i \in 1 .. 8 : ~Owns(nb, t, i)
  BY <1>mark, <1>2, <1>5, NoForeignLine
<1>8. /\ Cardinality(Holding(nb, s)) = Cardinality(Holding(board, s)) + 1
      /\ Cardinality(Holding(nb, t)) = Cardinality(Holding(board, t))
  <2>1. /\ board \in Board /\ c \in Cells /\ board[c] = "."
        /\ s \in Symbols /\ t \in Symbols /\ s # t
        /\ nb = [board EXCEPT ![c] = s]
    BY <1>mark, <1>5
  <2> QED
    <3>1. /\ Cardinality(Holding([board EXCEPT ![c] = s], s)) = Cardinality(Holding(board, s)) + 1
          /\ Cardinality(Holding([board EXCEPT ![c] = s], t)) = Cardinality(Holding(board, t))
      BY ONLY <2>1, MarkCounts
    <3> QED
      BY ONLY <2>1, <3>1, Zenon
<1>9. /\ Cardinality(Holding(board, "X")) \in Nat
      /\ Cardinality(Holding(board, "O")) \in Nat
      /\ Cardinality(Holding(nb, "X")) \in Nat
      /\ Cardinality(Holding(nb, "O")) \in Nat
  BY HoldingFinite
<1>10. Cardinality(Holding(nb, "X")) + Cardinality(Holding(nb, "O")) = Len(moves')
  <2>1. Cardinality(Holding(board, "X")) + Cardinality(Holding(board, "O"))
          = Len(moves)
    BY <1>1 DEF Live
  <2>2. CASE s = "X" /\ t = "O"
    BY <1>2, <1>3, <1>8, <1>9, <2>1, <2>2
  <2>3. CASE s = "O" /\ t = "X"
    BY <1>2, <1>3, <1>8, <1>9, <2>1, <2>3
  <2> QED
    BY <1>5, <2>2, <2>3 DEF Symbols
<1>11. IF Player(move_number + 1) = "x"
         THEN Cardinality(Holding(nb, "X")) = Cardinality(Holding(nb, "O"))
         ELSE Cardinality(Holding(nb, "X")) = Cardinality(Holding(nb, "O")) + 1
  <2>1. IF Player(move_number) = "x"
          THEN Cardinality(Holding(board, "X")) = Cardinality(Holding(board, "O"))
          ELSE Cardinality(Holding(board, "X")) = Cardinality(Holding(board, "O")) + 1
    BY <1>1 DEF Live
  <2>2. CASE s = "X" /\ t = "O"
    BY <1>5, <1>8, <1>9, <2>1, <2>2
  <2>3. CASE s = "O" /\ t = "X"
    BY <1>5, <1>8, <1>9, <2>1, <2>3
  <2> QED
    BY <1>5, <2>2, <2>3 DEF Symbols
<1>12. NeverFallsOff'
  <2>1. SUFFICES ASSUME move_number = MaxTurns PROVE check_winner(nb) # "None"
    BY <1>1 DEF NeverFallsOff
  <2>2. Full(nb)
    BY <1>4, <1>10, <2>1, NineMarksFill DEF MaxTurns
  <2> QED
    BY <2>2, <1>6 DEF Verdict
<1>13. TypeOK'
  <2>1. result' \in MatchOutcome \cup {"None"}
    BY <1>1, <1>6 DEF MatchOutcome, Verdict
  <2>2. pc' \in Steps
    BY <1>1 DEF Steps
  <2> QED
    BY <1>1, <1>3, <2>1, <2>2 DEF TypeOK, MoveRecord
<1>14. \A n \in 1 .. Len(moves') : ~moves'[n].error
  <2> SUFFICES ASSUME NEW n \in 1 .. Len(moves') PROVE ~moves'[n].error
    OBVIOUS
  <2>1. CASE n = Len(moves')
    BY <1>3, <2>1
  <2>2. CASE n # Len(moves')
    <3>1. n \in 1 .. Len(moves)
      BY <1>2, <1>3, <2>2
    <3> QED
      BY <1>1, <1>3, <3>1 DEF Live
  <2> QED
    BY <2>1, <2>2
<1>15. Live'
  <2>1. SUFFICES ASSUME Running' PROVE Live'
    BY DEF Live
  <2>2. check_winner(nb) = "None" /\ Len(moves') # MaxTurns
    BY <1>1, <1>4, <2>1 DEF Running
  <2>3. Len(moves') < MaxTurns
    BY <1>2, <1>3, <2>2 DEF MaxTurns
  <2>4. /\ check_winner(board') = "None"
        /\ result' = "None"
        /\ board' = BoardAfter(Len(moves))'
    BY <1>1, <1>3, <2>2
  <2>5. IF Player(move_number') = "x"
          THEN Cardinality(Holding(board', "X")) = Cardinality(Holding(board', "O"))
          ELSE Cardinality(Holding(board', "X")) = Cardinality(Holding(board', "O")) + 1
    BY <1>1, <1>4, <1>11
  <2> QED
    BY <1>1, <1>10, <1>14, <2>3, <2>4, <2>5 DEF Live
<1>16. WinnerMadeLastMove'
  <2>1. SUFFICES ASSUME pc' = "over", result' \in {"x_wins", "o_wins"}
                 PROVE  /\ result' = IF Player(Len(moves')) = "x"
                                      THEN "x_wins" ELSE "o_wins"
                        /\ \A i \in 1 .. 8 : ~Owns(nb, Symbol(Len(moves') + 1), i)
    BY <1>1 DEF WinnerMadeLastMove
  <2>2. Player(Len(moves')) = "x" <=> s = "X"
    BY <1>4, <1>5
  <2> QED
    BY <1>0, <1>1, <1>4, <1>5, <1>6, <1>7, <2>1, <2>2 DEF Verdict
<1>17. RecordIsAGame'
  <2> SUFFICES ASSUME NEW n \in 1 .. Len(moves')
               PROVE
      /\ moves'[n].move_number = n
      /\ moves'[n].player = Player(n)
      /\ check_winner(BoardAfter(n - 1)') = "None"
      /\ ~moves'[n].error
      /\ validate_move(BoardAfter(n - 1)', BoardAfter(n)', Symbol(n)) = "None"
    BY DEF RecordIsAGame
  <2>1. CASE n = Len(moves')
    <3>1. n - 1 = Len(moves) /\ n = move_number
      BY <1>2, <1>3, <1>4, <2>1
    <3>2. BoardAfter(n - 1)' = board
      BY <1>1, <1>2, <1>3, <3>1 DEF Live
    <3>3. BoardAfter(n)' = nb
      BY <1>3, <2>1
    <3>4. moves'[n].move_number = n /\ moves'[n].player = Player(n)
      BY <1>3, <2>1
    <3> QED
      BY <1>2, <1>14, <3>1, <3>2, <3>3, <3>4
  <2>2. CASE n # Len(moves')
    <3>1. n \in 1 .. Len(moves) /\ n - 1 \in 0 .. Len(moves) /\ n \in 0 .. Len(moves)
      BY <1>2, <1>3, <2>2
    <3>2. ~moves[n].error
      BY <1>1, <3>1 DEF Live
    <3> QED
      BY <1>1, <1>3, <1>14, <3>1, <3>2 DEF RecordIsAGame
  <2> QED
    BY <2>1, <2>2
<1> QED
  BY <1>12, <1>13, <1>15, <1>16, <1>17 DEF IInv

\* Whatever is answered to a request.
LEMMA ReplyInv ==
  ASSUME IInv, Running, NEW response, ReplyWith(response), crashed' \in BOOLEAN
  PROVE  IInv'
<1> DEFINE nb == play_turn(response)
<1>1. CASE nb = NoBoard
  BY <1>1, ForfeitInv DEF ReplyWith
<1>2. CASE nb # NoBoard
  <2>1. AcceptTurn(nb)
    BY <1>2 DEF ReplyWith
  <2>2. /\ nb \in Board
        /\ validate_move(board, nb, Symbol(move_number)) = "None"
        /\ \E c \in Cells : board[c] = "." /\ nb = [board EXCEPT ![c] = Symbol(move_number)]
    BY <1>2, TurnAccepted DEF IInv
  <2> HIDE DEF nb
  <2> QED
    BY <2>1, <2>2, AcceptInv
<1> QED
  BY <1>1, <1>2

\* Steps that leave the board, the record and the result alone.
LEMMA QuietInv ==
  ASSUME IInv, Running, UNCHANGED <<board, moves, result>>,
         pc' \in {"turn", "await", "raised"}, raised' \in Exceptions,
         crashed' \in BOOLEAN
  PROVE  IInv'
<1>1. TypeOK'
  BY DEF IInv, TypeOK, Steps
<1>2. Live'
  BY DEF IInv, Live, Running, BoardAfter, move_number
<1>3. RecordIsAGame'
  BY DEF IInv, Live, RecordIsAGame, BoardAfter
<1> QED
  BY <1>1, <1>2, <1>3 DEF IInv, WinnerMadeLastMove, NeverFallsOff

\* Every step of the call keeps the invariant.
LEMMA NextInv == IInv /\ [Next]_vars => IInv'
<1> SUFFICES ASSUME IInv, [Next]_vars PROVE IInv'
  OBVIOUS
<1>1. CASE GetPodIps
  BY <1>1, QuietInv DEF GetPodIps, Running, IInv, TypeOK
<1>2. CASE GetPodIpRaises
  BY <1>2, QuietInv DEF GetPodIpRaises, Running, Exceptions, IInv, TypeOK
<1>3. CASE RequestTurn
  BY <1>3, QuietInv DEF RequestTurn, Running, IInv, TypeOK
<1>4. CASE ConnectFails
  BY <1>4, ForfeitInv DEF ConnectFails, Running, IInv, TypeOK
<1>5. ASSUME NEW text \in Outputs(board), BotAnswers(text) PROVE IInv'
  BY <1>5, ReplyInv DEF BotAnswers, Running
<1>6. CASE BotTimesOut
  BY <1>6, ReplyInv DEF BotTimesOut, Running, IInv, TypeOK
<1>7. CASE ClientTimesOut
  BY <1>7, QuietInv DEF ClientTimesOut, Running, Exceptions, IInv, TypeOK
<1>8. CASE ConnectionLost
  BY <1>8, QuietInv DEF ConnectionLost, Running, Exceptions, IInv, TypeOK
<1>9. CASE UNCHANGED vars
  BY <1>9 DEF vars, IInv, TypeOK, Live, Running, RecordIsAGame, BoardAfter,
              move_number, WinnerMadeLastMove, NeverFallsOff
<1> QED
  BY <1>1, <1>2, <1>3, <1>4, <1>5, <1>6, <1>7, <1>8, <1>9 DEF Next

\* The inductive invariant holds throughout.
THEOREM Invariance == Spec => []IInv
BY InitInv, NextInv, PTL DEF Spec

\* Type correctness of run_match_from_pods, for all bots.
THEOREM TypeCorrect == Spec => []TypeOK
<1>1. IInv => TypeOK
  BY DEF IInv
<1> QED
  BY <1>1, Invariance, PTL

\* The moves that match_runner records are always a legal, replayable game.
THEOREM RecordCorrect == Spec => []RecordIsAGame
<1>1. IInv => RecordIsAGame
  BY DEF IInv
<1> QED
  BY <1>1, Invariance, PTL

\* check_winner only ever awards a match to the bot that moved last.
THEOREM WinnerCorrect == Spec => []WinnerMadeLastMove
<1>1. IInv => WinnerMadeLastMove
  BY DEF IInv
<1> QED
  BY <1>1, Invariance, PTL

\* The nine-turn loop always returns from its body.
THEOREM LoopReturns == Spec => []NeverFallsOff
<1>1. IInv => NeverFallsOff
  BY DEF IInv
<1> QED
  BY <1>1, Invariance, PTL
-----------------------------------------------------------------------------
\* A line of WINNING_LINES is one in the sense of the rules.
LEMMA LinesAgree ==
  ASSUME NEW b, NEW s
  PROVE  (\E i \in 1 .. 8 : Owns(b, s, i)) <=> Game!HasLine(b, s)
BY LinesGeometry DEF Game!HasLine

\* Whose turn it is can be read off the board.
LEMMA MoverAgrees ==
  ASSUME IInv, Running
  PROVE  Game!ToMove = Symbol(move_number)
<1>1. \A s : Game!Marked(s) = Holding(board, s)
  BY DEF Game!Marked, Game!Squares, Holding, Cells
<1>2. Cardinality(Holding(board, "O")) \in Nat
  BY HoldingFinite
<1>3. \A S : Game!Cardinality(S) = Cardinality(S)
  BY DEF Game!Cardinality, Cardinality
<1>4. IF Player(move_number) = "x"
        THEN Cardinality(Holding(board, "X")) = Cardinality(Holding(board, "O"))
        ELSE Cardinality(Holding(board, "X")) = Cardinality(Holding(board, "O")) + 1
  BY DEF IInv, Live
<1> QED
  BY <1>1, <1>2, <1>3, <1>4 DEF Game!ToMove, Player, Symbol

\* A forfeited turn is a forfeit of the player to move.
LEMMA ForfeitRefines ==
  ASSUME IInv, Running, ForfeitTurn
  PROVE  Game!Forfeit
<1>1. Game!ToMove = Symbol(move_number)
  BY MoverAgrees
<1>2. Status = "playing" /\ Status' = result' /\ board' = board
  BY DEF Status, Running, ForfeitTurn
<1>3. result' = Game!Forfeits(Symbol(move_number))
  BY DEF ForfeitTurn, forfeit_label, Player, Symbol, Game!Forfeits
<1> QED
  BY <1>1, <1>2, <1>3 DEF Game!Forfeit

\* An accepted turn marks a cell, and check_winner judges it as the rules do.
LEMMA AcceptRefines ==
  ASSUME IInv, Running, NEW nb \in Board, AcceptTurn(nb), NeverFallsOff',
         NEW c \in Cells, board[c] = ".",
         nb = [board EXCEPT ![c] = Symbol(move_number)]
  PROVE  Game!Mark(c)
<1>0. PICK s : s = Symbol(move_number)
  OBVIOUS
<1>1. s \in Symbols /\ Game!ToMove = s
  BY <1>0, MoverAgrees DEF Symbol, Symbols
<1>2. /\ board' = nb
      /\ result' = check_winner(nb)
      /\ pc' = IF check_winner(nb) # "None" THEN "over" ELSE "turn"
  BY DEF AcceptTurn, NeverFallsOff
<1>3. board \in Board /\ check_winner(board) = "None" /\ Status = "playing"
  BY DEF IInv, Live, TypeOK, Status, Running
<1>4. nb = [board EXCEPT ![c] = s]
  BY <1>0
<1>5. check_winner(nb) = Verdict(nb, s)
  BY <1>1, <1>3, <1>4, OutcomeOfMove
<1>6. Verdict(nb, s) = IF Game!HasLine(nb, s) THEN Game!Wins(s)
                       ELSE IF Game!NoneEmpty(nb) THEN "cat" ELSE "None"
  <2>1. (\E i \in 1 .. 8 : Owns(nb, s, i)) <=> Game!HasLine(nb, s)
    BY LinesAgree
  <2>2. Full(nb) <=> Game!NoneEmpty(nb)
    BY DEF Full, Game!NoneEmpty, Game!Squares, Cells
  <2> QED
    BY <2>1, <2>2 DEF Verdict, Game!Wins
<1>7. Status' = IF Game!HasLine(nb, s) THEN Game!Wins(s)
                ELSE IF Game!NoneEmpty(nb) THEN "cat" ELSE "playing"
  BY <1>2, <1>5, <1>6 DEF Status, Game!Wins
<1> QED
  BY <1>0, <1>1, <1>2, <1>3, <1>4, <1>7 DEF Game!Mark

\* Whatever is answered is a step of the game.
LEMMA ReplyRefines ==
  ASSUME IInv, IInv', Running, NEW response, ReplyWith(response)
  PROVE  Game!GameNext
<1> DEFINE nb == play_turn(response)
<1>1. CASE nb = NoBoard
  BY <1>1, ForfeitRefines DEF ReplyWith, Game!GameNext
<1>2. CASE nb # NoBoard
  <2>1. AcceptTurn(nb)
    BY <1>2 DEF ReplyWith
  <2>2. /\ nb \in Board
        /\ \E c \in Cells : board[c] = "." /\ nb = [board EXCEPT ![c] = Symbol(move_number)]
    BY <1>2, TurnAccepted DEF IInv
  <2> HIDE DEF nb
  <2>3. PICK c \in Cells : board[c] = "." /\ nb = [board EXCEPT ![c] = Symbol(move_number)]
    BY <2>2
  <2>4. Game!Mark(c)
    BY <2>1, <2>2, <2>3, AcceptRefines DEF IInv
  <2>5. c \in Game!Squares
    BY DEF Cells, Game!Squares
  <2> QED
    BY <2>4, <2>5 DEF Game!GameNext
<1> QED
  BY <1>1, <1>2

\* Every match that run_match_from_pods drives is a game of tic-tac-toe,
\* whatever the bots answer.
THEOREM Refinement == Spec => PlaysTicTacToe
<1>1. Init => Game!GameInit
  BY DEF Init, Game!GameInit, Game!Squares, Cells, EMPTY_BOARD, Status
<1>2. IInv /\ IInv' /\ [Next]_vars => [Game!GameNext]_<<board, Status>>
  <2> SUFFICES ASSUME IInv, IInv', [Next]_vars
               PROVE  Game!GameNext \/ UNCHANGED <<board, Status>>
    OBVIOUS
  <2>1. CASE GetPodIps
    BY <2>1 DEF GetPodIps, Status
  <2>2. CASE GetPodIpRaises
    BY <2>2 DEF GetPodIpRaises, Status, Game!GameNext, Game!Abandon
  <2>3. CASE RequestTurn
    BY <2>3 DEF RequestTurn, Status
  <2>4. CASE ConnectFails
    BY <2>4, ForfeitRefines DEF ConnectFails, Running, Game!GameNext
  <2>5. ASSUME NEW text \in Outputs(board), BotAnswers(text) PROVE Game!GameNext
    BY <2>5, ReplyRefines DEF BotAnswers, Running
  <2>6. CASE BotTimesOut
    BY <2>6, ReplyRefines DEF BotTimesOut, Running
  <2>7. CASE ClientTimesOut
    BY <2>7 DEF ClientTimesOut, Status, Game!GameNext, Game!Abandon
  <2>8. CASE ConnectionLost
    BY <2>8 DEF ConnectionLost, Status, Game!GameNext, Game!Abandon
  <2>9. CASE UNCHANGED vars
    BY <2>9 DEF vars, Status
  <2> QED
    BY <2>1, <2>2, <2>3, <2>4, <2>5, <2>6, <2>7, <2>8, <2>9 DEF Next
<1> QED
  BY <1>1, <1>2, Invariance, PTL DEF Spec, PlaysTicTacToe, Game!GameSpec

-----------------------------------------------------------------------------
\* How many steps a call can still take: the lookup of the pods, and a request
\* and its answer for each turn that is left.
StepsLeft ==
  CASE pc = "pods" -> 2 * MaxTurns + 1
    [] pc = "turn" -> 2 * (MaxTurns - Len(moves))
    [] pc = "await" -> 2 * (MaxTurns - Len(moves)) - 1
    [] OTHER -> 0

\* A running call has a turn left.
LEMMA TurnsLeft ==
  ASSUME IInv
  PROVE  /\ pc \in Steps /\ moves \in Seq(MoveRecord)
         /\ \E n \in Nat : Len(moves) = n /\ (Running => n <= 8)
<1>1. pc \in Steps /\ moves \in Seq(MoveRecord)
  BY DEF IInv, TypeOK, MoveRecord
<1>2. PICK n \in Nat : n = Len(moves)
  BY <1>1
<1>3. Running => n < MaxTurns
  BY <1>2 DEF IInv, Live
<1>4. Running => n <= 8
  BY <1>3 DEF MaxTurns
<1> QED
  BY <1>1, <1>2, <1>4

\* A turn ends the call or leaves one turn less.
LEMMA TurnCounts ==
  ASSUME IInv, IInv', pc \in {"turn", "await"},
         ForfeitTurn \/ \E nb : AcceptTurn(nb)
  PROVE  StepsLeft' < StepsLeft
<1>1. PICK n \in Nat : moves \in Seq(MoveRecord) /\ Len(moves) = n /\ n <= 8
  BY TurnsLeft DEF Running
<1>2. /\ pc' \in {"over", "turn"}
      /\ \E m : moves' = Append(moves, m)
  BY DEF ForfeitTurn, AcceptTurn, Record, IInv, NeverFallsOff
<1>3. Len(moves') = n + 1
  BY <1>1, <1>2
<1> QED
  BY <1>1, <1>2, <1>3 DEF StepsLeft, MaxTurns

\* run_match_from_pods makes at most nineteen steps, whatever the bots answer:
\* each one leaves fewer to make.
THEOREM CallCounts == Spec => [](StepsLeft \in 0 .. 19) /\ [][StepsLeft' < StepsLeft]_vars
<1>1. IInv => StepsLeft \in 0 .. 19
  <2> SUFFICES ASSUME IInv PROVE StepsLeft \in 0 .. 19
    OBVIOUS
  <2>1. PICK n \in Nat : Len(moves) = n /\ (Running => n <= 8)
    BY TurnsLeft
  <2> QED
    BY <2>1 DEF Running, StepsLeft, MaxTurns
<1>2. IInv /\ IInv' /\ Next => StepsLeft' < StepsLeft
  <2> SUFFICES ASSUME IInv, IInv', Next PROVE StepsLeft' < StepsLeft
    OBVIOUS
  <2>1. PICK n \in Nat : Len(moves) = n /\ (Running => n <= 8)
    BY TurnsLeft
  <2>2. ASSUME NEW response, pc = "await", ReplyWith(response) PROVE StepsLeft' < StepsLeft
    BY <2>2, TurnCounts DEF ReplyWith
  <2>3. CASE GetPodIps \/ GetPodIpRaises \/ RequestTurn
    <3>1. \/ pc = "pods" /\ pc' \in {"turn", "raised"}
          \/ pc = "turn" /\ pc' = "await"
      BY <2>3 DEF GetPodIps, GetPodIpRaises, RequestTurn
    <3>2. moves' = moves
      BY <2>3 DEF GetPodIps, GetPodIpRaises, RequestTurn
    <3> QED
      BY <2>1, <3>1, <3>2 DEF Running, StepsLeft, MaxTurns
  <2>4. CASE ConnectFails
    BY <2>4, TurnCounts DEF ConnectFails
  <2>5. CASE BotTimesOut \/ \E text \in Outputs(board) : BotAnswers(text)
    BY <2>2, <2>5 DEF BotTimesOut, BotAnswers
  <2>6. CASE ClientTimesOut \/ ConnectionLost
    <3>1. pc = "await" /\ pc' = "raised"
      BY <2>6 DEF ClientTimesOut, ConnectionLost
    <3> QED
      BY <2>1, <3>1 DEF Running, StepsLeft, MaxTurns
  <2> QED
    BY <2>3, <2>4, <2>5, <2>6 DEF Next
<1> QED
  BY <1>1, <1>2, Invariance, PTL DEF Spec
=============================================================================
