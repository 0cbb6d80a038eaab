---------------------------- MODULE MatchRunner -----------------------------
(***************************************************************************)
(* One call of run_match_from_pods (dispatcher/match_runner.py): the game  *)
(* loop that asks the two bots' pods in turn for a new board over HTTP,    *)
(* judges the answer and records every move.  The pod's side of a request  *)
(* (bot-runner-images/python/turn_server.py) is the operator run_bot.      *)
(*                                                                         *)
(* Clocks are not modelled: while the runner waits for an answer, the      *)
(* bot's process may end, the turn server's limit on that process may      *)
(* expire, the client's limit on the answer may expire (both are ten       *)
(* seconds) or the connection may break.                                   *)
(***************************************************************************)
EXTENDS Engine

\* What the bots' processes may print, given the board they were asked about.
CONSTANT Outputs(_)

VARIABLES
  pc,       \* where the call is: see Steps
  board,    \* the local variable `board`
  moves,    \* the local variable `moves`
  result,   \* the MatchOutcome returned, "None" before
  raised,   \* the exception that ended the call, "None" before
  crashed   \* history: the bot that answered last ended with an unhandled exception

vars == <<pc, board, moves, result, raised, crashed>>

\* "pods": looking up the pods' IPs.  "turn": about to request a turn.
\* "await": inside request_turn.  "over": returned a MatchResult.
\* "raised": left by an exception.  "fell_off": the for loop ran out.
Steps == {"pods", "turn", "await", "over", "raised", "fell_off"}

Exceptions == {"None", "pod lookup", "TimeoutError", "RemoteDisconnected"}

MaxTurns == 9

\* The entry of `turns` that itertools.cycle yields at move number n.
Player(n) == IF n % 2 = 1 THEN "x" ELSE "o"

Symbol(n) == IF n % 2 = 1 THEN "X" ELSE "O"

move_number == Len(moves) + 1

\* Faulty variant: the opponent of the mover forfeits.
forfeit_label_swapped(player) ==
  IF player = "x" THEN "o_forfeit" ELSE "x_forfeit"

forfeit_label(player) == IF player = "x" THEN "x_forfeit" ELSE "o_forfeit"

\* The JSON a turn server answers with: a board, or an error when the process
\* printed nothing.  Its exit status does not matter: what a bot prints before
\* it crashes counts.
run_bot(text) == [error |-> text = <<>>, board |-> text]

TimeoutReply == [error |-> TRUE, board |-> <<>>]

\* The board _play_turn returns for a response, NoBoard when it forfeits.
play_turn(response) ==
  LET new_board == parse_board(response.board) IN
  IF /\ ~response.error
     /\ response.board # <<>>
     /\ new_board # NoBoard
     /\ validate_move(board, new_board, Symbol(move_number)) = "None"
    THEN new_board
    ELSE NoBoard

\* Faulty variant: moves are numbered from zero.
Record_from_zero(text, error) ==
  Append(moves, [move_number |-> Len(moves), player |-> Player(move_number),
                 board |-> text, error |-> error])

Record(text, error) ==
  Append(moves, [move_number |-> move_number, player |-> Player(move_number),
                 board |-> text, error |-> error])

Init ==
  /\ pc = "pods"
  /\ board = EMPTY_BOARD
  /\ moves = <<>>
  /\ result = "None"
  /\ raised = "None"
  /\ crashed = FALSE

GetPodIps ==
  /\ pc = "pods"
  /\ pc' = "turn"
  /\ UNCHANGED <<board, moves, result, raised, crashed>>

\* A pod is missing or has no IP: get_pod_ip raises.
GetPodIpRaises ==
  /\ pc = "pods"
  /\ pc' = "raised"
  /\ raised' = "pod lookup"
  /\ UNCHANGED <<board, moves, result, crashed>>

\* Faulty variant: the turn is asked again instead of being forfeited.
ForfeitTurn_retry ==
  /\ pc' = "turn"
  /\ UNCHANGED <<board, moves, result, raised>>

\* The branch `forfeit_error is not None` of the loop: the move on record
\* carries the board as it was before the turn.
ForfeitTurn ==
  /\ moves' = Record(board_to_str(board), TRUE)
  /\ result' = forfeit_label(Player(move_number))
  /\ pc' = "over"
  /\ UNCHANGED <<board, raised>>

\* Faulty variant: the outcome is that of the board before the move.
AcceptTurn_late_check(new_board) ==
  /\ board' = new_board
  /\ moves' = Record(board_to_str(new_board), FALSE)
  /\ LET outcome == check_winner(board) IN
       /\ result' = outcome
       /\ pc' = IF outcome # "None" THEN "over"
                ELSE IF move_number = MaxTurns THEN "fell_off" ELSE "turn"
  /\ UNCHANGED raised

\* The rest of the loop body, and the end of the loop after nine turns.
AcceptTurn(new_board) ==
  /\ board' = new_board
  /\ moves' = Record(board_to_str(new_board), FALSE)
  /\ LET outcome == check_winner(new_board) IN
       /\ result' = outcome
       /\ pc' = IF outcome # "None" THEN "over"
                ELSE IF move_number = MaxTurns THEN "fell_off" ELSE "turn"
  /\ UNCHANGED raised

RequestTurn ==
  /\ pc = "turn"
  /\ pc' = "await"
  /\ UNCHANGED <<board, moves, result, raised, crashed>>

\* urlopen cannot reach the pod and raises URLError, which _play_turn catches.
ConnectFails ==
  /\ pc = "turn"
  /\ ForfeitTurn
  /\ UNCHANGED crashed

ReplyWith(response) ==
  LET new_board == play_turn(response) IN
  IF new_board = NoBoard THEN ForfeitTurn ELSE AcceptTurn(new_board)

\* The bot's process ends, having printed text, and the answer arrives.  It may
\* have ended with an unhandled exception.
BotAnswers(text) ==
  /\ pc = "await"
  /\ ReplyWith(run_bot(text))
  /\ crashed' \in BOOLEAN

\* The turn server kills the process after ten seconds and says so; it answers
\* likewise when the process cannot be run or its output not be decoded.
BotTimesOut ==
  /\ pc = "await"
  /\ ReplyWith(TimeoutReply)
  /\ UNCHANGED crashed

\* The runner's own ten seconds expire first.  Reading the answer raises
\* TimeoutError, no URLError, so the exception leaves run_match_from_pods.
ClientTimesOut ==
  /\ pc = "await"
  /\ pc' = "raised"
  /\ raised' = "TimeoutError"
  /\ UNCHANGED <<board, moves, result, crashed>>

\* The pod goes away under the request: again no URLError.
ConnectionLost ==
  /\ pc = "await"
  /\ pc' = "raised"
  /\ raised' = "RemoteDisconnected"
  /\ UNCHANGED <<board, moves, result, crashed>>

Next ==
  \/ GetPodIps
  \/ GetPodIpRaises
  \/ RequestTurn
  \/ ConnectFails
  \/ \E text \in Outputs(board) : BotAnswers(text)
  \/ BotTimesOut
  \/ ClientTimesOut
  \/ ConnectionLost

Spec == Init /\ [][Next]_vars

\* The call runs in a thread of its own.  The wait for an answer has a limit;
\* the lookup of the pods, which has none, is assumed to end: the Kubernetes
\* API answers, or the connection to it breaks.
FairSpec == Spec /\ WF_vars(Next)
-----------------------------------------------------------------------------
TypeOK ==
  /\ pc \in Steps
  /\ board \in Board
  /\ moves \in Seq([move_number : 1 .. MaxTurns, player : {"x", "o"},
                    board : Seq(Seq(Marks)), error : BOOLEAN])
  /\ result \in MatchOutcome \cup {"None"}
  /\ raised \in Exceptions
  /\ crashed \in BOOLEAN

\* The position after n recorded moves, as a replay reads it from the record.
BoardAfter(n) == IF n = 0 THEN EMPTY_BOARD ELSE parse_board(moves[n].board)

\* The record run_match_from_pods leaves is a game that can be replayed: the
\* players alternate from x on, each accepted move puts one mark of the mover
\* on an empty cell of the previous position, nobody moves after the game is
\* decided, and only the last move may carry an error, in which case it
\* leaves the position alone and its player is the one who forfeits.
RecordIsAGame ==
  \A n \in 1 .. Len(moves) :
    /\ moves[n].move_number = n
    /\ moves[n].player = Player(n)
    /\ check_winner(BoardAfter(n - 1)) = "None"
    /\ IF moves[n].error
         THEN /\ n = Len(moves)
              /\ BoardAfter(n) = BoardAfter(n - 1)
              /\ pc = "over"
              /\ result = forfeit_label(Player(n))
         ELSE validate_move(BoardAfter(n - 1), BoardAfter(n), Symbol(n)) = "None"

\* A match that check_winner decides is won by the bot that moved last, and
\* the other bot has no line: the order in which check_winner tries the lines
\* never matters in a match.
WinnerMadeLastMove ==
  pc = "over" /\ result \in {"x_wins", "o_wins"} =>
    LET n == Len(moves) IN
      /\ result = IF Player(n) = "x" THEN "x_wins" ELSE "o_wins"
      /\ \A i \in 1 .. 8 : ~Owns(board, Symbol(n + 1), i)

\* The loop over nine turns never runs out without a return, so the caller
\* (ondeck_handler) never gets None for a MatchResult.
NeverFallsOff == pc # "fell_off"

\* Every call ends, whatever the bots do.
Terminates == <>(pc \in {"over", "raised"})

\* README.md:45-50 has it that a bot "forfeits the match immediately if it
\* raises an unhandled exception" or "exceeds the per-move time limit": a match
\* in which one bot does the first and the other, asked next, the second is
\* somebody's forfeit.
OffencesForfeit ==
  crashed /\ raised = "TimeoutError" => result \in {"x_forfeit", "o_forfeit"}
-----------------------------------------------------------------------------
\* The match as the rules see it: the grid, and how the game stands.
Status == CASE pc = "over" -> result
            [] pc = "raised" -> "abandoned"
            [] pc = "fell_off" -> "None"
            [] OTHER -> "playing"

Game == INSTANCE TicTacToe WITH grid <- board, status <- Status

\* Every match run_match_from_pods drives is a game of tic-tac-toe: the loop,
\* the parity of the move number, validate_move and check_winner together
\* implement the rules.
PlaysTicTacToe == Game!GameSpec

=============================================================================
