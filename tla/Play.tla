-------------------------------- MODULE Play --------------------------------
(***************************************************************************)
(* A human plays a bot in the browser: the page (web/static/play.mjs and   *)
(* play-state.mjs), the handlers behind it (web/play.py, web/bot_client.py)*)
(* and the bot's turn server, which a match may ask at the same time.      *)
(*                                                                         *)
(* The board lives in the page.  When it is the bot's turn the page posts  *)
(* the board and goes on handling clicks; the handler asks the bot's pod   *)
(* in a thread; the pod serves one request after the other.  Loading the   *)
(* page again abandons the request but does not stop its handler, and a    *)
(* client that gives up does not stop the bot.                             *)
(*                                                                         *)
(* A run of the bot is "fast" or "slow"; a client's ten seconds can only   *)
(* expire while a slow run keeps it waiting.  A text is, as in Engine, the *)
(* sequence of its lines, with a flag: Python's splitlines() breaks lines  *)
(* at characters (form feed, U+2028, ...) at which the page's split("\n")  *)
(* does not.                                                               *)
(***************************************************************************)
EXTENDS Engine

CONSTANTS
  Turns,          \* POST /play/turn requests that may be under way at once
  NoTurn,
  Outputs(_),     \* what the bot may print, given the board it was asked about
  Clicks(_),      \* the cells the human may click, given the board
  MaxLoads,       \* how often the page is loaded
  MaxMatchTurns,  \* how often a match asks the same bot
  MaxFaults       \* how often the row, the pod or the connection is lost

ASSUME TurnsAssumption == NoTurn \notin Turns /\ {"match", "gone"} \cap Turns = {}

\* A bot prints a text, and the page has nine cells.
ASSUME OutputsAssumption == \A b \in Board : Outputs(b) \subseteq Seq(Seq(STRING))

ASSUME ClicksAssumption == \A b \in Board : Clicks(b) \subseteq Cells

ASSUME BoundsAssumption ==
  MaxLoads \in Nat /\ MaxMatchTurns \in Nat /\ MaxFaults \in Nat

VARIABLES
  player,   \* whether the cookie ttt_player_name is set
  page,     \* the state of play.mjs and the request it waits for
  turn,     \* the handlers of POST /play/turn
  queue,    \* the clients of the turn server, the one being served first
  run,      \* the bot's process: "idle", "fast" or "slow"
  row,      \* whether the bot's row says pod_ready
  pod,      \* "running", "refusing" (its server is gone) or "gone"
  loads, matchTurns, faults   \* counters, for the bounds

vars == <<player, page, turn, queue, run, row, pod, loads, matchTurns, faults>>

Other(symbol) == IF symbol = "X" THEN "O" ELSE "X"

Reasons == {"Bot is unavailable", "Bot took too long",
            "Bot returned an invalid move", "another error"}

\* What a handler answers: a reason to forfeit, or "None" and the bot's text.
NoAnswer == [reason |-> "None", text |-> <<>>, newlines |-> TRUE]
Refusal(reason) == [NoAnswer EXCEPT !.reason = reason]

FreeTurn == [step |-> "free", board |-> EMPTY_BOARD, symbol |-> "X",
             answer |-> NoAnswer]

ClosedPage == [human |-> "X", board |-> EMPTY_BOARD, whose |-> "closed",
               caption |-> "turn", pending |-> NoTurn]

Init ==
  /\ player = FALSE
  /\ page = ClosedPage
  /\ turn = [t \in Turns |-> FreeTurn]
  /\ queue = <<>>
  /\ run = "idle"
  /\ row = TRUE
  /\ pod = "running"
  /\ loads = 0 /\ matchTurns = 0 /\ faults = 0
-----------------------------------------------------------------------------
(* play-state.mjs *)

\* The symbol of a completed line, "cat" for a full board, "null" otherwise.
checkWinner(board) ==
  IF \E i \in 1 .. 8 : /\ Owns(board, "X", i)
                       /\ \A j \in 1 .. (i - 1) : ~Owns(board, "O", j)
    THEN "X"
    ELSE IF \E i \in 1 .. 8 : Owns(board, "O", i)
      THEN "O"
      ELSE IF Full(board) THEN "cat" ELSE "null"

\* Faulty variant: a line of the bot's is credited to the human.
endCaption_swapped(human, winner) ==
  CASE winner = "cat" -> "Cat game"
    [] winner = human -> "bot wins"
    [] OTHER -> "human wins"

endCaption(human, winner) ==
  CASE winner = "cat" -> "Cat game"
    [] winner = human -> "human wins"
    [] OTHER -> "bot wins"

\* The page after a move: the game is over, or it is `next`'s turn.
Moved(board, next) ==
  LET winner == checkWinner(board) IN
  [page EXCEPT !.board = board,
               !.whose = IF winner # "null" THEN "over" ELSE next,
               !.caption = IF winner # "null"
                             THEN endCaption(page.human, winner) ELSE "turn"]

\* Faulty variant: a click counts whoever is to move.
applyHumanMove_any_turn(c) ==
  IF page.whose \in {"human", "bot"} /\ page.board[c] = "."
    THEN Moved([page.board EXCEPT ![c] = page.human], "bot")
    ELSE page

\* The page itself when the click is ignored.
applyHumanMove(c) ==
  IF page.whose = "human" /\ page.board[c] = "."
    THEN Moved([page.board EXCEPT ![c] = page.human], "bot")
    ELSE page

applyForfeit(reason) == [page EXCEPT !.whose = "over", !.caption = reason]

\* Faulty variant: a text that is no board is taken as it is.
applyBotMove_unparsed(answer) ==
  IF page.whose = "over" THEN page
  ELSE IF answer.newlines THEN Moved(parse_board(answer.text), "human")
  ELSE [page EXCEPT !.board = NoBoard, !.whose = "human"]

\* parseBoard splits at "\n" only; a board of one row makes checkWinner raise
\* inside the try of takeBotTurn, so that the page shows the exception.
applyBotMove(answer) ==
  IF page.whose = "over" THEN page
  ELSE IF answer.newlines THEN Moved(parse_board(answer.text), "human")
  ELSE applyForfeit("another error")
-----------------------------------------------------------------------------
(* The page and the routes that lead to it. *)

\* POST /play/name: a blank name sets no cookie.
SetPlayerName(blank) ==
  /\ player' = (player \/ ~blank)
  /\ UNCHANGED <<page, turn, queue, run, row, pod, loads, matchTurns, faults>>

\* The queue after a client has given up: its request is served all the same.
GivenUp(client) ==
  [i \in DOMAIN queue |-> IF queue[i] = client THEN "gone" ELSE queue[i]]

\* The handlers once the page no longer waits.  The one it waited for goes on,
\* but nobody reads its answer: once its request is at the turn server it is
\* no longer of interest.
Abandoned ==
  [t \in Turns |->
     IF t # page.pending THEN turn[t]
     ELSE IF turn[t].step \in {"lookup", "pod_ip"}
       THEN [FreeTurn EXCEPT !.step = turn[t].step] ELSE FreeTurn]

\* The page becomes p; when the bot is to move, takeBotTurn posts the board.
Show(p, handlers) ==
  \/ /\ p.whose # "bot"
     /\ page' = p
     /\ turn' = handlers
  \/ /\ p.whose = "bot"
     /\ \E t \in Turns :
          /\ handlers[t].step = "free"
          /\ page' = [p EXCEPT !.pending = t]
          /\ turn' = [handlers EXCEPT ![t] =
               [step |-> "lookup", board |-> p.board,
                symbol |-> Other(p.human), answer |-> NoAnswer]]

\* GET /play/vs/{bot_id}: a redirect without a name, a 404 for a bot that is
\* not ready, else a new game in which the human draws a symbol.
LoadPage(human) ==
  /\ loads < MaxLoads
  /\ loads' = loads + 1
  /\ IF player /\ row
       THEN Show([human |-> human, board |-> EMPTY_BOARD,
                  whose |-> IF human = "X" THEN "human" ELSE "bot",
                  caption |-> "turn", pending |-> NoTurn], Abandoned)
       ELSE page' = ClosedPage /\ turn' = Abandoned
  /\ queue' = GivenUp(page.pending)
  /\ UNCHANGED <<player, run, row, pod, matchTurns, faults>>

Click(c) ==
  /\ page.whose # "closed"
  /\ applyHumanMove(c) # page
  /\ Show(applyHumanMove(c), turn)
  /\ UNCHANGED <<player, queue, run, row, pod, loads, matchTurns, faults>>
-----------------------------------------------------------------------------
(* handle_play_turn and request_bot_turn. *)

\* Handler t answers with a; nothing else of it is needed from here on.
Answer(t, a) == [FreeTurn EXCEPT !.step = "answer", !.answer = a]

\* Faulty variant: the cell may have been taken.
validate_one_symbol_placed_anywhere(old, new, symbol) ==
  LET changes == Changes(old, new) IN
  /\ Cardinality(changes) = 1
  /\ \A c \in changes : new[c] = symbol

validate_one_symbol_placed(old, new, symbol) ==
  LET changes == Changes(old, new) IN
  /\ Cardinality(changes) = 1
  /\ \A c \in changes : old[c] = "." /\ new[c] = symbol

\* _parse_board_strict is, line for line, the engine's parse_board.
parse_board_strict(text) == parse_board(text)

\* What request_bot_turn makes of the turn server's answer: the text itself,
\* or BotForfeit.  An empty text stands for the server's {"error": ...}.
request_bot_turn(board, symbol, text, newlines) ==
  LET new == parse_board_strict(text) IN
  IF new # NoBoard /\ validate_one_symbol_placed(board, new, symbol)
    THEN [reason |-> "None", text |-> text, newlines |-> newlines]
    ELSE Refusal("Bot returned an invalid move")

\* bots.by_id: without a ready row a 404, which the page reads as unavailable.
LookUpBot(t) ==
  /\ turn[t].step = "lookup"
  /\ turn' = [turn EXCEPT ![t] =
       IF row THEN [@ EXCEPT !.step = "pod_ip"]
              ELSE Answer(t, Refusal("Bot is unavailable"))]
  /\ UNCHANGED <<player, page, queue, run, row, pod, loads, matchTurns, faults>>

\* get_pod_ip finds no pod, or the pod refuses the connection (URLError);
\* else the request waits at the turn server.
CallBot(t) ==
  /\ turn[t].step = "pod_ip"
  /\ IF pod = "running"
       THEN IF page.pending = t
              THEN /\ turn' = [turn EXCEPT ![t].step = "wait"]
                   /\ queue' = Append(queue, t)
              ELSE /\ turn' = [turn EXCEPT ![t] = FreeTurn]
                   /\ queue' = Append(queue, "gone")
       ELSE /\ turn' = [turn EXCEPT ![t] = Answer(t, Refusal("Bot is unavailable"))]
            /\ UNCHANGED queue
  /\ UNCHANGED <<player, page, run, row, pod, loads, matchTurns, faults>>

TurnTimesOut(t) ==
  /\ turn[t].step = "wait"
  /\ run = "slow"
  /\ turn' = [turn EXCEPT ![t] = Answer(t, Refusal("Bot took too long"))]
  /\ queue' = GivenUp(t)
  /\ UNCHANGED <<player, page, run, row, pod, loads, matchTurns, faults>>

\* The page has the answer.  If it has been loaded again nobody waits for it.
Deliver(t) ==
  /\ turn[t].step = "answer"
  /\ LET a == turn[t].answer
         p == IF a.reason = "None" THEN applyBotMove(a) ELSE applyForfeit(a.reason) IN
       page' = IF page.pending = t THEN [p EXCEPT !.pending = NoTurn] ELSE page
  /\ turn' = [turn EXCEPT ![t] = FreeTurn]
  /\ UNCHANGED <<player, queue, run, row, pod, loads, matchTurns, faults>>
-----------------------------------------------------------------------------
(* The turn server: HTTPServer.serve_forever, one request at a time. *)

StartRun(speed) ==
  /\ run = "idle" /\ queue # <<>>
  /\ run' = speed
  /\ UNCHANGED <<player, page, turn, queue, row, pod, loads, matchTurns, faults>>

\* Faulty variant: writing to a client that has gone ends the server's loop.
Respond_to_waiting(text, newlines) ==
  /\ run # "idle" /\ Head(queue) # "gone"
  /\ queue' = Tail(queue)
  /\ run' = "idle"
  /\ turn' = IF Head(queue) \notin Turns THEN turn
             ELSE [turn EXCEPT ![Head(queue)] =
                    Answer(Head(queue), request_bot_turn(@.board, @.symbol, text, newlines))]
  /\ UNCHANGED <<player, page, row, pod, loads, matchTurns, faults>>

\* _run_bot returns, by itself or after ten seconds, and do_POST answers.  A
\* client that has gone is an error the server's loop survives.
Respond(text, newlines) ==
  /\ run # "idle"
  /\ queue' = Tail(queue)
  /\ run' = "idle"
  /\ turn' = IF Head(queue) \notin Turns THEN turn
             ELSE [turn EXCEPT ![Head(queue)] =
                    Answer(Head(queue), request_bot_turn(@.board, @.symbol, text, newlines))]
  /\ UNCHANGED <<player, page, row, pod, loads, matchTurns, faults>>

\* What the bot prints; for another client than the page it is all the same.
Printed ==
  IF Head(queue) \in Turns THEN Outputs(turn[Head(queue)].board) ELSE {<<>>}

RunBot ==
  \/ \E speed \in {"fast", "slow"} : StartRun(speed)
  \/ /\ queue # <<>>
     /\ \E text \in Printed, newlines \in BOOLEAN : Respond(text, newlines)

\* A match (module MatchRunner) asks the same pod for a turn ...
MatchAsks ==
  /\ matchTurns < MaxMatchTurns
  /\ pod = "running"
  /\ \A i \in DOMAIN queue : queue[i] # "match"
  /\ queue' = Append(queue, "match")
  /\ matchTurns' = matchTurns + 1
  /\ UNCHANGED <<player, page, turn, run, row, pod, loads, faults>>

\* ... and its ten seconds may expire as well.
MatchTimesOut ==
  /\ run = "slow"
  /\ \E i \in DOMAIN queue : queue[i] = "match"
  /\ queue' = GivenUp("match")
  /\ UNCHANGED <<player, page, turn, run, row, pod, loads, matchTurns, faults>>
-----------------------------------------------------------------------------
Fault ==
  /\ faults < MaxFaults
  /\ faults' = faults + 1
  /\ UNCHANGED <<player, loads, matchTurns>>

\* The tables are reset or seeded anew.
LoseRow ==
  /\ Fault
  /\ row' = FALSE
  /\ UNCHANGED <<page, turn, queue, run, pod>>

\* The pod ends or is deleted: connections break while their answer is read,
\* which is no URLError, so that handle_play_turn raises, a 500.
LosePod(how) ==
  /\ Fault
  /\ pod = "running"
  /\ pod' = how
  /\ queue' = <<>>
  /\ run' = "idle"
  /\ turn' = [t \in Turns |-> IF turn[t].step = "wait"
                THEN Answer(t, Refusal("Bot is unavailable")) ELSE turn[t]]
  /\ UNCHANGED <<page, row>>

\* fetch itself fails; the handler goes on without a page.
FetchFails ==
  /\ Fault
  /\ page.pending # NoTurn
  /\ page' = [applyForfeit("another error") EXCEPT !.pending = NoTurn]
  /\ turn' = Abandoned
  /\ queue' = GivenUp(page.pending)
  /\ UNCHANGED <<run, row, pod>>

Serve(t) == LookUpBot(t) \/ CallBot(t) \/ TurnTimesOut(t) \/ Deliver(t)

Next ==
  \/ \E blank \in BOOLEAN : SetPlayerName(blank)
  \/ \E human \in Symbols : LoadPage(human)
  \/ \E c \in Clicks(page.board) : Click(c)
  \/ \E t \in Turns : Serve(t)
  \/ RunBot
  \/ MatchAsks \/ MatchTimesOut
  \/ LoseRow \/ FetchFails
  \/ \E how \in {"refusing", "gone"} : LosePod(how)

Spec == Init /\ [][Next]_vars

\* Handlers run in threads of the pool.  Their wait for the bot has a limit; the
\* lookup of its pod has none, and is assumed to end: the Kubernetes API answers,
\* or the connection to it breaks.  The turn server goes on with the next
\* request, and kills a slow bot.
FairSpec == Spec /\ WF_vars(RunBot) /\ \A t \in Turns : WF_vars(Serve(t))
-----------------------------------------------------------------------------
TypeOK ==
  /\ player \in BOOLEAN /\ row \in BOOLEAN
  /\ page \in [human : Symbols, board : Board,
               whose : {"closed", "human", "bot", "over"},
               caption : {"turn", "Cat game", "human wins", "bot wins"} \cup Reasons,
               pending : Turns \cup {NoTurn}]
  /\ turn \in [Turns -> [step : {"free", "lookup", "pod_ip", "wait", "answer"},
                         board : Board, symbol : Symbols,
                         answer : [reason : {"None"} \cup Reasons,
                                   text : Seq(Seq(Marks)), newlines : BOOLEAN]]]
  /\ queue \in Seq(Turns \cup {"match", "gone"})
  /\ run \in {"idle", "fast", "slow"}
  /\ pod \in {"running", "refusing", "gone"}
  /\ loads \in 0 .. MaxLoads
  /\ matchTurns \in 0 .. MaxMatchTurns
  /\ faults \in 0 .. MaxFaults

\* While it is the bot's turn exactly one request of the page is under way,
\* for the board the page shows and the bot's symbol: whatever the human
\* clicks meanwhile, the answer fits the board it is applied to.
PendingTurnIsCurrent ==
  /\ page.whose = "bot" <=> page.pending # NoTurn
  /\ page.pending # NoTurn =>
       LET t == turn[page.pending] IN
       /\ t.step \in {"lookup", "pod_ip", "wait"} =>
            t.board = page.board /\ t.symbol = Other(page.human)
       /\ t.step = "answer" /\ t.answer.reason = "None" =>
            LET new == parse_board(t.answer.text) IN
            new # NoBoard /\ validate_move(page.board, new, Other(page.human)) = "None"
       /\ t.step # "free"

\* The play page and a match judge a bot alike: request_bot_turn accepts what
\* the runner's validate_move accepts, for everything the bot may print.
SameJudgement ==
  \A t \in Turns : turn[t].step = "wait" =>
    \A text \in Outputs(turn[t].board) :
      (request_bot_turn(turn[t].board, turn[t].symbol, text, TRUE).reason = "None")
      <=> LET new == parse_board(text) IN
            /\ new # NoBoard
            /\ validate_move(turn[t].board, new, turn[t].symbol) = "None"

Status ==
  CASE page.caption = "turn" -> "playing"
    [] page.caption = "Cat game" -> "cat"
    [] page.caption = "human wins" -> IF page.human = "X" THEN "x_wins" ELSE "o_wins"
    [] page.caption = "bot wins" -> IF page.human = "X" THEN "o_wins" ELSE "x_wins"
    [] OTHER -> IF page.human = "X" THEN "o_forfeit" ELSE "x_forfeit"

Game == INSTANCE TicTacToe WITH grid <- page.board, status <- Status

\* Between two loads of the page its game follows the rules of tic-tac-toe
\* and ends with the outcome they give it; only the bot ever forfeits.
PageIsGame ==
  /\ Game!GameInit
  /\ [][loads' # loads \/ Game!GameNext]_<<page.board, Status>>

\* The bot's turn always ends, although the server also works for clients
\* that no longer listen.
TurnEnds == []<>(page.whose # "bot")

=============================================================================
