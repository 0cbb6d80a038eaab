----------------------------- MODULE PlayProofs -----------------------------
(***************************************************************************)
(* Play proved for any bot that prints text, any number of requests at     *)
(* once, of loads of the page and of faults.                               *)
(***************************************************************************)
EXTENDS Play, EngineProofs, SequenceTheorems

Captions == {"turn", "Cat game", "human wins", "bot wins"} \cup Reasons

Pages == [human : Symbols, board : Board, whose : {"closed", "human", "bot", "over"},
          caption : Captions, pending : Turns \cup {NoTurn}]

Answers == [reason : {"None"} \cup Reasons, text : Seq(Seq(Marks)), newlines : BOOLEAN]

Handlers == [step : {"free", "lookup", "pod_ip", "wait", "answer"},
             board : Board, symbol : Symbols, answer : Answers]

\* The symbol that is to move while the game goes on.
Mover == IF page.whose = "human" THEN page.human ELSE Other(page.human)

\* X has as many marks as O before its move, and one more before O's.
InTurn(b, s) ==
  Cardinality(Holding(b, "X"))
    = Cardinality(Holding(b, "O")) + (IF s = "X" THEN 0 ELSE 1)

\* A game that goes on is undecided, and the marks say whose turn it is.
PageInv ==
  page.whose \in {"human", "bot"} =>
    /\ page.caption = "turn"
    /\ check_winner(page.board) = "None"
    /\ InTurn(page.board, Mover)

\* Only the handler the page waits for has a request at the turn server, and
\* one at most.
QueueInv ==
  /\ \A t \in Turns : turn[t].step = "wait" => t = page.pending
  /\ \A i \in DOMAIN queue : queue[i] \in Turns => turn[queue[i]].step = "wait"
  /\ \A i, j \in DOMAIN queue : queue[i] \in Turns /\ queue[i] = queue[j] => i = j

IInv == TypeOK /\ PageInv /\ QueueInv /\ PendingTurnIsCurrent
-----------------------------------------------------------------------------
(* The two judges of a bot's move. *)

\* A sequence whose elements are all in T.
LEMMA SeqOf ==
  ASSUME NEW S, NEW T, NEW q \in Seq(S), \A i \in 1 .. Len(q) : q[i] \in T
  PROVE  q \in Seq(T)
<1>1. Len(q) \in Nat
  BY LenProperties
<1>2. SubSeq(q, 1, Len(q)) \in Seq(T)
  BY <1>1, SubSeqProperties
<1> QED
  BY <1>2, SubSeqFull

\* validate_one_symbol_placed accepts exactly what validate_move accepts.
LEMMA JudgesAgree ==
  ASSUME NEW b, NEW nb, NEW s
  PROVE  validate_one_symbol_placed(b, nb, s) <=> validate_move(b, nb, s) = "None"
<1>1. PICK changes : changes = Changes(b, nb)
  OBVIOUS
<1>2. IsFiniteSet(changes) /\ Cardinality(changes) \in Nat
  <2>1. changes \subseteq Cells
    BY <1>1 DEF Changes
  <2>2. IsFiniteSet(changes)
    BY <2>1, CellsFinite, FS_Subset
  <2> QED
    BY <2>2, FS_CardinalityType
<1>3. Cardinality(changes) = 0 <=> changes = {}
  BY <1>2, FS_EmptySet
<1>4. PICK c : c = CHOOSE d \in changes : TRUE
  OBVIOUS
<1>5. changes # {} => c \in changes
  BY <1>4
<1>6. ASSUME Cardinality(changes) = 1 PROVE changes = {c}
  <2>1. changes # {}
    BY <1>3, <1>6
  <2>2. c \in changes
    BY <1>5, <2>1
  <2>3. PICK x : changes = {x}
    BY <1>2, <1>6, FS_Singleton
  <2> QED
    BY <2>2, <2>3
<1>7. validate_one_symbol_placed(b, nb, s) <=>
        /\ Cardinality(changes) = 1
        /\ \A d \in changes : b[d] = "." /\ nb[d] = s
  BY <1>1 DEF validate_one_symbol_placed
<1>8. validate_move(b, nb, s) = "None" <=>
        /\ changes # {} /\ ~(Cardinality(changes) > 1)
        /\ b[c] = "." /\ nb[c] = s
  BY <1>1, <1>4 DEF validate_move
<1>9. (changes # {} /\ ~(Cardinality(changes) > 1)) <=> Cardinality(changes) = 1
  BY <1>2, <1>3
<1> QED
  BY <1>5, <1>6, <1>7, <1>8, <1>9

\* A refusal is an answer with that reason.
LEMMA RefusalType ==
  ASSUME NEW reason \in Reasons \cup {"None"}
  PROVE  Refusal(reason) \in Answers /\ Refusal(reason).reason = reason
<1>1. PICK e \in Seq(Seq(Marks)) : e = <<>>
  BY EmptySeq
<1>2. PICK n \in BOOLEAN : n = TRUE
  OBVIOUS
<1>3. NoAnswer = [reason |-> "None", text |-> e, newlines |-> n]
  BY <1>1, <1>2, Zenon DEF NoAnswer
<1>4. Refusal(reason) = [reason |-> reason, text |-> e, newlines |-> n]
  BY <1>3 DEF Refusal
<1>5. e \in Seq(Seq(Marks)) /\ n \in BOOLEAN
  BY <1>1, <1>2
<1> QED
  BY <1>4, <1>5 DEF Answers

\* What request_bot_turn returns: the text if the runner would accept the
\* move too, and a reason to forfeit otherwise.
LEMMA BotTurn ==
  ASSUME NEW b, NEW s, NEW text \in Seq(Seq(STRING)), NEW newlines \in BOOLEAN
  PROVE  \E a \in Answers :
           /\ a = request_bot_turn(b, s, text, newlines)
           /\ a.reason = "None" <=> /\ parse_board(text) # NoBoard
                                    /\ validate_move(b, parse_board(text), s) = "None"
           /\ a.reason = "None" => a.text = text
<1> SUFFICES ASSUME NEW a, a = request_bot_turn(b, s, text, newlines)
             PROVE  /\ a \in Answers
                    /\ a.reason = "None" <=>
                         /\ parse_board(text) # NoBoard
                         /\ validate_move(b, parse_board(text), s) = "None"
                    /\ a.reason = "None" => a.text = text
  BY Zenon
<1>0. PICK new : new = parse_board(text)
  OBVIOUS
<1>1. CASE new # NoBoard /\ validate_one_symbol_placed(b, new, s)
  <2>1. a = [reason |-> "None", text |-> text, newlines |-> newlines]
    BY <1>0, <1>1 DEF request_bot_turn, parse_board_strict
  <2>2. /\ Len(text) = 3
        /\ \A r \in 1 .. 3 : Len(text[r]) = 3 /\ \A c \in 1 .. 3 : text[r][c] \in Marks
    BY <1>0, <1>1 DEF parse_board
  <2>3. ASSUME NEW r \in 1 .. 3 PROVE text[r] \in Seq(Marks)
    <3>1. text[r] \in Seq(STRING)
      BY <2>2, ElementOfSeq
    <3>2. \A c \in 1 .. Len(text[r]) : text[r][c] \in Marks
      BY <2>2
    <3> QED
      BY <3>1, <3>2, SeqOf
  <2>4. text \in Seq(Seq(Marks))
    <3>1. \A r \in 1 .. Len(text) : text[r] \in Seq(Marks)
      BY <2>2, <2>3
    <3> QED
      BY <3>1, SeqOf
  <2>5. validate_move(b, new, s) = "None"
    BY <1>1, JudgesAgree
  <2> QED
    BY <1>0, <1>1, <2>1, <2>4, <2>5 DEF Answers
<1>2. CASE ~(new # NoBoard /\ validate_one_symbol_placed(b, new, s))
  <2>1. a = Refusal("Bot returned an invalid move")
    BY <1>0, <1>2 DEF request_bot_turn, parse_board_strict
  <2>2. a \in Answers /\ a.reason # "None"
    <3>1. "Bot returned an invalid move" \in Reasons \cup {"None"}
      BY DEF Reasons
    <3> QED
      BY <2>1, <3>1, RefusalType
  <2>3. ~(new # NoBoard /\ validate_move(b, new, s) = "None")
    BY <1>2, JudgesAgree
  <2> QED
    BY <1>0, <2>2, <2>3
<1> QED
  BY <1>1, <1>2

\* A handler that has nothing to do, and the empty board.
LEMMA FreeType ==
  /\ EMPTY_BOARD \in Board
  /\ NoAnswer \in Answers /\ NoAnswer.reason = "None"
  /\ FreeTurn \in Handlers /\ FreeTurn.step = "free"
<1>1. EMPTY_BOARD \in Board
  BY DEF EMPTY_BOARD, Board, Marks
<1>2. PICK a : a = NoAnswer
  OBVIOUS
<1>3. a \in Answers /\ a.reason = "None"
  <2>1. PICK e \in Seq(Seq(Marks)), n \in BOOLEAN : e = <<>> /\ n = TRUE
    BY EmptySeq
  <2>2. a = [reason |-> "None", text |-> e, newlines |-> n]
    BY <1>2, <2>1, Zenon DEF NoAnswer
  <2>3. e \in Seq(Seq(Marks)) /\ n \in BOOLEAN
    BY <2>1
  <2> QED
    BY <2>2, <2>3 DEF Answers
<1>4. FreeTurn = [step |-> "free", board |-> EMPTY_BOARD, symbol |-> "X", answer |-> a]
  BY <1>2 DEF FreeTurn
<1>5. FreeTurn \in Handlers /\ FreeTurn.step = "free"
  BY <1>1, <1>3, <1>4 DEF Handlers, Symbols
<1> QED
  BY <1>1, <1>2, <1>3, <1>5

\* A handler that answers.
LEMMA AnswerType ==
  ASSUME NEW t, NEW a \in Answers
  PROVE  Answer(t, a) \in Handlers /\ Answer(t, a).step = "answer" /\ Answer(t, a).answer = a
BY FreeType DEF Answer, Handlers
-----------------------------------------------------------------------------
(* Moves on the page. *)

\* checkWinner is the engine's check_winner with other names.
LEMMA CheckWinner ==
  ASSUME NEW b
  PROVE  /\ checkWinner(b) = "X" <=> check_winner(b) = "x_wins"
         /\ checkWinner(b) = "O" <=> check_winner(b) = "o_wins"
         /\ checkWinner(b) = "cat" <=> check_winner(b) = "cat"
         /\ checkWinner(b) = "null" <=> check_winner(b) = "None"
         /\ checkWinner(b) \in {"X", "O", "cat", "null"}
BY DEF checkWinner, check_winner

\* Whose turn it is, for the rules, is the one the page asks.
LEMMA ToMoveAgrees ==
  ASSUME IInv, page.whose \in {"human", "bot"}
  PROVE  Game!ToMove = Mover /\ Mover \in Symbols
<1>0. Mover \in Symbols
  BY DEF IInv, TypeOK, Mover, Other, Symbols
<1>1. \A s : Game!Marked(s) = Holding(page.board, s)
  BY DEF Game!Marked, Game!Squares, Holding, Cells
<1>2. Cardinality(Holding(page.board, "O")) \in Nat
  BY HoldingFinite
<1>3. \A S : Game!Cardinality(S) = Cardinality(S)
  BY DEF Game!Cardinality, Cardinality
<1>4. InTurn(page.board, Mover)
  BY DEF IInv, PageInv
<1> QED
  BY <1>0, <1>1, <1>2, <1>3, <1>4 DEF Game!ToMove, InTurn, Symbols

\* How a move of symbol s that leads to board b ends on the page.
EndCaption(b, s) ==
  IF \E i \in 1 .. 8 : Owns(b, s, i)
    THEN IF s = page.human THEN "human wins" ELSE "bot wins"
    ELSE IF Full(b) THEN "Cat game" ELSE "turn"

\* The page after the symbol that is to move has marked an empty cell.
LEMMA MovedFacts ==
  ASSUME IInv, page.whose \in {"human", "bot"},
         NEW next \in {"human", "bot"}, next # page.whose,
         NEW c \in Cells, page.board[c] = ".",
         NEW b, b = [page.board EXCEPT ![c] = Mover],
         NEW p, p = Moved(b, next)
  PROVE  /\ p \in Pages /\ p.human = page.human /\ p.pending = page.pending
         /\ p.board = b /\ p.whose \in {"over", next}
         /\ p.caption = EndCaption(b, Mover)
         /\ p.whose = next => /\ p.caption = "turn"
                              /\ check_winner(b) = "None"
                              /\ InTurn(b, Other(Mover))
<1>0. page \in Pages
  BY DEF IInv, TypeOK, Pages, Captions
<1>1. PICK s \in Symbols : s = Mover
  BY ToMoveAgrees
<1>2. page.board \in Board /\ check_winner(page.board) = "None"
  BY <1>0 DEF IInv, PageInv, Pages
<1>3. b \in Board /\ b = [page.board EXCEPT ![c] = s]
  BY <1>1, <1>2 DEF Board, Symbols, Marks
<1>4. check_winner(b) = Verdict(b, s)
  BY <1>1, <1>2, <1>3, OutcomeOfMove
<1>5. p = [page EXCEPT !.board = b,
             !.whose = IF checkWinner(b) # "null" THEN "over" ELSE next,
             !.caption = IF checkWinner(b) # "null"
                           THEN endCaption(page.human, checkWinner(b)) ELSE "turn"]
  BY DEF Moved
<1>6. (IF checkWinner(b) # "null" THEN endCaption(page.human, checkWinner(b)) ELSE "turn")
        = EndCaption(b, s)
  <2>1. page.human \in Symbols
    BY <1>0 DEF Pages
  <2> QED
    BY <1>4, <2>1, CheckWinner DEF endCaption, EndCaption, Verdict, Symbols
<1>7. InTurn(b, Other(s))
  <2>1. PICK t \in Symbols : t = Other(s) /\ t # s
    BY DEF Other, Symbols
  <2>2. /\ Cardinality(Holding(b, s)) = Cardinality(Holding(page.board, s)) + 1
        /\ Cardinality(Holding(b, t)) = Cardinality(Holding(page.board, t))
    BY <1>2, <1>3, <2>1, MarkCounts
  <2>3. \A u : Cardinality(Holding(page.board, u)) \in Nat
    BY HoldingFinite
  <2>4. InTurn(page.board, s)
    BY <1>1 DEF IInv, PageInv
  <2>5. CASE s = "X"
    BY <2>1, <2>2, <2>3, <2>4, <2>5 DEF InTurn, Symbols
  <2>6. CASE s = "O"
    BY <2>1, <2>2, <2>3, <2>4, <2>6 DEF InTurn, Symbols
  <2> QED
    BY <2>5, <2>6 DEF Symbols
<1>8. EndCaption(b, s) \in Captions
  BY DEF EndCaption, Captions
<1>9. p \in Pages /\ p.human = page.human /\ p.pending = page.pending /\ p.board = b
      /\ p.caption = EndCaption(b, s)
      /\ p.whose = IF checkWinner(b) # "null" THEN "over" ELSE next
  <2>1. PICK w \in {"over", next} : w = IF checkWinner(b) # "null" THEN "over" ELSE next
    OBVIOUS
  <2>2. PICK k \in Captions : k = EndCaption(b, s)
    BY <1>8
  <2>3. p = [page EXCEPT !.board = b, !.whose = w, !.caption = k]
    BY <1>5, <1>6, <2>1, <2>2
  <2>4. b \in Board /\ w \in {"closed", "human", "bot", "over"} /\ k \in Captions
    BY <1>3, <2>1, <2>2
  <2>5. p \in Pages /\ p.human = page.human /\ p.pending = page.pending /\ p.board = b
        /\ p.caption = k /\ p.whose = w
    BY <1>0, <2>3, <2>4 DEF Pages
  <2> QED
    BY <2>1, <2>2, <2>5
<1>10. p.whose = next => checkWinner(b) = "null" /\ check_winner(b) = "None"
  BY <1>9, CheckWinner
<1>11. checkWinner(b) = "null" => EndCaption(b, s) = "turn"
  BY <1>6
<1> QED
  BY <1>1, <1>7, <1>9, <1>10, <1>11

\* A line of WINNING_LINES is one in the sense of the rules.
LEMMA LinesAgree ==
  ASSUME NEW b, NEW s
  PROVE  (\E i \in 1 .. 8 : Owns(b, s, i)) <=> Game!HasLine(b, s)
BY LinesGeometry DEF Game!HasLine

\* In the rules, a move on the page is a mark of the symbol to move.
LEMMA MovedIsMark ==
  ASSUME IInv, page.whose \in {"human", "bot"},
         NEW c \in Cells, page.board[c] = ".",
         NEW b, b = [page.board EXCEPT ![c] = Mover],
         page'.board = b, page'.human = page.human,
         page'.caption = EndCaption(b, Mover)
  PROVE  Game!GameNext
<1>1. PICK s \in Symbols : s = Mover /\ Game!ToMove = s
  BY ToMoveAgrees
<1>2. (\E i \in 1 .. 8 : Owns(b, s, i)) <=> Game!HasLine(b, s)
  BY LinesAgree
<1>3. Full(b) <=> Game!NoneEmpty(b)
  BY DEF Full, Game!NoneEmpty, Game!Squares, Cells
<1>4. page.human \in Symbols /\ (s = page.human \/ s = Other(page.human))
  BY <1>1 DEF IInv, TypeOK, Mover
<1>5. Status = "playing"
  BY DEF IInv, PageInv, Status
<1>6. Status' = IF Game!HasLine(b, s) THEN Game!Wins(s)
                ELSE IF Game!NoneEmpty(b) THEN "cat" ELSE "playing"
  BY <1>1, <1>2, <1>3, <1>4 DEF Status, EndCaption, Game!Wins, Other, Symbols
<1>7. Game!Mark(c)
  BY <1>1, <1>5, <1>6 DEF Game!Mark
<1>8. c \in Game!Squares
  BY DEF Cells, Game!Squares
<1> QED
  BY <1>7, <1>8 DEF Game!GameNext

\* A forfeit on the page is one of the bot, which is to move.
LEMMA ForfeitIsForfeit ==
  ASSUME IInv, page.whose = "bot", NEW reason \in Reasons,
         page'.board = page.board, page'.human = page.human, page'.caption = reason
  PROVE  Game!GameNext
<1>1. Game!ToMove = Other(page.human) /\ page.human \in Symbols
  BY ToMoveAgrees DEF Mover, IInv, TypeOK
<1>2. Status = "playing"
  BY DEF IInv, PageInv, Status
<1>3. Status' = Game!Forfeits(Other(page.human))
  BY <1>1 DEF Status, Reasons, Game!Forfeits, Other, Symbols
<1> QED
  BY <1>1, <1>2, <1>3 DEF Game!GameNext, Game!Forfeit

-----------------------------------------------------------------------------
(* The handlers and the queue. *)

Clients == Turns \cup {"match", "gone"}

\* What PendingTurnIsCurrent says of the handler that the page waits for.
Fits(h) ==
  /\ h.step \in {"lookup", "pod_ip", "wait"} =>
       h.board = page.board /\ h.symbol = Other(page.human)
  /\ h.step = "answer" /\ h.answer.reason = "None" =>
       LET new == parse_board(h.answer.text) IN
       new # NoBoard /\ validate_move(page.board, new, Other(page.human)) = "None"
  /\ h.step # "free"

LEMMA PendingFits ==
  PendingTurnIsCurrent <=> /\ page.whose = "bot" <=> page.pending # NoTurn
                           /\ page.pending # NoTurn => Fits(turn[page.pending])
BY DEF PendingTurnIsCurrent, Fits

\* The types, with the names used here.
LEMMA Types ==
  TypeOK <=> /\ page \in Pages /\ turn \in [Turns -> Handlers] /\ queue \in Seq(Clients)
             /\ player \in BOOLEAN /\ row \in BOOLEAN
             /\ run \in {"idle", "fast", "slow"} /\ pod \in {"running", "refusing", "gone"}
             /\ loads \in 0 .. MaxLoads /\ matchTurns \in 0 .. MaxMatchTurns
             /\ faults \in 0 .. MaxFaults
BY Zenon DEF TypeOK, Pages, Captions, Handlers, Answers, Clients

\* The queue after a client has given up.
LEMMA GivenUpFacts ==
  ASSUME queue \in Seq(Clients), NEW client, NEW q, q = GivenUp(client)
  PROVE  /\ q \in Seq(Clients) /\ DOMAIN q = DOMAIN queue
         /\ \A i \in DOMAIN q : q[i] \in Turns => q[i] = queue[i] /\ q[i] # client
<1>1. DOMAIN queue = 1 .. Len(queue) /\ Len(queue) \in Nat
  BY LenProperties
<1>2. \A i \in 1 .. Len(queue) : queue[i] \in Clients
  BY ElementOfSeq
<1>3. q = [i \in 1 .. Len(queue) |-> IF queue[i] = client THEN "gone" ELSE queue[i]]
  BY <1>1 DEF GivenUp
<1>4. \A i \in 1 .. Len(queue) : q[i] \in Clients
  BY <1>2, <1>3 DEF Clients
<1>5. q \in Seq(Clients)
  BY <1>1, <1>3, <1>4
<1>6. "gone" \notin Turns
  BY TurnsAssumption
<1> QED
  BY <1>1, <1>3, <1>5, <1>6

\* Nothing of the page's is left in the queue once it no longer waits.
LEMMA NoneQueued ==
  ASSUME IInv, NEW q, q = GivenUp(page.pending)
  PROVE  q \in Seq(Clients) /\ \A i \in DOMAIN q : q[i] \notin Turns
<1>1. queue \in Seq(Clients)
  BY Types DEF IInv
<1>2. \A i \in DOMAIN queue : queue[i] \in Turns => queue[i] = page.pending
  BY DEF IInv, QueueInv
<1> QED
  BY <1>1, <1>2, GivenUpFacts

\* The handlers once the page no longer waits: none of them is at the turn
\* server.
LEMMA AbandonedFacts ==
  ASSUME IInv, NEW handlers, handlers = Abandoned
  PROVE  /\ handlers \in [Turns -> Handlers]
         /\ \A t \in Turns : handlers[t].step # "wait"
<1>1. turn \in [Turns -> Handlers]
  BY Types DEF IInv
<1>2. ASSUME NEW t \in Turns
      PROVE  handlers[t] \in Handlers /\ handlers[t].step # "wait"
  <2>1. CASE t # page.pending
    BY <1>1, <2>1 DEF Abandoned, IInv, QueueInv
  <2>2. CASE t = page.pending /\ turn[t].step \in {"lookup", "pod_ip"}
    <3>1. PICK w \in {"lookup", "pod_ip"} : w = turn[t].step
      BY <2>2
    <3>2. handlers[t] = [FreeTurn EXCEPT !.step = w]
      BY <2>2, <3>1 DEF Abandoned
    <3>3. w \in {"lookup", "pod_ip"}
      BY <3>1
    <3> QED
      BY <3>2, <3>3, FreeType DEF Handlers
  <2>3. CASE t = page.pending /\ turn[t].step \notin {"lookup", "pod_ip"}
    BY <2>3, FreeType DEF Abandoned
  <2> QED
    BY <2>1, <2>2, <2>3
<1> QED
  BY <1>2 DEF Abandoned

\* One handler goes on, for the page as it is.
LEMMA HandlerStep ==
  ASSUME IInv, page' = page, NEW t \in Turns, NEW h \in Handlers,
         turn' = [turn EXCEPT ![t] = h], t = page.pending => Fits(h),
         h.step = "wait" => t = page.pending
  PROVE  /\ turn' \in [Turns -> Handlers] /\ PendingTurnIsCurrent' /\ PageInv'
         /\ \A u \in Turns : turn'[u].step = "wait" => u = page'.pending
<1>1. turn \in [Turns -> Handlers]
  BY Types DEF IInv
<1>2. page.whose = "bot" <=> page.pending # NoTurn
  BY PendingFits DEF IInv
<1>3. page.pending # NoTurn => Fits(turn[page.pending]) /\ page.pending \in Turns
  BY PendingFits, Types DEF IInv, Pages
<1>4. page.pending # NoTurn => Fits(turn'[page.pending])
  BY <1>1, <1>3
<1>5. PendingTurnIsCurrent'
  BY <1>2, <1>4 DEF PendingTurnIsCurrent, Fits
<1>6. PageInv'
  BY DEF IInv, PageInv, Mover, InTurn, Holding
<1> QED
  BY <1>1, <1>5, <1>6 DEF IInv, QueueInv

\* A handler that answers with a reason to forfeit.
LEMMA RefusalFits ==
  ASSUME NEW t, NEW reason \in Reasons
  PROVE  /\ Answer(t, Refusal(reason)) \in Handlers
         /\ Answer(t, Refusal(reason)).step = "answer"
         /\ Fits(Answer(t, Refusal(reason)))
<1>1. PICK a \in Answers : a = Refusal(reason) /\ a.reason = reason
  BY RefusalType
<1>2. PICK h \in Handlers : h = Answer(t, a) /\ h.step = "answer" /\ h.answer = a
  BY AnswerType
<1>3. reason # "None"
  BY DEF Reasons
<1> QED
  BY <1>1, <1>2, <1>3 DEF Fits

\* The queue stays while a handler that is not in it goes on.
LEMMA OutOfQueue ==
  ASSUME IInv, NEW t \in Turns, turn[t].step # "wait", NEW h,
         turn' = [turn EXCEPT ![t] = h]
  PROVE  /\ \A i \in DOMAIN queue : queue[i] \in Turns => turn'[queue[i]].step = "wait"
         /\ \A i \in DOMAIN queue : queue[i] # t
<1>1. turn \in [Turns -> Handlers]
  BY Types DEF IInv
<1> QED
  BY <1>1 DEF IInv, QueueInv

\* bots.by_id: the handler goes on or answers.
LEMMA LookUpStep ==
  ASSUME IInv, NEW t \in Turns, LookUpBot(t)
  PROVE  IInv'
<1>1. turn \in [Turns -> Handlers] /\ turn[t] \in Handlers /\ turn[t].step = "lookup"
  BY Types DEF IInv, LookUpBot
<1>2. PICK h \in Handlers : /\ turn' = [turn EXCEPT ![t] = h]
                            /\ h.step \in {"pod_ip", "answer"}
                            /\ t = page.pending => Fits(h)
  <2>1. t = page.pending => turn[t].board = page.board /\ turn[t].symbol = Other(page.human)
    <3>1. t # NoTurn
      BY TurnsAssumption
    <3> QED
      BY <1>1, <3>1 DEF IInv, PendingTurnIsCurrent
  <2>2. CASE row
    <3>1. PICK h : h = [turn[t] EXCEPT !.step = "pod_ip"]
      OBVIOUS
    <3>2. /\ h \in Handlers /\ h.step = "pod_ip"
          /\ h.board = turn[t].board /\ h.symbol = turn[t].symbol
      BY <1>1, <3>1 DEF Handlers
    <3>3. turn' = [turn EXCEPT ![t] = h]
      BY <2>2, <3>1 DEF LookUpBot
    <3> QED
      BY <2>1, <3>2, <3>3 DEF Fits
  <2>3. CASE ~row
    <3>1. "Bot is unavailable" \in Reasons
      BY DEF Reasons
    <3>2. PICK h \in Handlers : /\ h = Answer(t, Refusal("Bot is unavailable"))
                                /\ h.step = "answer" /\ Fits(h)
      BY <3>1, RefusalFits
    <3>3. turn' = [turn EXCEPT ![t] = h]
      BY <2>3, <3>2 DEF LookUpBot
    <3> QED
      BY <3>2, <3>3
  <2> QED
    BY <2>2, <2>3
<1>3. UNCHANGED <<player, page, queue, run, row, pod, loads, matchTurns, faults>>
  BY DEF LookUpBot
<1>4. /\ turn' \in [Turns -> Handlers] /\ PendingTurnIsCurrent' /\ PageInv'
      /\ \A u \in Turns : turn'[u].step = "wait" => u = page'.pending
  BY <1>2, <1>3, HandlerStep
<1>5. QueueInv'
  <2>1. \A i \in DOMAIN queue : queue[i] \in Turns => turn'[queue[i]].step = "wait"
    BY <1>1, <1>2, OutOfQueue
  <2> QED
    BY <1>3, <1>4, <2>1 DEF IInv, QueueInv
<1>6. TypeOK'
  BY <1>3, <1>4, Types DEF IInv, TypeOK, Pages, Captions, Handlers, Answers, Clients
<1> QED
  BY <1>4, <1>5, <1>6 DEF IInv

\* get_pod_ip and the request to the turn server.
LEMMA CallStep ==
  ASSUME IInv, NEW t \in Turns, CallBot(t)
  PROVE  IInv'
<1>1. /\ turn \in [Turns -> Handlers] /\ turn[t] \in Handlers /\ turn[t].step = "pod_ip"
      /\ queue \in Seq(Clients)
  BY Types DEF IInv, CallBot
<1>2. UNCHANGED <<player, page, run, row, pod, loads, matchTurns, faults>>
  BY DEF CallBot
<1>3. t # NoTurn /\ "gone" \notin Turns /\ t \in Clients /\ "gone" \in Clients
  BY TurnsAssumption DEF Clients
<1>4. PICK h \in Handlers, q \in Seq(Clients) :
         /\ turn' = [turn EXCEPT ![t] = h] /\ queue' = q
         /\ t = page.pending => Fits(h)
         /\ h.step = "wait" => t = page.pending
         /\ q = queue \/ (q = Append(queue, t) /\ h.step = "wait") \/ q = Append(queue, "gone")
  <2>1. CASE pod = "running" /\ page.pending = t
    <3>1. PICK h : h = [turn[t] EXCEPT !.step = "wait"]
      OBVIOUS
    <3>2. /\ h \in Handlers /\ h.step = "wait"
          /\ h.board = turn[t].board /\ h.symbol = turn[t].symbol
      BY <1>1, <3>1 DEF Handlers
    <3>3. turn[t].board = page.board /\ turn[t].symbol = Other(page.human)
      BY <1>1, <1>3, <2>1 DEF IInv, PendingTurnIsCurrent
    <3>4. turn' = [turn EXCEPT ![t] = h] /\ queue' = Append(queue, t)
      BY <2>1, <3>1 DEF CallBot
    <3>5. Append(queue, t) \in Seq(Clients)
      BY <1>1, <1>3
    <3> QED
      BY <2>1, <3>2, <3>3, <3>4, <3>5 DEF Fits
  <2>2. CASE pod = "running" /\ page.pending # t
    <3>1. turn' = [turn EXCEPT ![t] = FreeTurn] /\ queue' = Append(queue, "gone")
      BY <2>2 DEF CallBot
    <3>2. Append(queue, "gone") \in Seq(Clients)
      BY <1>1, <1>3
    <3> QED
      BY <2>2, <3>1, <3>2, FreeType
  <2>3. CASE pod # "running"
    <3>1. "Bot is unavailable" \in Reasons
      BY DEF Reasons
    <3>2. PICK h \in Handlers : /\ h = Answer(t, Refusal("Bot is unavailable"))
                                /\ h.step = "answer" /\ Fits(h)
      BY <3>1, RefusalFits
    <3>3. turn' = [turn EXCEPT ![t] = h] /\ queue' = queue
      BY <2>3, <3>2 DEF CallBot
    <3> QED
      BY <1>1, <3>2, <3>3
  <2> QED
    BY <2>1, <2>2, <2>3
<1>5. /\ turn' \in [Turns -> Handlers] /\ PendingTurnIsCurrent' /\ PageInv'
      /\ \A u \in Turns : turn'[u].step = "wait" => u = page'.pending
  BY <1>2, <1>4, HandlerStep
<1>6. QueueInv'
  <2>1. /\ \A i \in DOMAIN queue : queue[i] \in Turns => turn'[queue[i]].step = "wait"
        /\ \A i \in DOMAIN queue : queue[i] # t
    BY <1>1, <1>4, OutOfQueue
  <2>2. \A i, j \in DOMAIN queue : queue[i] \in Turns /\ queue[i] = queue[j] => i = j
    BY DEF IInv, QueueInv
  <2>3. ASSUME NEW c \in Clients, q = Append(queue, c), (c = t /\ h.step = "wait") \/ c = "gone"
        PROVE  /\ \A i \in DOMAIN q : q[i] \in Turns => turn'[q[i]].step = "wait"
               /\ \A i, j \in DOMAIN q : q[i] \in Turns /\ q[i] = q[j] => i = j
    <3>1. /\ Len(queue) \in Nat /\ DOMAIN queue = 1 .. Len(queue)
          /\ DOMAIN q = 1 .. Len(queue) + 1
          /\ \A i \in 1 .. Len(queue) : q[i] = queue[i]
          /\ q[Len(queue) + 1] = c
      BY <1>1, <2>3
    <3>2. \A i \in DOMAIN q : i \in DOMAIN queue \/ i = Len(queue) + 1
      BY <3>1
    <3>3. turn'[t] = h
      BY <1>1, <1>4
    <3> QED
      BY <1>3, <2>1, <2>2, <2>3, <3>1, <3>2, <3>3
  <2>4. /\ \A i \in DOMAIN q : q[i] \in Turns => turn'[q[i]].step = "wait"
        /\ \A i, j \in DOMAIN q : q[i] \in Turns /\ q[i] = q[j] => i = j
    BY <1>3, <1>4, <2>1, <2>2, <2>3
  <2> QED
    BY <1>4, <1>5, <2>4 DEF QueueInv
<1>7. TypeOK'
  BY <1>2, <1>4, <1>5, Types DEF IInv, TypeOK, Pages, Captions, Handlers, Answers, Clients
<1> QED
  BY <1>5, <1>6, <1>7 DEF IInv

\* The handler's ten seconds expire.
LEMMA TimeoutStep ==
  ASSUME IInv, NEW t \in Turns, TurnTimesOut(t)
  PROVE  IInv'
<1>1. turn \in [Turns -> Handlers] /\ queue \in Seq(Clients)
  BY Types DEF IInv
<1>2. UNCHANGED <<player, page, run, row, pod, loads, matchTurns, faults>>
  BY DEF TurnTimesOut
<1>3. PICK h \in Handlers : /\ turn' = [turn EXCEPT ![t] = h]
                            /\ h.step = "answer" /\ Fits(h)
  <2>1. "Bot took too long" \in Reasons
    BY DEF Reasons
  <2> QED
    BY <2>1, RefusalFits DEF TurnTimesOut
<1>4. /\ turn' \in [Turns -> Handlers] /\ PendingTurnIsCurrent' /\ PageInv'
      /\ \A u \in Turns : turn'[u].step = "wait" => u = page'.pending
  BY <1>2, <1>3, HandlerStep
<1>5. PICK q : q = GivenUp(t) /\ queue' = q
  BY DEF TurnTimesOut
<1>6. /\ q \in Seq(Clients) /\ DOMAIN q = DOMAIN queue
      /\ \A i \in DOMAIN q : q[i] \in Turns => q[i] = queue[i] /\ q[i] # t
  BY <1>1, <1>5, GivenUpFacts
<1>7. QueueInv'
  <2>1. \A i \in DOMAIN q : q[i] \in Turns => turn'[q[i]].step = "wait"
    BY <1>1, <1>3, <1>6 DEF IInv, QueueInv
  <2>2. \A i, j \in DOMAIN q : q[i] \in Turns /\ q[i] = q[j] => i = j
    BY <1>6 DEF IInv, QueueInv
  <2> QED
    BY <1>4, <1>5, <2>1, <2>2 DEF QueueInv
<1>8. TypeOK'
  BY <1>2, <1>4, <1>5, <1>6, Types
  DEF IInv, TypeOK, Pages, Captions, Handlers, Answers, Clients
<1> QED
  BY <1>4, <1>7, <1>8 DEF IInv

\* A step that touches neither the page nor its requests.
LEMMA QuietStep ==
  ASSUME IInv, UNCHANGED <<page, turn, queue>>, TypeOK'
  PROVE  IInv'
<1>1. PageInv'
  BY DEF IInv, PageInv, Mover, InTurn, Holding
<1>2. QueueInv'
  BY DEF IInv, QueueInv
<1>3. PendingTurnIsCurrent'
  BY DEF IInv, PendingTurnIsCurrent
<1> QED
  BY <1>1, <1>2, <1>3 DEF IInv

\* A run of the bot starts, or ends and is answered.
LEMMA RunStep ==
  ASSUME IInv, RunBot
  PROVE  IInv'
<1>1. turn \in [Turns -> Handlers] /\ queue \in Seq(Clients)
  BY Types DEF IInv
<1>2. ASSUME NEW speed \in {"fast", "slow"}, StartRun(speed) PROVE IInv'
  <2>1. UNCHANGED <<player, page, turn, queue, row, pod, loads, matchTurns, faults>>
    BY <1>2 DEF StartRun
  <2>2. TypeOK'
    BY <1>2, <2>1 DEF StartRun, IInv, TypeOK
  <2> QED
    BY <2>1, <2>2, QuietStep
<1>3. ASSUME queue # <<>>, NEW text \in Printed, NEW newlines \in BOOLEAN,
             Respond(text, newlines)
      PROVE  IInv'
  <2>1. PICK q : q = Tail(queue) /\ queue' = q
    BY <1>3 DEF Respond
  <2>2. PICK c : c = Head(queue)
    OBVIOUS
  <2>3. /\ Len(queue) \in Nat \ {0} /\ DOMAIN queue = 1 .. Len(queue) /\ c = queue[1]
        /\ q \in Seq(Clients) /\ DOMAIN q = 1 .. Len(queue) - 1
        /\ \A i \in DOMAIN q : q[i] = queue[i + 1] /\ i + 1 \in DOMAIN queue /\ i + 1 # 1
    BY <1>1, <1>3, <2>1, <2>2
  <2>4. /\ \A i, j \in DOMAIN q : q[i] \in Turns /\ q[i] = q[j] => i = j
        /\ \A i \in DOMAIN q : q[i] \in Turns => q[i] # c /\ turn[q[i]].step = "wait"
    <3>1. \A i, j \in DOMAIN queue : queue[i] \in Turns /\ queue[i] = queue[j] => i = j
      BY DEF IInv, QueueInv
    <3>2. \A i \in DOMAIN queue : queue[i] \in Turns => turn[queue[i]].step = "wait"
      BY DEF IInv, QueueInv
    <3>3. 1 \in DOMAIN queue
      BY <2>3
    <3>4. \A i, j \in DOMAIN q : i + 1 = j + 1 => i = j
      BY <2>3
    <3> QED
      BY <2>3, <3>1, <3>2, <3>3, <3>4
  <2>5. /\ UNCHANGED <<player, page, row, pod, loads, matchTurns, faults>>
        /\ run' = "idle"
    BY <1>3 DEF Respond
  <2>6. CASE c \notin Turns
    <3>1. turn' = turn
      BY <1>3, <2>2, <2>6 DEF Respond
    <3>2. TypeOK'
      BY <1>1, <2>1, <2>3, <2>5, <3>1 DEF IInv, TypeOK, Clients
    <3>3. QueueInv'
      BY <2>1, <2>4, <2>5, <3>1 DEF IInv, QueueInv
    <3> QED
      BY <2>5, <3>1, <3>2, <3>3
      DEF IInv, PageInv, Mover, InTurn, Holding, PendingTurnIsCurrent
  <2>7. CASE c \in Turns
    <3>1. turn[c] \in Handlers /\ turn[c].step = "wait" /\ c = page.pending /\ c # NoTurn
      BY <1>1, <2>3, <2>7, TurnsAssumption DEF IInv, QueueInv
    <3>2. turn[c].board = page.board /\ turn[c].symbol = Other(page.human)
          /\ turn[c].board \in Board
      BY <3>1 DEF IInv, PendingTurnIsCurrent, Handlers
    <3>3. text \in Seq(Seq(STRING))
      BY <2>2, <2>7, <3>2, OutputsAssumption DEF Printed
    <3>4. PICK a \in Answers :
             /\ a = request_bot_turn(turn[c].board, turn[c].symbol, text, newlines)
             /\ a.reason = "None" <=>
                  /\ parse_board(text) # NoBoard
                  /\ validate_move(turn[c].board, parse_board(text), turn[c].symbol) = "None"
             /\ a.reason = "None" => a.text = text
      BY <3>3, BotTurn, Zenon
    <3>5. a.reason = "None" =>
            /\ parse_board(a.text) # NoBoard
            /\ validate_move(page.board, parse_board(a.text), Other(page.human)) = "None"
      BY <3>2, <3>4
    <3>6. PICK h \in Handlers : h = Answer(c, a) /\ h.step = "answer" /\ h.answer = a
      BY AnswerType
    <3>7. turn' = [turn EXCEPT ![c] = h]
      BY <1>3, <2>2, <2>7, <3>4, <3>6 DEF Respond
    <3>8. Fits(h)
      BY <3>5, <3>6 DEF Fits
    <3>9. /\ turn' \in [Turns -> Handlers] /\ PendingTurnIsCurrent' /\ PageInv'
          /\ \A u \in Turns : turn'[u].step = "wait" => u = page'.pending
      BY <2>5, <2>7, <3>6, <3>7, <3>8, HandlerStep
    <3>10. \A i \in DOMAIN q : q[i] \in Turns => turn'[q[i]].step = "wait"
      BY <1>1, <2>4, <3>7
    <3>11. QueueInv'
      BY <2>1, <2>4, <3>9, <3>10 DEF QueueInv
    <3>12. TypeOK'
      BY <2>1, <2>3, <2>5, <3>9, Types
      DEF IInv, TypeOK, Pages, Captions, Handlers, Answers, Clients
    <3> QED
      BY <3>9, <3>11, <3>12 DEF IInv
  <2> QED
    BY <2>6, <2>7
<1> QED
  BY <1>2, <1>3 DEF RunBot

\* A match asks the same bot, or gives up.
LEMMA MatchStep ==
  ASSUME IInv, MatchAsks \/ MatchTimesOut
  PROVE  IInv'
<1>1. queue \in Seq(Clients) /\ matchTurns \in Nat /\ matchTurns \in 0 .. MaxMatchTurns
  BY Types, BoundsAssumption DEF IInv
<1>2. UNCHANGED <<player, page, turn, run, row, pod, loads, faults>>
  BY DEF MatchAsks, MatchTimesOut
<1>3. matchTurns' \in 0 .. MaxMatchTurns
  BY <1>1, BoundsAssumption DEF MatchAsks, MatchTimesOut
<1>4. PICK q : q = queue'
  OBVIOUS
<1>5. /\ q \in Seq(Clients)
      /\ \A i \in DOMAIN q : q[i] \in Turns => i \in DOMAIN queue /\ q[i] = queue[i]
  <2>1. CASE MatchAsks
    <3>1. q = Append(queue, "match") /\ "match" \in Clients /\ "match" \notin Turns
      BY <1>4, <2>1, TurnsAssumption DEF MatchAsks, Clients
    <3> QED
      BY <1>1, <3>1
  <2>2. CASE MatchTimesOut
    BY <1>1, <1>4, <2>2, GivenUpFacts DEF MatchTimesOut
  <2> QED
    BY <2>1, <2>2
<1>6. QueueInv'
  BY <1>2, <1>4, <1>5 DEF IInv, QueueInv
<1>7. TypeOK'
  BY <1>2, <1>3, <1>4, <1>5 DEF IInv, TypeOK, Clients
<1> QED
  BY <1>2, <1>6, <1>7 DEF IInv, PageInv, Mover, InTurn, Holding, PendingTurnIsCurrent

\* A fault is counted within the bound.
LEMMA FaultType ==
  ASSUME TypeOK, Fault
  PROVE  faults' \in 0 .. MaxFaults
<1>1. faults \in 0 .. MaxFaults
  BY DEF TypeOK
<1>2. faults < MaxFaults /\ faults' = faults + 1
  BY DEF Fault
<1> QED
  BY <1>1, <1>2, BoundsAssumption

\* The pod ends: every request that waits for it fails.
LEMMA LosePodStep ==
  ASSUME IInv, NEW how \in {"refusing", "gone"}, LosePod(how)
  PROVE  IInv'
<1>1. turn \in [Turns -> Handlers]
  BY Types DEF IInv
<1>2. /\ UNCHANGED <<player, page, row, loads, matchTurns>>
      /\ pod' = how /\ queue' = <<>> /\ run' = "idle"
  BY DEF LosePod, Fault
<1>3. faults' \in 0 .. MaxFaults
  BY FaultType DEF LosePod, IInv
<1>4. ASSUME NEW t \in Turns
      PROVE  /\ turn'[t] \in Handlers /\ turn'[t].step # "wait"
             /\ turn'[t] = turn[t] \/ Fits(turn'[t])
  <2>1. "Bot is unavailable" \in Reasons
    BY DEF Reasons
  <2>2. PICK h \in Handlers : /\ h = Answer(t, Refusal("Bot is unavailable"))
                              /\ h.step = "answer" /\ Fits(h)
    BY <2>1, RefusalFits
  <2>3. turn'[t] = IF turn[t].step = "wait" THEN h ELSE turn[t]
    BY <2>2 DEF LosePod
  <2> QED
    BY <1>1, <2>2, <2>3
<1>5. turn' \in [Turns -> Handlers]
  BY <1>4 DEF LosePod
<1>6. PendingTurnIsCurrent'
  <2>1. page.whose = "bot" <=> page.pending # NoTurn
    BY PendingFits DEF IInv
  <2>2. page.pending # NoTurn => Fits(turn[page.pending]) /\ page.pending \in Turns
    BY PendingFits, Types DEF IInv, Pages
  <2>3. page.pending # NoTurn => Fits(turn'[page.pending])
    BY <1>4, <2>2
  <2> QED
    BY <1>2, <2>1, <2>3 DEF PendingTurnIsCurrent, Fits
<1>7. QueueInv'
  BY <1>2, <1>4 DEF QueueInv
<1>8. PageInv'
  BY <1>2 DEF IInv, PageInv, Mover, InTurn, Holding
<1>9. TypeOK'
  <2>1. <<>> \in Seq(Turns \cup {"match", "gone"})
    BY EmptySeq
  <2> QED
    BY <1>2, <1>3, <1>5, <2>1 DEF IInv, TypeOK, Handlers, Answers
<1> QED
  BY <1>6, <1>7, <1>8, <1>9 DEF IInv
-----------------------------------------------------------------------------
(* The steps that change the page. *)

\* What PageInv says of a page p.
Live(p) ==
  p.whose \in {"human", "bot"} =>
    /\ p.caption = "turn"
    /\ check_winner(p.board) = "None"
    /\ InTurn(p.board, IF p.whose = "human" THEN p.human ELSE Other(p.human))

\* A page that has no request at the turn server, and at most one just begun.
LEMMA PageStep ==
  ASSUME NEW p \in Pages, Live(p), page' = p,
         NEW handlers \in [Turns -> Handlers], turn' = handlers,
         \A t \in Turns : handlers[t].step # "wait",
         NEW q \in Seq(Clients), queue' = q, \A i \in DOMAIN q : q[i] \notin Turns,
         p.whose = "bot" <=> p.pending # NoTurn,
         p.pending # NoTurn => /\ handlers[p.pending].step = "lookup"
                               /\ handlers[p.pending].board = p.board
                               /\ handlers[p.pending].symbol = Other(p.human),
         UNCHANGED <<player, run, row, pod>>,
         loads' \in 0 .. MaxLoads, matchTurns' \in 0 .. MaxMatchTurns,
         faults' \in 0 .. MaxFaults, TypeOK
  PROVE  IInv'
<1>1. PageInv'
  BY DEF PageInv, Live, Mover, InTurn, Holding
<1>2. QueueInv'
  BY DEF QueueInv
<1>3. PendingTurnIsCurrent'
  BY DEF PendingTurnIsCurrent
<1>4. TypeOK'
  BY DEF TypeOK, Pages, Captions, Handlers, Answers, Clients
<1> QED
  BY <1>1, <1>2, <1>3, <1>4 DEF IInv

\* Showing a page posts its board when the bot is to move.
LEMMA ShowStep ==
  ASSUME NEW p \in Pages, Live(p), p.pending = NoTurn,
         NEW handlers \in [Turns -> Handlers], Show(p, handlers),
         \A t \in Turns : handlers[t].step # "wait",
         NEW q \in Seq(Clients), queue' = q, \A i \in DOMAIN q : q[i] \notin Turns,
         UNCHANGED <<player, run, row, pod>>,
         loads' \in 0 .. MaxLoads, matchTurns' \in 0 .. MaxMatchTurns,
         faults' \in 0 .. MaxFaults, TypeOK
  PROVE  /\ IInv'
         /\ page'.board = p.board /\ page'.human = p.human /\ page'.caption = p.caption
<1>1. CASE p.whose # "bot"
  <2>1. page' = p /\ turn' = handlers
    BY <1>1 DEF Show
  <2> QED
    BY <1>1, <2>1, PageStep
<1>2. CASE p.whose = "bot"
  <2>1. PICK t \in Turns :
          /\ page' = [p EXCEPT !.pending = t]
          /\ turn' = [handlers EXCEPT ![t] =
               [step |-> "lookup", board |-> p.board,
                symbol |-> Other(p.human), answer |-> NoAnswer]]
    BY <1>2 DEF Show
  <2>2. PICK r : r = [p EXCEPT !.pending = t]
    OBVIOUS
  <2>3. PICK a \in Answers : a = NoAnswer
    BY FreeType
  <2>4. PICK h : h = [step |-> "lookup", board |-> p.board,
                      symbol |-> Other(p.human), answer |-> a]
    OBVIOUS
  <2>5. /\ r \in Pages /\ r.human = p.human /\ r.board = p.board /\ r.caption = p.caption
        /\ r.whose = p.whose /\ r.pending = t /\ t # NoTurn
    BY <2>2, TurnsAssumption DEF Pages
  <2>6. /\ h \in Handlers /\ h.step = "lookup" /\ h.board = p.board
        /\ h.symbol = Other(p.human)
    BY <2>4 DEF Handlers, Pages, Other, Symbols
  <2>7. PICK g \in [Turns -> Handlers] : g = [handlers EXCEPT ![t] = h]
    BY <2>6
  <2>8. page' = r /\ turn' = g
    BY <2>1, <2>2, <2>3, <2>4, <2>7
  <2>9. (\A u \in Turns : g[u].step # "wait") /\ g[t] = h
    BY <2>6, <2>7
  <2>10. Live(r)
    BY <2>5 DEF Live
  <2>11. IInv'
    BY <1>2, <2>5, <2>6, <2>8, <2>9, <2>10, PageStep
  <2> QED
    BY <2>5, <2>8, <2>11
<1> QED
  BY <1>1, <1>2

\* Nobody waits at the turn server unless the page does, and its handler.
LEMMA NobodyWaits ==
  ASSUME IInv, page.pending # NoTurn => turn[page.pending].step # "wait"
  PROVE  /\ \A t \in Turns : turn[t].step # "wait"
         /\ \A i \in DOMAIN queue : queue[i] \notin Turns
BY TurnsAssumption DEF IInv, QueueInv

\* A click of the human whose turn it is marks the cell.
LEMMA ClickStep ==
  ASSUME IInv, NEW c \in Cells, Click(c)
  PROVE  IInv' /\ Game!GameNext
<1>1. /\ TypeOK /\ page \in Pages /\ turn \in [Turns -> Handlers] /\ queue \in Seq(Clients)
      /\ loads \in 0 .. MaxLoads /\ matchTurns \in 0 .. MaxMatchTurns
      /\ faults \in 0 .. MaxFaults
  BY Types DEF IInv
<1>2. /\ page.whose = "human" /\ page.board[c] = "."
      /\ Show(Moved([page.board EXCEPT ![c] = page.human], "bot"), turn)
  BY DEF Click, applyHumanMove
<1>3. Mover = page.human /\ page.pending = NoTurn
  BY <1>2 DEF Mover, IInv, PendingTurnIsCurrent
<1>4. PICK b : b = [page.board EXCEPT ![c] = page.human]
  OBVIOUS
<1>5. PICK p : p = Moved(b, "bot")
  OBVIOUS
<1>6. /\ p \in Pages /\ p.human = page.human /\ p.pending = page.pending
      /\ p.board = b /\ p.whose \in {"over", "bot"}
      /\ p.caption = EndCaption(b, Mover)
      /\ p.whose = "bot" => /\ p.caption = "turn"
                            /\ check_winner(b) = "None"
                            /\ InTurn(b, Other(Mover))
  BY <1>2, <1>3, <1>4, <1>5, MovedFacts
<1>7. Live(p)
  BY <1>3, <1>6 DEF Live
<1>8. /\ \A t \in Turns : turn[t].step # "wait"
      /\ \A i \in DOMAIN queue : queue[i] \notin Turns
  BY <1>3, NobodyWaits
<1>9. UNCHANGED <<player, queue, run, row, pod, loads, matchTurns, faults>>
  BY DEF Click
<1>10. Show(p, turn)
  BY <1>2, <1>4, <1>5
<1>11. /\ IInv'
       /\ page'.board = p.board /\ page'.human = p.human /\ page'.caption = p.caption
  BY <1>1, <1>3, <1>6, <1>7, <1>8, <1>9, <1>10, ShowStep
<1>12. Game!GameNext
  BY <1>2, <1>3, <1>4, <1>6, <1>11, MovedIsMark
<1> QED
  BY <1>11, <1>12

\* A new load of the page starts a new game, or closes the page.
LEMMA LoadStep ==
  ASSUME IInv, NEW human \in Symbols, LoadPage(human)
  PROVE  IInv' /\ loads' # loads
<1>1. /\ TypeOK /\ loads \in 0 .. MaxLoads /\ matchTurns \in 0 .. MaxMatchTurns
      /\ faults \in 0 .. MaxFaults
  BY Types DEF IInv
<1>2. UNCHANGED <<player, run, row, pod, matchTurns, faults>>
  BY DEF LoadPage
<1>3. loads' \in 0 .. MaxLoads /\ loads' # loads
  <2>1. loads < MaxLoads /\ loads' = loads + 1
    BY DEF LoadPage
  <2> QED
    BY <1>1, <2>1, BoundsAssumption
<1>4. PICK handlers : handlers = Abandoned
  OBVIOUS
<1>5. handlers \in [Turns -> Handlers] /\ \A t \in Turns : handlers[t].step # "wait"
  BY <1>4, AbandonedFacts
<1>6. PICK q : q = GivenUp(page.pending) /\ queue' = q
  BY DEF LoadPage
<1>7. q \in Seq(Clients) /\ \A i \in DOMAIN q : q[i] \notin Turns
  BY <1>6, NoneQueued
<1>8. check_winner(EMPTY_BOARD) = "None" /\ InTurn(EMPTY_BOARD, "X")
  <2>1. \A d \in Cells : EMPTY_BOARD[d] = "."
    BY DEF EMPTY_BOARD
  <2>2. \A i \in 1 .. 8 : ~Owns(EMPTY_BOARD, "X", i) /\ ~Owns(EMPTY_BOARD, "O", i)
    BY <2>1, LinesNonempty DEF Owns
  <2>3. ~Full(EMPTY_BOARD)
    <3>1. <<0, 0>> \in Cells
      BY DEF Cells
    <3> QED
      BY <2>1, <3>1 DEF Full
  <2>4. Holding(EMPTY_BOARD, "X") = {} /\ Holding(EMPTY_BOARD, "O") = {}
    BY <2>1 DEF Holding
  <2>5. check_winner(EMPTY_BOARD) = "None"
    BY <2>2, <2>3 DEF check_winner
  <2> QED
    BY <2>4, <2>5, FS_EmptySet DEF InTurn
<1>9. CASE player /\ row
  <2>1. PICK p : p = [human |-> human, board |-> EMPTY_BOARD,
                      whose |-> IF human = "X" THEN "human" ELSE "bot",
                      caption |-> "turn", pending |-> NoTurn]
    OBVIOUS
  <2>2. /\ p \in Pages /\ p.pending = NoTurn /\ p.human = human /\ p.board = EMPTY_BOARD
        /\ p.caption = "turn" /\ p.whose = IF human = "X" THEN "human" ELSE "bot"
    BY <2>1, FreeType DEF Pages, Captions
  <2>3. Live(p)
    BY <1>8, <2>2 DEF Live, Other, Symbols
  <2>4. Show(p, handlers)
    BY <1>4, <1>9, <2>1 DEF LoadPage
  <2> QED
    BY <1>1, <1>2, <1>3, <1>5, <1>6, <1>7, <2>2, <2>3, <2>4, ShowStep
<1>10. CASE ~(player /\ row)
  <2>1. PICK p : p = ClosedPage
    OBVIOUS
  <2>2. p \in Pages /\ p.whose = "closed" /\ p.pending = NoTurn
    BY <2>1, FreeType DEF ClosedPage, Pages, Captions, Symbols
  <2>3. page' = p /\ turn' = handlers
    BY <1>4, <1>10, <2>1 DEF LoadPage
  <2>4. Live(p)
    BY <2>2 DEF Live
  <2> QED
    BY <1>1, <1>2, <1>3, <1>5, <1>6, <1>7, <2>2, <2>3, <2>4, PageStep
<1> QED
  BY <1>9, <1>10

\* The request of the page fails: the bot, which is to move, forfeits.
LEMMA FetchFailsStep ==
  ASSUME IInv, FetchFails
  PROVE  IInv' /\ Game!GameNext
<1>1. /\ TypeOK /\ page \in Pages /\ loads \in 0 .. MaxLoads
      /\ matchTurns \in 0 .. MaxMatchTurns
  BY Types DEF IInv
<1>2. UNCHANGED <<player, run, row, pod, loads, matchTurns>> /\ Fault
  BY DEF FetchFails, Fault
<1>3. faults' \in 0 .. MaxFaults
  BY <1>1, <1>2, FaultType
<1>4. page.whose = "bot"
  BY DEF FetchFails, IInv, PendingTurnIsCurrent
<1>5. PICK p : p = [page EXCEPT !.whose = "over", !.caption = "another error",
                                !.pending = NoTurn]
  OBVIOUS
<1>6. page' = p
  BY <1>5 DEF FetchFails, applyForfeit
<1>7. "another error" \in Reasons
  BY DEF Reasons
<1>8. /\ p \in Pages /\ p.board = page.board /\ p.human = page.human
      /\ p.caption = "another error" /\ p.whose = "over" /\ p.pending = NoTurn
  BY <1>1, <1>5, <1>7 DEF Pages, Captions
<1>9. PICK handlers : handlers = Abandoned /\ turn' = handlers
  BY DEF FetchFails
<1>10. handlers \in [Turns -> Handlers] /\ \A t \in Turns : handlers[t].step # "wait"
  BY <1>9, AbandonedFacts
<1>11. PICK q : q = GivenUp(page.pending) /\ queue' = q
  BY DEF FetchFails
<1>12. q \in Seq(Clients) /\ \A i \in DOMAIN q : q[i] \notin Turns
  BY <1>11, NoneQueued
<1>13. Live(p)
  BY <1>8 DEF Live
<1>14. IInv'
  BY <1>1, <1>2, <1>3, <1>6, <1>8, <1>9, <1>10, <1>11, <1>12, <1>13, PageStep
<1>15. Game!GameNext
  BY <1>4, <1>6, <1>7, <1>8, ForfeitIsForfeit
<1> QED
  BY <1>14, <1>15

\* The page gets an answer: if it still waits for it, the bot's move is made
\* on the board it was asked about, or the bot forfeits.
LEMMA DeliverStep ==
  ASSUME IInv, NEW t \in Turns, Deliver(t)
  PROVE  IInv' /\ (page' = page \/ Game!GameNext)
<1>1. /\ TypeOK /\ page \in Pages /\ turn \in [Turns -> Handlers] /\ queue \in Seq(Clients)
      /\ loads \in 0 .. MaxLoads /\ matchTurns \in 0 .. MaxMatchTurns
      /\ faults \in 0 .. MaxFaults
  BY Types DEF IInv
<1>2. /\ turn[t].step = "answer" /\ turn' = [turn EXCEPT ![t] = FreeTurn]
      /\ UNCHANGED <<player, queue, run, row, pod, loads, matchTurns, faults>>
  BY DEF Deliver
<1>3. FreeTurn \in Handlers /\ FreeTurn.step = "free"
  BY FreeType
<1>4. CASE page.pending # t
  <2>1. page' = page
    BY <1>4 DEF Deliver
  <2>2. /\ turn' \in [Turns -> Handlers] /\ PendingTurnIsCurrent' /\ PageInv'
        /\ \A u \in Turns : turn'[u].step = "wait" => u = page'.pending
    BY <1>2, <1>3, <1>4, <2>1, HandlerStep
  <2>3. \A i \in DOMAIN queue : queue[i] \in Turns => turn'[queue[i]].step = "wait"
    BY <1>2, OutOfQueue
  <2>4. QueueInv'
    BY <1>2, <2>2, <2>3 DEF IInv, QueueInv
  <2>5. TypeOK'
    BY <1>1, <1>2, <2>1, <2>2 DEF TypeOK, Pages, Captions, Handlers, Answers, Clients
  <2> QED
    BY <2>1, <2>2, <2>4, <2>5 DEF IInv
<1>5. CASE page.pending = t
  <2>1. page.whose = "bot" /\ t # NoTurn /\ Fits(turn[t])
    BY <1>5, TurnsAssumption, PendingFits DEF IInv
  <2>2. /\ \A u \in Turns : turn[u].step # "wait"
        /\ \A i \in DOMAIN queue : queue[i] \notin Turns
    BY <1>2, <1>5, NobodyWaits
  <2>3. PICK handlers \in [Turns -> Handlers] :
           turn' = handlers /\ \A u \in Turns : handlers[u].step # "wait"
    BY <1>1, <1>2, <1>3, <2>2
  <2>4. PICK a \in Answers : a = turn[t].answer
    BY <1>1 DEF Handlers
  <2>5. PICK r : /\ r = IF a.reason = "None" THEN applyBotMove(a) ELSE applyForfeit(a.reason)
                 /\ page' = [r EXCEPT !.pending = NoTurn]
    BY <1>5, <2>4 DEF Deliver
  <2>6. ASSUME r \in Pages, r.whose \in {"over", "human"}, Live(r)
        PROVE  /\ IInv'
               /\ page'.board = r.board /\ page'.human = r.human /\ page'.caption = r.caption
    <3>1. PICK p : p = [r EXCEPT !.pending = NoTurn]
      OBVIOUS
    <3>2. /\ p \in Pages /\ p.board = r.board /\ p.human = r.human /\ p.caption = r.caption
          /\ p.whose = r.whose /\ p.pending = NoTurn
      BY <2>6, <3>1 DEF Pages
    <3>3. Live(p)
      BY <2>6, <3>2 DEF Live
    <3>4. page' = p
      BY <2>5, <3>1
    <3>5. p.whose # "bot"
      BY <2>6, <3>2
    <3>6. IInv'
      BY <1>1, <1>2, <2>2, <2>3, <3>2, <3>3, <3>4, <3>5, PageStep
    <3> QED
      BY <3>2, <3>4, <3>6
  <2>7. ASSUME NEW reason \in Reasons, r = applyForfeit(reason)
        PROVE  IInv' /\ Game!GameNext
    <3>1. r = [page EXCEPT !.whose = "over", !.caption = reason]
      BY <2>7 DEF applyForfeit
    <3>2. /\ r \in Pages /\ r.board = page.board /\ r.human = page.human
          /\ r.caption = reason /\ r.whose = "over"
      BY <1>1, <3>1 DEF Pages, Captions
    <3>3. Live(r)
      BY <3>2 DEF Live
    <3>4. /\ IInv'
          /\ page'.board = r.board /\ page'.human = r.human /\ page'.caption = r.caption
      BY <2>6, <3>2, <3>3
    <3> QED
      BY <2>1, <3>2, <3>4, ForfeitIsForfeit
  <2>8. CASE a.reason # "None"
    <3>1. a.reason \in Reasons
      BY <2>4, <2>8 DEF Answers
    <3> QED
      BY <2>5, <2>7, <2>8, <3>1
  <2>9. CASE a.reason = "None" /\ ~a.newlines
    <3>1. "another error" \in Reasons
      BY DEF Reasons
    <3>2. r = applyForfeit("another error")
      BY <2>1, <2>5, <2>9 DEF applyBotMove
    <3> QED
      BY <2>7, <3>1, <3>2
  <2>10. CASE a.reason = "None" /\ a.newlines
    <3>1. PICK nb : nb = parse_board(a.text)
      OBVIOUS
    <3>2. nb \in Board /\ validate_move(page.board, nb, Other(page.human)) = "None"
      BY <1>2, <2>1, <2>4, <2>10, <3>1, ParseType DEF Fits
    <3>3. page.board \in Board /\ Mover = Other(page.human)
      BY <1>1, <2>1 DEF Pages, Mover
    <3>4. PICK c \in Cells : page.board[c] = "." /\ nb = [page.board EXCEPT ![c] = Mover]
      BY <3>2, <3>3, AcceptedMove
    <3>5. r = Moved(nb, "human")
      BY <2>1, <2>5, <2>10, <3>1 DEF applyBotMove
    <3>6. /\ r \in Pages /\ r.human = page.human /\ r.pending = page.pending
          /\ r.board = nb /\ r.whose \in {"over", "human"}
          /\ r.caption = EndCaption(nb, Mover)
          /\ r.whose = "human" => /\ r.caption = "turn"
                                  /\ check_winner(nb) = "None"
                                  /\ InTurn(nb, Other(Mover))
      BY <2>1, <3>4, <3>5, MovedFacts
    <3>7. Other(Mover) = page.human
      BY <1>1, <3>3 DEF Pages, Other, Symbols
    <3>8. Live(r)
      BY <3>6, <3>7 DEF Live
    <3>9. /\ IInv'
          /\ page'.board = r.board /\ page'.human = r.human /\ page'.caption = r.caption
      BY <2>6, <3>6, <3>8
    <3> QED
      BY <2>1, <3>4, <3>6, <3>9, MovedIsMark
  <2> QED
    BY <2>8, <2>9, <2>10
<1> QED
  BY <1>4, <1>5

\* Every step keeps the invariant and is a step of the game, or a load.
LEMMA NextStep ==
  ASSUME IInv, [Next]_vars
  PROVE  IInv' /\ (loads' # loads \/ Game!GameNext \/ page' = page)
<1>0. TypeOK /\ page.board \in Board
  BY DEF IInv, TypeOK
<1>1. ASSUME NEW blank \in BOOLEAN, SetPlayerName(blank) PROVE IInv' /\ page' = page
  <2>1. UNCHANGED <<page, turn, queue, run, row, pod, loads, matchTurns, faults>>
        /\ player' \in BOOLEAN
    BY <1>1 DEF SetPlayerName
  <2>2. TypeOK'
    BY <1>0, <2>1 DEF TypeOK
  <2> QED
    BY <2>1, <2>2, QuietStep
<1>2. CASE LoseRow
  <2>1. /\ UNCHANGED <<player, page, turn, queue, run, pod, loads, matchTurns>>
        /\ row' = FALSE /\ Fault
    BY <1>2 DEF LoseRow, Fault
  <2>2. faults' \in 0 .. MaxFaults
    BY <1>0, <2>1, FaultType
  <2>3. TypeOK'
    BY <1>0, <2>1, <2>2 DEF TypeOK
  <2> QED
    BY <2>1, <2>3, QuietStep
<1>3. CASE UNCHANGED vars
  <2>1. TypeOK'
    BY <1>0, <1>3 DEF vars, TypeOK
  <2> QED
    BY <1>3, <2>1, QuietStep DEF vars
<1>4. ASSUME NEW human \in Symbols, LoadPage(human) PROVE IInv' /\ loads' # loads
  BY <1>4, LoadStep
<1>5. ASSUME NEW c \in Clicks(page.board), Click(c) PROVE IInv' /\ Game!GameNext
  <2>1. c \in Cells
    BY <1>0, ClicksAssumption
  <2> QED
    BY <1>5, <2>1, ClickStep
<1>6. ASSUME NEW t \in Turns, Serve(t)
      PROVE  IInv' /\ (page' = page \/ Game!GameNext)
  <2>1. CASE LookUpBot(t)
    BY <2>1, LookUpStep DEF LookUpBot
  <2>2. CASE CallBot(t)
    BY <2>2, CallStep DEF CallBot
  <2>3. CASE TurnTimesOut(t)
    BY <2>3, TimeoutStep DEF TurnTimesOut
  <2>4. CASE Deliver(t)
    BY <2>4, DeliverStep
  <2> QED
    BY <1>6, <2>1, <2>2, <2>3, <2>4 DEF Serve
<1>7. CASE RunBot
  BY <1>7, RunStep DEF RunBot, StartRun, Respond
<1>8. CASE MatchAsks \/ MatchTimesOut
  BY <1>8, MatchStep DEF MatchAsks, MatchTimesOut
<1>9. CASE FetchFails
  BY <1>9, FetchFailsStep
<1>10. ASSUME NEW how \in {"refusing", "gone"}, LosePod(how) PROVE IInv' /\ page' = page
  BY <1>10, LosePodStep DEF LosePod
<1> QED
  BY <1>1, <1>2, <1>3, <1>4, <1>5, <1>6, <1>7, <1>8, <1>9, <1>10 DEF Next
-----------------------------------------------------------------------------
\* The inductive invariant of a game against a bot.
THEOREM Invariance == Spec => []IInv
<1>1. Init => IInv
  <2> SUFFICES ASSUME Init PROVE IInv
    OBVIOUS
  <2>1. PICK p : p = ClosedPage
    OBVIOUS
  <2>2. p \in Pages /\ p.whose = "closed" /\ p.pending = NoTurn
    BY <2>1, FreeType DEF ClosedPage, Pages, Captions, Symbols
  <2>3. page = p /\ turn = [t \in Turns |-> FreeTurn] /\ queue = <<>>
    BY <2>1 DEF Init
  <2>4. \A t \in Turns : turn[t] \in Handlers /\ turn[t].step = "free"
    BY <2>3, FreeType
  <2>5. turn \in [Turns -> Handlers]
    BY <2>3, <2>4
  <2>6. queue \in Seq(Clients)
    BY <2>3, EmptySeq
  <2>7. TypeOK
    <3>1. player \in BOOLEAN /\ row \in BOOLEAN
      BY Zenon DEF Init
    <3>2. /\ run \in {"idle", "fast", "slow"} /\ pod \in {"running", "refusing", "gone"}
          /\ loads \in 0 .. MaxLoads /\ matchTurns \in 0 .. MaxMatchTurns
          /\ faults \in 0 .. MaxFaults
      <4>1. run = "idle" /\ pod = "running" /\ loads = 0 /\ matchTurns = 0 /\ faults = 0
        BY Zenon DEF Init
      <4> QED
        BY <4>1, BoundsAssumption
    <3>3. page \in Pages
      BY <2>2, <2>3
    <3> QED
      BY <2>5, <2>6, <3>1, <3>2, <3>3, Types, Zenon
  <2>8. PageInv
    BY <2>2, <2>3 DEF PageInv
  <2>9. QueueInv
    BY <2>3, <2>4 DEF QueueInv
  <2>10. PendingTurnIsCurrent
    BY <2>2, <2>3 DEF PendingTurnIsCurrent
  <2> QED
    BY <2>7, <2>8, <2>9, <2>10 DEF IInv
<1>2. IInv /\ [Next]_vars => IInv'
  BY NextStep
<1> QED
  BY <1>1, <1>2, PTL DEF Spec

\* Type correctness of the page, the handlers and the turn server's queue.
THEOREM TypeCorrect == Spec => []TypeOK
<1>1. IInv => TypeOK
  BY DEF IInv
<1> QED
  BY <1>1, Invariance, PTL

\* The request under way is for the board that the page shows, and its answer
\* fits that board, however often the page is loaded and whatever fails.
THEOREM PendingTurnCorrect == Spec => []PendingTurnIsCurrent
<1>1. IInv => PendingTurnIsCurrent
  BY DEF IInv
<1> QED
  BY <1>1, Invariance, PTL

\* The play page and a match judge every text a bot may print alike.
THEOREM SameJudgementCorrect == Spec => []SameJudgement
<1>1. IInv => SameJudgement
  <2> SUFFICES ASSUME IInv, NEW t \in Turns, NEW text \in Outputs(turn[t].board)
               PROVE (request_bot_turn(turn[t].board, turn[t].symbol, text, TRUE).reason = "None")
                      <=> LET new == parse_board(text) IN
                            /\ new # NoBoard
                            /\ validate_move(turn[t].board, new, turn[t].symbol) = "None"
    BY DEF SameJudgement
  <2>1. turn[t].board \in Board
    BY Types DEF IInv, Handlers
  <2>2. text \in Seq(Seq(STRING))
    BY <2>1, OutputsAssumption
  <2>3. TRUE \in BOOLEAN
    OBVIOUS
  <2>4. PICK a \in Answers :
           /\ a = request_bot_turn(turn[t].board, turn[t].symbol, text, TRUE)
           /\ a.reason = "None" <=>
                /\ parse_board(text) # NoBoard
                /\ validate_move(turn[t].board, parse_board(text), turn[t].symbol) = "None"
           /\ a.reason = "None" => a.text = text
    BY <2>2, <2>3, BotTurn, Zenon
  <2> QED
    BY <2>4, Zenon
<1> QED
  BY <1>1, Invariance, PTL

\* What the page shows is a game of tic-tac-toe by the rules, from one load of
\* the page to the next.
THEOREM PageCorrect == Spec => PageIsGame
<1>1. Init => Game!GameInit
  BY DEF Init, ClosedPage, EMPTY_BOARD, Cells, Status, Game!GameInit, Game!Squares
<1>2. IInv /\ [Next]_vars =>
        [loads' # loads \/ Game!GameNext]_<<page.board, Status>>
  <2> SUFFICES ASSUME IInv, [Next]_vars
               PROVE  loads' # loads \/ Game!GameNext \/ UNCHANGED <<page.board, Status>>
    OBVIOUS
  <2>1. ASSUME page' = page PROVE UNCHANGED <<page.board, Status>>
    BY <2>1 DEF Status
  <2> QED
    BY <2>1, NextStep
<1> QED
  BY <1>1, <1>2, Invariance, PTL DEF Spec, PageIsGame

-----------------------------------------------------------------------------
(* The turn server serves in order. *)

\* A handler that waits for the bot has its request in the queue.
InLine ==
  \A t \in Turns : turn[t].step = "wait" => \E i \in DOMAIN queue : queue[i] = t

\* The steps of the turn server that remain for the i-th request, its own
\* run included: a start and an answer each.
Remaining(i) == IF run = "idle" THEN 2 * i ELSE 2 * i - 1

\* Where the request is that was the i-th.
Approaches(t, i) ==
  \E j \in DOMAIN queue' : /\ queue'[j] = t
                           /\ Remaining(j)' <= Remaining(i)
                           /\ RunBot => Remaining(j)' < Remaining(i)

\* After these steps no handler waits for the bot.
LEMMA NoneWaits ==
  ASSUME IInv, NEW t \in Turns,
         \/ \E human \in Symbols : LoadPage(human)
         \/ \E c \in Cells : Click(c)
         \/ FetchFails
         \/ \E how \in {"refusing", "gone"} : LosePod(how)
  PROVE  turn'[t].step # "wait"
<1>1. turn \in [Turns -> Handlers]
  BY Types DEF IInv
<1>2. ASSUME NEW p, NEW handlers, Show(p, handlers), handlers \in [Turns -> Handlers],
             \A u \in Turns : handlers[u].step # "wait"
      PROVE  turn'[t].step # "wait"
  <2>1. CASE turn' = handlers
    BY <1>2, <2>1
  <2>2. CASE turn' # handlers
    <3>1. PICK u \in Turns :
            turn' = [handlers EXCEPT ![u] =
               [step |-> "lookup", board |-> p.board,
                symbol |-> Other(p.human), answer |-> NoAnswer]]
      BY <1>2, <2>2 DEF Show
    <3>2. turn'[t] = handlers[t] \/ turn'[t].step = "lookup"
      BY <1>2, <3>1
    <3> QED
      BY <1>2, <3>2
  <2> QED
    BY <2>1, <2>2
<1>3. PICK handlers : handlers = Abandoned
  OBVIOUS
<1>4. handlers \in [Turns -> Handlers] /\ \A u \in Turns : handlers[u].step # "wait"
  BY <1>3, AbandonedFacts
<1>5. ASSUME NEW human \in Symbols, LoadPage(human) PROVE turn'[t].step # "wait"
  BY <1>2, <1>3, <1>4, <1>5 DEF LoadPage
<1>6. ASSUME NEW c \in Cells, Click(c) PROVE turn'[t].step # "wait"
  <2>1. page.whose = "human"
    BY <1>6 DEF Click, applyHumanMove
  <2>2. page.pending = NoTurn
    BY <2>1 DEF IInv, PendingTurnIsCurrent
  <2>3. \A u \in Turns : turn[u].step # "wait"
    BY <2>2, NobodyWaits
  <2> QED
    BY <1>1, <1>2, <1>6, <2>3 DEF Click
<1>7. CASE FetchFails
  BY <1>3, <1>4, <1>7 DEF FetchFails
<1>8. ASSUME NEW how \in {"refusing", "gone"}, LosePod(how) PROVE turn'[t].step # "wait"
  <2>1. "Bot is unavailable" \in Reasons
    BY DEF Reasons
  <2>2. Answer(t, Refusal("Bot is unavailable")).step = "answer"
    BY <2>1, RefusalFits
  <2> QED
    BY <1>8, <2>2 DEF LosePod
<1> QED
  BY <1>5, <1>6, <1>7, <1>8

\* A request whose client has not given up keeps its place.
LEMMA KeepsPlace ==
  ASSUME NEW t \in Turns, NEW i \in DOMAIN queue, queue[i] = t, queue \in Seq(Clients),
         run' = run, ~RunBot,
         \/ queue' = queue
         \/ \E c : queue' = Append(queue, c)
         \/ \E c : c # t /\ queue' = GivenUp(c)
  PROVE  Approaches(t, i)
<1>1. i \in Nat
  BY LenProperties
<1>2. i \in DOMAIN queue' /\ queue'[i] = t
  <2>1. CASE queue' = queue
    BY <2>1
  <2>2. ASSUME NEW c, queue' = Append(queue, c) PROVE i \in DOMAIN queue' /\ queue'[i] = t
    <3>1. PICK q : q = Append(queue, c)
      OBVIOUS
    <3>2. i \in 1 .. Len(queue) /\ Len(queue) \in Nat
      BY LenProperties
    <3>3. DOMAIN q = 1 .. (Len(queue) + 1) /\ \A k \in 1 .. Len(queue) : q[k] = queue[k]
      BY <3>1, <3>2
    <3>4. i \in DOMAIN q /\ q[i] = t
      BY <3>2, <3>3
    <3> QED
      BY <2>2, <3>1, <3>4
  <2>3. ASSUME NEW c, c # t, queue' = GivenUp(c) PROVE i \in DOMAIN queue' /\ queue'[i] = t
    BY <2>3 DEF GivenUp
  <2> QED
    BY <2>1, <2>2, <2>3
<1>3. Remaining(i)' <= Remaining(i)
  BY <1>1 DEF Remaining
<1> QED
  BY <1>2, <1>3 DEF Approaches

\* A run that starts or ends is one that the requests behind it wait for.
LEMMA RunApproaches ==
  ASSUME IInv, RunBot, NEW t \in Turns, NEW i \in DOMAIN queue, queue[i] = t,
         turn'[t].step = "wait"
  PROVE  Approaches(t, i)
<1>1. turn \in [Turns -> Handlers] /\ queue \in Seq(Clients) /\ run \in {"idle", "fast", "slow"}
  BY Types DEF IInv
<1>2. DOMAIN queue = 1 .. Len(queue) /\ Len(queue) \in Nat /\ i \in 1 .. Len(queue)
  BY <1>1
<1>3. ASSUME NEW speed \in {"fast", "slow"}, StartRun(speed) PROVE Approaches(t, i)
  <2>1. queue' = queue /\ Remaining(i)' = 2 * i - 1 /\ Remaining(i) = 2 * i
    BY <1>3 DEF StartRun, Remaining
  <2> QED
    BY <1>2, <2>1 DEF Approaches
<1>4. ASSUME NEW text, NEW newlines, Respond(text, newlines) PROVE Approaches(t, i)
  <2>1. PICK q : q = Tail(queue) /\ queue' = q
    BY <1>4 DEF Respond
  <2>2. CASE i = 1
    <3>1. Head(queue) = t
      BY <1>1, <1>2, <2>2
    <3>2. turn'[t].step = "answer"
      <4>1. PICK a : turn' = [turn EXCEPT ![t] = Answer(t, a)]
        BY <1>4, <3>1 DEF Respond
      <4>2. turn'[t] = Answer(t, a)
        BY <1>1, <4>1
      <4> QED
        BY <4>2 DEF Answer, FreeTurn
    <3> QED
      BY <3>2
  <2>3. CASE i # 1
    <3>1. i - 1 \in DOMAIN q /\ q[i - 1] = queue[i]
      BY <1>1, <1>2, <2>1, <2>3
    <3>2. PICK j : j = i - 1
      OBVIOUS
    <3>3. Remaining(j)' = 2 * j /\ Remaining(i) = 2 * i - 1
      BY <1>4 DEF Respond, Remaining
    <3> QED
      BY <1>2, <2>1, <3>1, <3>2, <3>3 DEF Approaches
  <2> QED
    BY <2>2, <2>3
<1> QED
  BY <1>3, <1>4 DEF RunBot

\* Every step leaves a request that waits where it is, or takes it forward.
LEMMA LineStep ==
  ASSUME IInv, [Next]_vars, NEW t \in Turns, NEW i \in DOMAIN queue, queue[i] = t,
         turn'[t].step = "wait"
  PROVE  Approaches(t, i)
<1>1. /\ turn \in [Turns -> Handlers] /\ queue \in Seq(Clients) /\ page.board \in Board
      /\ Clicks(page.board) \subseteq Cells /\ "match" # t
  BY Types, ClicksAssumption, TurnsAssumption DEF IInv, Pages
<1>2. CASE RunBot
  BY <1>2, RunApproaches
<1>3. CASE ~RunBot
  <2>1. run' = run /\ queue' = queue => Approaches(t, i)
    BY <1>1, <1>3, KeepsPlace
  <2>2. CASE UNCHANGED vars
    BY <2>1, <2>2 DEF vars
  <2>3. CASE (\E blank \in BOOLEAN : SetPlayerName(blank)) \/ LoseRow
    BY <2>1, <2>3 DEF SetPlayerName, LoseRow
  <2>4. ASSUME NEW u \in Turns, Serve(u) PROVE Approaches(t, i)
    <3>1. CASE LookUpBot(u) \/ Deliver(u)
      BY <2>1, <3>1 DEF LookUpBot, Deliver
    <3>2. CASE CallBot(u)
      <4>1. run' = run /\ (queue' = queue \/ \E c : queue' = Append(queue, c))
        BY <3>2 DEF CallBot
      <4> QED
        BY <1>1, <1>3, <4>1, KeepsPlace
    <3>3. CASE TurnTimesOut(u)
      <4>1. turn'[u].step # "wait"
        <5>1. PICK a : turn' = [turn EXCEPT ![u] = Answer(u, a)]
          BY <3>3 DEF TurnTimesOut
        <5>2. turn'[u] = Answer(u, a)
          BY <1>1, <5>1
        <5> QED
          BY <5>2 DEF Answer, FreeTurn
      <4>2. u # t /\ queue' = GivenUp(u) /\ run' = run
        BY <3>3, <4>1 DEF TurnTimesOut
      <4> QED
        BY <1>1, <1>3, <4>2, KeepsPlace
    <3> QED
      BY <2>4, <3>1, <3>2, <3>3 DEF Serve
  <2>5. CASE MatchAsks \/ MatchTimesOut
    <3>1. run' = run /\ (queue' = Append(queue, "match") \/ queue' = GivenUp("match"))
      BY <2>5 DEF MatchAsks, MatchTimesOut
    <3> QED
      BY <1>1, <1>3, <3>1, KeepsPlace
  <2> QED
    BY <1>1, <1>3, <2>2, <2>3, <2>4, <2>5, NoneWaits DEF Next
<1> QED
  BY <1>2, <1>3

\* Only CallBot makes a handler wait, and it joins the queue.
LEMMA InLineStep ==
  ASSUME IInv, InLine, [Next]_vars
  PROVE  InLine'
<1> SUFFICES ASSUME NEW t \in Turns, turn'[t].step = "wait"
             PROVE  \E i \in DOMAIN queue' : queue'[i] = t
  BY DEF InLine
<1>1. turn \in [Turns -> Handlers] /\ queue \in Seq(Clients) /\ Clicks(page.board) \subseteq Cells
  BY Types, ClicksAssumption DEF IInv, Pages
<1>2. CASE turn[t].step = "wait"
  BY <1>2, LineStep DEF InLine, Approaches
<1>3. CASE turn[t].step # "wait"
  <2>1. CallBot(t)
    <3>1. UNCHANGED turn => FALSE
      BY <1>3
    <3>2. ASSUME NEW u \in Turns, Serve(u), ~CallBot(t) PROVE FALSE
      <4>1. u # t => turn'[t] = turn[t]
        BY <1>1, <3>2 DEF Serve, LookUpBot, CallBot, TurnTimesOut, Deliver
      <4>2. LookUpBot(t) => turn'[t].step # "wait"
        <5>1. \A a : Answer(t, a).step = "answer"
          BY DEF Answer, FreeTurn
        <5> QED
          BY <1>1, <5>1 DEF LookUpBot, Handlers
      <4>3. TurnTimesOut(t) => turn'[t].step # "wait"
        BY <1>1 DEF TurnTimesOut, Answer, FreeTurn
      <4>4. Deliver(t) => turn'[t].step # "wait"
        BY <1>1 DEF Deliver, FreeTurn
      <4> QED
        BY <1>3, <3>2, <4>1, <4>2, <4>3, <4>4 DEF Serve
    <3>3. ASSUME RunBot PROVE FALSE
      <4>1. \E u, a : turn' = turn \/ turn' = [turn EXCEPT ![u] = Answer(u, a)]
        BY <3>3 DEF RunBot, StartRun, Respond
      <4>2. PICK u, a : turn' = [turn EXCEPT ![u] = Answer(u, a)]
        BY <3>1, <4>1
      <4>3. turn'[t] = turn[t] \/ turn'[t].step = "answer"
        BY <1>1, <4>2 DEF Answer, FreeTurn
      <4> QED
        BY <1>3, <4>3
    <3>4. (\E blank \in BOOLEAN : SetPlayerName(blank)) \/ LoseRow \/ MatchAsks
            \/ MatchTimesOut \/ UNCHANGED vars => UNCHANGED turn
      BY DEF SetPlayerName, LoseRow, MatchAsks, MatchTimesOut, vars
    <3> QED
      BY <1>1, <3>1, <3>2, <3>3, <3>4, NoneWaits DEF Next
  <2>2. page.pending = t /\ queue' = Append(queue, t)
    <3>1. \A h : turn' = [turn EXCEPT ![t] = h] => h.step = "wait"
      BY <1>1
    <3>2. \A a : Answer(t, a).step # "wait"
      BY DEF Answer, FreeTurn
    <3>3. FreeTurn.step # "wait"
      BY DEF FreeTurn
    <3>4. pod = "running"
      BY <2>1, <3>1, <3>2 DEF CallBot
    <3>5. page.pending = t
      BY <2>1, <3>1, <3>3, <3>4 DEF CallBot
    <3> QED
      BY <2>1, <3>4, <3>5 DEF CallBot
  <2>3. Len(queue) + 1 \in DOMAIN queue' /\ queue'[Len(queue) + 1] = t
    BY <1>1, <2>2
  <2> QED
    BY <2>3
<1> QED
  BY <1>2, <1>3

\* The turn server is a queue that nobody jumps: a handler that waits is in
\* it, no step of anybody sends it back, not even a client that gives up, and
\* every step of the server takes it forward.
THEOREM ServedInOrder ==
  Spec => /\ []InLine
          /\ [][\A t \in Turns, i \in DOMAIN queue :
                  queue[i] = t /\ turn'[t].step = "wait" => Approaches(t, i)]_vars
<1>1. Init => InLine
  BY DEF Init, InLine, FreeTurn
<1>2. IInv /\ InLine /\ [Next]_vars => InLine'
  BY InLineStep
<1>3. IInv /\ [Next]_vars =>
        [\A t \in Turns, i \in DOMAIN queue :
           queue[i] = t /\ turn'[t].step = "wait" => Approaches(t, i)]_vars
  BY LineStep
<1> QED
  BY <1>1, <1>2, <1>3, Invariance, PTL DEF Spec
=============================================================================
