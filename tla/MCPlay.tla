------------------------------- MODULE MCPlay -------------------------------
(***************************************************************************)
(* Play with a human and a bot that choose among two cells up to the       *)
(* fourth move, which is enough for each outcome of a game, and a bot that *)
(* also prints answers of each kind that is refused.                       *)
(***************************************************************************)
EXTENDS Play, BotOutputs

\* The cells in the order in which the page numbers them.
Before(c, d) == 3 * c[1] + c[2] < 3 * d[1] + d[2]

\* The first cell to choose from, and up to the fourth move the last one.
Choices(b) ==
  {c \in FairChoices(b) :
     \/ \A d \in FairChoices(b) : ~Before(d, c)
     \/ Cardinality(Empty(b)) > 5 /\ \A d \in FairChoices(b) : ~Before(c, d)}

MCOutputs(b) ==
  { board_to_str([b EXCEPT ![c] = Mover(b)]) : c \in Choices(b) }
    \cup IllegalMoves(b) \cup Garbage

=============================================================================
