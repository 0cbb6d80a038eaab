--------------------------- MODULE MCMatchRunner ----------------------------
(***************************************************************************)
(* MatchRunner with bots that answer every legal move, its first two moves *)
(* bounded, and answers of each kind the runner refuses.                   *)
(***************************************************************************)
EXTENDS MatchRunner, BotOutputs

=============================================================================
