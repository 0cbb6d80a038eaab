----------------------------- MODULE MCPipeline -----------------------------
(***************************************************************************)
(* Pipeline on small sets of bots, which are interchangeable.              *)
(***************************************************************************)
EXTENDS Pipeline, TLC

BotSymmetry == Permutations(Bots)

\* A fault, or a probe that closes a channel; what follows another is left to
\* the theorems.
OneMishap == faults + closings["pod_builder"] + closings["match_scheduler"] <= 1

=============================================================================
