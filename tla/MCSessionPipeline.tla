-------------------------- MODULE MCSessionPipeline ---------------------------
(* Model checking of SessionPipeline: symmetry of sessions and workers. *)
EXTENDS SessionPipeline, TLC

Symmetry == Permutations(Sessions) \union Permutations(Workers)

===============================================================================
