----------------------- MODULE MCVerificationPipeline -----------------------
(* VerificationPipeline for TLC: interchangeable threads. *)
EXTENDS VerificationPipeline, TLC

Symmetry == Permutations(Tasks)
=============================================================================
