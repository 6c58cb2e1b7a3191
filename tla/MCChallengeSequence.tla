------------------------ MODULE MCChallengeSequence ------------------------
(* ChallengeSequence for TLC: submissions are interchangeable. *)
EXTENDS ChallengeSequence, TLC

Symmetry == Permutations(Submissions)
=============================================================================
