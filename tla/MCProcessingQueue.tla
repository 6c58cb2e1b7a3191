-------------------------- MODULE MCProcessingQueue --------------------------
(***************************************************************************)
(* The queue for TLC: worker processes are interchangeable.                *)
(***************************************************************************)
EXTENDS ProcessingQueue, TLC

WorkerSymmetry == Permutations(Workers)
=============================================================================
