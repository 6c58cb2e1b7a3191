------------------------ MODULE MCInspectionLifecycle ------------------------
(***************************************************************************)
(* The lifecycle for TLC: inspectors and open requests are interchangeable.*)
(***************************************************************************)
EXTENDS InspectionLifecycle, TLC

InspectorSymmetry == Permutations(Inspectors)
RequestSymmetry == Permutations(Inspectors) \cup Permutations(Requests)
=============================================================================
