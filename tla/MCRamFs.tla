------------------------------- MODULE MCRamFs -------------------------------
(* RamFs with interchangeable handle addresses. *)
EXTENDS RamFs, TLC

HandleSymmetry == Permutations(Handles)
=============================================================================
