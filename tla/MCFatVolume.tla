---------------------------- MODULE MCFatVolume ----------------------------
(* Values of the constants of FatVolume for the model checker.             *)
EXTENDS FatVolume, TLC
CONSTANT d1

(* The files are in one directory; the other one finds the root full.      *)
MCPaths == {d1} \X Names
VolumeSymmetry == Permutations(Handles) \cup Permutations(Names)
=============================================================================
