--------------------------- MODULE MCSegmentWindow ---------------------------
(* Values of the constants of SegmentWindow for the model checker.         *)
EXTENDS SegmentWindow

(* A PCR of 0, which the code takes for none, and one past the duration.   *)
MCPcr == {0, 2}
=============================================================================
