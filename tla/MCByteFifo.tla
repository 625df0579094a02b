----------------------------- MODULE MCByteFifo -----------------------------
(* Values of the constants of ByteFifo for the model checker. *)
EXTENDS ByteFifo

(* Every call, for a short and for a longer block. *)
MCRequests == [op : Ops, size : {1, 3}]
=============================================================================
