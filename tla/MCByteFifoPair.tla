--------------------------- MODULE MCByteFifoPair ---------------------------
(* Two fifos side by side, one of which moves: that of MCByteFifo, whose   *)
(* accesses take effect in program order, or one on several cores without  *)
(* barriers (Weak).                                                        *)
EXTENDS MCByteFifo

CONSTANTS WeakBSize, WeakPutSizes, WeakMaxBytes

VARIABLES single,  (* whether it is the ordered fifo that moves            *)
          writepW, readpW, bufW, prodW, consW, acceptedW, consumedW, handedW

varsW == <<writepW, readpW, bufW, prodW, consW, acceptedW, consumedW, handedW>>

Weak == INSTANCE ByteFifo WITH
  BSize <- WeakBSize, PutSizes <- WeakPutSizes, MaxBytes <- WeakMaxBytes,
  Requests <- MCRequests, Ordered <- FALSE,
  writep <- writepW, readp <- readpW, buf <- bufW, prod <- prodW, cons <- consW,
  accepted <- acceptedW, consumed <- consumedW, handed <- handedW

PairInit == Init /\ Weak!Init /\ single \in BOOLEAN

PairNext ==
  \/ single /\ Next /\ UNCHANGED <<single, varsW>>
  \/ ~single /\ Weak!Next /\ UNCHANGED <<single, vars>>

PairSpec == PairInit /\ [][PairNext]_<<single, vars, varsW>>

(* The damage that stores in another order can do to the bytes, in         *)
(* buffer_fifoPut (buffer.cpp:206-226) and buffer_fifoGet: only the bytes  *)
(* of a put still copying are wrong between the indices, and a byte that   *)
(* comes out wrong is of another turn, not of another place.               *)
WeakDamage == Weak!SettledInOrder /\ Weak!CopiesOwnPlace
=============================================================================
