----------------------------- MODULE ByteQueue -----------------------------
(***************************************************************************)
(* What the byte fifo of buffer.cpp promises its two threads, with no      *)
(* indices and no wrap-around: a queue that holds at most Capacity bytes,  *)
(* accepts a block whole or not at all, and hands the bytes out in the     *)
(* order they were accepted, none twice but by a peek.                     *)
(*                                                                         *)
(* The k-th byte ever accepted carries the number k (from 0) as its value, *)
(* so that a lost, repeated or reordered byte shows in the data.           *)
(***************************************************************************)
EXTENDS Integers, Sequences

CONSTANTS
  Capacity,  (* the number of bytes the queue can hold                     *)
  PutSizes,  (* the block sizes the producer offers                        *)
  Requests,  (* what the consumer asks for: [op: get/peek/skip, size]      *)
  MaxBytes   (* bound: the bytes accepted over a whole behaviour           *)

VARIABLES
  queue,     (* the bytes accepted and not yet consumed                    *)
  sent,      (* how many bytes have been accepted                          *)
  handed     (* the bytes the last get or peek returned                    *)

qvars == <<queue, sent, handed>>

Drop(n) == SubSeq(queue, n + 1, Len(queue))

QInit ==
  /\ queue = <<>>
  /\ sent = 0
  /\ handed = <<>>

QPut(n) ==
  /\ sent + n <= MaxBytes
  /\ Len(queue) + n <= Capacity
  /\ queue' = queue \o [i \in 1..n |-> sent + i - 1]
  /\ sent' = sent + n
  /\ UNCHANGED handed

QGet(n) ==
  /\ n <= Len(queue)
  /\ handed' = SubSeq(queue, 1, n)
  /\ queue' = Drop(n)
  /\ UNCHANGED sent

(* Whether the bytes a peek has shown stay in the queue is left open: see  *)
(* PeekKeepsBytes of ByteFifo.                                             *)
QPeek(n) ==
  /\ n <= Len(queue)
  /\ handed' = SubSeq(queue, 1, n)
  /\ queue' \in {queue, Drop(n)}
  /\ UNCHANGED sent

QSkip(n) ==
  /\ n <= Len(queue)
  /\ queue' = Drop(n)
  /\ UNCHANGED <<sent, handed>>

QNext ==
  \/ \E n \in PutSizes : QPut(n)
  \/ \E q \in Requests :
       \/ q.op = "get"  /\ QGet(q.size)
       \/ q.op = "peek" /\ QPeek(q.size)
       \/ q.op = "skip" /\ QSkip(q.size)

QSpec == QInit /\ [][QNext]_qvars
=============================================================================
