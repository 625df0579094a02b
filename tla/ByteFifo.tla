------------------------------ MODULE ByteFifo ------------------------------
(***************************************************************************)
(* The lock-free byte fifo of src/buffer.cpp, shared by one producer and   *)
(* one consumer thread: the DVB filter callback and the mux thread, or a   *)
(* ramfs client and the ramfs worker.                                      *)
(*                                                                         *)
(* Every call is split where the other thread can see or change something: *)
(* the load of the other side's index with the checks made on it, the      *)
(* memcpy, and the store of the own index.  The source orders them but has *)
(* no barrier: the compiler keeps the order, because memcpy may alias the  *)
(* struct, and so does a single core; on several ARM cores the store of an *)
(* index may take effect before the copy (Ordered = FALSE).                *)
(*                                                                         *)
(* The value of a byte is its position in the stream of accepted bytes.    *)
(***************************************************************************)
EXTENDS Integers, Sequences

CONSTANTS
  BSize,     (* bsize, the length of the allocated buffer                  *)
  PutSizes,  (* the block sizes the producer offers                        *)
  Requests,  (* what the consumer asks for: [op: get/peek/skip, size]      *)
  MaxBytes,  (* bound: the bytes accepted over a whole behaviour           *)
  Ordered    (* whether a thread's accesses take effect in program order   *)

Ops == {"get", "peek", "skip"}

ASSUME BSizeAssumption    == BSize \in Nat \ {0}
ASSUME PutSizesAssumption == PutSizes \subseteq Nat \ {0}
ASSUME RequestsAssumption == Requests \subseteq [op : Ops, size : Nat \ {0}]
ASSUME MaxBytesAssumption == MaxBytes \in Nat
ASSUME OrderedAssumption  == Ordered \in BOOLEAN

VARIABLES
  writep,    (* next position to write, 0..BSize; stored by the producer   *)
  readp,     (* next position to read, 0..BSize; stored by the consumer    *)
  buf,       (* the allocated bytes; Garbage before the first write        *)
  prod,      (* the put in progress: stage, size, the indices it loaded    *)
  cons,      (* the get/peek/skip in progress, the indices it loaded and   *)
             (* the caller's buffer                                        *)
  accepted,  (* history: bytes the puts have accepted                      *)
  consumed,  (* history: bytes readp has moved over                        *)
  handed     (* history: the bytes the last get or peek returned           *)

vars == <<writep, readp, buf, prod, cons, accepted, consumed, handed>>

Slots   == 0 .. BSize - 1
Garbage == -1

IdleProd == [pc |-> "idle", size |-> 0, w |-> 0, r |-> 0]
IdleCons == [pc |-> "idle", op |-> "get", size |-> 0, w |-> 0, r |-> 0, data |-> <<>>]

-----------------------------------------------------------------------------
(* Index arithmetic.  The _Mut operators are plausible slips in it.        *)

(* Bytes between the indices: equal indices mean empty. *)
Level(w, r) == IF w >= r THEN w - r ELSE BSize - r + w

PutFits_Mut(w, r, n) == BSize - Level(w, r) >= n

(* A put is refused when it would fill the last byte. *)
PutFits(w, r, n) == BSize - Level(w, r) > n

PutRun_Mut(w, r, n) == IF w > r /\ BSize - w < n THEN BSize - w ELSE n

(* Bytes of the first of the two memcpy's of a put; the rest go to 0. *)
PutRun(w, r, n) == IF w >= r /\ BSize - w < n THEN BSize - w ELSE n

GetRun_Mut(w, r, n) == IF w < r /\ BSize - r <= n THEN BSize - r - 1 ELSE n

(* The same for a get or a peek. *)
GetRun(w, r, n) == IF w < r /\ BSize - r < n THEN BSize - r ELSE n

(* Where an index is after n bytes, the first run of them contiguous. *)
After(p, run, n) == IF run < n THEN n - run ELSE p + n

(* A peek moves readp when the bytes wrap but its own n bytes do not. *)
PeekEnd(w, r, n) == IF w < r /\ BSize - r >= n THEN r + n ELSE r

-----------------------------------------------------------------------------
(* buffer_fifoNew *)
Init ==
  /\ writep = 0
  /\ readp = 0
  /\ buf = [s \in Slots |-> Garbage]
  /\ prod = IdleProd
  /\ cons = IdleCons
  /\ accepted = 0
  /\ consumed = 0
  /\ handed = <<>>

(* buffer_fifoPut: load readp and decide.  A refused put changes nothing.  *)
PutCheck(n) ==
  /\ prod.pc = "idle"
  /\ accepted + n <= MaxBytes
  /\ PutFits(writep, readp, n)
  /\ prod' = [pc |-> "copy", size |-> n, w |-> writep, r |-> readp]
  /\ UNCHANGED <<writep, readp, buf, cons, accepted, consumed, handed>>

Filled_Mut(base) ==
  LET n   == prod.size
      run == PutRun(prod.w, prod.r, n)
  IN  [s \in Slots |-> IF s \in writep .. writep + run - 1 THEN base + (s - writep)
                       ELSE IF s < n - run THEN base + run + s
                       ELSE buf[s]]

(* The buffer after the one or two memcpy's of the put in progress, whose  *)
(* first byte is byte number "base"; the branch depends on the readp that  *)
(* was loaded.                                                             *)
Filled(base) ==
  LET n   == prod.size
      run == PutRun(prod.w, prod.r, n)
  IN  [s \in Slots |-> IF s \in prod.w .. prod.w + run - 1 THEN base + (s - prod.w)
                       ELSE IF s < n - run THEN base + run + s
                       ELSE buf[s]]

PutEnd == After(prod.w, PutRun(prod.w, prod.r, prod.size), prod.size)

PutCopy ==
  /\ prod.pc = "copy"
  /\ buf' = Filled(accepted)
  /\ prod' = [prod EXCEPT !.pc = "publish"]
  /\ UNCHANGED <<writep, readp, cons, accepted, consumed, handed>>

(* The store of writep makes the bytes visible to the consumer. *)
PutPublish ==
  /\ prod.pc = "publish"
  /\ writep' = PutEnd
  /\ accepted' = accepted + prod.size
  /\ prod' = IdleProd
  /\ UNCHANGED <<readp, buf, cons, consumed, handed>>

(* The same two stores as another core may see them. *)
PutPublishEarly ==
  /\ ~Ordered /\ prod.pc = "copy"
  /\ writep' = PutEnd
  /\ accepted' = accepted + prod.size
  /\ prod' = [prod EXCEPT !.pc = "late"]
  /\ UNCHANGED <<readp, buf, cons, consumed, handed>>

PutCopyLate ==
  /\ prod.pc = "late"
  /\ buf' = Filled(accepted - prod.size)
  /\ prod' = IdleProd
  /\ UNCHANGED <<writep, readp, cons, accepted, consumed, handed>>

(* buffer_fifoGet, Peek, Skip: load writep and decide.  A request for more *)
(* than is there returns 0 and changes nothing.                            *)
GetCheck(q) ==
  /\ cons.pc = "idle"
  /\ Level(writep, readp) >= q.size
  /\ cons' = [pc   |-> IF q.op = "skip" THEN "advance" ELSE "copy",
              op   |-> q.op, size |-> q.size, w |-> writep, r |-> readp,
              data |-> <<>>]
  /\ UNCHANGED <<writep, readp, buf, prod, accepted, consumed, handed>>

(* The bytes the one or two memcpy's of a get or a peek bring out. *)
CopiedOut ==
  LET run == GetRun(cons.w, cons.r, cons.size)
  IN  [i \in 1 .. cons.size |-> IF i <= run THEN buf[cons.r + i - 1]
                                ELSE buf[i - run - 1]]

GetEnd_Mut == IF cons.r + cons.size > BSize THEN 0 ELSE cons.r + cons.size

GetEnd == After(cons.r, GetRun(cons.w, cons.r, cons.size), cons.size)

GetCopy ==
  /\ cons.pc = "copy"
  /\ cons' = [cons EXCEPT !.pc = "advance", !.data = CopiedOut]
  /\ UNCHANGED <<writep, readp, buf, prod, accepted, consumed, handed>>

(* The store of readp frees the space, and the call returns. *)
GetAdvance ==
  /\ cons.pc = "advance" /\ cons.op # "peek"
  /\ readp' = GetEnd
  /\ consumed' = consumed + cons.size
  /\ handed' = IF cons.op = "get" THEN cons.data ELSE handed
  /\ cons' = IdleCons
  /\ UNCHANGED <<writep, buf, prod, accepted>>

(* The store of readp as another core may see it, before the copy. *)
GetAdvanceEarly ==
  /\ ~Ordered /\ cons.pc = "copy" /\ cons.op = "get"
  /\ readp' = GetEnd
  /\ consumed' = consumed + cons.size
  /\ cons' = [cons EXCEPT !.pc = "late"]
  /\ UNCHANGED <<writep, buf, prod, accepted, handed>>

GetCopyLate ==
  /\ cons.pc = "late"
  /\ handed' = CopiedOut
  /\ cons' = IdleCons
  /\ UNCHANGED <<writep, readp, buf, prod, accepted, consumed>>

PeekReturn ==
  /\ cons.pc = "advance"
  /\ cons.op = "peek"
  /\ readp' = PeekEnd(cons.w, cons.r, cons.size)
  /\ consumed' = consumed + (readp' - readp)
  /\ handed' = cons.data
  /\ cons' = IdleCons
  /\ UNCHANGED <<writep, buf, prod, accepted>>

Producer ==
  \/ \E n \in PutSizes : PutCheck(n)
  \/ PutCopy \/ PutPublish \/ PutPublishEarly \/ PutCopyLate

Consumer ==
  \/ \E q \in Requests : GetCheck(q)
  \/ GetCopy \/ GetAdvance \/ GetAdvanceEarly \/ GetCopyLate \/ PeekReturn

Next == Producer \/ Consumer

Spec == Init /\ [][Next]_vars

-----------------------------------------------------------------------------
(* Where byte i (from 1) after an index lies, going round the buffer. *)
Slot(p, i) == IF p + i - 1 < BSize THEN p + i - 1 ELSE p + i - 1 - BSize

(* The bytes between the indices, oldest first. *)
Contents == [i \in 1 .. Level(writep, readp) |-> buf[Slot(readp, i)]]

(* The positions the put in progress writes, and those not yet consumed.   *)
Writing ==
  IF prod.pc = "idle" THEN {}
  ELSE LET run == PutRun(prod.w, prod.r, prod.size)
       IN  prod.w .. prod.w + run - 1 \cup 0 .. prod.size - run - 1

Unread == {Slot(readp, i) : i \in 1 .. Level(writep, readp)}

(* Types of the indices, the buffer and the two calls in progress. *)
TypeOK ==
  /\ writep \in 0 .. BSize
  /\ readp \in 0 .. BSize
  /\ buf \in [Slots -> Int]
  /\ prod \in [pc : {"idle", "copy", "publish", "late"}, size : Nat,
               w : 0 .. BSize, r : 0 .. BSize]
  /\ cons \in [pc : {"idle", "copy", "advance", "late"}, op : Ops, size : Nat,
               w : 0 .. BSize, r : 0 .. BSize, data : Seq(Int)]
  /\ accepted \in 0 .. MaxBytes
  /\ consumed \in Nat
  /\ handed \in Seq(Int)

(* The two indices always account for exactly the bytes accepted and not   *)
(* consumed, and never all BSize of them, although neither index is read   *)
(* under a lock: a full buffer is not mistaken for an empty one            *)
(* (buffer_fifoPut keeps one byte free, remsize <= size).  This holds in   *)
(* any order of the accesses, the properties of the bytes below do not.    *)
FullNeverEmpty ==
  /\ accepted - consumed = Level(writep, readp)
  /\ Level(writep, readp) < BSize

(* A put that decided on a stale readp writes inside the allocation and    *)
(* never over a byte the consumer has still to read or is copying out.     *)
NoOverwrite ==
  /\ Writing \subseteq Slots
  /\ Writing \cap Unread = {}

(* Between the indices lie the next bytes of the stream, in order: none    *)
(* lost at the wrap, none repeated, none published before it was written.  *)
InOrder ==
  \A i \in 1 .. Level(writep, readp) : buf[Slot(readp, i)] = consumed + i - 1

(* Bytes whose put has also done its copy, in whatever order.              *)
Settled == accepted - (IF prod.pc = "late" THEN prod.size ELSE 0)

(* InOrder in any order of the accesses: only the bytes of a put that has  *)
(* still to copy can be wrong between the indices.  Its late copy repairs  *)
(* them, though the consumer may have gone past, and harms no other byte.  *)
SettledInOrder ==
  \A i \in 1 .. Level(writep, readp) :
    consumed + i <= Settled => buf[Slot(readp, i)] = consumed + i - 1

(* Two bytes of the stream that have the same place in the buffer. *)
SamePlace(k, l) == (k - l) % BSize = 0

OwnPlace(data, from) ==
  \A i \in DOMAIN data : data[i] # Garbage => SamePlace(data[i], from + i - 1)

(* In any order of the accesses a byte that is copied out wrong, also after*)
(* readp has moved on, is what was or will be at its own place on another  *)
(* turn round the buffer (or before the first): stale or early, not shifted*)
CopiesOwnPlace ==
  /\ cons.pc = "advance" => OwnPlace(cons.data, consumed)
  /\ cons.pc = "late"    => OwnPlace(CopiedOut, consumed - cons.size)

(* What a get or a peek has copied out is the stream from where the        *)
(* consumer stands, even though the producer wrote meanwhile.              *)
CopiedOutRight ==
  cons.pc = "advance" /\ cons.op # "skip"
    => cons.data = [i \in 1 .. cons.size |-> consumed + i - 1]

(* A peek leaves the bytes it looked at in the fifo: the re-sync of        *)
(* Channel::stream looks ahead over three packets and then skips only the  *)
(* bytes before the sync byte it found (channel.cpp:490-505).              *)
PeekKeepsBytes == [][PeekReturn => UNCHANGED <<readp, consumed>>]_vars

(* The fifo is the byte queue of capacity BSize - 1. *)
Queue == INSTANCE ByteQueue WITH
           Capacity <- BSize - 1, queue <- Contents, sent <- accepted

Implements == Queue!QSpec
=============================================================================
