-------------------------- MODULE ByteFifo_proofs --------------------------
(***************************************************************************)
(* Proofs about ByteFifo for every buffer size, every set of block sizes   *)
(* and every repertoire of consumer requests.  What is said of the indices *)
(* is proved for any order of the memory accesses, what is said of the     *)
(* bytes under Ordered.                                                    *)
(***************************************************************************)
EXTENDS ByteFifo, TLAPS

USE BSizeAssumption, PutSizesAssumption, RequestsAssumption,
    MaxBytesAssumption, OrderedAssumption

(* What a put knows until it publishes: the room it found is still there,  *)
(* and the branch it will take is the one a fresh readp would give.        *)
ProdInv ==
  prod.pc \in {"copy", "publish"} =>
    /\ prod.size \in PutSizes
    /\ accepted + prod.size <= MaxBytes
    /\ Level(writep, readp) + prod.size < BSize
    /\ prod.w = writep
    /\ prod.r <= writep \/ writep + prod.size < prod.r

(* What a get, peek or skip in progress knows: its bytes fit the buffer,   *)
(* and until it advances readp they are there.                             *)
ConsInv ==
  cons.pc # "idle" =>
    /\ cons.size \in Nat \ {0}
    /\ cons.size < BSize
    /\ cons.w < cons.r \/ cons.r + cons.size <= cons.w
    /\ cons.pc # "late" => cons.r = readp /\ cons.size <= Level(writep, readp)

(* The inductive invariant of the indices. *)
IInv ==
  /\ TypeOK
  /\ FullNeverEmpty
  /\ ProdInv
  /\ ConsInv

(* Once its memcpy's are done the bytes of a put lie behind writep.        *)
Written ==
  prod.pc = "publish" =>
    \A i \in 1 .. prod.size : buf[Slot(writep, i)] = accepted + i - 1

(* The inductive invariant of the bytes, when accesses are ordered. *)
DInv ==
  /\ IInv
  /\ prod.pc # "late" /\ cons.pc # "late"
  /\ InOrder
  /\ CopiedOutRight
  /\ Written

-----------------------------------------------------------------------------
(* Moving writep over n bytes that leave one byte free adds n to the level *)
(* and leaves the unread bytes where they are.                             *)
LEMMA AdvanceWrite ==
  ASSUME NEW w \in 0 .. BSize, NEW r \in 0 .. BSize, NEW rr \in 0 .. BSize,
         NEW n \in Nat \ {0},
         Level(w, r) + n < BSize,
         rr <= w \/ w + n < rr
  PROVE  /\ After(w, PutRun(w, rr, n), n) \in 0 .. BSize
         /\ Level(After(w, PutRun(w, rr, n), n), r) = Level(w, r) + n
         /\ \A i \in 1 .. n : Slot(w, i) = Slot(r, Level(w, r) + i)
BY DEF Level, After, PutRun, Slot

(* Moving readp over n unread bytes takes n off the level, and the bytes   *)
(* that stay keep their order.                                             *)
LEMMA AdvanceRead ==
  ASSUME NEW w \in 0 .. BSize, NEW r \in 0 .. BSize, NEW ww \in 0 .. BSize,
         NEW n \in Nat \ {0},
         Level(w, r) < BSize, n <= Level(w, r),
         ww < r \/ r + n <= ww
  PROVE  /\ After(r, GetRun(ww, r, n), n) \in 0 .. BSize
         /\ Level(w, After(r, GetRun(ww, r, n), n)) = Level(w, r) - n
         /\ \A i \in Nat \ {0} : i <= Level(w, r) - n =>
              Slot(After(r, GetRun(ww, r, n), n), i) = Slot(r, n + i)
BY DEF Level, After, GetRun, Slot

(* A peek leaves readp, or moves it as a get would. *)
LEMMA PeekEndCases ==
  ASSUME NEW r \in 0 .. BSize, NEW ww \in 0 .. BSize, NEW n \in Nat \ {0}
  PROVE  \/ PeekEnd(ww, r, n) = r
         \/ PeekEnd(ww, r, n) = r + n /\ PeekEnd(ww, r, n) = After(r, GetRun(ww, r, n), n)
BY DEF PeekEnd, After, GetRun

(* The level is a natural number, and the unread positions are slots. *)
LEMMA LevelSlot ==
  ASSUME NEW w \in 0 .. BSize, NEW r \in 0 .. BSize, Level(w, r) < BSize
  PROVE  /\ Level(w, r) \in Nat
         /\ \A i \in Nat \ {0} : i <= BSize => Slot(r, i) \in Slots
         /\ \A i, j \in Nat \ {0} : i < j /\ j <= BSize => Slot(r, i) # Slot(r, j)
BY DEF Level, Slot, Slots

-----------------------------------------------------------------------------
(* A new fifo (buffer_fifoNew) satisfies the invariant of the indices. *)
LEMMA InitInv == Init => IInv
BY DEF Init, IInv, TypeOK, FullNeverEmpty, ProdInv, ConsInv, Level, IdleProd,
       IdleCons, Slots, Garbage, Ops

(* A put that starts: the check it made is what ProdInv records. *)
LEMMA PutCheckInv == IInv /\ (\E n \in PutSizes : PutCheck(n)) => IInv'
<1> SUFFICES ASSUME IInv, NEW n \in PutSizes, PutCheck(n) PROVE IInv'
  OBVIOUS
<1>1. TypeOK'
  BY DEF IInv, TypeOK, PutCheck
<1>2. (FullNeverEmpty /\ ConsInv)'
  BY DEF IInv, PutCheck, FullNeverEmpty, ConsInv
<1>3. ProdInv'
  BY DEF IInv, TypeOK, PutCheck, PutFits, ProdInv, Level
<1> QED
  BY <1>1, <1>2, <1>3 DEF IInv

(* The memcpy's of a put write numbers into the slots of the buffer. *)
LEMMA FilledType ==
  ASSUME TypeOK, NEW base \in Int PROVE Filled(base) \in [Slots -> Int]
<1> DEFINE n == prod.size
           run == PutRun(prod.w, prod.r, n)
<1>1. n \in Int /\ prod.w \in Int /\ run \in Int /\ buf \in [Slots -> Int]
  BY DEF TypeOK, PutRun
<1>2. Filled(base) = [s \in Slots |-> IF s \in prod.w .. prod.w + run - 1
                                        THEN base + (s - prod.w)
                                      ELSE IF s < n - run THEN base + run + s
                                      ELSE buf[s]]
  BY DEF Filled
<1> HIDE DEF n, run
<1> QED
  BY <1>1, <1>2 DEF Slots

(* The memcpy's of a put touch neither index, early or late. *)
LEMMA PutCopyInv == IInv /\ (PutCopy \/ PutCopyLate) => IInv'
<1> SUFFICES ASSUME IInv, PutCopy \/ PutCopyLate PROVE IInv'
  OBVIOUS
<1>1. CASE PutCopy
  <2>1. buf' \in [Slots -> Int] /\ prod' = [prod EXCEPT !.pc = "publish"]
    BY <1>1, FilledType DEF IInv, TypeOK, PutCopy
  <2>2. TypeOK'
    BY <1>1, <2>1 DEF IInv, TypeOK, PutCopy
  <2>3. (FullNeverEmpty /\ ConsInv /\ ProdInv)'
    BY <1>1, <2>1 DEF IInv, TypeOK, PutCopy, FullNeverEmpty, ConsInv, ProdInv
  <2> QED
    BY <2>2, <2>3 DEF IInv
<1>2. CASE PutCopyLate
  <2>1. buf' \in [Slots -> Int]
    <3>1. accepted - prod.size \in Int
      BY DEF IInv, TypeOK
    <3> QED
      BY <1>2, <3>1, FilledType DEF IInv, PutCopyLate
  <2>2. TypeOK'
    BY <1>2, <2>1 DEF IInv, TypeOK, PutCopyLate, IdleProd
  <2>3. (FullNeverEmpty /\ ConsInv /\ ProdInv)'
    BY <1>2 DEF IInv, PutCopyLate, FullNeverEmpty, ConsInv, ProdInv, IdleProd
  <2> QED
    BY <2>2, <2>3 DEF IInv
<1> QED
  BY <1>1, <1>2

(* Moving writep on is the same to the indices before the copy and after.  *)
LEMMA WriteMoves ==
  ASSUME IInv, prod.pc \in {"copy", "publish"}, writep' = PutEnd,
         accepted' = accepted + prod.size, UNCHANGED <<readp, cons, consumed>>
  PROVE  /\ writep' \in 0 .. BSize /\ accepted' \in 0 .. MaxBytes
         /\ Level(writep, readp) \in Nat
         /\ Level(writep', readp) = Level(writep, readp) + prod.size
         /\ \A i \in 1 .. prod.size :
              Slot(writep, i) = Slot(readp, Level(writep, readp) + i)
         /\ (FullNeverEmpty /\ ConsInv)'
<1> DEFINE n == prod.size
<1>1. /\ n \in Nat \ {0}
      /\ writep \in 0 .. BSize /\ readp \in 0 .. BSize
      /\ prod.r \in 0 .. BSize /\ accepted \in Nat /\ consumed \in Nat
      /\ prod.w = writep
      /\ prod.r <= writep \/ writep + n < prod.r
      /\ Level(writep, readp) + n < BSize /\ Level(writep, readp) < BSize
      /\ accepted - consumed = Level(writep, readp)
      /\ accepted + n <= MaxBytes
  BY DEF IInv, ProdInv, TypeOK, FullNeverEmpty
<1>2. /\ Level(writep, readp) \in Nat
      /\ writep' \in 0 .. BSize
      /\ Level(writep', readp) = Level(writep, readp) + n
      /\ \A i \in 1 .. n : Slot(writep, i) = Slot(readp, Level(writep, readp) + i)
  BY <1>1, AdvanceWrite, LevelSlot, SMTT(30) DEF PutEnd
<1>3. FullNeverEmpty'
  BY <1>1, <1>2 DEF FullNeverEmpty
<1>4. ConsInv'
  <2>1. ASSUME cons.pc # "idle", cons.pc # "late"
        PROVE  cons.size <= Level(writep', readp)
    <3>1. cons.size \in Nat /\ cons.size <= Level(writep, readp)
      BY <2>1 DEF IInv, ConsInv
    <3> HIDE DEF n
    <3> QED
      BY <3>1, <1>1, <1>2
  <2> QED
    BY <2>1 DEF IInv, ConsInv
<1> QED
  BY <1>1, <1>2, <1>3, <1>4

(* The store of writep keeps the invariant of the indices. *)
LEMMA PutPublishInv == IInv /\ (PutPublish \/ PutPublishEarly) => IInv'
<1> SUFFICES ASSUME IInv, PutPublish \/ PutPublishEarly PROVE IInv'
  OBVIOUS
<1>1. /\ writep' \in 0 .. BSize /\ accepted' \in 0 .. MaxBytes
      /\ (FullNeverEmpty /\ ConsInv)'
  BY WriteMoves DEF PutPublish, PutPublishEarly
<1>2. TypeOK'
  BY <1>1, SMTT(30) DEF IInv, TypeOK, PutPublish, PutPublishEarly, IdleProd
<1>3. ProdInv'
  BY DEF IInv, TypeOK, PutPublish, PutPublishEarly, ProdInv, IdleProd
<1> QED
  BY <1>1, <1>2, <1>3 DEF IInv

(* A request that starts: what it found is what ConsInv records. *)
LEMMA GetCheckInv == IInv /\ (\E q \in Requests : GetCheck(q)) => IInv'
<1> SUFFICES ASSUME IInv, NEW q \in Requests, GetCheck(q) PROVE IInv'
  OBVIOUS
<1> USE DEF IInv
<1>0. q.op \in Ops /\ q.size \in Nat \ {0}
  OBVIOUS
<1>1. TypeOK'
  BY <1>0 DEF TypeOK, GetCheck
<1>2. (FullNeverEmpty /\ ProdInv)'
  BY DEF GetCheck, FullNeverEmpty, ProdInv
<1>3. ConsInv'
  BY <1>0 DEF GetCheck, ConsInv, Level, TypeOK, FullNeverEmpty
<1> QED
  BY <1>1, <1>2, <1>3

(* The memcpy's of a get or a peek read slots of the buffer: position i of *)
(* the caller's buffer gets the i-th slot from the readp they loaded.      *)
LEMMA CopiedOutIs ==
  ASSUME IInv, cons.pc # "idle"
  PROVE  /\ \A i \in 1 .. cons.size : Slot(cons.r, i) \in Slots
         /\ CopiedOut = [i \in 1 .. cons.size |-> buf[Slot(cons.r, i)]]
         /\ CopiedOut \in Seq(Int)
<1> DEFINE n == cons.size
           run == GetRun(cons.w, cons.r, n)
           src(i) == IF i <= run THEN cons.r + i - 1 ELSE i - run - 1
<1>1. /\ n \in Nat \ {0} /\ n < BSize
      /\ cons.r \in 0 .. BSize /\ cons.w \in 0 .. BSize
      /\ cons.w < cons.r \/ cons.r + n <= cons.w
      /\ buf \in [Slots -> Int]
  BY DEF IInv, ConsInv, TypeOK
<1>2. \A i \in 1 .. n : src(i) = Slot(cons.r, i) /\ Slot(cons.r, i) \in Slots
  <2>1. /\ run \in 0 .. n
        /\ cons.r + run <= BSize
        /\ run < n => cons.r + run = BSize
    BY <1>1 DEF GetRun
  <2> HIDE DEF n, run
  <2> SUFFICES ASSUME NEW i \in 1 .. n
               PROVE  src(i) = Slot(cons.r, i) /\ Slot(cons.r, i) \in Slots
    OBVIOUS
  <2>2. CASE i <= run
    BY <1>1, <2>1, <2>2, SMTT(30) DEF Slot, Slots
  <2>3. CASE i > run
    <3>1. run \in Int /\ cons.r = BSize - run /\ i \in Int /\ i <= n /\ n \in Int
      BY <1>1, <2>1, <2>3
    <3>2. Slot(cons.r, i) = i - run - 1
      BY <3>1, <2>3 DEF Slot
    <3>3. src(i) = i - run - 1
      BY <2>3, <3>1
    <3>4. i - run - 1 \in Slots
      BY <1>1, <2>1, <2>3, <3>1 DEF Slots
    <3> QED
      BY <3>2, <3>3, <3>4
  <2> QED
    BY <1>1, <2>1, <2>2, <2>3
<1>3. CopiedOut = [i \in 1 .. n |-> buf[src(i)]]
  <2>1. CopiedOut = [i \in 1 .. n |-> IF i <= run THEN buf[cons.r + i - 1]
                                       ELSE buf[i - run - 1]]
    BY DEF CopiedOut
  <2> QED
    BY <2>1
<1> HIDE DEF src
<1>4. CopiedOut = [i \in 1 .. n |-> buf[Slot(cons.r, i)]]
  BY <1>2, <1>3
<1>5. [i \in 1 .. n |-> buf[Slot(cons.r, i)]] \in Seq(Int)
  BY <1>1, <1>2
<1> QED
  BY <1>2, <1>4, <1>5

(* The memcpy's of a get or a peek keep it. *)
LEMMA GetCopyInv == IInv /\ (GetCopy \/ GetCopyLate) => IInv'
<1> SUFFICES ASSUME IInv, GetCopy \/ GetCopyLate PROVE IInv'
  OBVIOUS
<1>1. CopiedOut \in Seq(Int)
  BY CopiedOutIs DEF GetCopy, GetCopyLate
<1>2. CASE GetCopy
  <2>1. cons' = [pc |-> "advance", op |-> cons.op, size |-> cons.size,
                 w |-> cons.w, r |-> cons.r, data |-> CopiedOut]
    BY <1>2 DEF GetCopy, IInv, TypeOK
  <2>2. TypeOK'
    BY <2>1, <1>1, <1>2 DEF GetCopy, IInv, TypeOK
  <2>3. (FullNeverEmpty /\ ProdInv)'
    BY <1>2 DEF GetCopy, IInv, FullNeverEmpty, ProdInv
  <2>4. ConsInv'
    BY <1>2, <2>1 DEF GetCopy, IInv, ConsInv
  <2> QED
    BY <2>2, <2>3, <2>4 DEF IInv
<1>3. CASE GetCopyLate
  <2>1. TypeOK'
    BY <1>1, <1>3 DEF GetCopyLate, IInv, TypeOK, IdleCons, Ops
  <2>2. (FullNeverEmpty /\ ProdInv /\ ConsInv)'
    BY <1>3 DEF GetCopyLate, IInv, FullNeverEmpty, ProdInv, ConsInv, IdleCons
  <2> QED
    BY <2>1, <2>2 DEF IInv
<1> QED
  BY <1>2, <1>3

(* Moving readp on, as a get, a skip and some peeks do. *)
LEMMA ReadMoves ==
  ASSUME IInv, cons.pc \in {"copy", "advance"}, readp' = GetEnd,
         consumed' = consumed + cons.size,
         UNCHANGED <<writep, buf, prod, accepted>>
  PROVE  /\ readp' \in 0 .. BSize /\ consumed' \in Nat
         /\ Level(writep, readp') = Level(writep, readp) - cons.size
         /\ \A i \in Nat \ {0} : i <= Level(writep, readp) - cons.size =>
              Slot(readp', i) = Slot(readp, cons.size + i)
         /\ (FullNeverEmpty /\ ProdInv)'
<1> DEFINE n == cons.size
           ww == cons.w
<1>1. /\ n \in Nat \ {0} /\ cons.r = readp
      /\ writep \in 0 .. BSize /\ readp \in 0 .. BSize /\ ww \in 0 .. BSize
      /\ accepted \in Nat /\ consumed \in Nat
      /\ accepted - consumed = Level(writep, readp)
      /\ n <= Level(writep, readp) /\ Level(writep, readp) < BSize
      /\ ww < readp \/ readp + n <= ww
  BY DEF IInv, ConsInv, TypeOK, FullNeverEmpty
<1>2. /\ Level(writep, readp) \in Nat
      /\ readp' \in 0 .. BSize
      /\ Level(writep, readp') = Level(writep, readp) - n
      /\ \A i \in Nat \ {0} : i <= Level(writep, readp) - n =>
           Slot(readp', i) = Slot(readp, n + i)
  <2> DEFINE to == After(readp, GetRun(ww, readp, n), n)
  <2>2. readp' = to
    BY <1>1 DEF GetEnd
  <2> HIDE DEF n, ww
  <2>1. /\ to \in 0 .. BSize
        /\ Level(writep, to) = Level(writep, readp) - n
        /\ \A i \in Nat \ {0} : i <= Level(writep, readp) - n =>
             Slot(to, i) = Slot(readp, n + i)
    BY <1>1, AdvanceRead
  <2>3. Level(writep, readp) \in Nat
    BY <1>1, LevelSlot
  <2> HIDE DEF to
  <2> QED
    BY <2>1, <2>2, <2>3
<1>3. FullNeverEmpty'
  BY <1>1, <1>2 DEF FullNeverEmpty
<1>4. ProdInv'
  <2>1. ASSUME prod.pc \in {"copy", "publish"}
        PROVE  Level(writep, readp') + prod.size < BSize
    <3>1. prod.size \in Nat /\ Level(writep, readp) + prod.size < BSize
      BY <2>1 DEF IInv, ProdInv
    <3> QED
      BY <3>1, <1>1, <1>2
  <2> QED
    BY <2>1 DEF IInv, ProdInv
<1> QED
  BY <1>1, <1>2, <1>3, <1>4

(* The store of readp by a get or a skip keeps it. *)
LEMMA GetAdvanceInv == IInv /\ (GetAdvance \/ GetAdvanceEarly) => IInv'
<1> SUFFICES ASSUME IInv, GetAdvance \/ GetAdvanceEarly PROVE IInv'
  OBVIOUS
<1>1. /\ readp' \in 0 .. BSize /\ consumed' \in Nat
      /\ (FullNeverEmpty /\ ProdInv)'
  BY ReadMoves DEF GetAdvance, GetAdvanceEarly
<1>2. CASE GetAdvance
  <2>1. handed' \in Seq(Int)
    BY <1>2 DEF IInv, TypeOK, GetAdvance
  <2>2. (TypeOK /\ ConsInv)'
    BY <1>1, <1>2, <2>1 DEF IInv, TypeOK, GetAdvance, ConsInv, IdleCons, Ops
  <2> QED
    BY <1>1, <2>2 DEF IInv
<1>3. CASE GetAdvanceEarly
  <2>1. cons' = [cons EXCEPT !.pc = "late"]
    BY <1>3 DEF GetAdvanceEarly
  <2>2. (TypeOK /\ ConsInv)'
    BY <1>1, <1>3, <2>1 DEF IInv, TypeOK, GetAdvanceEarly, ConsInv
  <2> QED
    BY <1>1, <2>2 DEF IInv
<1> QED
  BY <1>2, <1>3

(* A peek leaves readp alone, or moves it as a get would. *)
LEMMA PeekMoves ==
  ASSUME IInv, PeekReturn
  PROVE  \/ UNCHANGED <<readp, consumed>>
         \/ readp' = GetEnd /\ consumed' = consumed + cons.size
<1>1. /\ cons.size \in Nat \ {0} /\ readp \in 0 .. BSize /\ cons.w \in 0 .. BSize
      /\ consumed \in Nat /\ cons.r = readp
  BY DEF IInv, PeekReturn, ConsInv, TypeOK
<1> QED
  BY <1>1, PeekEndCases DEF PeekReturn, GetEnd

(* So does the readp a peek leaves behind. *)
LEMMA PeekReturnInv == IInv /\ PeekReturn => IInv'
<1> SUFFICES ASSUME IInv, PeekReturn PROVE IInv'
  OBVIOUS
<1>1. /\ readp' \in 0 .. BSize /\ consumed' \in Nat
      /\ (FullNeverEmpty /\ ProdInv)'
  <2>1. CASE UNCHANGED <<readp, consumed>>
    BY <2>1 DEF PeekReturn, IInv, TypeOK, FullNeverEmpty, ProdInv
  <2>2. CASE readp' = GetEnd /\ consumed' = consumed + cons.size
    BY <2>2, ReadMoves DEF PeekReturn
  <2> QED
    BY <2>1, <2>2, PeekMoves
<1>2. TypeOK'
  BY <1>1 DEF IInv, TypeOK, PeekReturn, IdleCons, Ops
<1>3. ConsInv'
  BY DEF PeekReturn, ConsInv, IdleCons
<1> QED
  BY <1>1, <1>2, <1>3 DEF IInv

(* Every step of the two threads keeps the invariant of the indices. *)
LEMMA StepInv == IInv /\ [Next]_vars => IInv'
<1>1. IInv /\ UNCHANGED vars => IInv'
  BY DEF IInv, vars, TypeOK, FullNeverEmpty, ProdInv, ConsInv
<1> QED
  BY <1>1, PutCheckInv, PutCopyInv, PutPublishInv, GetCheckInv, GetCopyInv,
     GetAdvanceInv, PeekReturnInv DEF Next, Producer, Consumer

(* The indices, and what each call in progress has concluded from them,    *)
(* agree as IInv says however puts and gets interleave and in whatever     *)
(* order their accesses take effect.                                       *)
THEOREM Invariance == Spec => []IInv
BY InitInv, StepInv, PTL DEF Spec

(* The index and buffer types of buffer_fifo_t are kept by every call. *)
THEOREM TypeCorrect == Spec => []TypeOK
<1>1. IInv => TypeOK
  BY DEF IInv
<1> QED
  BY <1>1, Invariance, PTL

(* writep and readp always account for the bytes accepted and not          *)
(* consumed, and a full fifo never looks empty (the strict test in         *)
(* buffer_fifoPut), in any order of the memory accesses.                   *)
THEOREM NeverFull == Spec => []FullNeverEmpty
<1>1. IInv => FullNeverEmpty
  BY DEF IInv
<1> QED
  BY <1>1, Invariance, PTL

-----------------------------------------------------------------------------
(* A new fifo holds no byte, hence none that is wrong. *)
LEMMA InitData == Init => DInv
BY InitInv DEF Init, DInv, IInv, InOrder, CopiedOutRight, Written, Level, IdleProd, IdleCons

(* Steps that touch neither the buffer nor an index. *)
LEMMA QuietData ==
  ASSUME DInv, IInv', UNCHANGED <<writep, readp, buf, accepted, consumed>>,
         prod' = prod \/ prod'.pc = "copy",
         \/ cons' = cons
         \/ cons'.pc = "copy"
         \/ cons'.pc = "advance" /\ cons'.op = "skip"
  PROVE  DInv'
BY DEF DInv, InOrder, CopiedOutRight, Written

(* The checks of a put, get, peek or skip touch no byte. *)
LEMMA CheckData ==
  ASSUME DInv, IInv',
         (\E n \in PutSizes : PutCheck(n)) \/ (\E q \in Requests : GetCheck(q))
  PROVE  DInv'
<1>1. ASSUME NEW n \in PutSizes, PutCheck(n) PROVE DInv'
  <2>1. /\ UNCHANGED <<writep, readp, buf, accepted, consumed>>
        /\ prod'.pc = "copy" /\ cons' = cons
    BY <1>1 DEF PutCheck
  <2> QED
    BY <2>1, QuietData
<1>2. ASSUME NEW q \in Requests, GetCheck(q) PROVE DInv'
  <2>1. /\ UNCHANGED <<writep, readp, buf, accepted, consumed>>
        /\ prod' = prod
    BY <1>2 DEF GetCheck
  <2>2. cons'.pc = "copy" \/ (cons'.pc = "advance" /\ cons'.op = "skip")
    BY <1>2 DEF GetCheck
  <2> QED
    BY <2>1, <2>2, QuietData
<1> QED
  BY <1>1, <1>2

(* The memcpy's of a put: they change no unread byte, and leave the block  *)
(* behind writep, going round the buffer.                                  *)
LEMMA PutCopyData == ASSUME DInv, IInv', PutCopy PROVE DInv'
<1> DEFINE n == prod.size
           run == PutRun(writep, prod.r, n)
<1>1. /\ n \in Nat \ {0}
      /\ writep \in 0 .. BSize /\ readp \in 0 .. BSize
      /\ prod.r \in 0 .. BSize /\ accepted \in Nat
      /\ prod.w = writep
      /\ prod.r <= writep \/ writep + n < prod.r
      /\ Level(writep, readp) + n < BSize
  BY DEF DInv, IInv, PutCopy, ProdInv, TypeOK
<1>2. /\ run \in 0 .. n
      /\ writep + run <= BSize
      /\ run < n => writep + run = BSize
  BY <1>1 DEF PutRun
<1>3. buf' = [s \in Slots |-> IF s \in writep .. writep + run - 1
                                THEN accepted + (s - writep)
                              ELSE IF s < n - run THEN accepted + run + s
                              ELSE buf[s]]
  BY <1>1 DEF PutCopy, Filled
<1>4. \A i \in 1 .. n : buf'[Slot(writep, i)] = accepted + i - 1
  <2> SUFFICES ASSUME NEW i \in 1 .. n PROVE buf'[Slot(writep, i)] = accepted + i - 1
    OBVIOUS
  <2>0. n < BSize
    BY <1>1 DEF Level
  <2>1. CASE i <= run
    <3>1. Slot(writep, i) = writep + i - 1
      BY <2>1, <1>1, <1>2 DEF Slot
    <3> QED
      BY <3>1, <2>1, <1>1, <1>2, <1>3 DEF Slots
  <2>2. CASE i > run
    <3>1. Slot(writep, i) = i - run - 1 /\ i - run - 1 \in Slots
      BY <2>0, <2>2, <1>1, <1>2 DEF Slot, Slots
    <3>2. i - run - 1 < writep
      BY <2>0, <2>2, <1>1, <1>2
    <3> QED
      BY <3>1, <3>2, <2>2, <1>1, <1>2, <1>3
  <2> QED
    BY <2>1, <2>2, <1>1, <1>2
<1>5. \A i \in 1 .. Level(writep, readp) :
        buf'[Slot(readp, i)] = buf[Slot(readp, i)]
  <2> SUFFICES ASSUME NEW i \in 1 .. Level(writep, readp)
               PROVE  buf'[Slot(readp, i)] = buf[Slot(readp, i)]
    OBVIOUS
  <2> DEFINE s == Slot(readp, i)
  <2>1. s \in Slots
    BY <1>1 DEF Slot, Slots, Level
  <2>2. s \notin writep .. writep + run - 1 /\ ~(s < n - run)
    <3>1. CASE writep >= readp
      <4>1. s = readp + i - 1 /\ s < writep /\ s >= readp /\ s \in Int
        BY <1>1, <3>1 DEF Slot, Level
      <4>2. n - run <= readp
        BY <1>1, <1>2, <3>1 DEF Level
      <4> HIDE DEF s, run, n
      <4> QED
        BY <4>1, <4>2, <1>1, <1>2
    <3>2. CASE writep < readp
      <4>1. writep + n < readp
        BY <1>1, <3>2 DEF Level
      <4>2. n = run
        BY <4>1, <1>1, <1>2
      <4>3. s \in Int /\ (s >= readp \/ (0 <= s /\ s < writep))
        BY <1>1, <3>2 DEF Slot, Level
      <4> HIDE DEF s, run, n
      <4> QED
        BY <4>1, <4>2, <4>3, <1>1, <1>2, <3>2
    <3> QED
      BY <3>1, <3>2, <1>1
  <2> HIDE DEF s, run, n
  <2>3. buf'[s] = buf[s]
    BY <2>1, <2>2, <1>3
  <2> QED
    BY <2>3 DEF s
<1>6. (InOrder /\ CopiedOutRight)'
  BY <1>5 DEF DInv, PutCopy, InOrder, CopiedOutRight
<1>7. prod'.pc = "publish" /\ prod'.size = n
  BY DEF PutCopy, DInv, IInv, TypeOK
<1>8. Written'
  BY <1>4, <1>7 DEF PutCopy, Written
<1> QED
  BY <1>6, <1>7, <1>8 DEF DInv, PutCopy

(* Publishing appends the block to the unread bytes. *)
LEMMA PutPublishData == ASSUME DInv, IInv', PutPublish PROVE DInv'
<1> DEFINE n == prod.size
           m == Level(writep, readp)
<1>1. /\ m \in Nat
      /\ Level(writep', readp) = m + n
      /\ \A i \in 1 .. n : Slot(writep, i) = Slot(readp, m + i)
  BY WriteMoves DEF DInv, PutPublish
<1>2. /\ n \in Nat /\ accepted \in Nat /\ consumed \in Nat
      /\ accepted - consumed = m
      /\ \A i \in 1 .. n : buf[Slot(writep, i)] = accepted + i - 1
  BY DEF DInv, IInv, PutPublish, ProdInv, TypeOK, FullNeverEmpty, Written
<1> HIDE DEF n, m
<1>3. InOrder'
  <2> SUFFICES ASSUME NEW i \in 1 .. Level(writep', readp)
               PROVE  buf[Slot(readp, i)] = consumed + i - 1
    BY DEF InOrder, PutPublish
  <2>1. CASE i <= m
    BY <1>1, <2>1 DEF DInv, InOrder, m
  <2>2. CASE i > m
    <3> DEFINE j == i - m
    <3>1. j \in 1 .. n /\ i = m + j
      BY <1>1, <1>2, <2>2
    <3>2. buf[Slot(readp, i)] = accepted + j - 1
      BY <3>1, <1>1, <1>2
    <3> QED
      BY <3>1, <3>2, <1>1, <1>2
  <2> QED
    BY <2>1, <2>2, <1>1, <1>2
<1> QED
  BY <1>3 DEF DInv, PutPublish, CopiedOutRight, Written, IdleProd

(* The memcpy's of a get or a peek copy the next bytes of the stream. *)
LEMMA GetCopyData == ASSUME DInv, IInv', GetCopy PROVE DInv'
<1> DEFINE n == cons.size
<1>1. CopiedOut = [i \in 1 .. n |-> buf[Slot(cons.r, i)]]
  BY CopiedOutIs DEF DInv, GetCopy
<1>2. /\ n \in Nat /\ n <= Level(writep, readp) /\ cons.r = readp
      /\ Level(writep, readp) \in Nat
  BY LevelSlot DEF DInv, IInv, GetCopy, ConsInv, TypeOK, FullNeverEmpty
<1>3. CopiedOut = [i \in 1 .. n |-> consumed + i - 1]
  <2>1. \A i \in 1 .. n : buf[Slot(readp, i)] = consumed + i - 1
    BY <1>2 DEF DInv, InOrder
  <2> QED
    BY <1>1, <1>2, <2>1
<1>4. cons'.pc = "advance" /\ cons'.size = n /\ cons'.data = CopiedOut
  BY DEF GetCopy, DInv, IInv, TypeOK
<1> QED
  BY <1>3, <1>4 DEF DInv, GetCopy, InOrder, CopiedOutRight, Written

(* Moving readp on keeps the order of the bytes that stay. *)
LEMMA ReadMovesData ==
  ASSUME DInv, IInv', cons.pc = "advance", readp' = GetEnd, cons' = IdleCons,
         consumed' = consumed + cons.size,
         UNCHANGED <<writep, buf, prod, accepted>>
  PROVE  DInv'
<1> DEFINE n == cons.size
           m == Level(writep, readp)
<1>1. /\ Level(writep, readp') = m - n
      /\ \A i \in Nat \ {0} : i <= m - n => Slot(readp', i) = Slot(readp, n + i)
  BY ReadMoves DEF DInv
<1>2. n \in Nat /\ m \in Nat /\ n <= m /\ consumed \in Nat
  BY LevelSlot DEF DInv, IInv, ConsInv, TypeOK, FullNeverEmpty
<1> HIDE DEF n, m
<1>3. InOrder'
  <2> SUFFICES ASSUME NEW i \in 1 .. Level(writep, readp')
               PROVE  buf[Slot(readp', i)] = consumed + n + i - 1
    BY DEF InOrder, n
  <2>1. n + i \in 1 .. m /\ Slot(readp', i) = Slot(readp, n + i)
    BY <1>1, <1>2
  <2>2. buf[Slot(readp, n + i)] = consumed + (n + i) - 1
    BY <2>1 DEF DInv, InOrder, m
  <2> QED
    BY <2>1, <2>2, <1>2
<1> QED
  BY <1>3 DEF DInv, CopiedOutRight, Written, IdleCons

(* A get or a skip that moves readp on keeps the stream in order. *)
LEMMA GetAdvanceData == ASSUME DInv, IInv', GetAdvance PROVE DInv'
BY ReadMovesData DEF GetAdvance

(* So does a peek, whether or not it moves readp. *)
LEMMA PeekReturnData == ASSUME DInv, IInv', PeekReturn PROVE DInv'
<1>1. CASE UNCHANGED <<readp, consumed>>
  BY <1>1 DEF DInv, PeekReturn, InOrder, CopiedOutRight, Written, IdleCons
<1>2. CASE readp' = GetEnd /\ consumed' = consumed + cons.size
  BY <1>2, ReadMovesData DEF PeekReturn
<1> QED
  BY <1>1, <1>2, PeekMoves DEF DInv

(* With ordered accesses every step keeps the invariant of the bytes. *)
LEMMA StepData == ASSUME Ordered, DInv, [Next]_vars PROVE DInv'
<1>1. IInv'
  BY StepInv DEF DInv
<1>2. CASE UNCHANGED vars
  BY <1>1, <1>2 DEF DInv, vars, InOrder, CopiedOutRight, Written
<1>3. ~ (PutPublishEarly \/ PutCopyLate \/ GetAdvanceEarly \/ GetCopyLate)
  BY DEF DInv, PutPublishEarly, PutCopyLate, GetAdvanceEarly, GetCopyLate
<1> QED
  BY <1>1, <1>2, <1>3, CheckData, PutCopyData, PutPublishData, GetCopyData,
     GetAdvanceData, PeekReturnData DEF Next, Producer, Consumer

(* Every byte property below rests on this one. *)
THEOREM DataInvariance == ASSUME Ordered PROVE Spec => []DInv
<1>1. DInv /\ [Next]_vars => DInv'
  BY StepData
<1> QED
  BY <1>1, InitData, PTL DEF Spec

(* The bytes between the indices are the next bytes of the stream, in      *)
(* order and complete, in every interleaving of puts, gets and peeks.      *)
THEOREM StreamInOrder == ASSUME Ordered PROVE Spec => []InOrder
<1>1. DInv => InOrder
  BY DEF DInv
<1> QED
  BY <1>1, DataInvariance, PTL

(* A get or a peek hands its caller the next bytes of the stream. *)
THEOREM CopyCorrect == ASSUME Ordered PROVE Spec => []CopiedOutRight
<1>1. DInv => CopiedOutRight
  BY DEF DInv
<1> QED
  BY <1>1, DataInvariance, PTL

(* The room the put found keeps its block apart from the unread bytes. *)
LEMMA DInvNoOverwrite == DInv => NoOverwrite
<1> SUFFICES ASSUME DInv, prod.pc # "idle" PROVE NoOverwrite
  BY DEF NoOverwrite, Writing
<1> DEFINE n == prod.size
           run == PutRun(writep, prod.r, n)
<1>1. /\ n \in Nat \ {0}
      /\ writep \in 0 .. BSize /\ readp \in 0 .. BSize /\ prod.r \in 0 .. BSize
      /\ prod.w = writep
      /\ prod.r <= writep \/ writep + n < prod.r
      /\ Level(writep, readp) + n < BSize
  BY DEF DInv, IInv, ProdInv, TypeOK
<1>2. /\ run \in 0 .. n
      /\ writep + run <= BSize
      /\ run < n => writep + run = BSize
  BY <1>1 DEF PutRun
<1>3. Writing = writep .. writep + run - 1 \cup 0 .. n - run - 1
  BY <1>1 DEF Writing
<1>4. /\ Level(writep, readp) \in Nat
      /\ n < BSize
  BY <1>1 DEF Level
<1> HIDE DEF n, run
<1>5. Writing \subseteq Slots
  BY <1>1, <1>2, <1>3, <1>4 DEF Slots
<1>6. ASSUME NEW i \in 1 .. Level(writep, readp)
      PROVE  Slot(readp, i) \notin Writing
  BY <1>1, <1>2, <1>3, <1>4 DEF Slot, Level
<1> QED
  BY <1>5, <1>6 DEF NoOverwrite, Unread

(* A put that decided on an out-of-date readp stays inside the buffer and  *)
(* touches no byte the consumer has still to read or is copying out.       *)
THEOREM WritesAreDisjoint == ASSUME Ordered PROVE Spec => []NoOverwrite
BY DInvNoOverwrite, DataInvariance, PTL

-----------------------------------------------------------------------------
(* The request in progress is one the consumer makes. *)
Requested ==
  cons.pc # "idle" => \E q \in Requests : q.op = cons.op /\ q.size = cons.size

(* The request in progress is always one of the consumer's. *)
LEMMA RequestedInv == Spec => []Requested
<1>1. Init => Requested
  BY DEF Init, Requested, IdleCons
<1>2. TypeOK /\ Requested /\ [Next]_vars => Requested'
  <2> SUFFICES ASSUME TypeOK, Requested, [Next]_vars PROVE Requested'
    OBVIOUS
  <2>1. ASSUME NEW q \in Requests, GetCheck(q) PROVE Requested'
    BY <2>1 DEF GetCheck, Requested
  <2>2. CASE GetCopy \/ GetAdvanceEarly
    <3>1. cons'.op = cons.op /\ cons'.size = cons.size /\ cons.pc = "copy"
      BY <2>2 DEF GetCopy, GetAdvanceEarly, TypeOK
    <3> QED
      BY <3>1 DEF Requested
  <2>3. CASE GetAdvance \/ GetCopyLate \/ PeekReturn
    BY <2>3 DEF GetAdvance, GetCopyLate, PeekReturn, Requested, IdleCons
  <2>4. CASE Producer \/ UNCHANGED vars
    BY <2>4 DEF Producer, PutCheck, PutCopy, PutPublish, PutPublishEarly,
                    PutCopyLate, vars, Requested
  <2> QED
    BY <2>1, <2>2, <2>3, <2>4 DEF Next, Consumer
<1> QED
  BY <1>1, <1>2, TypeCorrect, PTL DEF Spec

(* The contents the fifo shows are determined by the two histories. *)
LEMMA ContentsAre ==
  DInv => /\ Contents = [i \in 1 .. Level(writep, readp) |-> consumed + i - 1]
          /\ Contents \in Seq(Int)
          /\ Len(Contents) = Level(writep, readp)
<1> SUFFICES ASSUME DInv
             PROVE  /\ Contents = [i \in 1 .. Level(writep, readp) |-> consumed + i - 1]
                    /\ Contents \in Seq(Int)
                    /\ Len(Contents) = Level(writep, readp)
  OBVIOUS
<1>1. Level(writep, readp) \in Nat /\ consumed \in Nat
  BY LevelSlot DEF DInv, IInv, TypeOK, FullNeverEmpty
<1>2. Contents = [i \in 1 .. Level(writep, readp) |-> consumed + i - 1]
  BY DEF Contents, DInv, InOrder
<1> QED
  BY <1>1, <1>2

(* The bytes accepted are those consumed and those between the indices. *)
LEMMA Accounts ==
  DInv => /\ Level(writep, readp) \in Nat /\ consumed \in Nat /\ accepted \in Nat
          /\ Level(writep, readp) = accepted - consumed
          /\ accepted = consumed + Level(writep, readp)
<1>1. DInv => /\ Level(writep, readp) \in Nat /\ consumed \in Nat /\ accepted \in Nat
              /\ accepted - consumed = Level(writep, readp)
  BY LevelSlot DEF DInv, IInv, TypeOK, FullNeverEmpty
<1> QED
  BY <1>1

(* The same of the next state. *)
LEMMA NextContents ==
  DInv' => /\ Contents' = [i \in 1 .. Level(writep', readp') |-> consumed' + i - 1]
           /\ Level(writep', readp') = accepted' - consumed'
<1> DEFINE Known == /\ Contents = [i \in 1 .. Level(writep, readp) |-> consumed + i - 1]
                    /\ Level(writep, readp) = accepted - consumed
<1>1. DInv => Known
  BY ContentsAre, Accounts
<1>2. DInv' => Known'
  <2> HIDE DEF Known
  <2> QED
    BY <1>1, PTL
<1> QED
  BY <1>2

(* Dropping and extending runs of consecutive numbers. *)
LEMMA DropRun ==
  ASSUME NEW m \in Nat, NEW n \in Nat, NEW c \in Nat, n <= m
  PROVE  LET s == [i \in 1 .. m |-> c + i - 1]
         IN  /\ SubSeq(s, n + 1, Len(s)) = [i \in 1 .. m - n |-> c + n + i - 1]
             /\ SubSeq(s, 1, n) = [i \in 1 .. n |-> c + i - 1]
OBVIOUS

(* Two adjacent runs of consecutive numbers make one. *)
LEMMA ExtendRun ==
  ASSUME NEW m \in Nat, NEW n \in Nat, NEW c \in Nat
  PROVE  [i \in 1 .. m |-> c + i - 1] \o [i \in 1 .. n |-> c + m + i - 1]
         = [i \in 1 .. m + n |-> c + i - 1]
OBVIOUS

(* The empty fifo is the empty queue. *)
LEMMA RefineInit == Init => Queue!QInit
<1> SUFFICES ASSUME Init PROVE Queue!QInit
  OBVIOUS
<1>1. Level(writep, readp) = 0
  BY DEF Init, Level
<1>2. Contents = <<>>
  BY <1>1 DEF Contents
<1> QED
  BY <1>2 DEF Init, Queue!QInit

(* A step that leaves the indices and the unread bytes alone is not seen. *)
LEMMA RefineQuiet ==
  ASSUME DInv, DInv', UNCHANGED <<writep, readp, accepted, consumed, handed>>
  PROVE  UNCHANGED Queue!qvars
<1>1. Contents = [i \in 1 .. Level(writep, readp) |-> consumed + i - 1]
  BY ContentsAre
<1>2. Contents' = [i \in 1 .. Level(writep', readp') |-> consumed' + i - 1]
  BY NextContents
<1> QED
  BY <1>1, <1>2 DEF Queue!qvars

(* Publishing a block is the queue's put of it. *)
LEMMA RefinePut == DInv /\ DInv' /\ PutPublish => \E n \in PutSizes : Queue!QPut(n)
<1> SUFFICES ASSUME DInv, DInv', PutPublish PROVE Queue!QPut(prod.size) /\ prod.size \in PutSizes
  OBVIOUS
<1> DEFINE n == prod.size
           m == Level(writep, readp)
           c == consumed
<1>1. /\ n \in PutSizes /\ n \in Nat /\ m \in Nat /\ c \in Nat /\ accepted \in Nat
      /\ accepted + n <= MaxBytes /\ m + n < BSize /\ accepted = c + m
  BY Accounts DEF DInv, IInv, PutPublish, ProdInv
<1>2. Level(writep', readp') = m + n
  <2>1. accepted' = accepted + n /\ consumed' = c
    BY DEF PutPublish
  <2> QED
    BY <2>1, <1>1, NextContents
<1>3. Contents = [i \in 1 .. m |-> c + i - 1] /\ Len(Contents) = m
  BY ContentsAre
<1>4. Contents' = [i \in 1 .. m + n |-> c + i - 1]
  <2>1. Contents' = [i \in 1 .. Level(writep', readp') |-> consumed' + i - 1]
    BY NextContents
  <2>2. consumed' = c
    BY DEF PutPublish
  <2> QED
    BY <2>1, <2>2, <1>2
<1>5. Contents' = Contents \o [i \in 1 .. n |-> accepted + i - 1]
  <2>1. [i \in 1 .. n |-> accepted + i - 1] = [i \in 1 .. n |-> c + m + i - 1]
    BY <1>1
  <2> HIDE DEF n, m, c
  <2> QED
    BY <2>1, <1>1, <1>3, <1>4, ExtendRun
<1>6. accepted' = accepted + n /\ handed' = handed
  BY DEF PutPublish
<1> QED
  BY <1>1, <1>3, <1>5, <1>6 DEF Queue!QPut

(* A request in progress finds its bytes at the head of the queue. *)
LEMMA RefineHead ==
  ASSUME DInv, cons.pc = "advance"
  PROVE  /\ cons.size \in Nat
         /\ cons.size <= Len(Contents)
         /\ SubSeq(Contents, 1, cons.size) = [i \in 1 .. cons.size |-> consumed + i - 1]
<1> DEFINE n == cons.size
           m == Level(writep, readp)
           c == consumed
<1>1. n \in Nat /\ m \in Nat /\ c \in Nat /\ n <= m
  BY Accounts DEF DInv, IInv, ConsInv
<1>2. Contents = [i \in 1 .. m |-> c + i - 1] /\ Len(Contents) = m
  BY ContentsAre
<1> HIDE DEF n, m, c
<1>3. SubSeq(Contents, 1, n) = [i \in 1 .. n |-> c + i - 1]
  BY <1>1, <1>2, DropRun
<1> QED
  BY <1>1, <1>2, <1>3 DEF n, c

(* Moving readp over them takes them off the queue. *)
LEMMA RefineAdvance ==
  ASSUME DInv, DInv', cons.pc = "advance",
         consumed' = consumed + cons.size, accepted' = accepted
  PROVE  Contents' = SubSeq(Contents, cons.size + 1, Len(Contents))
<1> DEFINE n == cons.size
           m == Level(writep, readp)
           c == consumed
<1>1. n \in Nat /\ m \in Nat /\ c \in Nat /\ n <= m /\ accepted \in Nat /\ accepted - c = m
  BY Accounts DEF DInv, IInv, ConsInv
<1>2. consumed' = c + n /\ accepted' = accepted
  OBVIOUS
<1>3. Level(writep', readp') = m - n
  BY <1>1, <1>2, NextContents
<1>4. Contents = [i \in 1 .. m |-> c + i - 1] /\ Len(Contents) = m
  BY ContentsAre
<1>5. Contents' = [i \in 1 .. Level(writep', readp') |-> consumed' + i - 1]
  BY NextContents
<1>6. Contents' = [i \in 1 .. m - n |-> c + n + i - 1]
  BY <1>5, <1>2, <1>3
<1> HIDE DEF n, m, c
<1>7. SubSeq(Contents, n + 1, Len(Contents)) = [i \in 1 .. m - n |-> c + n + i - 1]
  BY <1>1, <1>4, DropRun
<1> QED
  BY <1>1, <1>4, <1>6, <1>7 DEF n, c

(* The end of a get or a skip is the queue's get or skip. *)
LEMMA RefineGet ==
  ASSUME DInv, DInv', Requested, GetAdvance PROVE Queue!QNext
<1>1. PICK q \in Requests : q.op = cons.op /\ q.size = cons.size
  BY DEF Requested, GetAdvance
<1>2. cons.op \in {"get", "skip"} /\ accepted' = accepted
  BY DEF DInv, IInv, TypeOK, GetAdvance, Ops
<1>3. Contents' = SubSeq(Contents, cons.size + 1, Len(Contents))
  BY RefineAdvance DEF GetAdvance
<1>4. CASE cons.op = "get"
  <2>1. handed' = SubSeq(Contents, 1, cons.size)
    BY <1>4, RefineHead DEF GetAdvance, DInv, CopiedOutRight
  <2>2. Queue!QGet(q.size)
    BY <2>1, <1>1, <1>2, <1>3, RefineHead DEF GetAdvance, Queue!QGet, Queue!Drop
  <2> QED
    BY <2>2, <1>1, <1>4 DEF Queue!QNext
<1>5. CASE cons.op = "skip"
  <2>1. handed' = handed
    BY <1>5 DEF GetAdvance
  <2>2. Queue!QSkip(q.size)
    BY <2>1, <1>1, <1>2, <1>3, RefineHead DEF GetAdvance, Queue!QSkip, Queue!Drop
  <2> QED
    BY <2>2, <1>1, <1>5 DEF Queue!QNext
<1> QED
  BY <1>2, <1>4, <1>5

(* The end of a peek is the queue's peek, which may keep the bytes or not. *)
LEMMA RefinePeek ==
  ASSUME DInv, DInv', Requested, PeekReturn PROVE Queue!QNext
<1>1. PICK q \in Requests : q.op = cons.op /\ q.size = cons.size
  BY DEF Requested, PeekReturn
<1>2. cons.pc = "advance" /\ cons.op = "peek" /\ accepted' = accepted /\ handed' = cons.data
  BY DEF PeekReturn
<1>3. handed' = SubSeq(Contents, 1, cons.size)
  BY <1>2, RefineHead DEF DInv, CopiedOutRight
<1>4. Contents' \in {Contents, SubSeq(Contents, cons.size + 1, Len(Contents))}
  <2>1. CASE readp' = GetEnd /\ consumed' = consumed + cons.size
    BY <2>1, <1>2, RefineAdvance
  <2>2. CASE readp' = readp /\ consumed' = consumed
    <3>1. Contents = [i \in 1 .. Level(writep, readp) |-> consumed + i - 1]
      BY ContentsAre
    <3>2. Contents' = [i \in 1 .. Level(writep', readp') |-> consumed' + i - 1]
      BY NextContents
    <3>3. writep' = writep
      BY DEF PeekReturn
    <3> QED
      BY <2>2, <3>1, <3>2, <3>3
  <2> QED
    BY <2>1, <2>2, PeekMoves DEF DInv
<1>5. Queue!QPeek(q.size)
  BY <1>1, <1>2, <1>3, <1>4, RefineHead DEF Queue!QPeek, Queue!Drop
<1> QED
  BY <1>5, <1>1, <1>2 DEF Queue!QNext

(* The fifo is a queue of BSize - 1 bytes to one producer and one consumer,*)
(* whatever the sizes they use: each call is a step of the queue at the    *)
(* store of its index, and a stutter before.                               *)
THEOREM Refinement == ASSUME Ordered PROVE Spec => Implements
<1>1. DInv /\ DInv' /\ Requested /\ [Next]_vars => [Queue!QNext]_(Queue!qvars)
  <2> SUFFICES ASSUME DInv, DInv', Requested, [Next]_vars
               PROVE  [Queue!QNext]_(Queue!qvars)
    OBVIOUS
  <2>1. CASE PutPublish
    BY <2>1, RefinePut DEF Queue!QNext
  <2>2. CASE GetAdvance
    BY <2>2, RefineGet
  <2>3. CASE PeekReturn
    BY <2>3, RefinePeek
  <2>4. CASE \/ \E n \in PutSizes : PutCheck(n)
             \/ PutCopy
             \/ \E q \in Requests : GetCheck(q)
             \/ GetCopy
             \/ UNCHANGED vars
    <3>1. UNCHANGED <<writep, readp, accepted, consumed, handed>>
      BY <2>4 DEF PutCheck, PutCopy, GetCheck, GetCopy, vars
    <3> QED
      BY <3>1, RefineQuiet
  <2>5. ~ (PutPublishEarly \/ PutCopyLate \/ GetAdvanceEarly \/ GetCopyLate)
    BY DEF DInv, PutPublishEarly, PutCopyLate, GetAdvanceEarly, GetCopyLate
  <2> QED
    BY <2>1, <2>2, <2>3, <2>4, <2>5 DEF Next, Producer, Consumer
<1> QED
  BY <1>1, RefineInit, DataInvariance, RequestedInv, PTL DEF Spec, Implements, Queue!QSpec
=============================================================================
