---------------------------- MODULE RamFs_proofs ----------------------------
(***************************************************************************)
(* Proofs about RamFs for any number of mux threads, servents and handles, *)
(* any queue, any caches and block sizes: the requests and the handles with*)
(* failing closes, a full queue and a quit; the bytes of a file; and what  *)
(* holds when the queue and the slots are long enough.                     *)
(***************************************************************************)
EXTENDS RamFs, FiniteSetTheorems, TLAPS

(* A set of naturals that is not empty has a smallest element. *)
LEMMA SmallestElement ==
  ASSUME NEW S \in SUBSET Nat, S # {}
  PROVE  \E m \in S : \A x \in S : m <= x
<1> DEFINE R == {ss \in Nat \X Nat : ss[1] < ss[2]}
<1>1. IsWellFoundedOn(R, Nat)
  BY NatLessThanWellFounded DEF OpToRel
<1>2. \A x, m \in Nat : x < m => <<x, m>> \in R
  OBVIOUS
<1> HIDE DEF R
<1>3. PICK m \in S : \A x \in S : ~(<<x, m>> \in R)
  BY <1>1, WFMin
<1>4. \A x \in S : x \in Nat /\ m \in Nat /\ ~(x < m)
  BY <1>2, <1>3
<1>5. \A x \in S : m <= x
  BY <1>4
<1> QED
  BY <1>5

(* Min of two numbers. *)
LEMMA MinOfTwo ==
  ASSUME NEW a \in Nat, NEW b \in Nat
  PROVE  /\ Min({a, b}) \in {a, b} /\ Min({a, b}) <= a /\ Min({a, b}) <= b
         /\ Min({a, b}) \in Nat
<1>1. \E x \in {a, b} : \A y \in {a, b} : x <= y
  BY a <= b \/ b <= a
<1>2. Min({a, b}) \in {a, b} /\ \A y \in {a, b} : Min({a, b}) <= y
  BY <1>1 DEF Min
<1> QED
  BY <1>2

(* Min of three numbers. *)
LEMMA MinOfThree ==
  ASSUME NEW a \in Nat, NEW b \in Nat, NEW d \in Nat
  PROVE  /\ Min({a, b, d}) \in {a, b, d}
         /\ Min({a, b, d}) <= a /\ Min({a, b, d}) <= b /\ Min({a, b, d}) <= d
         /\ Min({a, b, d}) \in Nat
<1>1. PICK x \in {a, b, d} : \A y \in {a, b, d} : x <= y
  BY SmallestElement
<1>2. Min({a, b, d}) \in {a, b, d} /\ \A y \in {a, b, d} : Min({a, b, d}) <= y
  BY <1>1 DEF Min
<1> QED
  BY <1>2

Requests == 1 .. Len(queue)

(* A message carries a handle exactly when its sender waits for it.        *)
Wellformed(m) == IF m.op \in Sync THEN m.h \in Handles ELSE m.op \in Async /\ m.h = NoHandle

(* A handle is in one message at most, in the queue or with the worker, or *)
(* has one token on its semaphore.                                         *)
MsgInv ==
  /\ \A i \in Requests : Wellformed(queue[i])
  /\ IF worker.pc = "serve" THEN Wellformed(worker.msg) ELSE worker.msg = NoMsg
  /\ \A i, j \in Requests : queue[i].h = queue[j].h /\ queue[i].h # NoHandle => i = j
  /\ \A i \in Requests : queue[i].h # NoHandle =>
       queue[i].h # worker.msg.h /\ fop[queue[i].h].sem = 0
  /\ worker.msg.h # NoHandle => fop[worker.msg.h].sem = 0
  /\ \A h \in Handles : fop[h].sem \in {0, 1}

(* What is asked or answered for a handle its owner waits for; and while   *)
(* the service runs there is something on the way for who waits.           *)
OwnerInv ==
  /\ \A i \in Requests : queue[i].h # NoHandle =>
       \E c \in Clients : client[c].h = queue[i].h /\ client[c].pc = queue[i].op
  /\ worker.msg.h # NoHandle =>
       \E c \in Clients : client[c].h = worker.msg.h /\ client[c].pc = worker.msg.op
  /\ \A h \in Handles : fop[h].sem > 0 => \E c \in Clients : client[c].h = h /\ Waiting(c)
  /\ active => \A c \in Clients : Waiting(c) =>
       \/ fop[client[c].h].sem > 0
       \/ worker.msg.h = client[c].h
       \/ \E i \in Requests : queue[i].h = client[c].h

(* The handle of a client: its own, allocated, and open but for the client *)
(* that waits for the open or has the answer to its close; the worker has  *)
(* no longer registered what it has closed.                                *)
ClientOK(c) ==
  LET pc == client[c].pc
      h  == client[c].h
      f  == fop[h]
  IN  IF h = NoHandle
        THEN pc = "idle"
        ELSE /\ f.alloc /\ f.mode = ModeOf(c)
             /\ pc \in {"idle", "read", "write"} => f.open
             /\ pc = "read"  => c \in Readers
             /\ pc = "write" => c \in Writers
             /\ pc = "open"  => (f.open <=> f.sem > 0 /\ f.ok) /\ (f.sem = 0 => f.ok)
             /\ pc = "close" => (f.open <=> ~(f.sem > 0 /\ f.ok))
             /\ pc = "close" /\ f.sem > 0 => ~Registered(h)

Owned(c, h) == client[c].h = h /\ \A d \in Clients : d # c => client[d].h # h

ClientInv ==
  \A c \in Clients : ClientOK(c) /\ (client[c].h # NoHandle => Owned(c, client[c].h))

(* m_file holds open files of mux threads, each once.                      *)
Registrable(h) == fop[h].alloc /\ fop[h].open /\ fop[h].mode = "write"

SlotInv ==
  \A i \in Slot : slots[i] # NoHandle =>
    Registrable(slots[i]) /\ \A j \in Slot : slots[j] = slots[i] => j = i

(* The bytes of a file being read: what the worker took from it is with the*)
(* reader or in its cache, which holds less than a chunk while it asks.    *)
ReadOK(c) ==
  LET f == fop[client[c].h]
  IN  client[c].h # NoHandle =>
        /\ f.user + f.fifo = f.disk
        /\ f.disk <= f.size
        /\ client[c].pc = "read" /\ f.sem = 0 => f.fifo < Chunk
        /\ client[c].pc = "open" => f.disk = 0
        /\ active /\ client[c].pc = "read" /\ f.sem > 0
             /\ Chunk <= Rounds * Block /\ Chunk <= Cache =>
             f.fifo >= Chunk \/ f.disk = f.size \/ f.failed

ReadInv == \A c \in Readers : ReadOK(c)

IInv == TypeOK /\ MsgInv /\ OwnerInv /\ ClientInv /\ SlotInv /\ ReadInv

USE ClientsAssumption, SizesAssumption, FlagsAssumption

-----------------------------------------------------------------------------
(* The types of a message, a handle, the worker and a client.              *)
Message    == [op : Sync \cup Async, h : Handles \cup {NoHandle}]
FopType    == [alloc : BOOLEAN, mode : {"none", "read", "write"}, open : BOOLEAN, ok : BOOLEAN,
               failed : BOOLEAN, sem : Nat, fifo : 0 .. Cache, disk : Nat,
               lost : Nat, user : Nat, size : Nat]
WorkerType == [pc : {"recv", "drain", "serve", "exit"}, i : Nat, idx : 0 .. Rounds,
               msg : [op : Sync \cup Async \cup {"none"}, h : Handles \cup {NoHandle}]]
ClientType == [pc : Sync \cup {"idle"}, h : Handles \cup {NoHandle}, async : 0 .. MaxAsync]

LEMMA Types ==
  ASSUME TypeOK
  PROVE  /\ active \in BOOLEAN /\ queue \in Seq(Message)
         /\ fop \in [Handles -> FopType]
         /\ slots \in [Slot -> Handles \cup {NoHandle}]
         /\ worker \in WorkerType
         /\ client \in [Clients -> ClientType]
         /\ \A i \in Requests : queue[i] \in Message /\ i \in Nat
<1>1. queue \in Seq(Message)
  BY DEF TypeOK, Message
<1>2. \A i \in Requests : queue[i] \in Message /\ i \in Nat
  BY <1>1 DEF Requests
<1>3. fop \in [Handles -> FopType]
  BY DEF TypeOK, FopType
<1>4. worker \in WorkerType
  BY DEF TypeOK, WorkerType
<1>5. client \in [Clients -> ClientType]
  BY DEF TypeOK, ClientType
<1> QED
  BY <1>1, <1>2, <1>3, <1>4, <1>5 DEF TypeOK

LEMMA TypesOK ==
  ASSUME active' \in BOOLEAN, queue' \in Seq(Message), fop' \in [Handles -> FopType],
         slots' \in [Slot -> Handles \cup {NoHandle}], worker' \in WorkerType,
         client' \in [Clients -> ClientType]
  PROVE  TypeOK'
BY DEF TypeOK, Message, FopType, WorkerType, ClientType

(* A message that joins the queue.                                         *)
Joins(m, n) ==
  /\ queue' \in Seq(Message)
  /\ Requests' = Requests \cup {n} /\ n \in Nat /\ n \notin Requests /\ queue'[n] = m
  /\ \A i \in Requests : i < n /\ queue'[i] = queue[i]

LEMMA Joined ==
  ASSUME TypeOK, NEW m \in Message, queue' = Append(queue, m)
  PROVE  \E n : Joins(m, n)
<1>1. queue \in Seq(Message)
  BY Types
<1>2. queue' \in Seq(Message) /\ Len(queue') = Len(queue) + 1 /\ Len(queue) \in Nat
      /\ queue'[Len(queue) + 1] = m /\ \A i \in 1 .. Len(queue) : queue'[i] = queue[i]
  BY <1>1
<1> QED
  BY <1>2 DEF Joins, Requests

(* The message that the worker takes from the queue.                       *)
Takes ==
  /\ queue' \in Seq(Message)
  /\ 1 \in Requests /\ Head(queue) = queue[1] /\ queue[1] \in Message
  /\ \A i \in Requests' : i \in Nat /\ i + 1 \in Requests /\ i + 1 # 1 /\ queue'[i] = queue[i + 1]
  /\ \A i \in Requests : i = 1 \/ (i - 1 \in Requests' /\ queue'[i - 1] = queue[i])

LEMMA Taken ==
  ASSUME TypeOK, queue # <<>>, queue' = Tail(queue)
  PROVE  Takes
<1>1. queue \in Seq(Message) /\ queue # <<>> /\ queue' = Tail(queue)
  BY Types
<1>2. queue' \in Seq(Message) /\ Len(queue') = Len(queue) - 1 /\ Len(queue) \in Nat \ {0}
      /\ \A i \in 1 .. Len(queue') : queue'[i] = queue[i + 1]
  BY <1>1
<1>3. Head(queue) = queue[1] /\ queue[1] \in Message
  BY <1>1
<1>4. \A i \in Requests' : i \in Nat /\ i + 1 \in Requests /\ i + 1 # 1 /\ queue'[i] = queue[i + 1]
  BY <1>2 DEF Requests
<1>5. ASSUME NEW i \in Requests, i # 1
      PROVE  i - 1 \in Requests' /\ queue'[i - 1] = queue[i]
  <2>1. i - 1 \in 1 .. Len(queue') /\ (i - 1) + 1 = i
    BY <1>2, <1>5 DEF Requests
  <2> QED
    BY <1>2, <2>1 DEF Requests
<1>6. 1 \in Requests
  BY <1>2 DEF Requests
<1>7. \A i \in Requests : i = 1 \/ (i - 1 \in Requests' /\ queue'[i - 1] = queue[i])
  BY <1>5
<1> QED
  BY <1>2, <1>3, <1>4, <1>6, <1>7 DEF Takes

-----------------------------------------------------------------------------
(* What a step does to the handles and the clients.                        *)
OnlyFop(h)    == \A g \in Handles : g # h => fop'[g] = fop[g]
OnlyClient(c) == \A d \in Clients : d # c => client'[d] = client[d]

(* No message, answer or waiting client has the handle.                    *)
Quiet(h) ==
  /\ \A i \in Requests : queue[i].h # h
  /\ worker.msg.h # h /\ fop[h].sem = 0

(* A client sends a request for h and waits.                               *)
Asks(c, h, op) ==
  /\ c \in Clients /\ h \in Handles /\ op \in Sync
  /\ Quiet(h) /\ client[c].pc = "idle"
  /\ \A d \in Clients : d # c => client[d].h # h
  /\ client'[c].pc = op /\ client'[c].h = h /\ OnlyClient(c)
  /\ fop'[h].sem = 0 /\ OnlyFop(h)
  /\ \E n : Joins([op |-> op, h |-> h], n)
  /\ active' = active /\ worker' = worker

(* A waiting client goes on, with its handle or without.                   *)
GoesOn(c, h) ==
  /\ c \in Clients /\ h \in Handles
  /\ Waiting(c) /\ client[c].h = h /\ fop[h].sem > 0
  /\ client'[c].pc = "idle" /\ OnlyClient(c)
  /\ fop'[h].sem = 0 /\ OnlyFop(h)
  /\ UNCHANGED <<active, queue, worker>>

(* The worker answers the request it serves.                               *)
Answers(h) ==
  /\ h \in Handles /\ worker.pc = "serve" /\ worker.msg.h = h
  /\ worker' = IdleWorker
  /\ fop'[h].sem = fop[h].sem + 1 /\ OnlyFop(h)
  /\ UNCHANGED <<active, queue, client>>

(* Nobody asks and nobody is answered.                                     *)
SameTalk ==
  /\ \A g \in Handles : fop'[g].sem = fop[g].sem
  /\ \A d \in Clients : client'[d].pc = client[d].pc
                        /\ (Waiting(d) => client'[d].h = client[d].h)
  /\ queue' = queue
  /\ worker'.msg = worker.msg /\ (worker'.pc = "serve" <=> worker.pc = "serve")
  /\ active' => active

Talk == MsgInv /\ OwnerInv

LEMMA TalkSame == ASSUME TypeOK, ClientInv, Talk, SameTalk PROVE Talk'
<1> USE DEF Talk, SameTalk
<1>1. UNCHANGED Requests
  BY DEF Requests
<1>2. \A i \in Requests : queue[i].h # NoHandle => queue[i].h \in Handles
  BY Types DEF Message
<1>3. worker.msg.h # NoHandle => worker.msg.h \in Handles
  BY Types DEF WorkerType
<1>4. MsgInv'
  BY <1>1, <1>2, <1>3 DEF MsgInv, Wellformed
<1>5. \A c \in Clients : Waiting(c)' <=> Waiting(c)
  BY DEF Waiting
<1>6. \A i \in Requests : queue[i].h # NoHandle => queue[i].op \in Sync
  BY DEF MsgInv, Wellformed
<1>7. worker.msg.h # NoHandle => worker.msg.op \in Sync
  BY DEF MsgInv, Wellformed, NoMsg
<1>8. OwnerInv'
  <2>1. \A i \in Requests : queue[i].h # NoHandle =>
          \E c \in Clients : client'[c].h = queue[i].h /\ client'[c].pc = queue[i].op
    BY <1>6 DEF OwnerInv, Waiting
  <2>2. worker.msg.h # NoHandle =>
          \E c \in Clients : client'[c].h = worker.msg.h /\ client'[c].pc = worker.msg.op
    BY <1>7 DEF OwnerInv, Waiting
  <2>3. \A h \in Handles : fop[h].sem > 0 => \E c \in Clients : client'[c].h = h /\ Waiting(c)'
    BY <1>5 DEF OwnerInv
  <2>4. \A c \in Clients : Waiting(c) => client[c].h \in Handles
    BY Types DEF ClientInv, ClientOK, ClientType, Waiting, Sync
  <2> QED
    BY <1>1, <1>5, <2>1, <2>2, <2>3, <2>4 DEF OwnerInv
<1> QED
  BY <1>4, <1>8

LEMMA TalkAsks ==
  ASSUME TypeOK, ClientInv, Talk, NEW c, NEW h, NEW op, Asks(c, h, op)
  PROVE  Talk'
<1> USE DEF Talk
<1>1. /\ c \in Clients /\ h \in Handles /\ op \in Sync /\ h # NoHandle
      /\ Quiet(h) /\ ~Waiting(c)
      /\ \A d \in Clients : d # c => client[d].h # h
      /\ client'[c].pc = op /\ client'[c].h = h /\ OnlyClient(c)
      /\ fop'[h].sem = 0 /\ OnlyFop(h)
      /\ active' = active /\ worker' = worker
  BY DEF Asks, Waiting, Sync
<1> DEFINE m == [op |-> op, h |-> h]
<1>2. PICK n : Joins(m, n)
  BY DEF Asks
<1>3. Wellformed(m) /\ m.h = h /\ m.op = op
  BY <1>1 DEF Wellformed
<1>4. \A i \in Requests : queue[i].h # NoHandle => queue[i].h \in Handles
  BY Types DEF Message
<1>5. worker.msg.h # NoHandle => worker.msg.h \in Handles
  BY Types DEF WorkerType
<1> HIDE DEF m
<1>6. /\ Requests' = Requests \cup {n} /\ n \notin Requests /\ queue'[n] = m
      /\ \A i \in Requests : queue'[i] = queue[i]
  BY <1>2 DEF Joins
<1>7. MsgInv'
  <2>1. \A i \in Requests' : Wellformed(queue'[i])
    BY <1>3, <1>6 DEF MsgInv
  <2>2. IF worker'.pc = "serve" THEN Wellformed(worker'.msg) ELSE worker'.msg = NoMsg
    BY <1>1 DEF MsgInv
  <2>3. \A i, j \in Requests' : queue'[i].h = queue'[j].h /\ queue'[i].h # NoHandle => i = j
    BY <1>1, <1>3, <1>6 DEF MsgInv, Quiet
  <2>4. \A i \in Requests' : queue'[i].h # NoHandle =>
          queue'[i].h # worker'.msg.h /\ fop'[queue'[i].h].sem = 0
    BY <1>1, <1>3, <1>4, <1>6 DEF MsgInv, Quiet, OnlyFop
  <2>5. worker'.msg.h # NoHandle => fop'[worker'.msg.h].sem = 0
    BY <1>1, <1>5 DEF MsgInv, OnlyFop
  <2>6. \A g \in Handles : fop'[g].sem \in {0, 1}
    BY <1>1 DEF MsgInv, OnlyFop
  <2> QED
    BY <2>1, <2>2, <2>3, <2>4, <2>5, <2>6 DEF MsgInv
<1>8. \A d \in Clients : /\ Waiting(d)' <=> Waiting(d) \/ d = c
                         /\ Waiting(d) => client'[d] = client[d] /\ d # c /\ client[d].h \in Handles \ {h}
  <2>1. \A d \in Clients : Waiting(d) => client[d].h \in Handles
    BY Types DEF ClientInv, ClientOK, ClientType, Waiting, Sync
  <2>2. \A d \in Clients : d # c => (Waiting(d)' <=> Waiting(d))
    BY <1>1 DEF OnlyClient, Waiting
  <2>3. Waiting(c)'
    BY <1>1 DEF Waiting
  <2> QED
    BY <1>1, <2>1, <2>2, <2>3 DEF OnlyClient
<1>9. OwnerInv'
  <2>1. ASSUME NEW i \in Requests', queue'[i].h # NoHandle
        PROVE  \E d \in Clients : client'[d].h = queue'[i].h /\ client'[d].pc = queue'[i].op
    <3>1. CASE i = n
      BY <1>1, <1>3, <1>6, <3>1
    <3>2. CASE i \in Requests
      <4>1. queue[i].h = queue'[i].h /\ queue[i].op = queue'[i].op /\ queue[i].op \in Sync
        BY <1>6, <2>1, <3>2 DEF MsgInv, Wellformed
      <4>2. PICK d \in Clients : client[d].h = queue[i].h /\ client[d].pc = queue[i].op
        BY <2>1, <3>2, <4>1 DEF OwnerInv
      <4>3. Waiting(d)
        BY <4>1, <4>2 DEF Waiting
      <4> QED
        BY <1>8, <4>1, <4>2, <4>3
    <3> QED
      BY <1>6, <3>1, <3>2
  <2>2. ASSUME worker'.msg.h # NoHandle
        PROVE  \E d \in Clients : client'[d].h = worker'.msg.h /\ client'[d].pc = worker'.msg.op
    <3>1. worker'.msg = worker.msg /\ worker.msg.op \in Sync
      BY <1>1, <2>2 DEF MsgInv, Wellformed, NoMsg
    <3>2. PICK d \in Clients : client[d].h = worker.msg.h /\ client[d].pc = worker.msg.op
      BY <2>2, <3>1 DEF OwnerInv
    <3> QED
      BY <1>8, <3>1, <3>2 DEF Waiting
  <2>3. ASSUME NEW g \in Handles, fop'[g].sem > 0
        PROVE  \E d \in Clients : client'[d].h = g /\ Waiting(d)'
    <3>1. g # h /\ fop[g].sem > 0
      BY <1>1, <2>3 DEF OnlyFop
    <3>2. PICK d \in Clients : client[d].h = g /\ Waiting(d)
      BY <3>1 DEF OwnerInv
    <3> QED
      BY <1>8, <3>2
  <2>4. ASSUME active', NEW d \in Clients, Waiting(d)'
        PROVE  \/ fop'[client'[d].h].sem > 0
               \/ worker'.msg.h = client'[d].h
               \/ \E i \in Requests' : queue'[i].h = client'[d].h
    <3>1. CASE d = c
      BY <1>1, <1>3, <1>6, <3>1
    <3>2. CASE d # c
      <4>1. Waiting(d) /\ client'[d] = client[d] /\ client[d].h \in Handles \ {h}
        BY <1>8, <2>4, <3>2
      <4>2. fop'[client'[d].h] = fop[client[d].h]
        BY <1>1, <4>1 DEF OnlyFop
      <4> QED
        BY <1>1, <1>6, <2>4, <4>1, <4>2 DEF OwnerInv
    <3> QED
      BY <3>1, <3>2
  <2> QED
    BY <2>1, <2>2, <2>3, <2>4 DEF OwnerInv
<1> QED
  BY <1>7, <1>9

LEMMA TalkGoesOn ==
  ASSUME TypeOK, ClientInv, Talk, NEW c, NEW h, GoesOn(c, h)
  PROVE  Talk'
<1> USE DEF Talk
<1>1. /\ c \in Clients /\ h \in Handles /\ h # NoHandle
      /\ Waiting(c) /\ client[c].h = h /\ fop[h].sem > 0
      /\ ~Waiting(c)' /\ OnlyClient(c)
      /\ fop'[h].sem = 0 /\ OnlyFop(h)
      /\ UNCHANGED <<active, queue, worker, Requests>>
  BY DEF GoesOn, Waiting, Sync, Requests
<1>2. \A i \in Requests : queue[i].h # h /\ (queue[i].h # NoHandle => queue[i].h \in Handles)
  BY <1>1, Types DEF Message, MsgInv
<1>3. worker.msg.h # h /\ (worker.msg.h # NoHandle => worker.msg.h \in Handles)
  BY <1>1, Types DEF WorkerType, MsgInv
<1>4. \A d \in Clients : d # c =>
        /\ client'[d] = client[d] /\ (Waiting(d)' <=> Waiting(d))
        /\ client[d].h # h /\ (Waiting(d) => client[d].h \in Handles)
  <2>1. \A d \in Clients : Waiting(d) => client[d].h \in Handles
    BY Types DEF ClientInv, ClientOK, ClientType, Waiting, Sync
  <2> QED
    BY <1>1, <2>1 DEF OnlyClient, Waiting, ClientInv, Owned
<1>5. MsgInv'
  <2>1. /\ \A i \in Requests' : Wellformed(queue'[i])
        /\ IF worker'.pc = "serve" THEN Wellformed(worker'.msg) ELSE worker'.msg = NoMsg
        /\ \A i, j \in Requests' : queue'[i].h = queue'[j].h /\ queue'[i].h # NoHandle => i = j
    BY <1>1 DEF MsgInv
  <2>2. \A i \in Requests' : queue'[i].h # NoHandle =>
          queue'[i].h # worker'.msg.h /\ fop'[queue'[i].h].sem = 0
    BY <1>1, <1>2 DEF MsgInv, OnlyFop
  <2>3. worker'.msg.h # NoHandle => fop'[worker'.msg.h].sem = 0
    BY <1>1, <1>3 DEF MsgInv, OnlyFop
  <2>4. \A g \in Handles : fop'[g].sem \in {0, 1}
    BY <1>1 DEF MsgInv, OnlyFop
  <2> QED
    BY <2>1, <2>2, <2>3, <2>4 DEF MsgInv
<1>6. OwnerInv'
  <2>1. ASSUME NEW i \in Requests', queue'[i].h # NoHandle
        PROVE  \E d \in Clients : client'[d].h = queue'[i].h /\ client'[d].pc = queue'[i].op
    <3>1. PICK d \in Clients : client[d].h = queue[i].h /\ client[d].pc = queue[i].op
      BY <1>1, <2>1 DEF OwnerInv
    <3> QED
      BY <1>1, <1>2, <1>4, <2>1, <3>1
  <2>2. ASSUME worker'.msg.h # NoHandle
        PROVE  \E d \in Clients : client'[d].h = worker'.msg.h /\ client'[d].pc = worker'.msg.op
    <3>1. PICK d \in Clients : client[d].h = worker.msg.h /\ client[d].pc = worker.msg.op
      BY <1>1, <2>2 DEF OwnerInv
    <3> QED
      BY <1>1, <1>3, <1>4, <3>1
  <2>3. ASSUME NEW g \in Handles, fop'[g].sem > 0
        PROVE  \E d \in Clients : client'[d].h = g /\ Waiting(d)'
    <3>1. g # h /\ fop[g].sem > 0
      BY <1>1, <2>3 DEF OnlyFop
    <3>2. PICK d \in Clients : client[d].h = g /\ Waiting(d)
      BY <3>1 DEF OwnerInv
    <3> QED
      BY <1>1, <1>4, <3>1, <3>2
  <2>4. ASSUME active', NEW d \in Clients, Waiting(d)'
        PROVE  \/ fop'[client'[d].h].sem > 0
               \/ worker'.msg.h = client'[d].h
               \/ \E i \in Requests' : queue'[i].h = client'[d].h
    <3>1. d # c /\ Waiting(d) /\ client'[d] = client[d] /\ client[d].h \in Handles \ {h}
      BY <1>1, <1>4, <2>4
    <3>2. fop'[client'[d].h] = fop[client[d].h]
      BY <1>1, <3>1 DEF OnlyFop
    <3> QED
      BY <1>1, <2>4, <3>1, <3>2 DEF OwnerInv
  <2> QED
    BY <2>1, <2>2, <2>3, <2>4 DEF OwnerInv
<1> QED
  BY <1>5, <1>6

LEMMA TalkAnswers ==
  ASSUME TypeOK, ClientInv, Talk, NEW h, Answers(h)
  PROVE  Talk'
<1> USE DEF Talk
<1>1. /\ h \in Handles /\ h # NoHandle
      /\ worker.msg.h = h /\ worker'.pc = "recv" /\ worker'.msg = NoMsg /\ worker'.msg.h = NoHandle
      /\ OnlyFop(h)
      /\ UNCHANGED <<active, queue, client, Requests>>
  BY DEF Answers, Requests, IdleWorker, NoMsg
<1>2. fop[h].sem = 0 /\ fop'[h].sem = 1
  BY <1>1 DEF Answers, MsgInv
<1>3. \A i \in Requests : queue[i].h # h /\ (queue[i].h # NoHandle => queue[i].h \in Handles)
  BY <1>1, Types DEF Message, MsgInv
<1>4. worker.msg.op \in Sync
  BY <1>1 DEF MsgInv, Wellformed, NoMsg
<1>5. \A d \in Clients : Waiting(d)' <=> Waiting(d)
  BY <1>1 DEF Waiting
<1>6. MsgInv'
  <2>1. /\ \A i \in Requests' : Wellformed(queue'[i])
        /\ IF worker'.pc = "serve" THEN Wellformed(worker'.msg) ELSE worker'.msg = NoMsg
        /\ \A i, j \in Requests' : queue'[i].h = queue'[j].h /\ queue'[i].h # NoHandle => i = j
    BY <1>1 DEF MsgInv
  <2>2. \A i \in Requests' : queue'[i].h # NoHandle =>
          queue'[i].h # worker'.msg.h /\ fop'[queue'[i].h].sem = 0
    BY <1>1, <1>3 DEF MsgInv, OnlyFop
  <2>3. \A g \in Handles : fop'[g].sem \in {0, 1}
    BY <1>1, <1>2 DEF MsgInv, OnlyFop
  <2> QED
    BY <1>1, <2>1, <2>2, <2>3 DEF MsgInv
<1>7. OwnerInv'
  <2>1. \A i \in Requests' : queue'[i].h # NoHandle =>
          \E c \in Clients : client'[c].h = queue'[i].h /\ client'[c].pc = queue'[i].op
    BY <1>1 DEF OwnerInv
  <2>2. ASSUME NEW g \in Handles, fop'[g].sem > 0
        PROVE  \E d \in Clients : client'[d].h = g /\ Waiting(d)'
    <3>1. CASE g = h
      BY <1>1, <1>4, <3>1 DEF OwnerInv, Waiting
    <3>2. CASE g # h
      <4>1. fop[g].sem > 0
        BY <1>1, <2>2, <3>2 DEF OnlyFop
      <4> QED
        BY <1>1, <1>5, <4>1 DEF OwnerInv
    <3> QED
      BY <3>1, <3>2
  <2>3. ASSUME active', NEW d \in Clients, Waiting(d)'
        PROVE  \/ fop'[client'[d].h].sem > 0
               \/ worker'.msg.h = client'[d].h
               \/ \E i \in Requests' : queue'[i].h = client'[d].h
    <3>1. Waiting(d) /\ client'[d] = client[d] /\ client[d].h \in Handles
      BY <1>1, <1>5, <2>3, Types DEF ClientInv, ClientOK, ClientType, Waiting, Sync
    <3>2. CASE client[d].h = h
      BY <1>2, <3>1, <3>2
    <3>3. CASE client[d].h # h
      <4>1. fop'[client'[d].h] = fop[client[d].h]
        BY <1>1, <3>1, <3>3 DEF OnlyFop
      <4> QED
        BY <1>1, <2>3, <3>1, <3>3, <4>1 DEF OwnerInv
    <3> QED
      BY <3>2, <3>3
  <2> QED
    BY <1>1, <2>1, <2>2, <2>3 DEF OwnerInv
<1> QED
  BY <1>6, <1>7

LEMMA TalkRecv ==
  ASSUME TypeOK, ClientInv, Talk, Recv
  PROVE  Talk'
<1> USE DEF Talk
<1>1. Takes
  BY Taken DEF Recv
<1>2. /\ worker'.pc = "serve" /\ worker'.msg = queue[1] /\ worker.msg = NoMsg /\ NoMsg.h = NoHandle
      /\ 1 \in Requests
      /\ \A i \in Requests' : i + 1 \in Requests /\ i + 1 # 1 /\ queue'[i] = queue[i + 1] /\ i \in Nat
      /\ \A i \in Requests : i = 1 \/ (i - 1 \in Requests' /\ queue'[i - 1] = queue[i])
      /\ UNCHANGED <<active, fop, slots, client>>
  BY <1>1 DEF Takes, Recv, IdleWorker, MsgInv, NoMsg
<1>3. \A c \in Clients : Waiting(c)' <=> Waiting(c)
  BY <1>2 DEF Waiting
<1>4. \A i \in Requests' : queue'[i].h # NoHandle => queue'[i].h # queue[1].h
  BY <1>2 DEF MsgInv
<1>5. MsgInv'
  <2>1. \A i \in Requests' : Wellformed(queue'[i])
    BY <1>2 DEF MsgInv
  <2>2. IF worker'.pc = "serve" THEN Wellformed(worker'.msg) ELSE worker'.msg = NoMsg
    BY <1>2 DEF MsgInv
  <2>3. \A i, j \in Requests' : queue'[i].h = queue'[j].h /\ queue'[i].h # NoHandle => i = j
    <3>1. ASSUME NEW i \in Requests', NEW j \in Requests',
                 queue'[i].h = queue'[j].h, queue'[i].h # NoHandle
          PROVE  i = j
      <4>1. i + 1 = j + 1
        BY <1>2, <3>1 DEF MsgInv
      <4> QED
        BY <1>2, <4>1
    <3> QED
      BY <3>1
  <2>4. \A i \in Requests' : queue'[i].h # NoHandle =>
          queue'[i].h # worker'.msg.h /\ fop'[queue'[i].h].sem = 0
    BY <1>2, <1>4 DEF MsgInv
  <2>5. worker'.msg.h # NoHandle => fop'[worker'.msg.h].sem = 0
    BY <1>2 DEF MsgInv
  <2>6. \A g \in Handles : fop'[g].sem \in {0, 1}
    BY <1>2 DEF MsgInv
  <2> QED
    BY <2>1, <2>2, <2>3, <2>4, <2>5, <2>6 DEF MsgInv
<1>6. OwnerInv'
  <2>1. \A i \in Requests' : queue'[i].h # NoHandle =>
          \E c \in Clients : client'[c].h = queue'[i].h /\ client'[c].pc = queue'[i].op
    BY <1>2 DEF OwnerInv
  <2>2. worker'.msg.h # NoHandle =>
          \E c \in Clients : client'[c].h = worker'.msg.h /\ client'[c].pc = worker'.msg.op
    BY <1>2 DEF OwnerInv
  <2>3. \A g \in Handles : fop'[g].sem > 0 => \E c \in Clients : client'[c].h = g /\ Waiting(c)'
    BY <1>2, <1>3 DEF OwnerInv
  <2>4. ASSUME active', NEW c \in Clients, Waiting(c)'
        PROVE  \/ fop'[client'[c].h].sem > 0
               \/ worker'.msg.h = client'[c].h
               \/ \E i \in Requests' : queue'[i].h = client'[c].h
    <3>1. client[c].h # NoHandle
      BY <1>3, <2>4 DEF ClientInv, ClientOK, Waiting, Sync
    <3>2. \/ fop[client[c].h].sem > 0
          \/ worker.msg.h = client[c].h
          \/ \E i \in Requests : queue[i].h = client[c].h
      BY <1>2, <1>3, <2>4 DEF OwnerInv
    <3> QED
      BY <1>2, <3>1, <3>2
  <2> QED
    BY <2>1, <2>2, <2>3, <2>4 DEF OwnerInv
<1> QED
  BY <1>5, <1>6

LEMMA TalkDestroy ==
  ASSUME TypeOK, Talk, Destroy
  PROVE  Talk'
<1> USE DEF Talk
<1>1. ~active' /\ Requests' = {} /\ UNCHANGED <<fop, slots, worker, client>>
  BY DEF Destroy, Requests
<1>2. MsgInv'
  BY <1>1 DEF MsgInv, Wellformed
<1>3. OwnerInv'
  BY <1>1 DEF OwnerInv, Waiting
<1> QED
  BY <1>2, <1>3

(* A mux thread asks for a file to be deleted and does not wait.           *)
LEMMA TalkAsync ==
  ASSUME TypeOK, ClientInv, Talk, NEW c \in Writers, NEW op \in Async, AsyncRequest(c, op)
  PROVE  Talk' /\ queue' \in Seq(Message)
<1> USE DEF Talk
<1> DEFINE m == [op |-> op, h |-> NoHandle]
<1>1. m \in Message /\ queue' = Append(queue, m)
  BY DEF AsyncRequest, Send, Message
<1>2. Wellformed(m) /\ m.h = NoHandle
  BY DEF Wellformed, Async, Sync
<1> HIDE DEF m
<1>3. PICK n : Joins(m, n)
  BY <1>1, Joined
<1>4. /\ Requests' = Requests \cup {n} /\ n \notin Requests /\ queue'[n] = m
      /\ \A i \in Requests : queue'[i] = queue[i]
      /\ \A d \in Clients : client'[d].pc = client[d].pc /\ client'[d].h = client[d].h
      /\ UNCHANGED <<active, fop, worker>> /\ queue' \in Seq(Message)
  <2>1. \A d \in Clients : client'[d].pc = client[d].pc /\ client'[d].h = client[d].h
    BY Types DEF AsyncRequest, ClientType
  <2> QED
    BY <1>3, <2>1 DEF Joins, AsyncRequest
<1>5. \A i \in Requests' : queue'[i].h # NoHandle => i \in Requests /\ queue'[i] = queue[i]
  BY <1>2, <1>4
<1>6. MsgInv'
  <2>1. \A i \in Requests' : Wellformed(queue'[i])
    BY <1>2, <1>4 DEF MsgInv
  <2>2. IF worker'.pc = "serve" THEN Wellformed(worker'.msg) ELSE worker'.msg = NoMsg
    BY <1>4 DEF MsgInv
  <2>3. \A i, j \in Requests' : queue'[i].h = queue'[j].h /\ queue'[i].h # NoHandle => i = j
    BY <1>5 DEF MsgInv
  <2>4. \A i \in Requests' : queue'[i].h # NoHandle =>
          queue'[i].h # worker'.msg.h /\ fop'[queue'[i].h].sem = 0
    BY <1>4, <1>5 DEF MsgInv
  <2>5. worker'.msg.h # NoHandle => fop'[worker'.msg.h].sem = 0
    BY <1>4 DEF MsgInv
  <2>6. \A g \in Handles : fop'[g].sem \in {0, 1}
    BY <1>4 DEF MsgInv
  <2> QED
    BY <2>1, <2>2, <2>3, <2>4, <2>5, <2>6 DEF MsgInv
<1>7. \A d \in Clients : Waiting(d)' <=> Waiting(d)
  BY <1>4 DEF Waiting
<1>8. OwnerInv'
  <2>1. \A i \in Requests' : queue'[i].h # NoHandle =>
          \E d \in Clients : client'[d].h = queue'[i].h /\ client'[d].pc = queue'[i].op
    BY <1>4, <1>5 DEF OwnerInv
  <2>2. worker'.msg.h # NoHandle =>
          \E d \in Clients : client'[d].h = worker'.msg.h /\ client'[d].pc = worker'.msg.op
    BY <1>4 DEF OwnerInv
  <2>3. \A g \in Handles : fop'[g].sem > 0 => \E d \in Clients : client'[d].h = g /\ Waiting(d)'
    BY <1>4, <1>7 DEF OwnerInv
  <2>4. active' => \A d \in Clients : Waiting(d)' =>
           \/ fop'[client'[d].h].sem > 0
           \/ worker'.msg.h = client'[d].h
           \/ \E i \in Requests' : queue'[i].h = client'[d].h
    BY <1>4, <1>7 DEF OwnerInv
  <2> QED
    BY <2>1, <2>2, <2>3, <2>4 DEF OwnerInv
<1> QED
  BY <1>4, <1>6, <1>8

-----------------------------------------------------------------------------
(* A step of one client with one handle, or of the worker for them, keeps  *)
(* what the invariant says of the others.                                  *)
SlotsKept(h) == \A i \in Slot : slots'[i] \in {slots[i], h, NoHandle}

LEMMA LocalKept ==
  ASSUME TypeOK, ClientInv, SlotInv, ReadInv, NEW c \in Clients, NEW h \in Handles,
         OnlyFop(h), OnlyClient(c), SlotsKept(h), active' => active,
         client[c].h \in {NoHandle, h}, client'[c].h \in {NoHandle, h},
         \A d \in Clients : d # c => client[d].h # h,
         \A i \in Slot : slots'[i] = h =>
           Registrable(h)' /\ \A j \in Slot : slots'[j] = h => j = i,
         ClientOK(c)', c \in Readers => ReadOK(c)'
  PROVE  ClientInv' /\ SlotInv' /\ ReadInv'
<1>1. /\ slots \in [Slot -> Handles \cup {NoHandle}]
      /\ \A d \in Clients : client[d].h \in Handles \cup {NoHandle}
      /\ Readers \subseteq Clients /\ UNCHANGED Slot
  BY Types DEF ClientType, Clients, Slot
<1>2. \A g \in Handles : g # h /\ Registered(g)' => Registered(g)
  BY DEF Registered, SlotsKept
<1>3. \A d \in Clients : d # c =>
        /\ client'[d] = client[d] /\ client'[d].h # h
        /\ client[d].h # NoHandle =>
             client[d].h \in Handles /\ client[d].h # h /\ fop'[client[d].h] = fop[client[d].h]
  BY <1>1 DEF OnlyFop, OnlyClient
<1>4. ASSUME NEW d \in Clients, d # c PROVE ClientOK(d)'
  <2>1. ClientOK(d) /\ ModeOf(d)' = ModeOf(d)
    BY DEF ClientInv, ModeOf
  <2> QED
    BY <1>2, <1>3, <1>4, <2>1 DEF ClientOK
<1>5. \A d, e \in Clients : d # e => client'[d].h # client'[e].h \/ client'[d].h = NoHandle
  BY <1>3 DEF ClientInv, Owned
<1>6. ClientInv'
  BY <1>4, <1>5 DEF ClientInv, Owned
<1>7. ASSUME NEW i \in Slot, slots'[i] # NoHandle
      PROVE  Registrable(slots[i])' /\ \A j \in Slot : slots'[j] = slots'[i] => j = i
  <2>1. CASE slots'[i] = h
    <3>1. Registrable(h)' /\ \A j \in Slot : slots'[j] = h => j = i
      BY <2>1
    <3> QED
      BY <2>1, <3>1 DEF Registrable
  <2>2. CASE slots'[i] # h
    <3>1. slots'[i] = slots[i] /\ slots[i] \in Handles
      BY <1>1, <1>7, <2>2 DEF SlotsKept
    <3>2. fop'[slots[i]] = fop[slots[i]]
      BY <2>2, <3>1 DEF OnlyFop
    <3>3. Registrable(slots[i]) /\ \A j \in Slot : slots[j] = slots[i] => j = i
      BY <1>7, <3>1 DEF SlotInv
    <3>4. \A j \in Slot : slots'[j] = slots'[i] => slots[j] = slots[i]
      BY <1>7, <2>2, <3>1 DEF SlotsKept
    <3> QED
      BY <3>1, <3>2, <3>3, <3>4 DEF Registrable
  <2> QED
    BY <2>1, <2>2
<1>8. SlotInv'
  BY <1>1, <1>7 DEF SlotInv
<1>9. ASSUME NEW d \in Readers, d # c PROVE ReadOK(d)'
  BY <1>1, <1>3, <1>9 DEF ReadInv, ReadOK
<1>10. ReadInv'
  BY <1>9 DEF ReadInv
<1> QED
  BY <1>6, <1>8, <1>10

(* The handle of a client that is not waiting, and one nobody has.         *)
LEMMA IdleQuiet ==
  ASSUME IInv, NEW h \in Handles, \A c \in Clients : client[c].h = h => ~Waiting(c)
  PROVE  Quiet(h)
<1>1. \A i \in Requests : queue[i].h # NoHandle => queue[i].op \in Sync
  BY DEF IInv, MsgInv, Wellformed
<1>2. worker.msg.h # NoHandle => worker.msg.op \in Sync
  BY DEF IInv, MsgInv, Wellformed, NoMsg
<1>3. fop[h].sem \in {0, 1} /\ ~(fop[h].sem > 0)
  BY DEF IInv, MsgInv, OwnerInv
<1>4. fop[h].sem = 0
  BY <1>3
<1> QED
  BY <1>1, <1>2, <1>4 DEF Quiet, IInv, OwnerInv, Waiting

LEMMA FreshQuiet ==
  ASSUME IInv, NEW h \in Handles, ~fop[h].alloc
  PROVE  /\ Quiet(h) /\ \A c \in Clients : client[c].h # h
         /\ \A i \in Slot : slots[i] # h
<1>1. \A c \in Clients : client[c].h # h
  BY DEF IInv, ClientInv, ClientOK
<1>2. \A i \in Slot : slots[i] # h
  BY DEF IInv, SlotInv, Registrable
<1> QED
  BY <1>1, <1>2, IdleQuiet

LEMMA Owner ==
  ASSUME IInv, NEW c \in Clients, client[c].h # NoHandle
  PROVE  /\ client[c].h \in Handles /\ fop[client[c].h] \in FopType
         /\ fop[client[c].h].alloc /\ fop[client[c].h].mode = ModeOf(c)
         /\ \A d \in Clients : d # c => client[d].h # client[c].h
         /\ fop[client[c].h].sem \in {0, 1}
         /\ ClientOK(c) /\ (c \in Readers => ReadOK(c))
         /\ client[c].pc = "idle" => Quiet(client[c].h)
<1>1. client[c].h \in Handles /\ fop[client[c].h] \in FopType
  BY Types DEF IInv, ClientType
<1>2. \A d \in Clients : d # c => client[d].h # client[c].h
  BY DEF IInv, ClientInv, Owned
<1>3. client[c].pc = "idle" => Quiet(client[c].h)
  BY <1>1, <1>2, IdleQuiet DEF Waiting, Sync
<1>4. ClientOK(c) /\ (c \in Readers => ReadOK(c))
  BY DEF IInv, ClientInv, ReadInv
<1> QED
  BY <1>1, <1>2, <1>3, <1>4 DEF IInv, MsgInv, ClientOK

LEMMA FopStep ==
  ASSUME TypeOK, NEW h \in Handles, NEW f \in FopType, fop' = [fop EXCEPT ![h] = f]
  PROVE  fop' \in [Handles -> FopType] /\ fop'[h] = f /\ OnlyFop(h)
BY Types DEF OnlyFop

LEMMA ClientStep ==
  ASSUME TypeOK, NEW c \in Clients, NEW k \in ClientType, client' = [client EXCEPT ![c] = k]
  PROVE  client' \in [Clients -> ClientType] /\ client'[c] = k /\ OnlyClient(c)
BY Types DEF OnlyClient

-----------------------------------------------------------------------------
(* The requests.                                                           *)
LEMMA RequestInv ==
  ASSUME IInv, NEW c \in Clients, NEW h, h = client[c].h, NEW op \in {"close", "read", "write"},
         Idle(c, ModeOf(c)), Request(c, op),
         op = "read" => c \in Readers /\ fop[h].fifo < Chunk,
         op = "write" => c \in Writers
  PROVE  IInv'
<1> DEFINE f == fop[h]
           k == [client[c] EXCEPT !.pc = op]
           g == [f EXCEPT !.ok = TRUE]
           m == [op |-> op, h |-> h]
<1>1. client[c].pc = "idle" /\ h # NoHandle
  BY DEF Idle
<1>2. /\ h \in Handles /\ f \in FopType /\ f.alloc /\ f.mode = ModeOf(c)
      /\ \A d \in Clients : d # c => client[d].h # h
      /\ Quiet(h) /\ f.sem = 0 /\ f.open
      /\ c \in Readers => f.user + f.fifo = f.disk /\ f.disk <= f.size
  BY <1>1, Owner DEF ClientOK, ReadOK, Quiet
<1>3. k \in ClientType /\ k.h = h /\ k.pc = op
  BY Types DEF IInv, ClientType, Sync
<1>4. /\ g \in FopType /\ g.ok /\ g.alloc = f.alloc /\ g.mode = f.mode /\ g.open = f.open
      /\ g.sem = f.sem /\ g.fifo = f.fifo /\ g.disk = f.disk /\ g.user = f.user /\ g.size = f.size
  BY <1>2 DEF FopType
<1>5. m \in Message
  BY <1>2 DEF Message, Sync
<1>6. fop' = [fop EXCEPT ![h] = g]
  BY <1>2 DEF Request
<1>7. client' = [client EXCEPT ![c] = k]
  BY DEF Request
<1>8. fop' \in [Handles -> FopType] /\ fop'[h] = g /\ OnlyFop(h)
  BY <1>2, <1>4, <1>6, FopStep DEF IInv
<1>9. client' \in [Clients -> ClientType] /\ client'[c] = k /\ OnlyClient(c)
  BY <1>3, <1>7, ClientStep DEF IInv
<1>10. /\ queue' = Append(queue, m) /\ UNCHANGED <<active, slots, worker>>
  BY DEF Request, Send
<1>11. \E n : Joins(m, n)
  BY <1>5, <1>10, Joined DEF IInv
<1>12. queue' \in Seq(Message)
  BY <1>11 DEF Joins
<1>13. Asks(c, h, op)
  BY <1>1, <1>2, <1>3, <1>4, <1>8, <1>9, <1>10, <1>11 DEF Asks, Sync
<1>22. fop[h] = f
  OBVIOUS
<1> HIDE DEF f, g, k, m
<1>14. Talk'
  BY <1>13, TalkAsks DEF IInv, Talk
<1>15. TypeOK'
  BY <1>8, <1>9, <1>10, <1>12, Types, TypesOK DEF IInv
<1>20. g.alloc /\ g.mode = ModeOf(c) /\ g.open /\ g.ok /\ g.sem = 0
  BY <1>2, <1>4
<1>21. h # NoHandle /\ client'[c].pc = op /\ client'[c].h = h /\ fop'[h] = g
  BY <1>1, <1>3, <1>8, <1>9
<1>16. ClientOK(c)'
  BY <1>20, <1>21 DEF ClientOK, ModeOf
<1>17. c \in Readers => ReadOK(c)'
  BY <1>2, <1>3, <1>4, <1>8, <1>9 DEF ReadOK, f
<1>18. \A i \in Slot : slots'[i] = h =>
         Registrable(h)' /\ \A j \in Slot : slots'[j] = h => j = i
  <2>1. \A i \in Slot : slots[i] = h =>
          fop[h].mode = "write" /\ \A j \in Slot : slots[j] = h => j = i
    BY <1>21 DEF IInv, SlotInv, Registrable
  <2>2. fop[h].mode = "write" => Registrable(h)'
    BY <1>22, <1>2, <1>20, <1>21 DEF Registrable
  <2> QED
    BY <1>10, <2>1, <2>2
<1>19. ClientInv' /\ SlotInv' /\ ReadInv'
  BY <1>1, <1>2, <1>3, <1>8, <1>9, <1>10, <1>16, <1>17, <1>18, LocalKept
     DEF IInv, SlotsKept
<1> QED
  BY <1>14, <1>15, <1>19 DEF IInv, Talk

LEMMA FreshFop ==
  ASSUME NEW c \in Clients, NEW g, g = NewFop(ModeOf(c))
  PROVE  /\ g \in FopType /\ g.alloc /\ g.ok /\ ~g.open /\ g.mode = ModeOf(c)
         /\ g.sem = 0 /\ g.fifo = 0 /\ g.disk = 0 /\ g.lost = 0 /\ g.user = 0 /\ g.size = 0
<1>1. ModeOf(c) \in {"write", "read"} /\ 0 \in 0 .. Cache
  BY DEF ModeOf
<1>2. g = [alloc |-> TRUE, mode |-> ModeOf(c), open |-> FALSE, ok |-> TRUE,
           failed |-> FALSE, sem |-> 0, fifo |-> 0, disk |-> 0, lost |-> 0,
           user |-> 0, size |-> 0]
  BY DEF NewFop, FreeFop
<1> HIDE DEF ModeOf
<1> QED
  BY <1>1, <1>2 DEF FopType

LEMMA OpenInv == ASSUME IInv, NEW c \in Clients, Open(c) PROVE IInv'
<1>1. PICK h \in Handles : /\ ~fop[h].alloc
                           /\ fop' = [fop EXCEPT ![h] = NewFop(ModeOf(c))]
                           /\ Send("open", h)
                           /\ client' = [client EXCEPT ![c].pc = "open", ![c].h = h]
  BY DEF Open
<1> DEFINE k == [client[c] EXCEPT !.pc = "open", !.h = h]
           g == NewFop(ModeOf(c))
           m == [op |-> "open", h |-> h]
<1>2. client[c].pc = "idle" /\ client[c].h = NoHandle /\ UNCHANGED <<active, slots, worker>>
  BY DEF Open
<1>3. k \in ClientType /\ k.h = h /\ k.pc = "open"
  BY Types DEF IInv, ClientType, Sync
<1>4. /\ g \in FopType /\ g.alloc /\ g.ok /\ ~g.open /\ g.mode = ModeOf(c)
      /\ g.sem = 0 /\ g.fifo = 0 /\ g.disk = 0 /\ g.user = 0 /\ g.size = 0
  BY FreshFop
<1>5. m \in Message
  BY DEF Message, Sync
<1>6. Quiet(h) /\ (\A d \in Clients : client[d].h # h) /\ \A i \in Slot : slots[i] # h
  BY <1>1, FreshQuiet
<1>7. client' = [client EXCEPT ![c] = k]
  BY <1>1
<1>8. fop' \in [Handles -> FopType] /\ fop'[h] = g /\ OnlyFop(h)
  BY <1>1, <1>4, FopStep DEF IInv
<1>9. client' \in [Clients -> ClientType] /\ client'[c] = k /\ OnlyClient(c)
  BY <1>3, <1>7, ClientStep DEF IInv
<1>10. queue' = Append(queue, m)
  BY <1>1 DEF Send
<1>11. \E n : Joins(m, n)
  BY <1>5, <1>10, Joined DEF IInv
<1>12. queue' \in Seq(Message)
  BY <1>11 DEF Joins
<1>13. Asks(c, h, "open")
  BY <1>2, <1>3, <1>4, <1>6, <1>8, <1>9, <1>11 DEF Asks, Sync
<1> HIDE DEF g, k, m
<1>14. Talk'
  BY <1>13, TalkAsks DEF IInv, Talk
<1>15. TypeOK'
  BY <1>2, <1>8, <1>9, <1>12, Types, TypesOK DEF IInv
<1>16. ClientOK(c)'
  BY <1>3, <1>4, <1>8, <1>9 DEF ClientOK, ModeOf
<1>17. ReadOK(c)'
  BY <1>3, <1>4, <1>8, <1>9 DEF ReadOK
<1>18. \A i \in Slot : slots'[i] # h
  BY <1>2, <1>6
<1>19. ClientInv' /\ SlotInv' /\ ReadInv'
  BY <1>2, <1>3, <1>6, <1>8, <1>9, <1>16, <1>17, <1>18, LocalKept DEF IInv, SlotsKept
<1> QED
  BY <1>14, <1>15, <1>19 DEF IInv, Talk

-----------------------------------------------------------------------------
(* The returns.  A client that goes on keeps its handle, or gives it up.   *)
LEMMA WokenOwner ==
  ASSUME IInv, NEW c \in Clients, NEW op \in Sync, Woken(c, op), NEW h, h = client[c].h
  PROVE  /\ h \in Handles /\ h # NoHandle /\ fop[h] \in FopType /\ fop[h].sem = 1
         /\ fop[h].alloc /\ fop[h].mode = ModeOf(c)
         /\ \A d \in Clients : d # c => client[d].h # h
         /\ ClientOK(c) /\ (c \in Readers => ReadOK(c)) /\ client[c].pc = op /\ Waiting(c)
<1>1. client[c].pc = op /\ fop[client[c].h].sem > 0 /\ op # "idle"
  BY DEF Woken, Sync
<1>2. client[c].h # NoHandle
  BY <1>1 DEF IInv, ClientInv, ClientOK
<1>3. Waiting(c)
  BY <1>1 DEF Waiting
<1> QED
  BY <1>1, <1>2, <1>3, Owner

LEMMA IdleType ==
  ASSUME NEW h \in Handles \cup {NoHandle}
  PROVE  IdleClient(h, 0) \in ClientType
         /\ IdleClient(h, 0).pc = "idle" /\ IdleClient(h, 0).h = h
BY DEF IdleClient, ClientType

(* The handle kept: f is what it has become.                               *)
LEMMA KeepInv ==
  ASSUME IInv, NEW c \in Clients, NEW op \in Sync, Woken(c, op), NEW h, h = client[c].h,
         NEW f \in FopType, fop' = [fop EXCEPT ![h] = f],
         client' = [client EXCEPT ![c] = IdleClient(h, 0)],
         UNCHANGED <<active, queue, slots, worker>>,
         f.alloc, f.mode = fop[h].mode, f.open, fop[h].open, f.sem = 0,
         c \in Readers => f.user + f.fifo = f.disk /\ f.disk <= f.size
  PROVE  IInv'
<1>1. /\ h \in Handles /\ h # NoHandle /\ fop[h].sem = 1 /\ fop[h].mode = ModeOf(c)
      /\ \A d \in Clients : d # c => client[d].h # h
      /\ Waiting(c)
  BY WokenOwner
<1>2. fop' \in [Handles -> FopType] /\ fop'[h] = f /\ OnlyFop(h)
  BY <1>1, FopStep DEF IInv
<1>3. /\ client' \in [Clients -> ClientType] /\ OnlyClient(c)
      /\ client'[c].pc = "idle" /\ client'[c].h = h
  BY <1>1, IdleType, ClientStep DEF IInv
<1>4. GoesOn(c, h)
  BY <1>1, <1>2, <1>3 DEF GoesOn
<1>5. Talk'
  BY <1>4, TalkGoesOn DEF IInv, Talk
<1>6. TypeOK'
  BY <1>2, <1>3, Types, TypesOK DEF IInv
<1>7. ClientOK(c)'
  BY <1>1, <1>2, <1>3 DEF ClientOK, ModeOf
<1>8. c \in Readers => ReadOK(c)'
  BY <1>2, <1>3 DEF ReadOK
<1>9. \A i \in Slot : slots'[i] = h =>
        Registrable(h)' /\ \A j \in Slot : slots'[j] = h => j = i
  <2>1. \A i \in Slot : slots[i] = h =>
          fop[h].mode = "write" /\ \A j \in Slot : slots[j] = h => j = i
    BY <1>1 DEF IInv, SlotInv, Registrable
  <2>2. fop[h].mode = "write" => Registrable(h)'
    BY <1>2 DEF Registrable
  <2> QED
    BY <2>1, <2>2
<1>10. ClientInv' /\ SlotInv' /\ ReadInv'
  BY <1>1, <1>2, <1>3, <1>7, <1>8, <1>9, LocalKept DEF IInv, SlotsKept
<1> QED
  BY <1>5, <1>6, <1>10 DEF IInv, Talk

(* The handle given up: freed when the file is not open, or left allocated.*)
LEMMA GiveUpInv ==
  ASSUME IInv, NEW c \in Clients, NEW op \in {"open", "close"}, Woken(c, op),
         NEW h, h = client[c].h,
         NEW f \in FopType, fop' = [fop EXCEPT ![h] = f],
         client' = [client EXCEPT ![c] = IdleClient(NoHandle, 0)],
         UNCHANGED <<active, queue, slots, worker>>,
         f.sem = 0, op = "open" => ~fop[h].ok
  PROVE  IInv'
<1>1. /\ h \in Handles /\ h # NoHandle /\ fop[h].sem = 1
      /\ \A d \in Clients : d # c => client[d].h # h
      /\ Waiting(c) /\ ClientOK(c) /\ client[c].pc = op
  BY WokenOwner DEF Sync
<1>2. fop' \in [Handles -> FopType] /\ fop'[h] = f /\ OnlyFop(h)
  BY <1>1, FopStep DEF IInv
<1>3. /\ client' \in [Clients -> ClientType] /\ OnlyClient(c)
      /\ client'[c].pc = "idle" /\ client'[c].h = NoHandle
  <2>1. /\ IdleClient(NoHandle, 0) \in ClientType
        /\ IdleClient(NoHandle, 0).pc = "idle" /\ IdleClient(NoHandle, 0).h = NoHandle
    BY IdleType
  <2> QED
    BY <2>1, ClientStep DEF IInv
<1>4. GoesOn(c, h)
  BY <1>1, <1>2, <1>3 DEF GoesOn
<1>5. Talk'
  BY <1>4, TalkGoesOn DEF IInv, Talk
<1>6. TypeOK'
  BY <1>2, <1>3, Types, TypesOK DEF IInv
<1>7. ClientOK(c)' /\ ReadOK(c)'
  BY <1>3 DEF ClientOK, ReadOK
<1>8. \A i \in Slot : slots'[i] # h
  <2>1. CASE op = "open"
    <3>1. ~fop[h].open
      BY <1>1, <2>1 DEF ClientOK
    <3> QED
      BY <1>1, <3>1 DEF IInv, SlotInv, Registrable
  <2>2. CASE op = "close"
    BY <1>1, <2>2 DEF ClientOK, Registered
  <2> QED
    BY <2>1, <2>2
<1>9. ClientInv' /\ SlotInv' /\ ReadInv'
  BY <1>1, <1>2, <1>3, <1>7, <1>8, LocalKept DEF IInv, SlotsKept
<1> QED
  BY <1>5, <1>6, <1>9 DEF IInv, Talk

LEMMA FreeType == FreeFop \in FopType /\ FreeFop.sem = 0
BY DEF FreeFop, FopType

LEMMA OpenReturnInv == ASSUME IInv, NEW c \in Clients, OpenReturn(c) PROVE IInv'
<1>1. PICK h : h = client[c].h
  OBVIOUS
<1>2. Woken(c, "open") /\ "open" \in Sync /\ UNCHANGED <<active, queue, slots, worker>>
  BY DEF OpenReturn, Sync
<1>3. /\ h \in Handles /\ fop[h] \in FopType /\ fop[h].sem = 1 /\ fop[h].alloc
      /\ fop[h].ok => fop[h].open
      /\ c \in Readers => fop[h].user + fop[h].fifo = fop[h].disk /\ fop[h].disk <= fop[h].size
  BY <1>1, <1>2, WokenOwner DEF ClientOK, ReadOK
<1>4. CASE fop[h].ok
  <2> DEFINE f == [fop[h] EXCEPT !.sem = @ - 1]
  <2>1. /\ f \in FopType /\ f.alloc /\ f.mode = fop[h].mode /\ f.open /\ f.sem = 0
        /\ f.user = fop[h].user /\ f.fifo = fop[h].fifo
        /\ f.disk = fop[h].disk /\ f.size = fop[h].size
    BY <1>3, <1>4 DEF FopType
  <2>2. fop' = [fop EXCEPT ![h] = f] /\ client' = [client EXCEPT ![c] = IdleClient(h, 0)]
    BY <1>1, <1>3, <1>4 DEF OpenReturn
  <2> HIDE DEF f
  <2> QED
    BY <1>1, <1>2, <1>3, <1>4, <2>1, <2>2, KeepInv
<1>5. CASE ~fop[h].ok
  <2>1. fop' = [fop EXCEPT ![h] = FreeFop] /\ client' = [client EXCEPT ![c] = IdleClient(NoHandle, 0)]
    BY <1>1, <1>5 DEF OpenReturn
  <2> QED
    BY <1>1, <1>2, <1>5, <2>1, FreeType, GiveUpInv
<1> QED
  BY <1>4, <1>5

LEMMA CloseReturnInv == ASSUME IInv, NEW c \in Clients, CloseReturn(c) PROVE IInv'
<1>1. PICK h : h = client[c].h
  OBVIOUS
<1>2. Woken(c, "close") /\ "close" \in Sync /\ UNCHANGED <<active, queue, slots, worker>>
  BY DEF CloseReturn, Sync
<1>3. h \in Handles /\ fop[h] \in FopType /\ fop[h].sem = 1
  BY <1>1, <1>2, WokenOwner
<1>4. PICK f : f = IF fop[h].ok THEN FreeFop ELSE [fop[h] EXCEPT !.sem = @ - 1]
  OBVIOUS
<1>5. f \in FopType /\ f.sem = 0
  <2>1. [fop[h] EXCEPT !.sem = @ - 1] \in FopType /\ [fop[h] EXCEPT !.sem = @ - 1].sem = 0
    BY <1>3 DEF FopType
  <2> QED
    BY <1>4, <2>1, FreeType
<1>6. fop' = [fop EXCEPT ![h] = f] /\ client' = [client EXCEPT ![c] = IdleClient(NoHandle, 0)]
  BY <1>1, <1>4 DEF CloseReturn
<1> QED
  BY <1>1, <1>2, <1>5, <1>6, GiveUpInv

LEMMA WriteReturnInv == ASSUME IInv, NEW c \in Clients, WriteReturn(c) PROVE IInv'
<1>1. PICK h : h = client[c].h
  OBVIOUS
<1>2. Woken(c, "write") /\ "write" \in Sync /\ UNCHANGED <<active, queue, slots, worker>>
      /\ client' = [client EXCEPT ![c] = IdleClient(h, 0)]
  BY <1>1 DEF WriteReturn, Sync
<1>3. /\ h \in Handles /\ fop[h] \in FopType /\ fop[h].sem = 1 /\ fop[h].alloc
      /\ fop[h].open /\ c \notin Readers
  BY <1>1, <1>2, WokenOwner DEF ClientOK
<1>4. PICK n : n = IF Fits(h) THEN Chunk ELSE 0
  OBVIOUS
<1>5. n \in Nat /\ fop[h].fifo + n \in 0 .. Cache /\ fop[h].user + n \in Nat
  BY <1>3, <1>4 DEF FopType, Fits
<1> DEFINE f == [fop[h] EXCEPT !.sem = @ - 1, !.fifo = @ + n, !.user = @ + n]
<1>6. f \in FopType /\ f.alloc /\ f.mode = fop[h].mode /\ f.open /\ f.sem = 0
  <2>1. /\ f = [fop[h] EXCEPT !.sem = 0, !.fifo = fop[h].fifo + n, !.user = fop[h].user + n]
        /\ 0 \in Nat
    BY <1>3 DEF FopType
  <2> HIDE DEF f
  <2> QED
    BY <1>3, <1>5, <2>1 DEF FopType
<1>7. fop' = [fop EXCEPT ![h] = f]
  BY <1>1, <1>3, <1>4 DEF WriteReturn
<1> HIDE DEF f
<1> QED
  BY <1>1, <1>2, <1>3, <1>6, <1>7, KeepInv

LEMMA ReadReturnInv == ASSUME IInv, NEW c \in Clients, ReadReturn(c) PROVE IInv'
<1>1. PICK h : h = client[c].h
  OBVIOUS
<1>2. Woken(c, "read") /\ "read" \in Sync /\ UNCHANGED <<active, queue, slots, worker>>
      /\ client' = [client EXCEPT ![c] = IdleClient(h, 0)]
  BY <1>1 DEF ReadReturn, Sync
<1>3. /\ h \in Handles /\ fop[h] \in FopType /\ fop[h].sem = 1 /\ fop[h].alloc
      /\ fop[h].open
      /\ c \in Readers => fop[h].user + fop[h].fifo = fop[h].disk /\ fop[h].disk <= fop[h].size
  BY <1>1, <1>2, WokenOwner DEF ClientOK, ReadOK
<1>4. PICK n : n = Min({fop[h].fifo, Chunk})
  OBVIOUS
<1>5. n \in Nat /\ fop[h].fifo - n \in 0 .. Cache /\ fop[h].user + n \in Nat
  <2>1. fop[h].fifo \in 0 .. Cache /\ fop[h].user \in Nat /\ fop[h].fifo \in Nat
    BY <1>3 DEF FopType
  <2>2. n \in Nat /\ n <= fop[h].fifo
    BY <1>4, <2>1, MinOfTwo
  <2> QED
    BY <2>1, <2>2
<1> DEFINE f == [fop[h] EXCEPT !.sem = @ - 1, !.fifo = @ - n, !.user = @ + n]
<1>6. /\ f \in FopType /\ f.alloc /\ f.mode = fop[h].mode /\ f.open /\ f.sem = 0
      /\ f.fifo = fop[h].fifo - n /\ f.user = fop[h].user + n
      /\ f.disk = fop[h].disk /\ f.size = fop[h].size
  <2>1. /\ f = [fop[h] EXCEPT !.sem = 0, !.fifo = fop[h].fifo - n, !.user = fop[h].user + n]
        /\ 0 \in Nat
    BY <1>3 DEF FopType
  <2> HIDE DEF f
  <2> QED
    BY <1>3, <1>5, <2>1 DEF FopType
<1>7. fop' = [fop EXCEPT ![h] = f]
  BY <1>1, <1>3, <1>4 DEF ReadReturn
<1>8. f.user + f.fifo = fop[h].user + fop[h].fifo
  BY <1>3, <1>5, <1>6 DEF FopType
<1> HIDE DEF f
<1> QED
  BY <1>1, <1>2, <1>3, <1>6, <1>7, <1>8, KeepInv

-----------------------------------------------------------------------------
(* The calls that ask for nothing.                                         *)
(* An idle client moves bytes between its fifo and the user.               *)
LEMMA FastInv ==
  ASSUME IInv, NEW c \in Clients, Idle(c, ModeOf(c)), NEW h, h = client[c].h,
         NEW f \in FopType, fop' = [fop EXCEPT ![h] = f],
         UNCHANGED <<active, queue, slots, worker, client>>,
         f.alloc = fop[h].alloc, f.mode = fop[h].mode, f.open = fop[h].open, f.sem = fop[h].sem,
         c \in Readers => f.user + f.fifo = fop[h].user + fop[h].fifo
                          /\ f.disk = fop[h].disk /\ f.size = fop[h].size
  PROVE  IInv'
<1>1. /\ h \in Handles /\ h # NoHandle /\ fop[h].mode = ModeOf(c) /\ fop[h].alloc /\ fop[h].open
      /\ \A d \in Clients : d # c => client[d].h # h
      /\ client[c].pc = "idle" /\ ClientOK(c) /\ (c \in Readers => ReadOK(c))
  BY Owner DEF Idle, ClientOK
<1>2. fop' \in [Handles -> FopType] /\ fop'[h] = f /\ OnlyFop(h)
  BY <1>1, FopStep DEF IInv
<1>3. SameTalk
  BY <1>2 DEF SameTalk, OnlyFop
<1>4. Talk'
  BY <1>3, TalkSame DEF IInv, Talk
<1>5. TypeOK'
  BY <1>2, Types, TypesOK DEF IInv
<1>6. ClientOK(c)'
  BY <1>1, <1>2 DEF ClientOK, ModeOf
<1>7. c \in Readers => ReadOK(c)'
  BY <1>1, <1>2 DEF ReadOK
<1>8. \A i \in Slot : slots'[i] = h =>
        Registrable(h)' /\ \A j \in Slot : slots'[j] = h => j = i
  <2>1. \A i \in Slot : slots[i] = h =>
          fop[h].mode = "write" /\ \A j \in Slot : slots[j] = h => j = i
    BY <1>1 DEF IInv, SlotInv, Registrable
  <2>2. fop[h].mode = "write" => Registrable(h)'
    BY <1>1, <1>2 DEF Registrable
  <2> QED
    BY <2>1, <2>2
<1>9. ClientInv' /\ SlotInv' /\ ReadInv'
  BY <1>1, <1>2, <1>6, <1>7, <1>8, LocalKept DEF IInv, SlotsKept, OnlyClient
<1> QED
  BY <1>4, <1>5, <1>9 DEF IInv, Talk

LEMMA IdleMode ==
  ASSUME IInv, NEW c \in Clients, NEW mode, Idle(c, mode)
  PROVE  mode = ModeOf(c) /\ (mode = "write" => c \in Writers) /\ (mode = "read" => c \in Readers)
<1>1. mode = ModeOf(c)
  BY Owner DEF Idle
<1> QED
  BY <1>1 DEF ModeOf, Clients

LEMMA WriteFastInv == ASSUME IInv, NEW c \in Clients, WriteFast(c) PROVE IInv'
<1>1. PICK h : h = client[c].h
  OBVIOUS
<1>2. Idle(c, ModeOf(c)) /\ c \notin Readers
      /\ UNCHANGED <<active, queue, slots, worker, client>> /\ Fits(h)
  BY <1>1, IdleMode DEF WriteFast
<1>3. h \in Handles /\ fop[h] \in FopType
  BY <1>1, <1>2, Owner DEF Idle
<1>4. fop[h].fifo + Chunk \in 0 .. Cache /\ fop[h].user + Chunk \in Nat
  BY <1>2, <1>3 DEF FopType, Fits
<1> DEFINE f == [fop[h] EXCEPT !.fifo = @ + Chunk, !.user = @ + Chunk]
<1>5. f \in FopType /\ f.alloc = fop[h].alloc /\ f.mode = fop[h].mode /\ f.open = fop[h].open
      /\ f.sem = fop[h].sem
  BY <1>3, <1>4 DEF FopType
<1>6. fop' = [fop EXCEPT ![h] = f]
  BY <1>1, <1>3 DEF WriteFast
<1> HIDE DEF f
<1> QED
  BY <1>1, <1>2, <1>5, <1>6, FastInv

LEMMA ReadFastInv == ASSUME IInv, NEW c \in Clients, ReadFast(c) PROVE IInv'
<1>1. PICK h : h = client[c].h
  OBVIOUS
<1>2. Idle(c, ModeOf(c)) /\ UNCHANGED <<active, queue, slots, worker, client>>
      /\ fop[h].fifo >= Chunk
  BY <1>1, IdleMode DEF ReadFast
<1>3. h \in Handles /\ fop[h] \in FopType
  BY <1>1, <1>2, Owner DEF Idle
<1>4. /\ fop[h].fifo - Chunk \in 0 .. Cache /\ fop[h].user + Chunk \in Nat
      /\ fop[h].user + Chunk + (fop[h].fifo - Chunk) = fop[h].user + fop[h].fifo
  BY <1>2, <1>3 DEF FopType
<1> DEFINE f == [fop[h] EXCEPT !.fifo = @ - Chunk, !.user = @ + Chunk]
<1>5. f \in FopType /\ f.alloc = fop[h].alloc /\ f.mode = fop[h].mode /\ f.open = fop[h].open
      /\ f.sem = fop[h].sem /\ f.disk = fop[h].disk /\ f.size = fop[h].size
      /\ f.user = fop[h].user + Chunk /\ f.fifo = fop[h].fifo - Chunk
  BY <1>3, <1>4 DEF FopType
<1>6. fop' = [fop EXCEPT ![h] = f]
  BY <1>1, <1>3 DEF ReadFast
<1> HIDE DEF f
<1> QED
  BY <1>1, <1>2, <1>4, <1>5, <1>6, FastInv, ZenonT(60)

LEMMA CloseRefusedInv == ASSUME IInv, NEW c \in Clients, CloseRefused(c) PROVE IInv'
<1>1. PICK h : h = client[c].h
  OBVIOUS
<1>2. Idle(c, ModeOf(c)) /\ UNCHANGED <<active, queue, slots, worker>>
  BY DEF CloseRefused
<1>3. /\ h \in Handles /\ h # NoHandle /\ fop[h] \in FopType
      /\ \A d \in Clients : d # c => client[d].h # h
      /\ client[c].pc = "idle"
  BY <1>1, <1>2, Owner DEF Idle
<1> DEFINE f == [fop[h] EXCEPT !.ok = TRUE]
           k == [client[c] EXCEPT !.h = NoHandle]
<1>4. f \in FopType /\ f.alloc = fop[h].alloc /\ f.mode = fop[h].mode /\ f.open = fop[h].open
      /\ f.sem = fop[h].sem
  BY <1>3 DEF FopType
<1>5. k \in ClientType /\ k.h = NoHandle /\ k.pc = client[c].pc
  BY Types DEF IInv, ClientType
<1>6. fop' = [fop EXCEPT ![h] = f] /\ client' = [client EXCEPT ![c] = k]
  BY <1>1, <1>3 DEF CloseRefused
<1> HIDE DEF f, k
<1>7. fop' \in [Handles -> FopType] /\ fop'[h] = f /\ OnlyFop(h)
  BY <1>3, <1>4, <1>6, FopStep DEF IInv
<1>8. client' \in [Clients -> ClientType] /\ client'[c] = k /\ OnlyClient(c)
  BY <1>5, <1>6, ClientStep DEF IInv
<1>9. SameTalk
  <2>1. \A g \in Handles : fop'[g].sem = fop[g].sem
    BY <1>4, <1>7 DEF OnlyFop
  <2>2. ~Waiting(c)
    BY <1>3 DEF Waiting, Sync
  <2>3. \A d \in Clients : client'[d].pc = client[d].pc /\ (Waiting(d) => client'[d].h = client[d].h)
    BY <1>5, <1>8, <2>2 DEF OnlyClient
  <2> QED
    BY <1>2, <2>1, <2>3 DEF SameTalk
<1>10. Talk'
  BY <1>9, TalkSame DEF IInv, Talk
<1>11. TypeOK'
  BY <1>2, <1>7, <1>8, Types, TypesOK DEF IInv
<1>12. ClientOK(c)' /\ ReadOK(c)'
  BY <1>3, <1>5, <1>8 DEF ClientOK, ReadOK
<1>13. \A i \in Slot : slots'[i] = h =>
         Registrable(h)' /\ \A j \in Slot : slots'[j] = h => j = i
  <2>1. \A i \in Slot : slots[i] = h =>
          Registrable(h) /\ \A j \in Slot : slots[j] = h => j = i
    BY <1>3 DEF IInv, SlotInv
  <2>2. Registrable(h) => Registrable(h)'
    BY <1>4, <1>7 DEF Registrable
  <2> QED
    BY <1>2, <2>1, <2>2
<1>14. ClientInv' /\ SlotInv' /\ ReadInv'
  BY <1>1, <1>2, <1>3, <1>5, <1>7, <1>8, <1>12, <1>13, LocalKept DEF IInv, SlotsKept
<1> QED
  BY <1>10, <1>11, <1>14 DEF IInv, Talk

(* A step that leaves the handles, the slots and who has what alone.       *)
LEMMA SameHandles ==
  ASSUME ClientInv, SlotInv, ReadInv, UNCHANGED <<fop, slots>>, active' => active,
         \A d \in Clients : client'[d].pc = client[d].pc /\ client'[d].h = client[d].h
  PROVE  ClientInv' /\ SlotInv' /\ ReadInv'
<1>1. Readers \subseteq Clients
  BY DEF Clients
<1>2. ClientInv'
  <2>1. \A d \in Clients : ClientOK(d)'
    BY DEF ClientInv, ClientOK, Registered, ModeOf
  <2> QED
    BY <2>1 DEF ClientInv, Owned
<1>3. SlotInv'
  BY DEF SlotInv, Registrable
<1>4. ReadInv'
  BY <1>1 DEF ReadInv, ReadOK
<1> QED
  BY <1>2, <1>3, <1>4

LEMMA AsyncInv == ASSUME IInv, NEW c \in Writers, NEW op \in Async, AsyncRequest(c, op) PROVE IInv'
<1>1. c \in Clients /\ UNCHANGED <<active, fop, slots, worker>>
  BY DEF AsyncRequest, Clients
<1>2. Talk' /\ queue' \in Seq(Message)
  BY TalkAsync DEF IInv, Talk
<1> DEFINE k == [client[c] EXCEPT !.async = @ + 1]
<1>3. k \in ClientType /\ k.pc = client[c].pc /\ k.h = client[c].h
  <2>1. client[c] \in ClientType /\ client[c].async + 1 \in 0 .. MaxAsync
    BY <1>1, Types DEF IInv, ClientType, AsyncRequest
  <2> QED
    BY <2>1 DEF ClientType
<1>4. client' = [client EXCEPT ![c] = k]
  BY DEF AsyncRequest
<1> HIDE DEF k
<1>5. client' \in [Clients -> ClientType] /\ client'[c] = k /\ OnlyClient(c)
  BY <1>1, <1>3, <1>4, ClientStep DEF IInv
<1>6. \A d \in Clients : client'[d].pc = client[d].pc /\ client'[d].h = client[d].h
  BY <1>3, <1>5 DEF OnlyClient
<1>7. TypeOK'
  BY <1>1, <1>2, <1>5, Types, TypesOK DEF IInv
<1>8. ClientInv' /\ SlotInv' /\ ReadInv'
  BY <1>1, <1>6, SameHandles DEF IInv
<1> QED
  BY <1>2, <1>7, <1>8 DEF IInv, Talk

LEMMA DestroyInv == ASSUME IInv, Destroy PROVE IInv'
<1>1. active' = FALSE /\ queue' = <<>> /\ UNCHANGED <<fop, slots, worker, client>>
  BY DEF Destroy
<1>2. Talk'
  BY TalkDestroy DEF IInv, Talk
<1>3. TypeOK'
  <2>1. <<>> \in Seq(Message) /\ FALSE \in BOOLEAN
    OBVIOUS
  <2> QED
    BY <1>1, <2>1, Types, TypesOK DEF IInv
<1>4. ClientInv' /\ SlotInv' /\ ReadInv'
  BY <1>1, SameHandles DEF IInv
<1> QED
  BY <1>2, <1>3, <1>4 DEF IInv, Talk

-----------------------------------------------------------------------------
(* The worker.                                                             *)
LEMMA WorkerQuietInv == ASSUME IInv, Exit \/ RecvEmpty \/ DrainNext \/ DrainEnd PROVE IInv'
<1>1. /\ worker' \in WorkerType /\ worker.pc # "serve" /\ worker'.pc # "serve"
      /\ worker'.msg = worker.msg
      /\ UNCHANGED <<active, queue, fop, slots, client>>
  <2>1. worker \in WorkerType /\ (worker.pc # "serve" => worker.msg = NoMsg)
    BY Types DEF IInv, MsgInv
  <2>2. IdleWorker \in WorkerType /\ IdleWorker.msg = NoMsg /\ IdleWorker.pc = "recv"
    BY DEF IdleWorker, WorkerType, NoMsg
  <2>3. CASE Exit
    BY <2>1, <2>3 DEF Exit, WorkerType
  <2>4. CASE RecvEmpty
    BY <2>1, <2>2, <2>4 DEF RecvEmpty, WorkerType
  <2>5. CASE DrainNext
    <3>1. worker.i + 1 \in Nat /\ 0 \in 0 .. Rounds
      BY <2>1 DEF WorkerType
    <3> QED
      BY <2>1, <2>5, <3>1 DEF DrainNext, WorkerType
  <2>6. CASE DrainEnd
    BY <2>1, <2>2, <2>6 DEF DrainEnd
  <2> QED
    BY <2>3, <2>4, <2>5, <2>6
<1>2. SameTalk
  BY <1>1 DEF SameTalk
<1>3. Talk'
  BY <1>2, TalkSame DEF IInv, Talk
<1>4. TypeOK'
  BY <1>1, Types, TypesOK DEF IInv
<1>5. ClientInv' /\ SlotInv' /\ ReadInv'
  BY <1>1, SameHandles DEF IInv
<1> QED
  BY <1>3, <1>4, <1>5 DEF IInv, Talk

LEMMA RecvInv == ASSUME IInv, Recv PROVE IInv'
<1>1. Takes /\ UNCHANGED <<active, fop, slots, client>>
  BY Taken DEF Recv, IInv
<1>2. queue' \in Seq(Message)
  BY <1>1 DEF Takes
<1>3. worker' \in WorkerType
  <2>1. IdleWorker \in WorkerType
    BY DEF IdleWorker, WorkerType, NoMsg
  <2>2. queue[1] \in [op : Sync \cup Async \cup {"none"}, h : Handles \cup {NoHandle}]
    BY <1>1 DEF Takes, Message
  <2>3. worker' = [IdleWorker EXCEPT !.pc = "serve", !.msg = queue[1]]
    BY <1>1 DEF Takes, Recv
  <2> HIDE DEF IdleWorker
  <2> QED
    BY <2>1, <2>2, <2>3 DEF WorkerType
<1>4. Talk'
  BY TalkRecv DEF IInv, Talk
<1>5. TypeOK'
  BY <1>1, <1>2, <1>3, Types, TypesOK DEF IInv
<1>6. ClientInv' /\ SlotInv' /\ ReadInv'
  BY <1>1, SameHandles DEF IInv
<1> QED
  BY <1>4, <1>5, <1>6 DEF IInv, Talk

LEMMA WrittenType == ASSUME NEW n \in Nat, NEW w \in Written(n) PROVE w \in 0 .. n
BY DEF Written

(* n of the cached bytes taken out, w of them written.                     *)
LEMMA ToFileType ==
  ASSUME NEW h \in Handles, fop[h] \in FopType, NEW n \in 0 .. fop[h].fifo,
         NEW w \in Written(n), NEW e, e = ToFile(h, n, w)
  PROVE  /\ e \in FopType /\ e.alloc = fop[h].alloc /\ e.mode = fop[h].mode
         /\ e.open = fop[h].open /\ e.ok = fop[h].ok /\ e.sem = fop[h].sem
         /\ e.user = fop[h].user /\ e.fifo = fop[h].fifo - n
         /\ e.disk = fop[h].disk + w /\ e.lost = fop[h].lost + (n - w)
<1>1. fop[h].fifo \in 0 .. Cache /\ fop[h].disk \in Nat /\ fop[h].lost \in Nat /\ n \in Nat
  BY DEF FopType
<1>2. w \in 0 .. n
  BY <1>1, WrittenType
<1>3. /\ fop[h].fifo - n \in 0 .. Cache /\ fop[h].disk + w \in Nat
      /\ fop[h].lost + (n - w) \in Nat
  BY <1>1, <1>2
<1> QED
  BY <1>3 DEF ToFile, FopType

LEMMA DrainBlockInv == ASSUME IInv, DrainBlock PROVE IInv'
<1>1. PICK h : h = slots[worker.i]
  OBVIOUS
<1>2. /\ worker.pc = "drain" /\ worker.i \in Slot /\ h # NoHandle
      /\ fop[h].fifo >= Block /\ worker.idx < Rounds
      /\ UNCHANGED <<active, queue, slots, client>>
  BY <1>1 DEF DrainBlock, HasBlock
<1>3. h \in Handles /\ fop[h] \in FopType /\ Registrable(h)
  BY <1>1, <1>2, Types DEF IInv, SlotInv
<1>4. worker' \in WorkerType /\ worker'.pc = "drain" /\ worker'.msg = worker.msg
  <2>1. worker \in WorkerType /\ worker.idx + 1 \in 0 .. Rounds /\ Rounds \in 0 .. Rounds
    BY <1>2, Types DEF IInv, WorkerType
  <2>2. PICK x : x = IF active THEN worker.idx + 1 ELSE Rounds
    OBVIOUS
  <2>3. worker' = [worker EXCEPT !.idx = x] /\ x \in 0 .. Rounds
    BY <2>1, <2>2 DEF DrainBlock, WorkerType
  <2> QED
    BY <1>2, <2>1, <2>3 DEF WorkerType
<1>16. PICK w \in Written(Block) : fop' = [fop EXCEPT ![h] = ToFile(h, Block, w)]
  BY <1>1 DEF DrainBlock
<1>17. PICK f : f = ToFile(h, Block, w)
  OBVIOUS
<1>5. /\ f \in FopType /\ f.alloc = fop[h].alloc /\ f.mode = fop[h].mode /\ f.open = fop[h].open
      /\ f.ok = fop[h].ok /\ f.sem = fop[h].sem
  <2>1. Block \in 0 .. fop[h].fifo
    BY <1>2, <1>3 DEF FopType
  <2> QED
    BY <1>3, <1>17, <2>1, ToFileType
<1>6. fop' = [fop EXCEPT ![h] = f]
  BY <1>16, <1>17
<1>7. fop' \in [Handles -> FopType] /\ fop'[h] = f /\ OnlyFop(h)
  BY <1>3, <1>5, <1>6, FopStep DEF IInv
<1>8. \A g \in Handles : /\ fop'[g].alloc = fop[g].alloc /\ fop'[g].mode = fop[g].mode
                         /\ fop'[g].open = fop[g].open /\ fop'[g].ok = fop[g].ok
                         /\ fop'[g].sem = fop[g].sem
  BY <1>5, <1>7 DEF OnlyFop
<1>9. SameTalk
  BY <1>2, <1>4, <1>8 DEF SameTalk
<1>10. Talk'
  BY <1>9, TalkSame DEF IInv, Talk
<1>11. TypeOK'
  BY <1>2, <1>4, <1>7, Types, TypesOK DEF IInv
<1>12. \A d \in Clients : client[d].h # NoHandle => client[d].h \in Handles
  BY Types DEF IInv, ClientType
<1>13. ClientInv'
  <2>1. ASSUME NEW d \in Clients PROVE ClientOK(d)'
    <3>1. ClientOK(d) /\ (Registered(client[d].h)' <=> Registered(client[d].h))
          /\ ModeOf(d)' = ModeOf(d)
      BY <1>2 DEF IInv, ClientInv, Registered, ModeOf
    <3> QED
      BY <1>2, <1>8, <1>12, <3>1 DEF ClientOK
  <2> QED
    BY <1>2, <2>1 DEF IInv, ClientInv, Owned
<1>14. SlotInv'
  <2>1. \A i \in Slot : slots[i] # NoHandle => slots[i] \in Handles
    BY Types DEF IInv
  <2> QED
    BY <1>2, <1>8, <2>1 DEF IInv, SlotInv, Registrable
<1>15. ReadInv'
  <2>1. ASSUME NEW d \in Readers PROVE ReadOK(d)'
    <3>1. d \in Clients /\ ModeOf(d) = "read"
      BY DEF Clients, ModeOf
    <3>2. client[d].h # h
      BY <1>2, <1>3, <3>1 DEF IInv, ClientInv, ClientOK, Registrable
    <3>3. client[d].h # NoHandle => fop'[client[d].h] = fop[client[d].h]
      BY <1>7, <1>12, <3>1, <3>2 DEF OnlyFop
    <3>4. ReadOK(d)
      BY DEF IInv, ReadInv
    <3> QED
      BY <1>2, <3>3, <3>4 DEF ReadOK
  <2> QED
    BY <2>1 DEF ReadInv
<1> QED
  BY <1>10, <1>11, <1>13, <1>14, <1>15 DEF IInv, Talk

(* The request being served, and who waits for it.                         *)
LEMMA Asking ==
  ASSUME IInv, NEW op \in Sync, Serving(op), NEW h, h = worker.msg.h
  PROVE  /\ h \in Handles /\ fop[h] \in FopType /\ fop[h].sem = 0 /\ fop[h].alloc
         /\ \E c \in Clients :
              /\ client[c].h = h /\ client[c].pc = op /\ fop[h].mode = ModeOf(c)
              /\ \A d \in Clients : d # c => client[d].h # h
              /\ ClientOK(c) /\ (c \in Readers => ReadOK(c))
<1>1. h \in Handles /\ worker.msg.op = op
  BY DEF Serving, IInv, MsgInv, Wellformed
<1>2. h # NoHandle
  BY <1>1
<1>3. fop[h].sem = 0
  BY <1>2 DEF IInv, MsgInv
<1>4. PICK c \in Clients : client[c].h = h /\ client[c].pc = op
  BY <1>1, <1>2 DEF IInv, OwnerInv
<1> QED
  BY <1>1, <1>2, <1>3, <1>4, Owner

(* What the answer to op says of the file of h, whose handle is now f.     *)
AnswerOK(op, f) ==
  /\ op = "open" => (f.open <=> f.ok)
  /\ op = "close" => (f.open <=> ~f.ok)
  /\ op \in {"read", "write"} => f.open
  /\ f.mode = "read" =>
       /\ f.user + f.fifo = f.disk /\ f.disk <= f.size
       /\ op = "open" => f.disk = 0
       /\ active /\ op = "read" /\ Chunk <= Rounds * Block /\ Chunk <= Cache =>
            f.fifo >= Chunk \/ f.disk = f.size \/ f.failed

SlotsOK(op, h, f) ==
  /\ slots' \in [Slot -> Handles \cup {NoHandle}] /\ SlotsKept(h)
  /\ \A i \in Slot : slots'[i] = h => /\ f.open /\ f.mode = "write" /\ op # "close"
                                     /\ \A j \in Slot : slots'[j] = h => j = i

LEMMA AnswerInv ==
  ASSUME IInv, NEW op \in Sync, Serving(op), Served, NEW h, h = worker.msg.h,
         NEW f \in FopType, fop' = [fop EXCEPT ![h] = f],
         f.sem = 1, f.alloc = fop[h].alloc, f.mode = fop[h].mode,
         SlotsOK(op, h, f), AnswerOK(op, f)
  PROVE  IInv'
<1>1. /\ h \in Handles /\ fop[h] \in FopType /\ fop[h].sem = 0 /\ fop[h].alloc
      /\ \E c \in Clients :
           /\ client[c].h = h /\ client[c].pc = op /\ fop[h].mode = ModeOf(c)
           /\ \A d \in Clients : d # c => client[d].h # h
           /\ ClientOK(c) /\ (c \in Readers => ReadOK(c))
  BY Asking
<1>2. PICK c \in Clients :
        /\ client[c].h = h /\ client[c].pc = op /\ fop[h].mode = ModeOf(c)
        /\ \A d \in Clients : d # c => client[d].h # h
        /\ ClientOK(c) /\ (c \in Readers => ReadOK(c))
  BY <1>1
<1>3. fop' \in [Handles -> FopType] /\ fop'[h] = f /\ OnlyFop(h)
  BY <1>1, FopStep DEF IInv
<1>4. worker' = IdleWorker /\ UNCHANGED <<active, queue, client>>
  BY DEF Served
<1>5. Answers(h)
  BY <1>1, <1>3, <1>4 DEF Answers, Serving
<1>6. Talk'
  BY <1>5, TalkAnswers DEF IInv, Talk
<1>7. TypeOK'
  <2>1. IdleWorker \in WorkerType
    BY DEF IdleWorker, WorkerType, NoMsg
  <2> QED
    BY <1>3, <1>4, <2>1, Types, TypesOK DEF IInv, SlotsOK
<1>8. f.alloc /\ f.sem = 1 /\ f.mode = ModeOf(c) /\ h # NoHandle
      /\ client'[c].h = h /\ client'[c].pc = op
  BY <1>1, <1>2, <1>4
<1>9. ClientOK(c)'
  <2>1. op = "close" => ~Registered(h)'
    BY DEF Registered, SlotsOK
  <2>2. (op = "read" => c \in Readers) /\ (op = "write" => c \in Writers)
    BY <1>2, <1>8 DEF ClientOK
  <2> QED
    BY <1>3, <1>8, <2>1, <2>2 DEF ClientOK, ModeOf, Sync, AnswerOK
<1>10. c \in Readers => ReadOK(c)'
  <2>1. c \in Readers => f.mode = "read"
    BY <1>8 DEF ModeOf
  <2> QED
    BY <1>3, <1>4, <1>8, <2>1 DEF ReadOK, AnswerOK
<1>11. \A i \in Slot : slots'[i] = h =>
         Registrable(h)' /\ \A j \in Slot : slots'[j] = h => j = i
  BY <1>3, <1>8 DEF Registrable, SlotsOK
<1>12. ClientInv' /\ SlotInv' /\ ReadInv'
  BY <1>1, <1>2, <1>3, <1>4, <1>9, <1>10, <1>11, LocalKept DEF IInv, OnlyClient, SlotsOK
<1> QED
  BY <1>6, <1>7, <1>12 DEF IInv, Talk

(* A handle whose file is not open is not registered, nor is a reader's.   *)
LEMMA NotRegistered ==
  ASSUME IInv, NEW h \in Handles, ~fop[h].open \/ fop[h].mode # "write"
  PROVE  ~Registered(h)
BY DEF IInv, SlotInv, Registrable, Registered

(* The first of some slots.                                                *)
LEMMA FirstSlot ==
  ASSUME NEW S \in SUBSET Slot, S # {}
  PROVE  Min(S) \in S /\ \A x \in S : Min(S) <= x
<1>1. S \in SUBSET Nat
  BY DEF Slot
<1>2. \E m \in S : \A x \in S : m <= x
  BY <1>1, SmallestElement
<1> QED
  BY <1>2 DEF Min

LEMMA Registers ==
  ASSUME TypeOK, NEW h \in Handles, ~Registered(h), slots' = Register(h)
  PROVE  /\ slots' \in [Slot -> Handles \cup {NoHandle}] /\ SlotsKept(h)
         /\ \A i, j \in Slot : slots'[i] = h /\ slots'[j] = h => j = i
<1> DEFINE free == {i \in Slot : slots[i] = NoHandle}
<1>1. CASE free = {}
  <2>1. slots' = slots
    BY <1>1 DEF Register
  <2> QED
    BY <2>1, Types DEF SlotsKept, Registered
<1>2. CASE free # {}
  <2>1. Min(free) \in Slot
    BY <1>2, FirstSlot
  <2>2. slots' = [slots EXCEPT ![Min(free)] = h]
    BY <1>2 DEF Register
  <2> HIDE DEF free
  <2> QED
    BY <2>1, <2>2, Types DEF SlotsKept, Registered
<1> QED
  BY <1>1, <1>2

LEMMA Unregisters ==
  ASSUME TypeOK, SlotInv, NEW h \in Handles, slots' = Unregister(h)
  PROVE  /\ slots' \in [Slot -> Handles \cup {NoHandle}] /\ SlotsKept(h)
         /\ \A i \in Slot : slots'[i] # h
<1> DEFINE mine == {i \in Slot : slots[i] = h}
<1>1. CASE ~Registered(h)
  <2>1. slots' = slots
    BY <1>1 DEF Unregister
  <2> QED
    BY <1>1, <2>1, Types DEF SlotsKept, Registered
<1>2. CASE Registered(h)
  <2>1. mine # {}
    BY <1>2 DEF Registered
  <2>2. Min(mine) \in Slot /\ slots[Min(mine)] = h
    BY <2>1, FirstSlot
  <2>3. slots' = [slots EXCEPT ![Min(mine)] = NoHandle]
    BY <1>2 DEF Unregister
  <2>4. \A i \in Slot : slots[i] = h => i = Min(mine)
    BY <2>2 DEF SlotInv
  <2> HIDE DEF mine
  <2> QED
    BY <2>2, <2>3, <2>4, Types DEF SlotsKept
<1> QED
  BY <1>1, <1>2

LEMMA ServeOpenInv == ASSUME IInv, ServeOpen PROVE IInv'
<1>1. PICK h : h = worker.msg.h
  OBVIOUS
<1>2. Serving("open") /\ "open" \in Sync /\ Served
  BY DEF ServeOpen, Sync
<1>3. /\ h \in Handles /\ fop[h] \in FopType /\ fop[h].sem = 0 /\ fop[h].alloc
      /\ \E c \in Clients :
           /\ client[c].h = h /\ client[c].pc = "open" /\ fop[h].mode = ModeOf(c)
           /\ ClientOK(c) /\ (c \in Readers => ReadOK(c))
  BY <1>1, <1>2, Asking
<1>4. /\ ~fop[h].open /\ fop[h].ok
      /\ fop[h].mode = "read" => fop[h].user + fop[h].fifo = 0 /\ fop[h].disk = 0
  <2>1. PICK c \in Clients :
           /\ client[c].h = h /\ client[c].pc = "open" /\ fop[h].mode = ModeOf(c)
           /\ ClientOK(c) /\ (c \in Readers => ReadOK(c))
    BY <1>3
  <2>2. fop[h].mode = "read" => c \in Readers
    BY <2>1 DEF ModeOf, Clients
  <2>3. h # NoHandle
    BY <1>3
  <2>4. ~fop[h].open /\ fop[h].ok
    BY <1>3, <2>1, <2>3 DEF ClientOK
  <2>5. fop[h].mode = "read" => fop[h].user + fop[h].fifo = fop[h].disk /\ fop[h].disk = 0
    BY <2>1, <2>2, <2>3 DEF ReadOK
  <2> QED
    BY <2>4, <2>5
<1>5. ~Registered(h)
  BY <1>3, <1>4, NotRegistered
<1>6. CASE \E n \in IF fop[h].mode = "read" THEN 0 .. MaxFile ELSE {0} :
             /\ fop' = [fop EXCEPT ![h].open = TRUE, ![h].size = n, ![h].sem = @ + 1]
             /\ slots' = IF fop[h].mode = "write" THEN Register(h) ELSE slots
  <2>0. PICK n \in IF fop[h].mode = "read" THEN 0 .. MaxFile ELSE {0} :
             /\ fop' = [fop EXCEPT ![h].open = TRUE, ![h].size = n, ![h].sem = @ + 1]
             /\ slots' = IF fop[h].mode = "write" THEN Register(h) ELSE slots
    BY <1>6
  <2>1. n \in Nat
    BY <2>0
  <2> DEFINE f == [fop[h] EXCEPT !.open = TRUE, !.size = n, !.sem = 1]
  <2>2. /\ f \in FopType /\ f.sem = 1 /\ f.alloc = fop[h].alloc
        /\ f.mode = fop[h].mode /\ f.open /\ f.ok = fop[h].ok /\ f.size = n
        /\ f.user = fop[h].user /\ f.fifo = fop[h].fifo /\ f.disk = fop[h].disk
    BY <1>3, <2>1 DEF FopType
  <2>3. fop' = [fop EXCEPT ![h] = f]
    <3>1. fop' = [fop EXCEPT ![h] = [fop[h] EXCEPT !.open = TRUE, !.size = n, !.sem = fop[h].sem + 1]]
      BY <1>3, <2>0
    <3>2. fop[h].sem + 1 = 1
      BY <1>3
    <3> QED
      BY <3>1, <3>2
  <2> HIDE DEF f
  <2>4. /\ slots' \in [Slot -> Handles \cup {NoHandle}] /\ SlotsKept(h)
        /\ \A i \in Slot : slots'[i] = h =>
             fop[h].mode = "write" /\ \A j \in Slot : slots'[j] = h => j = i
    <3>1. CASE fop[h].mode = "write"
      <4>1. slots' = Register(h)
        BY <2>0, <3>1
      <4> QED
        BY <1>3, <1>5, <3>1, <4>1, Registers DEF IInv
    <3>2. CASE fop[h].mode # "write"
      <4>1. slots' = slots
        BY <2>0, <3>2
      <4> QED
        BY <1>5, <4>1, Types DEF IInv, SlotsKept, Registered
    <3> QED
      BY <3>1, <3>2
  <2>5. f.mode = "read" => f.user + f.fifo = f.disk /\ f.disk <= f.size /\ f.disk = 0
    BY <1>4, <2>2
  <2>6. SlotsOK("open", h, f)
    BY <2>2, <2>4 DEF SlotsOK
  <2>7. AnswerOK("open", f)
    BY <1>4, <2>2, <2>5 DEF AnswerOK
  <2> QED
    BY <1>1, <1>2, <2>2, <2>3, <2>6, <2>7, AnswerInv
<1>7. CASE /\ fop' = [fop EXCEPT ![h].ok = FALSE, ![h].sem = @ + 1]
           /\ UNCHANGED slots
  <2> DEFINE f == [fop[h] EXCEPT !.ok = FALSE, !.sem = 1]
  <2>1. /\ f \in FopType /\ f.sem = 1 /\ f.alloc = fop[h].alloc
        /\ f.mode = fop[h].mode /\ f.open = fop[h].open /\ ~f.ok /\ f.size = fop[h].size
        /\ f.user = fop[h].user /\ f.fifo = fop[h].fifo /\ f.disk = fop[h].disk
    BY <1>3 DEF FopType
  <2>2. fop' = [fop EXCEPT ![h] = f]
    <3>1. fop' = [fop EXCEPT ![h] = [fop[h] EXCEPT !.ok = FALSE, !.sem = fop[h].sem + 1]]
      BY <1>3, <1>7
    <3>2. fop[h].sem + 1 = 1
      BY <1>3
    <3> QED
      BY <3>1, <3>2
  <2> HIDE DEF f
  <2>3. /\ slots' \in [Slot -> Handles \cup {NoHandle}] /\ SlotsKept(h)
        /\ \A i \in Slot : slots'[i] # h
    BY <1>5, <1>7, Types DEF IInv, SlotsKept, Registered
  <2>4. f.mode = "read" => f.user + f.fifo = f.disk /\ f.disk <= f.size /\ f.disk = 0
    BY <1>3, <1>4, <2>1 DEF FopType
  <2>5. SlotsOK("open", h, f)
    BY <2>3 DEF SlotsOK
  <2>6. AnswerOK("open", f)
    BY <1>4, <2>1, <2>4 DEF AnswerOK
  <2> QED
    BY <1>1, <1>2, <2>1, <2>2, <2>5, <2>6, AnswerInv
<1> QED
  BY <1>1, <1>6, <1>7 DEF ServeOpen

LEMMA Flushed ==
  ASSUME NEW h \in Handles, fop[h] \in FopType, NEW w \in Written(fop[h].fifo),
         NEW e, e = Flush(h, w)
  PROVE  /\ e \in FopType /\ e.sem = fop[h].sem /\ e.alloc = fop[h].alloc
         /\ e.mode = fop[h].mode /\ e.open = fop[h].open
         /\ ~Registered(h) => e = fop[h]
<1>1. CASE ~Registered(h)
  BY <1>1 DEF Flush
<1>2. CASE Registered(h)
  <2>1. fop[h].fifo \in 0 .. fop[h].fifo
    BY DEF FopType
  <2>2. e = ToFile(h, fop[h].fifo, w)
    BY <1>2 DEF Flush
  <2> QED
    BY <1>2, <2>1, <2>2, ToFileType
<1> QED
  BY <1>1, <1>2

LEMMA ServeCloseInv == ASSUME IInv, ServeClose PROVE IInv'
<1>1. PICK h : h = worker.msg.h
  OBVIOUS
<1>2. Serving("close") /\ "close" \in Sync /\ Served /\ slots' = Unregister(h)
  BY <1>1 DEF ServeClose, Sync
<1>3. /\ h \in Handles /\ fop[h] \in FopType /\ fop[h].sem = 0 /\ fop[h].alloc
      /\ \E c \in Clients : /\ client[c].h = h /\ fop[h].mode = ModeOf(c)
                            /\ (c \in Readers => ReadOK(c))
  BY <1>1, <1>2, Asking
<1>4. PICK ok \in BOOLEAN, w \in Written(fop[h].fifo) :
        fop' = [fop EXCEPT ![h] = [Flush(h, w) EXCEPT !.open = ~ok, !.ok = ok, !.sem = @ + 1]]
  BY <1>1 DEF ServeClose
<1>5. PICK e : e = Flush(h, w)
  OBVIOUS
<1>6. /\ e \in FopType /\ e.sem = fop[h].sem /\ e.alloc = fop[h].alloc
      /\ e.mode = fop[h].mode /\ (~Registered(h) => e = fop[h])
  <2>1. h \in Handles /\ fop[h] \in FopType /\ w \in Written(fop[h].fifo)
    BY <1>3, <1>4
  <2> QED
    BY <1>5, <2>1, Flushed
<1> DEFINE f == [e EXCEPT !.open = ~ok, !.ok = ok, !.sem = 1]
<1>7. /\ f \in FopType /\ f.sem = 1 /\ f.alloc = fop[h].alloc
      /\ f.mode = fop[h].mode /\ (f.open <=> ~f.ok)
      /\ f.user = e.user /\ f.fifo = e.fifo /\ f.disk = e.disk /\ f.size = e.size
  BY <1>6 DEF FopType
<1>8. fop' = [fop EXCEPT ![h] = f]
  <2>1. e.sem + 1 = 1
    BY <1>3, <1>6
  <2> QED
    BY <1>4, <1>5, <2>1
<1> HIDE DEF f
<1>9. /\ slots' \in [Slot -> Handles \cup {NoHandle}] /\ SlotsKept(h)
      /\ \A i \in Slot : slots'[i] # h
  BY <1>2, <1>3, Unregisters DEF IInv
<1>10. f.mode = "read" => f.user + f.fifo = f.disk /\ f.disk <= f.size
  <2>1. fop[h].mode = "read" => e = fop[h]
    BY <1>3, <1>6, NotRegistered
  <2>2. fop[h].mode = "read" =>
          fop[h].user + fop[h].fifo = fop[h].disk /\ fop[h].disk <= fop[h].size
    BY <1>3 DEF ReadOK, ModeOf, Clients
  <2> QED
    BY <1>7, <2>1, <2>2
<1>11. SlotsOK("close", h, f)
  BY <1>9 DEF SlotsOK
<1>12. AnswerOK("close", f)
  BY <1>7, <1>10 DEF AnswerOK
<1> QED
  BY <1>1, <1>2, <1>7, <1>8, <1>11, <1>12, AnswerInv

LEMMA SlotsSame ==
  ASSUME IInv, NEW h \in Handles, UNCHANGED slots
  PROVE  /\ slots' \in [Slot -> Handles \cup {NoHandle}] /\ SlotsKept(h)
         /\ \A i \in Slot : slots'[i] = h =>
              /\ fop[h].open /\ fop[h].mode = "write"
              /\ \A j \in Slot : slots'[j] = h => j = i
BY Types DEF IInv, SlotInv, Registrable, SlotsKept

LEMMA ServeReadInv == ASSUME IInv, ServeRead PROVE IInv'
<1>1. PICK h : h = worker.msg.h
  OBVIOUS
<1>2. Serving("read") /\ "read" \in Sync /\ Served /\ UNCHANGED slots
  BY DEF ServeRead, Sync
<1>3. /\ h \in Handles /\ fop[h] \in FopType /\ fop[h].sem = 0 /\ fop[h].alloc
      /\ \E c \in Clients :
           /\ client[c].h = h /\ client[c].pc = "read"
           /\ ClientOK(c) /\ (c \in Readers => ReadOK(c))
  BY <1>1, <1>2, Asking
<1>4. /\ fop[h].open /\ Readers # {} /\ fop[h].fifo < Chunk
      /\ fop[h].user + fop[h].fifo = fop[h].disk /\ fop[h].disk <= fop[h].size
  <2>1. PICK c \in Clients :
           /\ client[c].h = h /\ client[c].pc = "read"
           /\ ClientOK(c) /\ (c \in Readers => ReadOK(c))
    BY <1>3
  <2>2. h # NoHandle
    BY <1>3
  <2>3. c \in Readers /\ fop[h].open
    BY <2>1, <2>2 DEF ClientOK
  <2> QED
    BY <1>3, <2>1, <2>2, <2>3 DEF ReadOK
<1>6. /\ fop[h].user \in Nat /\ fop[h].fifo \in 0 .. Cache /\ fop[h].disk \in Nat
      /\ fop[h].size \in Nat /\ fop[h].failed \in BOOLEAN
  BY <1>3 DEF FopType
<1>15. /\ ReadAhead(h) \in Nat /\ ReadAhead(h) <= fop[h].size - fop[h].disk
       /\ ReadAhead(h) <= Cache - fop[h].fifo
       /\ \/ ReadAhead(h) = Rounds * Block \/ ReadAhead(h) = fop[h].size - fop[h].disk
          \/ ReadAhead(h) = Cache - fop[h].fifo
  <2>1. /\ Rounds * Block \in Nat /\ fop[h].size - fop[h].disk \in Nat
        /\ Cache - fop[h].fifo \in Nat
    BY <1>4, <1>6
  <2> QED
    BY <2>1, MinOfThree DEF ReadAhead
<1>5. PICK n, failed :
        /\ fop' = [fop EXCEPT ![h] = ReadInto(h, n, failed)]
        /\ n \in Nat /\ n <= ReadAhead(h) /\ failed \in BOOLEAN
        /\ active => failed \/ n = ReadAhead(h)
  <2> DEFINE Reads(n, failed) == fop' = [fop EXCEPT ![h] = ReadInto(h, n, failed)]
  <2>1. IF ~active \/ fop[h].failed
          THEN Reads(0, fop[h].failed)
          ELSE \/ Reads(ReadAhead(h), FALSE)
               \/ \E k \in 0 .. Rounds - 1 :
                    /\ ReadMayFail /\ k * Block < ReadAhead(h)
                    /\ Reads(k * Block, TRUE)
    BY <1>1 DEF ServeRead
  <2> HIDE DEF Reads
  <2> DEFINE Read(n, failed) ==
               /\ fop' = [fop EXCEPT ![h] = ReadInto(h, n, failed)]
               /\ n \in Nat /\ n <= ReadAhead(h) /\ failed \in BOOLEAN
               /\ active => failed \/ n = ReadAhead(h)
  <2>2. CASE Reads(0, fop[h].failed) /\ (~active \/ fop[h].failed)
    <3>1. Read(0, fop[h].failed)
      BY <1>6, <1>15, <2>2 DEF Reads
    <3> QED
      BY <3>1
  <2>3. CASE Reads(ReadAhead(h), FALSE)
    <3>1. Read(ReadAhead(h), FALSE)
      BY <1>15, <2>3 DEF Reads
    <3> QED
      BY <3>1
  <2>4. ASSUME NEW k \in 0 .. Rounds - 1, k * Block < ReadAhead(h), Reads(k * Block, TRUE)
        PROVE  \E n, failed : Read(n, failed)
    <3>1. PICK n : n = k * Block /\ n \in Nat
      OBVIOUS
    <3>2. Read(n, TRUE)
      BY <1>15, <2>4, <3>1 DEF Reads
    <3> QED
      BY <3>2
  <2> HIDE DEF Read
  <2>5. \E n, failed : Read(n, failed)
    <3>1. CASE ~active \/ fop[h].failed
      BY <2>1, <2>2, <3>1 DEF Read
    <3>2. CASE ~(~active \/ fop[h].failed)
      BY <2>1, <2>3, <2>4, <3>2 DEF Read
    <3> QED
      BY <3>1, <3>2
  <2> QED
    BY <2>5 DEF Read
<1>7. n <= fop[h].size - fop[h].disk /\ n <= Cache - fop[h].fifo
  BY <1>5, <1>6, <1>15
<1>8. fop[h].fifo + n \in 0 .. Cache /\ fop[h].disk + n \in Nat
  BY <1>5, <1>6, <1>7
<1> DEFINE f == [fop[h] EXCEPT !.fifo = @ + n, !.disk = @ + n, !.failed = failed, !.ok = TRUE,
                               !.sem = 1]
<1>9. /\ f \in FopType /\ f.sem = 1 /\ f.alloc = fop[h].alloc
      /\ f.mode = fop[h].mode /\ f.open = fop[h].open /\ f.failed = failed
      /\ f.user = fop[h].user /\ f.fifo = fop[h].fifo + n /\ f.disk = fop[h].disk + n
      /\ f.size = fop[h].size
  BY <1>3, <1>5, <1>8 DEF FopType
<1>10. fop' = [fop EXCEPT ![h] = f]
  <2>1. fop[h].sem + 1 = 1
    BY <1>3
  <2> QED
    BY <1>5, <2>1 DEF ReadInto
<1> HIDE DEF f
<1>11. f.user + f.fifo = f.disk /\ f.disk <= f.size
  BY <1>4, <1>5, <1>6, <1>7, <1>9
<1>12. active /\ Chunk <= Rounds * Block /\ Chunk <= Cache =>
         f.fifo >= Chunk \/ f.disk = f.size \/ f.failed
  <2>1. PICK turn : turn = Rounds * Block /\ turn \in Nat
    OBVIOUS
  <2>2. active /\ ~failed => n = turn \/ n = fop[h].size - fop[h].disk \/ n = Cache - fop[h].fifo
    BY <1>5, <1>15, <2>1
  <2> QED
    BY <1>4, <1>5, <1>6, <1>9, <2>1, <2>2
<1>13. SlotsOK("read", h, f)
  BY <1>2, <1>3, <1>9, SlotsSame DEF SlotsOK
<1>14. AnswerOK("read", f)
  BY <1>4, <1>9, <1>11, <1>12 DEF AnswerOK
<1> QED
  BY <1>1, <1>2, <1>9, <1>10, <1>13, <1>14, AnswerInv

LEMMA ServeWriteInv == ASSUME IInv, ServeWrite PROVE IInv'
<1>1. PICK h : h = worker.msg.h
  OBVIOUS
<1>2. Serving("write") /\ "write" \in Sync /\ Served /\ UNCHANGED slots
  BY DEF ServeWrite, Sync
<1>3. /\ h \in Handles /\ fop[h] \in FopType /\ fop[h].sem = 0 /\ fop[h].alloc
      /\ \E c \in Clients :
           /\ client[c].h = h /\ client[c].pc = "write" /\ fop[h].mode = ModeOf(c)
           /\ ClientOK(c)
  BY <1>1, <1>2, Asking
<1>4. fop[h].open /\ fop[h].mode = "write"
  <2>1. PICK c \in Clients :
           /\ client[c].h = h /\ client[c].pc = "write" /\ fop[h].mode = ModeOf(c)
           /\ ClientOK(c)
    BY <1>3
  <2>2. h # NoHandle
    BY <1>3
  <2>3. c \in Writers /\ fop[h].open
    BY <2>1, <2>2 DEF ClientOK
  <2> QED
    BY <2>1, <2>3 DEF ModeOf
<1>5. PICK n : n = DrainFor(h)
  OBVIOUS
<1>6. /\ fop[h].fifo \in 0 .. Cache /\ fop[h].fifo \in Nat /\ fop[h].disk \in Nat
  BY <1>3 DEF FopType
<1>7. n \in Nat /\ n <= fop[h].fifo
  <2>1. Rounds * Block \in Nat
    OBVIOUS
  <2> QED
    BY <1>5, <1>6, <2>1, MinOfTwo DEF DrainFor
<1>8. PICK w \in Written(n) :
        fop' = [fop EXCEPT ![h] = [ToFile(h, n, w) EXCEPT !.ok = TRUE, !.sem = @ + 1]]
  BY <1>1, <1>5 DEF ServeWrite
<1>13. PICK e : e = ToFile(h, n, w)
  OBVIOUS
<1>14. /\ e \in FopType /\ e.sem = fop[h].sem /\ e.alloc = fop[h].alloc
       /\ e.mode = fop[h].mode /\ e.open = fop[h].open
  <2>1. n \in 0 .. fop[h].fifo
    BY <1>6, <1>7
  <2>2. h \in Handles /\ fop[h] \in FopType /\ w \in Written(n)
    BY <1>3, <1>8
  <2> QED
    BY <1>13, <2>1, <2>2, ToFileType
<1> DEFINE f == [e EXCEPT !.ok = TRUE, !.sem = 1]
<1>9. /\ f \in FopType /\ f.sem = 1 /\ f.alloc = fop[h].alloc
      /\ f.mode = fop[h].mode /\ f.open = fop[h].open
  BY <1>14 DEF FopType
<1>10. fop' = [fop EXCEPT ![h] = f]
  <2>1. e.sem + 1 = 1
    BY <1>3, <1>14
  <2> QED
    BY <1>8, <1>13, <2>1
<1> HIDE DEF f
<1>11. SlotsOK("write", h, f)
  BY <1>2, <1>3, <1>9, SlotsSame DEF SlotsOK
<1>12. AnswerOK("write", f)
  BY <1>4, <1>9 DEF AnswerOK
<1> QED
  BY <1>1, <1>2, <1>9, <1>10, <1>11, <1>12, AnswerInv

LEMMA ServeAsyncInv == ASSUME IInv, ServeAsync PROVE IInv'
<1>1. /\ worker.pc = "serve" /\ worker.msg.op \in Async /\ worker' = IdleWorker
      /\ UNCHANGED <<active, queue, fop, slots, client>>
  BY DEF ServeAsync, Served
<1>2. worker.msg.h = NoHandle
  BY <1>1 DEF IInv, MsgInv, Wellformed, Sync, Async
<1>3. IdleWorker \in WorkerType /\ IdleWorker.pc = "recv" /\ IdleWorker.msg = NoMsg
      /\ NoMsg.h = NoHandle
  BY DEF IdleWorker, WorkerType, NoMsg
<1>4. MsgInv'
  <2>1. UNCHANGED Requests
    BY <1>1 DEF Requests
  <2>2. \A i \in Requests : queue[i].h # NoHandle => queue[i].h \in Handles
    BY Types DEF IInv, Message
  <2> QED
    BY <1>1, <1>2, <1>3, <2>1, <2>2 DEF IInv, MsgInv, Wellformed
<1>5. OwnerInv'
  <2>1. UNCHANGED Requests /\ \A c \in Clients : Waiting(c)' <=> Waiting(c)
    BY <1>1 DEF Requests, Waiting
  <2>2. \A c \in Clients : Waiting(c) => client[c].h # NoHandle
    BY DEF IInv, ClientInv, ClientOK, Waiting, Sync
  <2> QED
    BY <1>1, <1>2, <1>3, <2>1, <2>2 DEF IInv, OwnerInv
<1>6. TypeOK'
  BY <1>1, <1>3, Types, TypesOK DEF IInv
<1>7. ClientInv' /\ SlotInv' /\ ReadInv'
  BY <1>1, SameHandles DEF IInv
<1> QED
  BY <1>4, <1>5, <1>6, <1>7 DEF IInv

LEMMA ClientCallInv == ASSUME IInv, NEW c \in Clients, ClientCall(c) PROVE IInv'
<1>1. PICK h : h = client[c].h
  OBVIOUS
<1>2. CASE WriteRequest(c)
  <2>1. Idle(c, ModeOf(c)) /\ c \in Writers /\ Request(c, "write")
    BY <1>2, IdleMode DEF WriteRequest
  <2> QED
    BY <1>1, <2>1, RequestInv
<1>3. CASE ReadRequest(c)
  <2>1. Idle(c, ModeOf(c)) /\ c \in Readers /\ Request(c, "read") /\ fop[h].fifo < Chunk
    BY <1>1, <1>3, IdleMode DEF ReadRequest
  <2> QED
    BY <1>1, <2>1, RequestInv
<1>4. CASE CloseRequest(c)
  BY <1>1, <1>4, RequestInv DEF CloseRequest
<1> QED
  BY <1>2, <1>3, <1>4, OpenInv, WriteFastInv, ReadFastInv, CloseRefusedInv DEF ClientCall

LEMMA ClientReturnInv == ASSUME IInv, NEW c \in Clients, ClientReturn(c) PROVE IInv'
BY OpenReturnInv, WriteReturnInv, ReadReturnInv, CloseReturnInv DEF ClientReturn

LEMMA WorkerInv == ASSUME IInv, Worker PROVE IInv'
BY WorkerQuietInv, RecvInv, DrainBlockInv, ServeOpenInv, ServeCloseInv, ServeReadInv,
   ServeWriteInv, ServeAsyncInv DEF Worker

LEMMA StutterInv == ASSUME IInv, UNCHANGED vars PROVE IInv'
<1>1. UNCHANGED <<active, queue, fop, slots, worker, client>>
  BY DEF vars
<1>2. SameTalk
  BY <1>1 DEF SameTalk
<1>3. Talk'
  BY <1>2, TalkSame DEF IInv, Talk
<1>4. TypeOK'
  BY <1>1, Types, TypesOK DEF IInv
<1>5. ClientInv' /\ SlotInv' /\ ReadInv'
  BY <1>1, SameHandles DEF IInv
<1> QED
  BY <1>3, <1>4, <1>5 DEF IInv, Talk

LEMMA InitInv == ASSUME Init PROVE IInv
<1>1. /\ queue = <<>> /\ Requests = {} /\ active
      /\ worker.pc = "recv" /\ worker.msg = NoMsg /\ NoMsg.h = NoHandle
      /\ \A h \in Handles : fop[h] = FreeFop
      /\ \A i \in Slot : slots[i] = NoHandle
      /\ \A c \in Clients : client[c].h = NoHandle /\ client[c].pc = "idle"
  BY DEF Init, Requests, IdleWorker, IdleClient, NoMsg
<1>2. TypeOK
  <2>1. queue \in Seq([op : Sync \cup Async, h : Handles \cup {NoHandle}])
    BY <1>1
  <2>2. FreeFop \in FopType
    BY FreeType
  <2>3. worker \in WorkerType
    BY DEF Init, IdleWorker, WorkerType, NoMsg
  <2>4. IdleClient(NoHandle, 0) \in ClientType
    BY IdleType
  <2>5. /\ fop \in [Handles -> FopType] /\ client \in [Clients -> ClientType]
        /\ slots \in [Slot -> Handles \cup {NoHandle}] /\ active \in BOOLEAN
    BY <2>2, <2>4 DEF Init
  <2> QED
    BY <2>1, <2>3, <2>5 DEF TypeOK, FopType, WorkerType, ClientType
<1>3. MsgInv
  BY <1>1, FreeType DEF MsgInv
<1>4. OwnerInv
  BY <1>1, FreeType DEF OwnerInv, Waiting, Sync
<1>5. ClientInv
  BY <1>1 DEF ClientInv, ClientOK
<1>6. SlotInv /\ ReadInv
  BY <1>1 DEF SlotInv, ReadInv, ReadOK, Clients
<1> QED
  BY <1>2, <1>3, <1>4, <1>5, <1>6 DEF IInv

-----------------------------------------------------------------------------
LEMMA NextInv == ASSUME IInv, [Next]_vars PROVE IInv'
<1>1. CASE \E c \in Clients : ClientCall(c) \/ ClientReturn(c)
  BY <1>1, ClientCallInv, ClientReturnInv
<1>2. CASE \E c \in Writers, op \in Async : AsyncRequest(c, op)
  BY <1>2, AsyncInv
<1> QED
  BY <1>1, <1>2, WorkerInv, DestroyInv, StutterInv DEF Next

(* The invariant holds in every state of the service, whatever fails: a    *)
(* full queue, an error of f_open or f_close, a quit in the middle.        *)
THEOREM Inductive == SafetySpec => []IInv
<1>1. Init => IInv
  BY InitInv
<1>2. IInv /\ [Next]_vars => IInv'
  BY NextInv
<1> QED
  BY <1>1, <1>2, PTL DEF SafetySpec

(* No queued message, no slot of the worker and no client has a handle     *)
(* that was freed, no two clients share one, and no cache overflows:       *)
(* ramdisk.cpp frees a handle only in the client that was answered.        *)
THEOREM HandlesAreSound == SafetySpec => []HandlesSound
<1>1. IInv => HandlesSound
  <2> SUFFICES ASSUME IInv PROVE NoDanglingHandle
    BY DEF HandlesSound, IInv
  <2>1. \A i \in DOMAIN queue : queue[i].op \in Sync => fop[queue[i].h].alloc
    <3>1. SUFFICES ASSUME NEW i \in Requests, queue[i].op \in Sync
                   PROVE  fop[queue[i].h].alloc
      BY Types DEF IInv, Requests
    <3>2. queue[i].h \in Handles
      BY <3>1 DEF IInv, MsgInv, Wellformed
    <3>3. queue[i].h # NoHandle
      BY <3>2
    <3>4. PICK c \in Clients : client[c].h = queue[i].h
      BY <3>1, <3>3 DEF IInv, OwnerInv
    <3> QED
      BY <3>3, <3>4, Owner
  <2>2. worker.msg.op \in Sync => fop[worker.msg.h].alloc
    <3>1. SUFFICES ASSUME worker.msg.op \in Sync PROVE fop[worker.msg.h].alloc
      OBVIOUS
    <3>2. worker.msg.h \in Handles
      BY <3>1 DEF IInv, MsgInv, Wellformed, NoMsg, Sync
    <3>3. worker.msg.h # NoHandle
      BY <3>2
    <3>4. PICK c \in Clients : client[c].h = worker.msg.h
      BY <3>3 DEF IInv, OwnerInv
    <3> QED
      BY <3>3, <3>4, Owner
  <2>3. \A i \in Slot : slots[i] # NoHandle => fop[slots[i]].alloc /\ fop[slots[i]].open
    BY DEF IInv, SlotInv, Registrable
  <2>4. \A c \in Clients : client[c].h # NoHandle => fop[client[c].h].alloc
    BY Owner
  <2>5. \A c, d \in Clients : c # d /\ client[c].h = client[d].h => client[c].h = NoHandle
    BY Owner
  <2> QED
    BY <2>1, <2>2, <2>3, <2>4, <2>5 DEF NoDanglingHandle
<1> QED
  BY <1>1, Inductive, PTL

(* A handle never has two requests or a stale answer outstanding, and      *)
(* while the service runs every client that waits has its request on the   *)
(* way: sem_wait of ramdisk.cpp is matched by one sem_post.                *)
THEOREM AnsweredOnce == SafetySpec => []OneAnswer
<1>1. IInv => OneAnswer
  <2> SUFFICES ASSUME IInv, NEW h \in Handles
               PROVE  /\ Pending(h) <= 1
                      /\ Pending(h) = 1 => \E c \in Clients : client[c].h = h /\ Waiting(c)
                      /\ active => \A c \in Clients : client[c].h = h /\ Waiting(c) => Pending(h) = 1
    BY DEF OneAnswer
  <2> DEFINE Q == {i \in Requests : queue[i].h = h}
             w == IF worker.msg.h = h THEN 1 ELSE 0
  <2>1. Pending(h) = Cardinality(Q) + w + fop[h].sem
    <3>1. DOMAIN queue = Requests
      BY Types DEF IInv, Requests
    <3> QED
      BY <3>1 DEF Pending
  <2>2. h # NoHandle /\ fop[h].sem \in {0, 1}
    BY DEF IInv, MsgInv
  <2>3. Cardinality({}) = 0 /\ \A i : Cardinality({i}) = 1
    BY FS_EmptySet, FS_Singleton
  <2>4. CASE Q # {}
    <3>1. PICK i \in Q : TRUE
      BY <2>4
    <3>2. Q = {i} /\ w = 0 /\ fop[h].sem = 0 /\ queue[i].op \in Sync /\ i \in Requests
      BY <2>2, <3>1 DEF IInv, MsgInv, Wellformed
    <3>3. Cardinality(Q) = 1
      BY <2>3, <3>2
    <3>5. Pending(h) = 1
      <4> HIDE DEF Q, w
      <4> QED
        BY <2>1, <3>2, <3>3
    <3>4. \E c \in Clients : client[c].h = h /\ Waiting(c)
      BY <2>2, <3>1, <3>2 DEF IInv, OwnerInv, Waiting
    <3> QED
      BY <3>4, <3>5
  <2>5. CASE Q = {} /\ worker.msg.h = h
    <3>1. w = 1 /\ fop[h].sem = 0 /\ worker.msg.op \in Sync
      BY <2>2, <2>5 DEF IInv, MsgInv, Wellformed, NoMsg
    <3>2. Pending(h) = 1
      BY <2>1, <2>3, <2>5, <3>1
    <3>3. \E c \in Clients : client[c].h = h /\ Waiting(c)
      BY <2>2, <2>5, <3>1 DEF IInv, OwnerInv, Waiting
    <3> QED
      BY <3>2, <3>3
  <2>6. CASE Q = {} /\ worker.msg.h # h
    <3>1. Pending(h) = fop[h].sem
      <4>1. Cardinality(Q) = 0
        BY <2>3, <2>6
      <4>2. w = 0 /\ fop[h].sem \in Nat
        BY <2>2, <2>6
      <4> HIDE DEF Q, w
      <4> QED
        BY <2>1, <4>1, <4>2
    <3>2. fop[h].sem > 0 => \E c \in Clients : client[c].h = h /\ Waiting(c)
      BY DEF IInv, OwnerInv
    <3>3. active => \A c \in Clients : client[c].h = h /\ Waiting(c) => fop[h].sem > 0
      BY <2>6 DEF IInv, OwnerInv
    <3> QED
      BY <2>2, <3>1, <3>2, <3>3
  <2> QED
    BY <2>4, <2>5, <2>6
<1> QED
  BY <1>1, Inductive, PTL

(* A turn of the worker reads at least a chunk, or to the end of the file, *)
(* unless f_read fails: so while the service runs ramfs_fread comes short  *)
(* only at the end, or on a file that f_read has given up, and then with   *)
(* all that was read of it.                                                *)
THEOREM ReadsToTheEnd ==
  ASSUME Chunk <= Rounds * Block, Chunk <= Cache
  PROVE  SafetySpec => ShortReadAtEnd
<1>1. IInv /\ [Next]_vars =>
        [active => \A c \in Readers :
           LET h == client[c].h
           IN  ReadReturn(c) => \/ fop'[h].user = fop[h].user + Chunk
                                \/ fop'[h].user = fop[h].size
                                \/ fop[h].failed /\ fop'[h].user = fop[h].disk]_vars
  <2> SUFFICES ASSUME IInv, active, NEW c \in Readers, ReadReturn(c)
               PROVE  \/ fop'[client[c].h].user = fop[client[c].h].user + Chunk
                      \/ fop'[client[c].h].user = fop[client[c].h].size
                      \/ /\ fop[client[c].h].failed
                         /\ fop'[client[c].h].user = fop[client[c].h].disk
    OBVIOUS
  <2>1. PICK h : h = client[c].h
    OBVIOUS
  <2>2. Woken(c, "read") /\ "read" \in Sync /\ c \in Clients
    BY DEF ReadReturn, Sync, Clients
  <2>3. h \in Handles /\ fop[h] \in FopType /\ fop[h].sem = 1 /\ ReadOK(c) /\ client[c].pc = "read"
        /\ h # NoHandle
    BY <2>1, <2>2, WokenOwner
  <2>4. fop[h].user + fop[h].fifo = fop[h].disk 
        /\ (fop[h].fifo >= Chunk \/ fop[h].disk = fop[h].size \/ fop[h].failed)
    BY <2>1, <2>3 DEF ReadOK
  <2>5. PICK n : n = Min({fop[h].fifo, Chunk})
    OBVIOUS
  <2>6. fop'[h].user = fop[h].user + n
    BY <2>1, <2>3, <2>5, Types DEF ReadReturn, IInv, FopType
  <2>7. fop[h].fifo \in Nat /\ Chunk \in Nat
    BY <2>3 DEF FopType
  <2>8. n = Chunk \/ (n = fop[h].fifo /\ n <= Chunk)
    BY <2>5, <2>7, MinOfTwo
  <2>9. \/ n = Chunk \/ fop[h].user + n = fop[h].size
        \/ fop[h].failed /\ fop[h].user + n = fop[h].disk
    <3>1. CASE fop[h].fifo >= Chunk
      BY <2>7, <2>8, <3>1
    <3>2. CASE fop[h].disk = fop[h].size
      BY <2>4, <2>8, <3>2
    <3>3. CASE fop[h].failed
      BY <2>4, <2>8, <3>3
    <3> QED
      BY <2>4, <3>1, <3>2, <3>3
  <2> QED
    BY <2>1, <2>6, <2>9
<1> QED
  BY <1>1, Inductive, PTL DEF SafetySpec, ShortReadAtEnd

-----------------------------------------------------------------------------
(* The second half: how many messages there can be at a time.  Each can be *)
(* given its sender and a number: 0 for the request the sender waits for,  *)
(* 1 .. async for those it does not wait for, all of which are ahead of    *)
(* the request that it waits for.                                          *)
Numbered(by, nr) ==
  /\ by \in [Requests -> Clients] /\ nr \in [Requests -> 0 .. MaxAsync]
  /\ \A i, j \in Requests : by[i] = by[j] /\ nr[i] = nr[j] => i = j
  /\ \A i \in Requests : nr[i] = 0 =>
       queue[i].h # NoHandle /\ client[by[i]].h = queue[i].h
  /\ \A i \in Requests : nr[i] > 0 =>
       /\ by[i] \in Writers /\ nr[i] <= client[by[i]].async
       /\ Waiting(by[i]) => \E j \in Requests : i < j /\ queue[j].h = client[by[i]].h

NumberInv == \E by \in [Requests -> Clients], nr \in [Requests -> 0 .. MaxAsync] : Numbered(by, nr)

(* A client has sent nothing more since it has opened its file.            *)
AsyncIdle ==
  \A c \in Clients : client[c].pc = "idle" /\ client[c].h # NoHandle => client[c].async = 0

QueueInv == NumberInv /\ AsyncIdle

(* The queue has room for all that the clients can have sent.              *)
MaxQueued == Cardinality(Writers) * (MaxAsync + 1) + Cardinality(Readers)

Room ==
  /\ IsFiniteSet(Writers) /\ IsFiniteSet(Readers)
  /\ IF Readers = {} /\ MaxAsync > 0 THEN MaxQueued <= QueueLen ELSE MaxQueued < QueueLen

(* When no request is refused and no close fails, exactly the open files   *)
(* of the mux threads are registered, and every byte is accounted for.     *)
SlotOwners == \A i \in Slot : slots[i] # NoHandle => \E c \in Writers : client[c].h = slots[i]

(* Every byte accepted for a file is cached, written, or was left out by a *)
(* full volume.                                                            *)
Accounted(f) == f.disk + f.lost + f.fifo = f.user /\ (f.lost > 0 => VolumeMayFill)

WriteOK(c) ==
  LET h  == client[c].h
      f  == fop[h]
      pc == client[c].pc
  IN  h # NoHandle =>
        /\ f.open => Registered(h)
        /\ Accounted(f)
        /\ pc = "close" /\ f.sem > 0 => f.fifo = 0
        /\ pc = "write" /\ f.sem > 0 /\ Chunk <= Cache /\ Chunk <= Rounds * Block => Fits(h)

CalmInv == active /\ SlotOwners /\ \A c \in Writers : WriteOK(c)
LEMMA SenderWaits ==
  ASSUME IInv, NEW i \in Requests, queue[i].h # NoHandle,
         NEW c \in Clients, client[c].h = queue[i].h
  PROVE  Waiting(c)
<1>1. PICK d \in Clients : client[d].h = queue[i].h /\ client[d].pc = queue[i].op
  BY DEF IInv, OwnerInv
<1>2. d = c
  BY <1>1 DEF IInv, ClientInv, Owned
<1>3. queue[i].op \in Sync
  BY DEF IInv, MsgInv, Wellformed
<1> QED
  BY <1>1, <1>2, <1>3 DEF Waiting

LEMMA NumberSame ==
  ASSUME IInv, NumberInv, UNCHANGED queue,
         \A c \in Clients : /\ client'[c].async = client[c].async
                            /\ Waiting(c)' <=> Waiting(c)
                            /\ Waiting(c) => client'[c].h = client[c].h
  PROVE  NumberInv'
<1>1. PICK by \in [Requests -> Clients], nr \in [Requests -> 0 .. MaxAsync] : Numbered(by, nr)
  BY DEF NumberInv
<1>2. UNCHANGED Requests
  BY DEF Requests
<1>3. \A i \in Requests : nr[i] = 0 => client'[by[i]].h = client[by[i]].h
  BY <1>1, SenderWaits DEF Numbered
<1>4. Numbered(by, nr)'
  <2>1. /\ by \in [Requests' -> Clients] /\ nr \in [Requests' -> 0 .. MaxAsync]
        /\ \A i, j \in Requests' : by[i] = by[j] /\ nr[i] = nr[j] => i = j
        /\ \A i \in Requests' : nr[i] = 0 =>
             queue'[i].h # NoHandle /\ client'[by[i]].h = queue'[i].h
    BY <1>1, <1>2, <1>3 DEF Numbered
  <2>2. ASSUME NEW i \in Requests, nr[i] > 0
        PROVE  /\ by[i] \in Writers /\ nr[i] <= client'[by[i]].async
               /\ Waiting(by[i])' => \E j \in Requests : i < j /\ queue[j].h = client'[by[i]].h
    BY <1>1, <2>2 DEF Numbered
  <2> QED
    BY <1>2, <2>1, <2>2 DEF Numbered
<1> QED
  BY <1>2, <1>4 DEF NumberInv

(* A client that goes on has nothing left in the queue.                    *)
LEMMA NumberReturn ==
  ASSUME IInv, NumberInv, NEW c \in Clients, Waiting(c), fop[client[c].h].sem > 0,
         UNCHANGED queue, OnlyClient(c)
  PROVE  NumberInv'
<1>1. PICK by \in [Requests -> Clients], nr \in [Requests -> 0 .. MaxAsync] : Numbered(by, nr)
  BY DEF NumberInv
<1>2. UNCHANGED Requests
  BY DEF Requests
<1>3. client[c].h # NoHandle /\ fop[client[c].h].sem # 0
  BY Types DEF IInv, ClientInv, ClientOK, Waiting, Sync
<1>4. \A i \in Requests : queue[i].h # client[c].h
  BY <1>3 DEF IInv, MsgInv
<1>5. \A i \in Requests : by[i] # c
  <2>1. ASSUME NEW i \in Requests, by[i] = c PROVE FALSE
    <3>1. nr[i] = 0 \/ nr[i] > 0
      BY <1>1
    <3> QED
      BY <1>1, <1>4, <2>1, <3>1 DEF Numbered
  <2> QED
    BY <2>1
<1>6. \A i \in Requests : client'[by[i]] = client[by[i]] /\ (Waiting(by[i])' <=> Waiting(by[i]))
  BY <1>5 DEF OnlyClient, Waiting
<1>7. Numbered(by, nr)'
  BY <1>1, <1>2, <1>6 DEF Numbered
<1> QED
  BY <1>2, <1>7 DEF NumberInv

(* A client sends the request that it is going to wait for.                *)
LEMMA NumberAsks ==
  ASSUME IInv, NumberInv, NEW c \in Clients, ~Waiting(c), NEW op, NEW h \in Handles, NEW n,
         Joins([op |-> op, h |-> h], n), OnlyClient(c),
         client[c].h \in {NoHandle, h}, client'[c].h = h, client'[c].async = client[c].async
  PROVE  NumberInv'
<1>1. PICK by \in [Requests -> Clients], nr \in [Requests -> 0 .. MaxAsync] : Numbered(by, nr)
  BY DEF NumberInv
<1>2. /\ Requests' = Requests \cup {n} /\ n \notin Requests /\ queue'[n].h = h /\ h # NoHandle
      /\ \A i \in Requests : i < n /\ queue'[i] = queue[i]
  BY DEF Joins
<1>3. \A i \in Requests : nr[i] = 0 => by[i] # c
  BY <1>1, SenderWaits DEF Numbered
<1>9. PICK by2, nr2 : /\ by2 = [i \in Requests' |-> IF i = n THEN c ELSE by[i]]
                       /\ nr2 = [i \in Requests' |-> IF i = n THEN 0 ELSE nr[i]]
  OBVIOUS
<1>4. /\ by2 \in [Requests' -> Clients] /\ nr2 \in [Requests' -> 0 .. MaxAsync]
      /\ by2[n] = c /\ nr2[n] = 0
      /\ \A i \in Requests : by2[i] = by[i] /\ nr2[i] = nr[i]
  BY <1>1, <1>2, <1>9 DEF Numbered
<1>5. \A i, j \in Requests' : by2[i] = by2[j] /\ nr2[i] = nr2[j] => i = j
  BY <1>1, <1>2, <1>3, <1>4 DEF Numbered
<1>6. ASSUME NEW i \in Requests', nr2[i] = 0
      PROVE  queue'[i].h # NoHandle /\ client'[by2[i]].h = queue'[i].h
  <2>1. CASE i = n
    BY <1>2, <1>4, <2>1
  <2>2. CASE i \in Requests
    <3>1. by[i] # c /\ by[i] \in Clients
      BY <1>1, <1>3, <1>4, <1>6, <2>2
    <3> QED
      BY <1>1, <1>2, <1>4, <1>6, <2>2, <3>1 DEF Numbered, OnlyClient
  <2> QED
    BY <1>2, <2>1, <2>2
<1>7. ASSUME NEW i \in Requests', nr2[i] > 0
      PROVE  /\ by2[i] \in Writers /\ nr2[i] <= client'[by2[i]].async
             /\ Waiting(by2[i])' => \E j \in Requests' : i < j /\ queue'[j].h = client'[by2[i]].h
  <2>1. i \in Requests /\ by2[i] = by[i] /\ nr2[i] = nr[i] /\ by[i] \in Clients
    BY <1>2, <1>4, <1>7, <1>1
  <2>2. CASE by[i] = c
    BY <1>1, <1>2, <1>7, <2>1, <2>2 DEF Numbered
  <2>3. CASE by[i] # c
    <3>1. client'[by[i]] = client[by[i]] /\ (Waiting(by[i])' <=> Waiting(by[i]))
      BY <2>1, <2>3 DEF OnlyClient, Waiting
    <3>2. /\ by[i] \in Writers /\ nr[i] <= client[by[i]].async
          /\ Waiting(by[i]) => \E j \in Requests : i < j /\ queue[j].h = client[by[i]].h
      BY <1>1, <1>7, <2>1 DEF Numbered
    <3> QED
      BY <1>2, <2>1, <3>1, <3>2
  <2> QED
    BY <2>2, <2>3
<1>8. Numbered(by2, nr2)'
  BY <1>4, <1>5, <1>6, <1>7 DEF Numbered
<1> QED
  BY <1>4, <1>8 DEF NumberInv

(* A mux thread sends one more that it does not wait for.                  *)
LEMMA NumberAsync ==
  ASSUME IInv, NumberInv, NEW c \in Writers, NEW op \in Async, AsyncRequest(c, op)
  PROVE  NumberInv'
<1>1. PICK by \in [Requests -> Clients], nr \in [Requests -> 0 .. MaxAsync] : Numbered(by, nr)
  BY DEF NumberInv
<1>2. c \in Clients /\ client[c].async + 1 \in 0 .. MaxAsync /\ client[c].async + 1 > 0
  BY Types DEF IInv, ClientType, AsyncRequest, Clients
<1>3. /\ \A d \in Clients : d # c => client'[d] = client[d]
      /\ client'[c].async = client[c].async + 1 /\ client'[c].h = client[c].h
      /\ client'[c].pc = "idle"
  BY <1>2, Types DEF IInv, ClientType, AsyncRequest
<1>4. ~Waiting(c)' /\ \A d \in Clients : d # c => (Waiting(d)' <=> Waiting(d))
  BY <1>3 DEF Waiting, Sync
<1>5. PICK n : Joins([op |-> op, h |-> NoHandle], n)
  <2>1. [op |-> op, h |-> NoHandle] \in Message
    BY DEF Message
  <2> QED
    BY <2>1, Joined DEF IInv, AsyncRequest, Send
<1>6. /\ Requests' = Requests \cup {n} /\ n \notin Requests
      /\ \A i \in Requests : i < n /\ queue'[i] = queue[i]
  BY <1>5 DEF Joins
<1>7. \A i \in Requests : by[i] = c => nr[i] <= client[c].async
  <2>1. \A i \in Requests : nr[i] \in Nat /\ 0 <= client[c].async
    BY <1>1, <1>2, Types DEF IInv, ClientType
  <2> QED
    BY <1>1, <2>1 DEF Numbered
<1>14. PICK by2, nr2 :
         /\ by2 = [i \in Requests' |-> IF i = n THEN c ELSE by[i]]
         /\ nr2 = [i \in Requests' |-> IF i = n THEN client[c].async + 1 ELSE nr[i]]
  OBVIOUS
<1>8. /\ by2 \in [Requests' -> Clients] /\ nr2 \in [Requests' -> 0 .. MaxAsync]
      /\ by2[n] = c /\ nr2[n] = client[c].async + 1
      /\ \A i \in Requests : by2[i] = by[i] /\ nr2[i] = nr[i]
  BY <1>1, <1>2, <1>6, <1>14 DEF Numbered
<1>9. \A i \in Requests : by[i] = c => nr[i] # client[c].async + 1
  <2>1. \A i \in Requests : nr[i] \in Nat /\ client[c].async \in Nat
    BY <1>1, <1>2, Types DEF IInv, ClientType
  <2> QED
    BY <1>7, <2>1
<1>10. \A i, j \in Requests' : by2[i] = by2[j] /\ nr2[i] = nr2[j] => i = j
  BY <1>1, <1>6, <1>8, <1>9 DEF Numbered
<1>11. ASSUME NEW i \in Requests', nr2[i] = 0
      PROVE  queue'[i].h # NoHandle /\ client'[by2[i]].h = queue'[i].h
  <2>1. i \in Requests /\ by[i] \in Clients
    BY <1>1, <1>2, <1>6, <1>8, <1>11
  <2>2. client'[by[i]].h = client[by[i]].h
    BY <1>3, <2>1
  <2> QED
    BY <1>1, <1>6, <1>8, <1>11, <2>1, <2>2 DEF Numbered
<1>12. ASSUME NEW i \in Requests', nr2[i] > 0
      PROVE  /\ by2[i] \in Writers /\ nr2[i] <= client'[by2[i]].async
             /\ Waiting(by2[i])' => \E j \in Requests' : i < j /\ queue'[j].h = client'[by2[i]].h
  <2>1. CASE i = n
    BY <1>2, <1>3, <1>4, <1>8, <2>1
  <2>2. CASE i \in Requests
    <3>1. by2[i] = by[i] /\ nr2[i] = nr[i] /\ by[i] \in Clients
      BY <1>1, <1>8, <2>2
    <3>2. CASE by[i] = c
      <4>1. nr[i] \in Nat /\ client[c].async \in Nat
        BY <1>1, <1>2, <2>2, Types DEF IInv, ClientType
      <4> QED
        BY <1>3, <1>4, <1>7, <2>2, <3>1, <3>2, <4>1
    <3>3. CASE by[i] # c
      <4>1. client'[by[i]] = client[by[i]] /\ (Waiting(by[i])' <=> Waiting(by[i]))
        BY <1>3, <1>4, <3>1, <3>3
      <4>2. /\ by[i] \in Writers /\ nr[i] <= client[by[i]].async
            /\ Waiting(by[i]) => \E j \in Requests : i < j /\ queue[j].h = client[by[i]].h
        BY <1>1, <1>12, <2>2, <3>1 DEF Numbered
      <4> QED
        BY <1>6, <3>1, <4>1, <4>2
    <3> QED
      BY <3>2, <3>3
  <2> QED
    BY <1>6, <2>1, <2>2
<1>13. Numbered(by2, nr2)'
  BY <1>8, <1>10, <1>11, <1>12 DEF Numbered
<1> QED
  BY <1>8, <1>13 DEF NumberInv

(* The worker takes the first message, the others move up.                 *)
LEMMA NumberRecv ==
  ASSUME IInv, NumberInv, Recv
  PROVE  NumberInv'
<1>1. PICK by \in [Requests -> Clients], nr \in [Requests -> 0 .. MaxAsync] : Numbered(by, nr)
  BY DEF NumberInv
<1>2. Takes /\ UNCHANGED client
  BY Taken DEF Recv, IInv
<1>3. /\ \A i \in Requests' : i \in Nat /\ i + 1 \in Requests /\ queue'[i] = queue[i + 1]
      /\ \A i \in Requests : i \in Nat /\ (i = 1 \/ (i - 1 \in Requests' /\ queue'[i - 1] = queue[i]))
  BY <1>2, Types DEF Takes, IInv
<1>9. PICK by2, nr2 : /\ by2 = [i \in Requests' |-> by[i + 1]]
                      /\ nr2 = [i \in Requests' |-> nr[i + 1]]
  OBVIOUS
<1>4. /\ by2 \in [Requests' -> Clients] /\ nr2 \in [Requests' -> 0 .. MaxAsync]
      /\ \A i \in Requests' : by2[i] = by[i + 1] /\ nr2[i] = nr[i + 1]
  BY <1>1, <1>3, <1>9 DEF Numbered
<1>5. \A i, j \in Requests' : by2[i] = by2[j] /\ nr2[i] = nr2[j] => i = j
  <2>1. ASSUME NEW i \in Requests', NEW j \in Requests', by2[i] = by2[j], nr2[i] = nr2[j]
        PROVE  i = j
    <3>1. i + 1 = j + 1
      BY <1>1, <1>3, <1>4, <2>1 DEF Numbered
    <3> QED
      BY <1>3, <3>1
  <2> QED
    BY <2>1
<1>6. \A i \in Requests' : nr2[i] = 0 =>
        queue'[i].h # NoHandle /\ client'[by2[i]].h = queue'[i].h
  BY <1>1, <1>2, <1>3, <1>4 DEF Numbered
<1>7. ASSUME NEW i \in Requests', nr2[i] > 0
      PROVE  /\ by2[i] \in Writers /\ nr2[i] <= client'[by2[i]].async
             /\ Waiting(by2[i])' => \E j \in Requests' : i < j /\ queue'[j].h = client'[by2[i]].h
  <2>1. i + 1 \in Requests /\ i \in Nat /\ nr[i + 1] > 0 /\ by2[i] = by[i + 1] /\ nr2[i] = nr[i + 1]
    BY <1>3, <1>4, <1>7
  <2>2. /\ by[i + 1] \in Writers /\ nr[i + 1] <= client[by[i + 1]].async
        /\ Waiting(by[i + 1]) => \E j \in Requests : i + 1 < j /\ queue[j].h = client[by[i + 1]].h
    BY <1>1, <2>1 DEF Numbered
  <2>3. ASSUME Waiting(by2[i])'
        PROVE  \E j \in Requests' : i < j /\ queue'[j].h = client'[by2[i]].h
    <3>1. Waiting(by[i + 1])
      BY <1>2, <2>1, <2>3 DEF Waiting
    <3>2. PICK j \in Requests : i + 1 < j /\ queue[j].h = client[by[i + 1]].h
      BY <2>2, <3>1
    <3>3. j \in Nat /\ j # 1 /\ i < j - 1
      BY <1>3, <2>1, <3>2
    <3>4. j - 1 \in Requests' /\ queue'[j - 1] = queue[j]
      BY <1>3, <3>3
    <3> QED
      BY <1>2, <2>1, <3>2, <3>3, <3>4
  <2> QED
    BY <1>2, <2>1, <2>2, <2>3
<1>8. Numbered(by2, nr2)'
  BY <1>4, <1>5, <1>6, <1>7 DEF Numbered
<1> QED
  BY <1>4, <1>8 DEF NumberInv

(* What the calls and returns of a client do to the queue and to where the *)
(* clients are.                                                            *)
LEMMA AskStep ==
  ASSUME IInv, NEW c \in Clients,
         Open(c) \/ WriteRequest(c) \/ ReadRequest(c) \/ CloseRequest(c)
  PROVE  \E n : \E op \in Sync, h \in Handles :
           /\ Joins([op |-> op, h |-> h], n) /\ OnlyClient(c) /\ client[c].pc = "idle"
           /\ client[c].h \in {NoHandle, h} /\ client'[c].h = h /\ client'[c].pc = op
           /\ client'[c].async = client[c].async
<1>1. ASSUME NEW op \in Sync, NEW h \in Handles, Send(op, h)
      PROVE  \E n : Joins([op |-> op, h |-> h], n)
  <2>1. [op |-> op, h |-> h] \in Message
    BY DEF Message
  <2> QED
    BY <1>1, <2>1, Joined DEF IInv, Send
<1>2. client[c] \in ClientType /\ client \in [Clients -> ClientType]
  BY Types DEF IInv
<1>3. CASE Open(c)
  <2>1. PICK h \in Handles : /\ Send("open", h) /\ client[c].pc = "idle" /\ client[c].h = NoHandle
                             /\ client' = [client EXCEPT ![c].pc = "open", ![c].h = h]
    BY <1>3 DEF Open
  <2>2. /\ client'[c].h = h /\ client'[c].pc = "open" /\ client'[c].async = client[c].async
        /\ OnlyClient(c) /\ "open" \in Sync
    BY <1>2, <2>1 DEF OnlyClient, ClientType, Sync
  <2> QED
    BY <1>1, <2>1, <2>2
<1>4. ASSUME NEW op \in Sync, NEW mode, Idle(c, mode), Request(c, op)
      PROVE  \E n : \E h \in Handles :
           /\ Joins([op |-> op, h |-> h], n) /\ OnlyClient(c) /\ client[c].pc = "idle"
           /\ client[c].h \in {NoHandle, h} /\ client'[c].h = h /\ client'[c].pc = op
           /\ client'[c].async = client[c].async
  <2>1. PICK h \in Handles : h = client[c].h /\ client[c].pc = "idle"
    BY <1>2, <1>4 DEF Idle, ClientType
  <2>2. Send(op, h) /\ client' = [client EXCEPT ![c].pc = op]
    BY <1>4, <2>1 DEF Request
  <2>3. /\ client'[c].h = h /\ client'[c].pc = op /\ client'[c].async = client[c].async
        /\ OnlyClient(c)
    BY <1>2, <2>1, <2>2 DEF OnlyClient, ClientType
  <2> QED
    BY <1>1, <2>1, <2>2, <2>3
<1>5. "write" \in Sync /\ "read" \in Sync /\ "close" \in Sync
  BY DEF Sync
<1> QED
  BY <1>3, <1>4, <1>5 DEF WriteRequest, ReadRequest, CloseRequest

LEMMA ReturnStep ==
  ASSUME IInv, NEW c \in Clients, ClientReturn(c)
  PROVE  /\ Waiting(c) /\ fop[client[c].h].sem > 0 /\ UNCHANGED <<active, queue, slots, worker>>
         /\ OnlyClient(c) /\ client'[c].pc = "idle" /\ client'[c].async = 0
         /\ client'[c].h \in {client[c].h, NoHandle}
<1>1. \E g \in {client[c].h, NoHandle} : client' = [client EXCEPT ![c] = IdleClient(g, 0)]
  BY DEF ClientReturn, OpenReturn, WriteReturn, ReadReturn, CloseReturn
<1>2. client \in [Clients -> ClientType]
  BY Types DEF IInv
<1>3. OnlyClient(c) /\ client'[c].pc = "idle" /\ client'[c].async = 0
      /\ client'[c].h \in {client[c].h, NoHandle}
  BY <1>1, <1>2 DEF IdleClient, OnlyClient
<1>4. UNCHANGED <<active, queue, slots, worker>>
      /\ \E op \in {"open", "write", "read", "close"} : Woken(c, op)
  BY DEF ClientReturn, OpenReturn, WriteReturn, ReadReturn, CloseReturn
<1> QED
  BY <1>3, <1>4 DEF Waiting, Woken, Sync

LEMMA CloseRefusedStep ==
  ASSUME IInv, NEW c \in Clients, CloseRefused(c)
  PROVE  /\ client[c].pc = "idle" /\ client'[c].pc = "idle" /\ client'[c].h = NoHandle
         /\ client'[c].async = client[c].async /\ OnlyClient(c) /\ UNCHANGED queue
<1>1. client \in [Clients -> ClientType] /\ client[c].pc = "idle"
  BY Types DEF IInv, CloseRefused, Idle
<1> QED
  BY <1>1 DEF CloseRefused, OnlyClient, ClientType

LEMMA NextSplit ==
  ASSUME [Next]_vars
  PROVE  \/ UNCHANGED <<queue, client>>
         \/ \E c \in Clients : Open(c) \/ WriteRequest(c) \/ ReadRequest(c) \/ CloseRequest(c)
         \/ \E c \in Clients : ClientReturn(c)
         \/ \E c \in Clients : CloseRefused(c)
         \/ \E c \in Writers, op \in Async : AsyncRequest(c, op)
         \/ Recv
         \/ Destroy
<1>1. Worker => Recv \/ UNCHANGED <<queue, client>>
  BY DEF Worker, Exit, RecvEmpty, DrainBlock, DrainNext, DrainEnd, ServeOpen, ServeClose,
         ServeRead, ServeWrite, ServeAsync, Served
<1>2. \A c : WriteFast(c) \/ ReadFast(c) => UNCHANGED <<queue, client>>
  BY DEF WriteFast, ReadFast
<1>3. UNCHANGED vars => UNCHANGED <<queue, client>>
  BY DEF vars
<1> QED
  BY <1>1, <1>2, <1>3 DEF Next, ClientCall

LEMMA QueueNext == ASSUME IInv, QueueInv, [Next]_vars PROVE QueueInv'
<1> USE DEF QueueInv
<1>1. CASE UNCHANGED <<queue, client>>
  BY <1>1, NumberSame DEF Waiting, AsyncIdle
<1>2. ASSUME NEW c \in Clients,
             Open(c) \/ WriteRequest(c) \/ ReadRequest(c) \/ CloseRequest(c)
      PROVE  QueueInv'
  <2>0. PICK n : \E op \in Sync, h \in Handles :
           /\ Joins([op |-> op, h |-> h], n) /\ OnlyClient(c) /\ client[c].pc = "idle"
           /\ client[c].h \in {NoHandle, h} /\ client'[c].h = h /\ client'[c].pc = op
           /\ client'[c].async = client[c].async
    BY <1>2, AskStep
  <2>1. PICK op \in Sync, h \in Handles :
           /\ Joins([op |-> op, h |-> h], n) /\ OnlyClient(c) /\ client[c].pc = "idle"
           /\ client[c].h \in {NoHandle, h} /\ client'[c].h = h /\ client'[c].pc = op
           /\ client'[c].async = client[c].async
    BY <2>0
  <2>2. ~Waiting(c) /\ client'[c].pc # "idle"
    BY <2>1 DEF Waiting, Sync
  <2>3. NumberInv'
    BY <2>1, <2>2, NumberAsks
  <2>4. AsyncIdle'
    BY <2>1, <2>2 DEF AsyncIdle, OnlyClient
  <2> QED
    BY <2>3, <2>4
<1>3. ASSUME NEW c \in Clients, ClientReturn(c) PROVE QueueInv'
  BY <1>3, ReturnStep, NumberReturn DEF AsyncIdle, OnlyClient
<1>4. ASSUME NEW c \in Clients, CloseRefused(c) PROVE QueueInv'
  <2>1. ~Waiting(c) /\ ~Waiting(c)'
    BY <1>4, CloseRefusedStep DEF Waiting, Sync
  <2>2. NumberInv'
    <3>1. \A d \in Clients : /\ client'[d].async = client[d].async
                             /\ Waiting(d)' <=> Waiting(d)
                             /\ Waiting(d) => client'[d].h = client[d].h
      BY <1>4, <2>1, CloseRefusedStep DEF OnlyClient, Waiting
    <3> QED
      BY <1>4, <3>1, CloseRefusedStep, NumberSame
  <2>3. AsyncIdle'
    BY <1>4, CloseRefusedStep DEF AsyncIdle, OnlyClient
  <2> QED
    BY <2>2, <2>3
<1>5. ASSUME NEW c \in Writers, NEW op \in Async, AsyncRequest(c, op) PROVE QueueInv'
  <2>1. AsyncIdle'
    BY <1>5, Types DEF AsyncIdle, AsyncRequest, IInv, ClientType, Clients
  <2> QED
    BY <1>5, <2>1, NumberAsync
<1>6. CASE Recv
  BY <1>6, NumberRecv DEF Recv, AsyncIdle
<1>7. CASE Destroy
  <2>1. Requests' = {} /\ UNCHANGED client
    BY <1>7 DEF Destroy, Requests
  <2>2. PICK e : e = [i \in {} |-> 0]
    OBVIOUS
  <2>3. e \in [Requests' -> Clients] /\ e \in [Requests' -> 0 .. MaxAsync]
    BY <2>1, <2>2
  <2>4. Numbered(e, e)'
    BY <2>1, <2>3 DEF Numbered
  <2>5. NumberInv'
    BY <2>3, <2>4 DEF NumberInv
  <2> QED
    BY <2>1, <2>5 DEF AsyncIdle
<1> QED
  BY <1>1, <1>2, <1>3, <1>4, <1>5, <1>6, <1>7, NextSplit

LEMMA QueueInit == ASSUME Init PROVE QueueInv
<1>1. Requests = {} /\ \A c \in Clients : client[c].h = NoHandle
  BY DEF Init, Requests, IdleClient
<1>2. PICK e : e = [i \in {} |-> 0]
  OBVIOUS
<1>3. e \in [Requests -> Clients] /\ e \in [Requests -> 0 .. MaxAsync]
  BY <1>1, <1>2
<1>4. Numbered(e, e)
  BY <1>1, <1>3 DEF Numbered
<1> QED
  BY <1>1, <1>3, <1>4 DEF QueueInv, NumberInv, AsyncIdle

(* The bound: an idle client that may still send leaves room for it.       *)
LEMMA RoomLeft ==
  ASSUME IInv, QueueInv, Room, active, NEW c \in Clients, client[c].pc = "idle",
         client[c].h # NoHandle \/ client[c].async < MaxAsync
  PROVE  CanSend
<1>1. PICK by \in [Requests -> Clients], nr \in [Requests -> 0 .. MaxAsync] : Numbered(by, nr)
  BY DEF QueueInv, NumberInv
<1> DEFINE P == Writers \X (0 .. MaxAsync)
           Q == Readers \X {0}
           T == P \cup Q
           f == [i \in Requests |-> <<by[i], nr[i]>>]
<1>2. /\ IsFiniteSet(P) /\ Cardinality(P) = Cardinality(Writers) * (MaxAsync + 1)
      /\ IsFiniteSet(Q) /\ Cardinality(Q) = Cardinality(Readers)
      /\ Cardinality(Writers) \in Nat /\ Cardinality(Readers) \in Nat
  <2>1. /\ IsFiniteSet(0 .. MaxAsync) /\ Cardinality(0 .. MaxAsync) = MaxAsync + 1
        /\ IsFiniteSet({0}) /\ Cardinality({0}) = 1
    <3>1. 0 \in Int /\ MaxAsync \in Int /\ ~(0 > MaxAsync)
      OBVIOUS
    <3>2. /\ IsFiniteSet(0 .. MaxAsync)
          /\ Cardinality(0 .. MaxAsync) = IF 0 > MaxAsync THEN 0 ELSE MaxAsync - 0 + 1
      BY <3>1, FS_Interval
    <3>3. IsFiniteSet({0}) /\ Cardinality({0}) = 1
      BY FS_Singleton
    <3>4. Cardinality(0 .. MaxAsync) = MaxAsync + 1
      BY <3>1, <3>2
    <3> QED
      BY <3>2, <3>3, <3>4
  <2>2. Cardinality(Writers) \in Nat /\ Cardinality(Readers) \in Nat
    BY FS_CardinalityType DEF Room
  <2>3. IsFiniteSet(P) /\ Cardinality(P) = Cardinality(Writers) * (MaxAsync + 1)
    BY <2>1, FS_Product DEF Room
  <2>4. IsFiniteSet(Q) /\ Cardinality(Q) = Cardinality(Readers) * 1
    BY <2>1, FS_Product DEF Room
  <2> QED
    BY <2>2, <2>3, <2>4
<1>3. IsFiniteSet(T) /\ Cardinality(T) = MaxQueued
  <2>1. P \cap Q = {}
    OBVIOUS
  <2>3. T = P \cup Q
    OBVIOUS
  <2> HIDE DEF P, Q, T
  <2>4. /\ IsFiniteSet(P \cup Q)
        /\ Cardinality(P \cup Q) = Cardinality(P) + Cardinality(Q) - Cardinality(P \cap Q)
    BY <1>2, FS_Union
  <2>5. Cardinality({}) = 0
    BY FS_EmptySet
  <2>2. IsFiniteSet(T) /\ Cardinality(T) = Cardinality(P) + Cardinality(Q) - 0
    BY <2>1, <2>3, <2>4, <2>5
  <2> QED
    BY <1>2, <2>2 DEF MaxQueued
<1>4. \A i \in Requests : f[i] \in T
  <2>1. ASSUME NEW i \in Requests PROVE <<by[i], nr[i]>> \in T
    <3>1. nr[i] = 0 \/ nr[i] > 0
      BY <1>1
    <3>2. by[i] \in Clients /\ nr[i] \in 0 .. MaxAsync
      BY <1>1
    <3> QED
      BY <1>1, <3>1, <3>2 DEF Numbered, Clients
  <2> QED
    BY <2>1
<1>5. /\ IsFiniteSet(Requests) /\ Cardinality(Requests) = Len(queue) /\ Len(queue) \in Nat
  <2>1. queue \in Seq(Message)
    BY Types DEF IInv
  <2>2. Len(queue) \in Nat
    BY <2>1
  <2>3. /\ IsFiniteSet(1 .. Len(queue))
        /\ Cardinality(1 .. Len(queue)) = IF 1 > Len(queue) THEN 0 ELSE Len(queue) - 1 + 1
    <3>1. 1 \in Int /\ Len(queue) \in Int
      BY <2>2
    <3> QED
      BY <3>1, FS_Interval
  <2> QED
    BY <2>2, <2>3 DEF Requests
<1>6. ASSUME NEW U, IsFiniteSet(U), \A i \in Requests : f[i] \in U
      PROVE  Len(queue) <= Cardinality(U)
  <2>1. f \in [Requests -> U]
    BY <1>6
  <2>2. ASSUME NEW i \in Requests, NEW j \in Requests, i # j PROVE f[i] # f[j]
    BY <1>1, <2>2 DEF Numbered
  <2>3. Cardinality(U) \in Nat
    BY <1>6, FS_CardinalityType
  <2> HIDE DEF f
  <2>4. ~(Cardinality(U) < Cardinality(Requests))
    BY <1>5, <1>6, <2>1, <2>2, FS_PigeonHole
  <2> QED
    BY <1>5, <2>3, <2>4
<1>7. \A i \in Requests : f[i] # <<c, 0>>
  <2>1. ASSUME NEW i \in Requests, by[i] = c, nr[i] = 0 PROVE FALSE
    <3>1. queue[i].h # NoHandle /\ client[c].h = queue[i].h
      BY <1>1, <2>1 DEF Numbered
    <3>2. Waiting(c)
      BY <3>1, SenderWaits
    <3> QED
      BY <3>2 DEF Waiting, Sync
  <2> QED
    BY <2>1
<1>8. \A i \in Requests : MaxAsync > 0 => f[i] # <<c, MaxAsync>>
  <2>1. ASSUME NEW i \in Requests, by[i] = c, nr[i] = MaxAsync, MaxAsync > 0 PROVE FALSE
    <3>1. MaxAsync <= client[c].async /\ client[c].async \in Nat
      BY <1>1, <2>1, Types DEF Numbered, IInv, ClientType
    <3>2. client[c].h # NoHandle => client[c].async = 0
      BY DEF QueueInv, AsyncIdle
    <3> QED
      BY <2>1, <3>1, <3>2
  <2> QED
    BY <2>1
<1>9. <<c, 0>> \in T
  BY DEF Clients
<1>10. IsFiniteSet(T \ {<<c, 0>>}) /\ Cardinality(T \ {<<c, 0>>}) = MaxQueued - 1
  <2> HIDE DEF T
  <2> QED
    BY <1>3, <1>9, FS_RemoveElement
<1>11. MaxQueued \in Nat /\ QueueLen \in Nat
  BY <1>3, FS_CardinalityType
<1>12. Len(queue) + 1 < QueueLen
  <2>1. CASE Readers = {} /\ MaxAsync > 0
    <3> DEFINE U == (T \ {<<c, 0>>}) \ {<<c, MaxAsync>>}
    <3>1. <<c, MaxAsync>> \in T \ {<<c, 0>>}
      BY <2>1 DEF Clients
    <3>2. IsFiniteSet(U) /\ Cardinality(U) = MaxQueued - 1 - 1
      <4>1. PICK V : V = T \ {<<c, 0>>}
        OBVIOUS
      <4>2. U = V \ {<<c, MaxAsync>>} /\ <<c, MaxAsync>> \in V
            /\ IsFiniteSet(V) /\ Cardinality(V) = MaxQueued - 1
        BY <1>10, <3>1, <4>1
      <4>3. PICK e : e = <<c, MaxAsync>>
        OBVIOUS
      <4> HIDE DEF T, U
      <4>4. U = V \ {e} /\ e \in V
        BY <4>2, <4>3
      <4>5. IsFiniteSet(V \ {e}) /\ Cardinality(V \ {e}) = Cardinality(V) - 1
        BY <4>2, <4>4, FS_RemoveElement
      <4> QED
        BY <4>2, <4>4, <4>5
    <3>3. \A i \in Requests : f[i] \in U
      <4> HIDE DEF T, f
      <4> QED
        BY <1>4, <1>7, <1>8, <2>1
    <3>4. Len(queue) <= MaxQueued - 1 - 1
      <4> HIDE DEF U, f
      <4> QED
        BY <1>6, <3>2, <3>3
    <3>5. MaxQueued <= QueueLen
      BY <2>1 DEF Room
    <3> HIDE DEF T, U, P, Q, f
    <3> QED
      BY <1>5, <1>11, <3>4, <3>5
  <2>2. CASE ~(Readers = {} /\ MaxAsync > 0)
    <3>1. \A i \in Requests : f[i] \in T \ {<<c, 0>>}
      <4> HIDE DEF T, f
      <4> QED
        BY <1>4, <1>7
    <3>2. Len(queue) <= MaxQueued - 1
      <4> HIDE DEF T, f
      <4> QED
        BY <1>6, <1>10, <3>1
    <3>3. MaxQueued < QueueLen
      BY <2>2 DEF Room
    <3> HIDE DEF T, P, Q, f
    <3> QED
      BY <1>5, <1>11, <3>2, <3>3
  <2> QED
    BY <2>1, <2>2
<1> QED
  BY <1>12 DEF CanSend


(* The worker and the mux threads, whatever they do, keep every message    *)
(* numbered: each client has what it may have sent in the queue, at most.  *)
THEOREM QueueInductive == SafetySpec => []QueueInv
<1>1. Init => QueueInv
  BY QueueInit
<1>2. IInv /\ QueueInv /\ [Next]_vars => QueueInv'
  BY QueueNext
<1> QED
  BY <1>1, <1>2, Inductive, PTL DEF SafetySpec

(* With a queue longer than what the mux threads and the servents can have *)
(* sent at a time no request of ramdisk.cpp is refused for want of room.   *)
THEOREM NothingRefused == ASSUME Room PROVE SafetySpec => []NeverRefused
<1>1. IInv /\ QueueInv => NeverRefused
  BY RoomLeft DEF NeverRefused
<1> QED
  BY <1>1, Inductive, QueueInductive, PTL

-----------------------------------------------------------------------------
(* Without quit and errors of f_close, and with a slot for each mux thread.*)
Calm ==
  /\ ~CloseMayFail /\ ~MayQuit /\ Room
  /\ Cardinality(Writers) <= NSlots

(* Slots of other handles stay as they are.                                *)
OthersStay(h) ==
  \A i \in Slot : IF slots[i] \in {h, NoHandle} THEN slots'[i] \in {h, NoHandle}
                                                ELSE slots'[i] = slots[i]

(* A step of one client with one handle, or of the worker for them.        *)
LEMMA CalmKept ==
  ASSUME IInv, CalmInv, NEW c \in Clients, NEW h \in Handles, active' = active,
         OnlyFop(h), OnlyClient(c), OthersStay(h),
         client[c].h \in {NoHandle, h}, client'[c].h \in {NoHandle, h},
         \A d \in Clients : d # c => client[d].h # h,
         Registered(h)' => c \in Writers /\ client'[c].h = h,
         c \in Writers => WriteOK(c)'
  PROVE  CalmInv'
<1>1. /\ slots \in [Slot -> Handles \cup {NoHandle}] /\ UNCHANGED Slot
      /\ \A d \in Clients : client[d].h \in Handles \cup {NoHandle}
      /\ Writers \subseteq Clients
  BY Types DEF IInv, ClientType, Clients, Slot
<1>2. ASSUME NEW d \in Writers, d # c PROVE WriteOK(d)'
  <2>1. PICK g : g = client[d].h
    OBVIOUS
  <2>2. client'[d] = client[d] /\ WriteOK(d) /\ g # h /\ g \in Handles \cup {NoHandle}
    BY <1>1, <1>2, <2>1 DEF CalmInv, OnlyClient
  <2>3. CASE g # NoHandle
    <3>1. fop'[g] = fop[g]
      BY <2>2, <2>3 DEF OnlyFop
    <3>2. Registered(g) => Registered(g)'
      BY <1>1, <2>2, <2>3 DEF Registered, OthersStay
    <3>3. client'[d].h = g /\ client[d].h = g
      BY <2>1, <2>2
    <3> QED
      BY <2>2, <2>3, <3>1, <3>2, <3>3 DEF WriteOK, Fits
  <2>4. CASE g = NoHandle
    BY <2>1, <2>2, <2>4 DEF WriteOK
  <2> QED
    BY <2>3, <2>4
<1>3. ASSUME NEW i \in Slot, slots'[i] # NoHandle
      PROVE  \E d \in Writers : client'[d].h = slots'[i]
  <2>1. CASE slots'[i] = h
    <3>1. Registered(h)'
      BY <1>1, <2>1 DEF Registered
    <3> QED
      BY <2>1, <3>1
  <2>2. CASE slots'[i] # h
    <3>1. slots'[i] = slots[i] /\ slots[i] # NoHandle
      BY <1>3, <2>2 DEF OthersStay
    <3>2. PICK d \in Writers : client[d].h = slots[i]
      BY <3>1 DEF CalmInv, SlotOwners
    <3>3. client'[d] = client[d]
      BY <1>1, <2>2, <3>1, <3>2 DEF OnlyClient
    <3> QED
      BY <3>1, <3>2, <3>3
  <2> QED
    BY <2>1, <2>2
<1>4. SlotOwners'
  BY <1>1, <1>3 DEF SlotOwners
<1>5. \A d \in Writers : WriteOK(d)'
  BY <1>2
<1> QED
  BY <1>4, <1>5 DEF CalmInv

(* The slots as they are, and no answer outstanding.                       *)
LEMMA CalmQuiet ==
  ASSUME IInv, CalmInv, NEW c \in Clients, NEW h \in Handles, h = client[c].h, client'[c].h = h,
         NEW f, fop' = [fop EXCEPT ![h] = f], UNCHANGED <<active, slots>>, OnlyClient(c),
         f.sem = 0, f.open => fop[h].open, c \in Writers => Accounted(f)
  PROVE  CalmInv'
<1>1. h # NoHandle /\ \A d \in Clients : d # c => client[d].h # h
  BY Owner
<1>2. fop'[h] = f /\ OnlyFop(h)
  BY Types DEF IInv, OnlyFop
<1>3. OthersStay(h) /\ (Registered(h)' <=> Registered(h))
  BY DEF OthersStay, Registered
<1>4. Registered(h) => c \in Writers
  BY <1>1 DEF CalmInv, SlotOwners, Registered, Clients
<1>5. c \in Writers => WriteOK(c)'
  <2> SUFFICES ASSUME c \in Writers PROVE WriteOK(c)'
    OBVIOUS
  <2>1. WriteOK(c)
    BY DEF CalmInv
  <2>2. f.open => Registered(h)'
    BY <1>1, <1>3, <2>1 DEF WriteOK
  <2>3. ~(f.sem > 0)
    OBVIOUS
  <2> QED
    BY <1>2, <2>2, <2>3 DEF WriteOK
<1> QED
  BY <1>1, <1>2, <1>3, <1>4, <1>5, CalmKept

(* A client that is left without its handle.                               *)
LEMMA CalmGone ==
  ASSUME IInv, CalmInv, NEW c \in Clients, NEW h \in Handles, h = client[c].h,
         client'[c].h = NoHandle, NEW f, fop' = [fop EXCEPT ![h] = f],
         UNCHANGED <<active, slots>>, OnlyClient(c), ~Registered(h)
  PROVE  CalmInv'
<1>1. \A d \in Clients : d # c => client[d].h # h
  BY Owner
<1>2. OnlyFop(h)
  BY Types DEF IInv, OnlyFop
<1>3. OthersStay(h) /\ ~Registered(h)'
  BY DEF OthersStay, Registered
<1>4. WriteOK(c)'
  BY DEF WriteOK
<1> QED
  BY <1>1, <1>2, <1>3, <1>4, CalmKept

(* Nothing happens to handles and slots.                                   *)
LEMMA CalmSame ==
  ASSUME CalmInv, UNCHANGED <<active, fop, slots>>,
         \A d \in Writers : client'[d].pc = client[d].pc /\ client'[d].h = client[d].h
  PROVE  CalmInv'
<1>1. ASSUME NEW d \in Writers PROVE WriteOK(d)'
  BY DEF CalmInv, WriteOK, Registered, Fits
<1> QED
  BY <1>1 DEF CalmInv, SlotOwners

LEMMA CalmRequest ==
  ASSUME IInv, CalmInv, NEW c \in Clients, NEW op \in Sync, Idle(c, ModeOf(c)), Request(c, op)
  PROVE  CalmInv'
<1>1. PICK h : h = client[c].h
  OBVIOUS
<1>2. /\ h \in Handles /\ h # NoHandle /\ fop[h] \in FopType /\ fop[h].sem = 0
  BY <1>1, Owner DEF Idle, Quiet
<1> DEFINE f == [fop[h] EXCEPT !.ok = TRUE]
<1>3. /\ f.sem = 0 /\ f.open = fop[h].open /\ f.disk = fop[h].disk /\ f.lost = fop[h].lost
      /\ f.fifo = fop[h].fifo /\ f.user = fop[h].user
  BY <1>2 DEF FopType
<1>4. fop' = [fop EXCEPT ![h] = f] /\ UNCHANGED <<active, slots>>
  BY <1>1 DEF Request
<1>5. client'[c].h = h /\ OnlyClient(c)
  BY <1>1, Types DEF IInv, Request, OnlyClient, ClientType
<1>6. c \in Writers => Accounted(f)
  BY <1>1, <1>2, <1>3 DEF CalmInv, WriteOK, Accounted
<1> HIDE DEF f
<1> QED
  BY <1>1, <1>2, <1>3, <1>4, <1>5, <1>6, CalmQuiet

LEMMA CalmOpen == ASSUME IInv, CalmInv, NEW c \in Clients, Open(c) PROVE CalmInv'
<1>1. PICK h \in Handles : /\ ~fop[h].alloc
                           /\ fop' = [fop EXCEPT ![h] = NewFop(ModeOf(c))]
                           /\ client' = [client EXCEPT ![c].pc = "open", ![c].h = h]
  BY DEF Open
<1>2. PICK g : g = NewFop(ModeOf(c))
  OBVIOUS
<1>3. ~g.open /\ g.sem = 0 /\ g.fifo = 0 /\ g.disk = 0 /\ g.lost = 0 /\ g.user = 0
  BY <1>2, FreshFop
<1>4. fop'[h] = g /\ OnlyFop(h)
  BY <1>1, <1>2, Types DEF IInv, OnlyFop
<1>5. client'[c].h = h /\ client'[c].pc = "open" /\ OnlyClient(c) /\ client[c].h = NoHandle
      /\ UNCHANGED <<active, slots>>
  BY <1>1, Types DEF IInv, OnlyClient, ClientType, Open
<1>6. (\A d \in Clients : client[d].h # h) /\ ~Registered(h)
  BY <1>1, FreshQuiet DEF Registered
<1>7. OthersStay(h) /\ ~Registered(h)'
  BY <1>5, <1>6 DEF OthersStay, Registered
<1>8. WriteOK(c)'
  BY <1>3, <1>4, <1>5 DEF WriteOK, Accounted
<1> QED
  BY <1>4, <1>5, <1>6, <1>7, <1>8, CalmKept

LEMMA CalmOpenReturn == ASSUME IInv, CalmInv, NEW c \in Clients, OpenReturn(c) PROVE CalmInv'
<1>1. PICK h : h = client[c].h
  OBVIOUS
<1>2. Woken(c, "open") /\ "open" \in Sync /\ UNCHANGED <<active, slots>>
  BY DEF OpenReturn, Sync
<1>3. /\ h \in Handles /\ h # NoHandle /\ fop[h] \in FopType /\ fop[h].sem = 1
      /\ fop[h].ok <=> fop[h].open
  BY <1>1, <1>2, WokenOwner DEF ClientOK
<1>4. CASE fop[h].ok
  <2> DEFINE f == [fop[h] EXCEPT !.sem = @ - 1]
  <2>1. /\ f.sem = 0 /\ f.open = fop[h].open /\ f.disk = fop[h].disk /\ f.lost = fop[h].lost
        /\ f.fifo = fop[h].fifo /\ f.user = fop[h].user
    BY <1>3 DEF FopType
  <2>2. fop' = [fop EXCEPT ![h] = f] /\ client' = [client EXCEPT ![c] = IdleClient(h, 0)]
    BY <1>1, <1>4 DEF OpenReturn
  <2>3. client'[c].h = h /\ OnlyClient(c)
    BY <2>2, Types, IdleType, <1>3 DEF IInv, OnlyClient
  <2>4. c \in Writers => Accounted(f)
    BY <1>1, <1>3, <2>1 DEF CalmInv, WriteOK, Accounted
  <2> HIDE DEF f
  <2> QED
    BY <1>1, <1>2, <1>3, <2>1, <2>2, <2>3, <2>4, CalmQuiet
<1>5. CASE ~fop[h].ok
  <2>1. fop' = [fop EXCEPT ![h] = FreeFop] /\ client' = [client EXCEPT ![c] = IdleClient(NoHandle, 0)]
    BY <1>1, <1>5 DEF OpenReturn
  <2>2. client'[c].h = NoHandle /\ OnlyClient(c)
    BY <2>1, Types, IdleType DEF IInv, OnlyClient
  <2>3. ~Registered(h)
    BY <1>3, <1>5, NotRegistered
  <2> QED
    BY <1>1, <1>2, <1>3, <2>1, <2>2, <2>3, CalmGone
<1> QED
  BY <1>4, <1>5

LEMMA CalmCloseReturn == ASSUME IInv, CalmInv, NEW c \in Clients, CloseReturn(c) PROVE CalmInv'
<1>1. PICK h : h = client[c].h
  OBVIOUS
<1>2. Woken(c, "close") /\ "close" \in Sync /\ UNCHANGED <<active, slots>>
  BY DEF CloseReturn, Sync
<1>3. /\ h \in Handles /\ h # NoHandle /\ fop[h].sem = 1 /\ ClientOK(c) /\ client[c].pc = "close"
  BY <1>1, <1>2, WokenOwner
<1>4. ~Registered(h)
  BY <1>1, <1>3 DEF ClientOK
<1>5. PICK f : f = IF fop[h].ok THEN FreeFop ELSE [fop[h] EXCEPT !.sem = @ - 1]
  OBVIOUS
<1>6. fop' = [fop EXCEPT ![h] = f] /\ client' = [client EXCEPT ![c] = IdleClient(NoHandle, 0)]
  BY <1>1, <1>5 DEF CloseReturn
<1>7. client'[c].h = NoHandle /\ OnlyClient(c)
  BY <1>6, Types, IdleType DEF IInv, OnlyClient
<1> QED
  BY <1>1, <1>2, <1>3, <1>4, <1>6, <1>7, CalmGone

LEMMA CalmWriteReturn == ASSUME IInv, CalmInv, NEW c \in Clients, WriteReturn(c) PROVE CalmInv'
<1>1. PICK h : h = client[c].h
  OBVIOUS
<1>2. Woken(c, "write") /\ "write" \in Sync /\ UNCHANGED <<active, slots>>
      /\ client' = [client EXCEPT ![c] = IdleClient(h, 0)]
  BY <1>1 DEF WriteReturn, Sync
<1>3. h \in Handles /\ h # NoHandle /\ fop[h] \in FopType /\ fop[h].sem = 1
  BY <1>1, <1>2, WokenOwner
<1>4. PICK n : n = IF Fits(h) THEN Chunk ELSE 0
  OBVIOUS
<1> DEFINE f == [fop[h] EXCEPT !.sem = @ - 1, !.fifo = @ + n, !.user = @ + n]
<1>5. /\ f.sem = 0 /\ f.open = fop[h].open /\ f.disk = fop[h].disk /\ f.lost = fop[h].lost
      /\ f.fifo = fop[h].fifo + n /\ f.user = fop[h].user + n
      /\ n \in Nat /\ fop[h].fifo \in Nat /\ fop[h].disk \in Nat /\ fop[h].lost \in Nat /\ fop[h].user \in Nat
  BY <1>3, <1>4 DEF FopType
<1>6. fop' = [fop EXCEPT ![h] = f]
  BY <1>1, <1>4 DEF WriteReturn
<1>7. client'[c].h = h /\ OnlyClient(c)
  BY <1>2, <1>3, Types, IdleType DEF IInv, OnlyClient
<1> HIDE DEF f
<1>8. c \in Writers => Accounted(f)
  <2>1. c \in Writers => Accounted(fop[h])
    BY <1>1, <1>3 DEF CalmInv, WriteOK
  <2> QED
    BY <1>5, <2>1 DEF Accounted
<1> QED
  BY <1>1, <1>2, <1>3, <1>5, <1>6, <1>7, <1>8, CalmQuiet

LEMMA CalmWriteFast == ASSUME IInv, CalmInv, NEW c \in Clients, WriteFast(c) PROVE CalmInv'
<1>1. PICK h : h = client[c].h
  OBVIOUS
<1>2. h # NoHandle /\ client[c].pc = "idle" /\ UNCHANGED <<active, slots, client>>
  BY <1>1 DEF WriteFast, Idle
<1>3. h \in Handles /\ fop[h] \in FopType /\ fop[h].sem = 0
  BY <1>1, <1>2, Owner DEF Quiet
<1> DEFINE f == [fop[h] EXCEPT !.fifo = @ + Chunk, !.user = @ + Chunk]
<1>4. /\ f.sem = 0 /\ f.open = fop[h].open /\ f.disk = fop[h].disk /\ f.lost = fop[h].lost
      /\ f.fifo = fop[h].fifo + Chunk /\ f.user = fop[h].user + Chunk
      /\ fop[h].fifo \in Nat /\ fop[h].disk \in Nat /\ fop[h].lost \in Nat /\ fop[h].user \in Nat
  BY <1>3 DEF FopType
<1>5. fop' = [fop EXCEPT ![h] = f]
  BY <1>1 DEF WriteFast
<1>6. client'[c].h = h /\ OnlyClient(c)
  BY <1>1, <1>2 DEF OnlyClient
<1> HIDE DEF f
<1>7. c \in Writers => Accounted(f)
  <2>1. c \in Writers => Accounted(fop[h])
    BY <1>1, <1>2 DEF CalmInv, WriteOK
  <2> QED
    BY <1>4, <2>1 DEF Accounted
<1> QED
  BY <1>1, <1>2, <1>3, <1>4, <1>5, <1>6, <1>7, CalmQuiet

LEMMA CalmReads == ASSUME IInv, CalmInv, NEW c \in Clients, ReadFast(c) \/ ReadReturn(c) PROVE CalmInv'
<1>1. PICK h : h = client[c].h
  OBVIOUS
<1>2. CASE ReadFast(c)
  <2>1. h # NoHandle /\ client[c].pc = "idle" /\ UNCHANGED <<active, slots, client>>
        /\ c \notin Writers
    BY <1>1, <1>2, IdleMode DEF ReadFast, Idle, ModeOf
  <2>2. h \in Handles /\ fop[h] \in FopType /\ fop[h].sem = 0
    BY <1>1, <2>1, Owner DEF Quiet
  <2> DEFINE f == [fop[h] EXCEPT !.fifo = @ - Chunk, !.user = @ + Chunk]
  <2>3. f.sem = 0 /\ f.open = fop[h].open
    BY <2>2 DEF FopType
  <2>4. fop' = [fop EXCEPT ![h] = f]
    BY <1>1, <1>2 DEF ReadFast
  <2>5. client'[c].h = h /\ OnlyClient(c)
    BY <1>1, <2>1 DEF OnlyClient
  <2> HIDE DEF f
  <2> QED
    BY <1>1, <2>1, <2>2, <2>3, <2>4, <2>5, CalmQuiet
<1>3. CASE ReadReturn(c)
  <2>1. Woken(c, "read") /\ "read" \in Sync /\ UNCHANGED <<active, slots>>
        /\ client' = [client EXCEPT ![c] = IdleClient(h, 0)]
    BY <1>1, <1>3 DEF ReadReturn, Sync
  <2>2. h \in Handles /\ h # NoHandle /\ fop[h] \in FopType /\ fop[h].sem = 1 /\ c \notin Writers
    BY <1>1, <2>1, WokenOwner DEF ClientOK
  <2>3. PICK n : n = Min({fop[h].fifo, Chunk})
    OBVIOUS
  <2> DEFINE f == [fop[h] EXCEPT !.sem = @ - 1, !.fifo = @ - n, !.user = @ + n]
  <2>4. f.sem = 0 /\ f.open = fop[h].open
    BY <2>2 DEF FopType
  <2>5. fop' = [fop EXCEPT ![h] = f]
    BY <1>1, <1>3, <2>3 DEF ReadReturn
  <2>6. client'[c].h = h /\ OnlyClient(c)
    BY <2>1, <2>2, Types, IdleType DEF IInv, OnlyClient
  <2> HIDE DEF f
  <2> QED
    BY <1>1, <2>1, <2>2, <2>4, <2>5, <2>6, CalmQuiet
<1> QED
  BY <1>2, <1>3

(* The worker answers a request of client c, whose handle is f after it.   *)
LEMMA CalmAnswer ==
  ASSUME IInv, CalmInv, NEW op \in Sync, Served, NEW c \in Clients, NEW h \in Handles,
         client[c].h = h, client[c].pc = op,
         NEW f, fop' = [fop EXCEPT ![h] = f], OthersStay(h),
         Registered(h)' => c \in Writers,
         c \in Writers => /\ f.open => Registered(h)'
                          /\ Accounted(f)
                          /\ op = "close" => f.fifo = 0
                          /\ op = "write" /\ Chunk <= Cache /\ Chunk <= Rounds * Block =>
                               f.fifo + Chunk <= Cache
  PROVE  CalmInv'
<1>1. h # NoHandle /\ \A d \in Clients : d # c => client[d].h # h
  BY Owner
<1>2. fop'[h] = f /\ OnlyFop(h) /\ UNCHANGED <<active, client>> /\ OnlyClient(c)
  BY Types DEF IInv, OnlyFop, OnlyClient, Served
<1>3. c \in Writers => WriteOK(c)'
  BY <1>2 DEF WriteOK, Fits
<1> QED
  BY <1>1, <1>2, <1>3, CalmKept

(* A mux thread that waits for the worker, and its handle.                 *)
LEMMA CalmAsking ==
  ASSUME IInv, CalmInv, NEW op \in Sync, Serving(op), NEW h, h = worker.msg.h
  PROVE  /\ h \in Handles /\ h # NoHandle /\ fop[h] \in FopType
         /\ fop[h].fifo \in Nat /\ fop[h].fifo <= Cache /\ fop[h].disk \in Nat
         /\ fop[h].lost \in Nat /\ fop[h].user \in Nat
         /\ \E c \in Clients :
              /\ client[c].h = h /\ client[c].pc = op /\ (op = "write" => c \in Writers)
              /\ \A d \in Clients : d # c => client[d].h # h
              /\ fop[h].mode = IF c \in Writers THEN "write" ELSE "read"
              /\ op = "open" => ~fop[h].open
              /\ c \in Writers => /\ Accounted(fop[h])
                                  /\ op # "open" => Registered(h)
<1>1. /\ h \in Handles /\ fop[h] \in FopType /\ fop[h].sem = 0
      /\ \E c \in Clients :
           /\ client[c].h = h /\ client[c].pc = op /\ fop[h].mode = ModeOf(c)
           /\ \A d \in Clients : d # c => client[d].h # h
           /\ ClientOK(c)
  BY Asking
<1>2. PICK c \in Clients :
           /\ client[c].h = h /\ client[c].pc = op /\ fop[h].mode = ModeOf(c)
           /\ \A d \in Clients : d # c => client[d].h # h
           /\ ClientOK(c)
  BY <1>1
<1>3. h # NoHandle
  BY <1>1
<1>4. (op = "open" => ~fop[h].open) /\ (op # "open" => fop[h].open) /\ (op = "write" => c \in Writers)
  BY <1>1, <1>2, <1>3 DEF ClientOK, Sync
<1>5. c \in Writers => /\ Accounted(fop[h])
                       /\ op # "open" => Registered(h)
  BY <1>2, <1>3, <1>4 DEF CalmInv, WriteOK
<1>6. fop[h].fifo \in Nat /\ fop[h].fifo <= Cache /\ fop[h].disk \in Nat /\ fop[h].lost \in Nat /\ fop[h].user \in Nat
  BY <1>1 DEF FopType
<1> QED
  BY <1>1, <1>2, <1>3, <1>4, <1>5, <1>6 DEF ModeOf

(* A mux thread without a slot leaves one of the slots free.               *)
LEMMA SlotLeft ==
  ASSUME IInv, CalmInv, Calm, NEW c \in Writers, NEW h, h = client[c].h, ~Registered(h)
  PROVE  \E i \in Slot : slots[i] = NoHandle
<1> SUFFICES ASSUME \A i \in Slot : slots[i] # NoHandle PROVE FALSE
  OBVIOUS
<1> DEFINE Others == Writers \ {c}
           owner == [i \in Slot |-> CHOOSE d \in Others : client[d].h = slots[i]]
<1>1. ASSUME NEW i \in Slot PROVE owner[i] \in Others /\ client[owner[i]].h = slots[i]
  <2>1. PICK d \in Writers : client[d].h = slots[i]
    BY DEF CalmInv, SlotOwners
  <2>2. d # c
    BY <2>1 DEF Registered
  <2> QED
    BY <2>1, <2>2
<1>2. owner \in [Slot -> Others]
  BY <1>1
<1>3. ASSUME NEW i \in Slot, NEW j \in Slot, i # j PROVE owner[i] # owner[j]
  <2>1. slots[i] # slots[j]
    BY <1>3 DEF IInv, SlotInv
  <2> HIDE DEF owner
  <2> QED
    BY <1>1, <2>1
<1>4. IsFiniteSet(Others) /\ Cardinality(Others) = Cardinality(Writers) - 1
  BY FS_RemoveElement DEF Calm, Room
<1>5. Cardinality(Writers) \in Nat /\ Cardinality(Writers) <= NSlots
  BY FS_CardinalityType DEF Calm, Room
<1>6. IsFiniteSet(Slot) /\ Cardinality(Slot) = NSlots
  <2>1. 1 \in Int /\ NSlots \in Int /\ ~(1 > NSlots)
    OBVIOUS
  <2>2. IsFiniteSet(1 .. NSlots) /\ Cardinality(1 .. NSlots) = IF 1 > NSlots THEN 0 ELSE NSlots - 1 + 1
    BY <2>1, FS_Interval
  <2> QED
    BY <2>1, <2>2 DEF Slot
<1> HIDE DEF owner, Others
<1>7. Cardinality(Others) < Cardinality(Slot)
  BY <1>4, <1>5, <1>6
<1> QED
  BY <1>2, <1>3, <1>4, <1>6, <1>7, FS_PigeonHole

(* Bytes that go from the fifo of h to the file stay accounted for.        *)
LEMMA AccountedToFile ==
  ASSUME CalmInv, NEW h \in Handles, fop[h] \in FopType, Accounted(fop[h]),
         NEW n \in 0 .. fop[h].fifo, NEW w \in Written(n), NEW e, e = ToFile(h, n, w)
  PROVE  Accounted(e)
<1>1. /\ e.user = fop[h].user /\ e.fifo = fop[h].fifo - n
      /\ e.disk = fop[h].disk + w /\ e.lost = fop[h].lost + (n - w)
  BY ToFileType
<1>2. /\ fop[h].fifo \in Nat /\ fop[h].disk \in Nat /\ fop[h].lost \in Nat
      /\ fop[h].user \in Nat /\ n \in Nat
  BY DEF FopType
<1>3. w \in Nat /\ (w = n \/ VolumeMayFill)
  BY <1>2 DEF Written, CalmInv
<1> QED
  BY <1>1, <1>2, <1>3 DEF Accounted

LEMMA CalmServeOpen == ASSUME IInv, CalmInv, Calm, ServeOpen PROVE CalmInv'
<1>1. PICK h : h = worker.msg.h
  OBVIOUS
<1>2. Serving("open") /\ "open" \in Sync /\ Served
  BY DEF ServeOpen, Sync
<1>3. /\ h \in Handles /\ h # NoHandle /\ fop[h] \in FopType
  BY <1>1, <1>2, CalmAsking
<1>4. PICK c \in Clients :
        /\ client[c].h = h /\ client[c].pc = "open" /\ ~fop[h].open
        /\ fop[h].mode = IF c \in Writers THEN "write" ELSE "read"
        /\ c \in Writers => Accounted(fop[h])
  BY <1>1, <1>2, CalmAsking
<1>5. ~Registered(h)
  BY <1>3, <1>4, NotRegistered
<1>6. CASE \E n \in IF fop[h].mode = "read" THEN 0 .. MaxFile ELSE {0} :
             /\ fop' = [fop EXCEPT ![h].open = TRUE, ![h].size = n, ![h].sem = @ + 1]
             /\ slots' = IF fop[h].mode = "write" THEN Register(h) ELSE slots
  <2>1. PICK n : /\ fop' = [fop EXCEPT ![h].open = TRUE, ![h].size = n, ![h].sem = @ + 1]
                 /\ slots' = IF fop[h].mode = "write" THEN Register(h) ELSE slots
    BY <1>6
  <2>2. PICK f : f = [fop[h] EXCEPT !.open = TRUE, !.size = n, !.sem = @ + 1]
    OBVIOUS
  <2>3. f.disk = fop[h].disk /\ f.lost = fop[h].lost /\ f.fifo = fop[h].fifo /\ f.user = fop[h].user
    BY <1>3, <2>2 DEF FopType
  <2>4. fop' = [fop EXCEPT ![h] = f]
    BY <2>1, <2>2
  <2>5. CASE c \in Writers
    <3> DEFINE free == {i \in Slot : slots[i] = NoHandle}
    <3>1. free # {}
      <4>1. \E i \in Slot : slots[i] = NoHandle
        BY <1>4, <1>5, <2>5, SlotLeft
      <4> QED
        BY <4>1
    <3>2. PICK k : k = Min(free)
      OBVIOUS
    <3>3. k \in Slot /\ slots[k] = NoHandle
      BY <3>1, <3>2, FirstSlot
    <3>4. slots' = [slots EXCEPT ![k] = h]
      BY <1>4, <2>1, <2>5, <3>1, <3>2 DEF Register
    <3> HIDE DEF free
    <3>5. OthersStay(h) /\ Registered(h)'
      BY <3>3, <3>4, Types DEF IInv, OthersStay, Registered, Slot
    <3> QED
      BY <1>1, <1>2, <1>3, <1>4, <2>3, <2>4, <2>5, <3>5, CalmAnswer DEF Accounted
  <2>6. CASE c \notin Writers
    <3>1. UNCHANGED slots
      BY <1>4, <2>1, <2>6
    <3>2. OthersStay(h) /\ ~Registered(h)'
      BY <1>5, <3>1 DEF OthersStay, Registered
    <3> QED
      BY <1>1, <1>2, <1>3, <1>4, <2>4, <2>6, <3>2, CalmAnswer
  <2> QED
    BY <2>5, <2>6
<1>7. CASE /\ fop' = [fop EXCEPT ![h].ok = FALSE, ![h].sem = @ + 1]
           /\ UNCHANGED slots
  <2>1. PICK f : f = [fop[h] EXCEPT !.ok = FALSE, !.sem = @ + 1]
    OBVIOUS
  <2>2. f.disk = fop[h].disk /\ f.lost = fop[h].lost /\ f.fifo = fop[h].fifo /\ f.user = fop[h].user /\ ~f.open
    BY <1>3, <1>4, <2>1 DEF FopType
  <2>3. fop' = [fop EXCEPT ![h] = f]
    BY <1>7, <2>1
  <2>4. OthersStay(h) /\ ~Registered(h)'
    BY <1>5, <1>7 DEF OthersStay, Registered
  <2> QED
    BY <1>1, <1>2, <1>3, <1>4, <2>2, <2>3, <2>4, CalmAnswer DEF Accounted
<1> QED
  BY <1>1, <1>6, <1>7 DEF ServeOpen

LEMMA CalmServeClose == ASSUME IInv, CalmInv, Calm, ServeClose PROVE CalmInv'
<1>1. PICK h : h = worker.msg.h
  OBVIOUS
<1>2. Serving("close") /\ "close" \in Sync /\ Served /\ slots' = Unregister(h)
  BY <1>1 DEF ServeClose, Sync
<1>3. /\ h \in Handles /\ h # NoHandle /\ fop[h] \in FopType
      /\ fop[h].fifo \in Nat /\ fop[h].disk \in Nat /\ fop[h].lost \in Nat /\ fop[h].user \in Nat
  BY <1>1, <1>2, CalmAsking
<1>4. PICK c \in Clients :
        /\ client[c].h = h /\ client[c].pc = "close"
        /\ c \in Writers => Accounted(fop[h]) /\ Registered(h)
  BY <1>1, <1>2, CalmAsking
<1>5. PICK w \in Written(fop[h].fifo) :
        fop' = [fop EXCEPT ![h] = [Flush(h, w) EXCEPT !.open = FALSE, !.ok = TRUE, !.sem = @ + 1]]
  BY <1>1 DEF ServeClose, Calm, CalmInv
<1>6. PICK e : e = Flush(h, w)
  OBVIOUS
<1>7. PICK f : f = [e EXCEPT !.open = FALSE, !.ok = TRUE, !.sem = @ + 1]
  OBVIOUS
<1>8. e \in FopType
  BY <1>3, <1>6, Flushed
<1>9. ~f.open /\ f.disk = e.disk /\ f.lost = e.lost /\ f.fifo = e.fifo /\ f.user = e.user
  BY <1>7, <1>8 DEF FopType
<1>10. c \in Writers => Accounted(e) /\ e.fifo = 0
  <2>1. fop[h].fifo \in 0 .. fop[h].fifo /\ fop[h].fifo - fop[h].fifo = 0
    BY <1>3
  <2>2. c \in Writers => e = ToFile(h, fop[h].fifo, w)
    BY <1>4, <1>6 DEF Flush
  <2> QED
    BY <1>3, <1>4, <1>5, <2>1, <2>2, ToFileType, AccountedToFile
<1>11. fop' = [fop EXCEPT ![h] = f]
  BY <1>5, <1>6, <1>7
<1>12. OthersStay(h) /\ ~Registered(h)'
  <2>1. \A i \in Slot : slots'[i] # h
    BY <1>2, <1>3, Unregisters DEF IInv
  <2>2. OthersStay(h)
    <3>1. CASE ~Registered(h)
      BY <1>2, <3>1 DEF Unregister, OthersStay
    <3>2. CASE Registered(h)
      <4> DEFINE mine == {i \in Slot : slots[i] = h}
      <4>1. mine # {}
        BY <3>2 DEF Registered
      <4>2. PICK k : k = Min(mine)
        OBVIOUS
      <4>3. k \in Slot /\ slots[k] = h
        BY <4>1, <4>2, FirstSlot
      <4>4. slots' = [slots EXCEPT ![k] = NoHandle]
        BY <1>2, <3>2, <4>2 DEF Unregister
      <4> HIDE DEF mine
      <4> QED
        BY <4>3, <4>4, Types DEF IInv, OthersStay
    <3> QED
      BY <3>1, <3>2
  <2> QED
    BY <2>1, <2>2 DEF Registered, Slot
<1>13. c \in Writers => Accounted(f) /\ f.fifo = 0
  BY <1>9, <1>10 DEF Accounted
<1> QED
  BY <1>1, <1>2, <1>3, <1>4, <1>9, <1>11, <1>12, <1>13, CalmAnswer

LEMMA CalmServeWrite == ASSUME IInv, CalmInv, ServeWrite PROVE CalmInv'
<1>1. PICK h : h = worker.msg.h
  OBVIOUS
<1>2. Serving("write") /\ "write" \in Sync /\ Served /\ UNCHANGED slots
  BY DEF ServeWrite, Sync
<1>3. /\ h \in Handles /\ h # NoHandle /\ fop[h] \in FopType
      /\ fop[h].fifo \in Nat /\ fop[h].fifo <= Cache /\ fop[h].disk \in Nat /\ fop[h].lost \in Nat /\ fop[h].user \in Nat
  BY <1>1, <1>2, CalmAsking
<1>4. PICK c \in Clients :
        /\ client[c].h = h /\ client[c].pc = "write" /\ c \in Writers
        /\ Accounted(fop[h]) /\ Registered(h)
  BY <1>1, <1>2, CalmAsking
<1>5. PICK turn : turn = Rounds * Block /\ turn \in Nat
  OBVIOUS
<1>6. PICK n : n = Min({turn, fop[h].fifo})
  OBVIOUS
<1>7. n \in Nat /\ n <= fop[h].fifo /\ (n = turn \/ n = fop[h].fifo)
  BY <1>3, <1>5, <1>6, MinOfTwo
<1>13. n = DrainFor(h)
  BY <1>4, <1>5, <1>6 DEF DrainFor
<1>14. PICK w \in Written(n) :
         fop' = [fop EXCEPT ![h] = [ToFile(h, n, w) EXCEPT !.ok = TRUE, !.sem = @ + 1]]
  BY <1>1, <1>13 DEF ServeWrite
<1>15. PICK e : e = ToFile(h, n, w)
  OBVIOUS
<1>16. e \in FopType /\ e.fifo = fop[h].fifo - n /\ Accounted(e)
  <2>1. n \in 0 .. fop[h].fifo
    BY <1>3, <1>7
  <2> QED
    BY <1>3, <1>4, <1>15, <2>1, ToFileType, AccountedToFile
<1>8. PICK f : f = [e EXCEPT !.ok = TRUE, !.sem = @ + 1]
  OBVIOUS
<1>9. f.fifo = fop[h].fifo - n /\ f.disk = e.disk /\ f.lost = e.lost /\ f.user = e.user
      /\ f.fifo = e.fifo
  BY <1>8, <1>16 DEF FopType
<1>10. fop' = [fop EXCEPT ![h] = f]
  BY <1>8, <1>14, <1>15
<1>11. OthersStay(h) /\ Registered(h)'
  BY <1>2, <1>4 DEF OthersStay, Registered
<1>12. Accounted(f) /\ (Chunk <= Cache /\ Chunk <= turn => f.fifo + Chunk <= Cache)
  <2>1. Accounted(f)
    BY <1>9, <1>16 DEF Accounted
  <2> QED
    BY <1>3, <1>7, <1>9, <2>1
<1> QED
  BY <1>1, <1>2, <1>3, <1>4, <1>5, <1>10, <1>11, <1>12, CalmAnswer

LEMMA CalmServeRead == ASSUME IInv, CalmInv, ServeRead PROVE CalmInv'
<1>1. PICK h : h = worker.msg.h
  OBVIOUS
<1>2. Serving("read") /\ "read" \in Sync /\ Served /\ UNCHANGED slots
  BY DEF ServeRead, Sync
<1>3. h \in Handles /\ \E c \in Clients : client[c].h = h /\ client[c].pc = "read" /\ ClientOK(c)
  BY <1>1, <1>2, Asking
<1>4. PICK c \in Clients : client[c].h = h /\ client[c].pc = "read" /\ ClientOK(c)
  BY <1>3
<1>5. h # NoHandle
  BY <1>3
<1>6. c \notin Writers /\ fop[h].mode # "write"
  BY <1>4, <1>5 DEF ClientOK, ModeOf
<1>7. PICK f : fop' = [fop EXCEPT ![h] = f]
  <2> DEFINE Reads(n, failed) == fop' = [fop EXCEPT ![h] = ReadInto(h, n, failed)]
  <2>1. \E n, failed : Reads(n, failed)
    BY <1>1 DEF ServeRead
  <2> QED
    BY <2>1
<1>8. OthersStay(h) /\ ~Registered(h)'
  <2>1. ~Registered(h)
    BY <1>3, <1>6, NotRegistered
  <2> QED
    BY <1>2, <2>1 DEF OthersStay, Registered
<1> QED
  BY <1>2, <1>3, <1>4, <1>6, <1>7, <1>8, CalmAnswer

LEMMA CalmDrainBlock == ASSUME IInv, CalmInv, DrainBlock PROVE CalmInv'
<1>1. PICK h : h = slots[worker.i]
  OBVIOUS
<1>2. /\ worker.i \in Slot /\ h # NoHandle /\ fop[h].fifo >= Block
      /\ UNCHANGED <<active, slots, client>>
  BY <1>1 DEF DrainBlock, HasBlock
<1>3. h \in Handles /\ fop[h] \in FopType /\ Registered(h)
  BY <1>1, <1>2, Types DEF IInv, SlotInv, Registered
<1>4. PICK c \in Writers : client[c].h = h
  BY <1>1, <1>2 DEF CalmInv, SlotOwners
<1>5. c \in Clients /\ \A d \in Clients : d # c => client[d].h # h
  BY <1>2, <1>4, Owner DEF Clients
<1>12. PICK w \in Written(Block) : fop' = [fop EXCEPT ![h] = ToFile(h, Block, w)]
  BY <1>1 DEF DrainBlock
<1>6. PICK f : f = ToFile(h, Block, w)
  OBVIOUS
<1>7. fop' = [fop EXCEPT ![h] = f]
  BY <1>6, <1>12
<1>13. Block \in 0 .. fop[h].fifo
  BY <1>2, <1>3 DEF FopType
<1>8. /\ f.fifo = fop[h].fifo - Block /\ f.sem = fop[h].sem /\ f.open = fop[h].open
      /\ fop[h].fifo \in Nat /\ fop[h].disk \in Nat /\ fop[h].lost \in Nat /\ fop[h].user \in Nat
  BY <1>3, <1>6, <1>13, ToFileType DEF FopType
<1>9. fop'[h] = f /\ OnlyFop(h) /\ OnlyClient(c) /\ OthersStay(h) /\ (Registered(h)' <=> Registered(h))
  BY <1>2, <1>3, <1>7, Types DEF IInv, OnlyFop, OnlyClient, OthersStay, Registered
<1>10. client'[c].h = h /\ client'[c].pc = client[c].pc
  BY <1>2, <1>4
<1>11. WriteOK(c)'
  <2>1. WriteOK(c)
    BY DEF CalmInv
  <2>2. /\ Accounted(fop[h])
        /\ client[c].pc = "close" /\ fop[h].sem > 0 => fop[h].fifo = 0
        /\ client[c].pc = "write" /\ fop[h].sem > 0 /\ Chunk <= Cache /\ Chunk <= Rounds * Block =>
             fop[h].fifo + Chunk <= Cache
    BY <1>2, <1>4, <2>1 DEF WriteOK, Fits
  <2>3. Accounted(f)
    BY <1>3, <1>6, <1>13, <2>2, AccountedToFile
  <2>4. client[c].pc = "close" /\ f.sem > 0 => f.fifo = 0
    BY <1>2, <1>8, <2>2
  <2>5. client[c].pc = "write" /\ f.sem > 0 /\ Chunk <= Cache /\ Chunk <= Rounds * Block =>
             f.fifo + Chunk <= Cache
    <3>1. PICK turn : turn = Rounds * Block
      OBVIOUS
    <3> QED
      BY <1>8, <2>2, <3>1
  <2> QED
    BY <1>3, <1>9, <1>10, <2>3, <2>4, <2>5 DEF WriteOK, Fits
<1> QED
  BY <1>2, <1>3, <1>4, <1>5, <1>9, <1>10, <1>11, CalmKept

LEMMA CalmNext == ASSUME IInv, QueueInv, CalmInv, Calm, [Next]_vars PROVE CalmInv'
<1>1. ASSUME NEW c \in Clients, ClientCall(c) PROVE CalmInv'
  <2>1. CASE WriteRequest(c) \/ ReadRequest(c) \/ CloseRequest(c)
    <3>1. PICK op \in {"write", "read", "close"} : Idle(c, ModeOf(c)) /\ Request(c, op)
      BY <2>1, IdleMode DEF WriteRequest, ReadRequest, CloseRequest
    <3> QED
      BY <3>1, CalmRequest DEF Sync
  <2>2. ~CloseRefused(c)
    BY RoomLeft DEF CloseRefused, Idle, Calm, CalmInv
  <2> QED
    BY <1>1, <2>1, <2>2, CalmOpen, CalmWriteFast, CalmReads DEF ClientCall
<1>2. ASSUME NEW c \in Clients, ClientReturn(c) PROVE CalmInv'
  BY <1>2, CalmOpenReturn, CalmWriteReturn, CalmReads, CalmCloseReturn DEF ClientReturn
<1>3. ASSUME NEW c \in Writers, NEW op \in Async, AsyncRequest(c, op) PROVE CalmInv'
  <2>1. UNCHANGED <<active, fop, slots>>
        /\ \A d \in Writers : client'[d].pc = client[d].pc /\ client'[d].h = client[d].h
    BY <1>3, Types DEF IInv, AsyncRequest, ClientType, Clients
  <2> QED
    BY <2>1, CalmSame
<1>4. CASE Exit \/ Recv \/ RecvEmpty \/ DrainNext \/ DrainEnd \/ ServeAsync \/ UNCHANGED vars
  <2>1. UNCHANGED <<active, fop, slots, client>>
    BY <1>4 DEF Exit, Recv, RecvEmpty, DrainNext, DrainEnd, ServeAsync, Served, vars
  <2> QED
    BY <2>1, CalmSame
<1>5. Worker => CalmInv'
  BY <1>4, CalmDrainBlock, CalmServeOpen, CalmServeClose, CalmServeRead, CalmServeWrite DEF Worker
<1>6. ~Destroy
  BY DEF Destroy, Calm
<1> QED
  BY <1>1, <1>2, <1>3, <1>4, <1>5, <1>6 DEF Next

LEMMA CalmInit == ASSUME Init PROVE CalmInv
BY DEF Init, CalmInv, SlotOwners, WriteOK, IdleClient, Clients

(* Without these failures every open file of a mux thread has a slot, and  *)
(* every byte accepted is in the fifo, in the file, or was left out by an  *)
(* f_write on a full volume: what the rest follows from.                   *)
THEOREM CalmInductive == ASSUME Calm PROVE SafetySpec => []CalmInv
<1>1. Init => CalmInv
  BY CalmInit
<1>2. IInv /\ QueueInv /\ CalmInv /\ [Next]_vars => CalmInv'
  BY CalmNext
<1> QED
  BY <1>1, <1>2, Inductive, QueueInductive, PTL DEF SafetySpec

(* With QUICK_FW_LEN mux threads or fewer every file that ramfs_fopen has  *)
(* opened for writing has exactly one of the worker's slots: the slots are *)
(* given back in time, whatever order files are opened and closed in.      *)
THEOREM WritersAreRegistered == ASSUME Calm PROVE SafetySpec => []WritersRegistered
<1>1. IInv /\ CalmInv => WritersRegistered
  <2> SUFFICES ASSUME IInv, CalmInv, NEW c \in Writers, NEW h, h = client[c].h,
                      h # NoHandle, fop[h].open
               PROVE  Cardinality({i \in Slot : slots[i] = h}) = 1
    BY DEF WritersRegistered
  <2>1. PICK i \in Slot : slots[i] = h
    BY DEF CalmInv, WriteOK, Registered
  <2>2. {j \in Slot : slots[j] = h} = {i}
    BY <2>1 DEF IInv, SlotInv
  <2> QED
    BY <2>2, FS_Singleton
<1> QED
  BY <1>1, Inductive, CalmInductive, PTL

(* A close that succeeds leaves no byte of the fifo behind: all that       *)
(* ramfs_fwrite has taken was handed to f_write, the last partial block    *)
(* included, and is in the file but for what a full volume left out; on a  *)
(* volume that cannot fill up, all of it is in the file.                   *)
THEOREM FlushedWhenClosed == ASSUME Calm PROVE SafetySpec => []FlushedOnClose
<1>1. IInv /\ CalmInv => FlushedOnClose
  <2> SUFFICES ASSUME IInv, CalmInv, NEW c \in Writers, NEW h, h = client[c].h,
                      Woken(c, "close"), fop[h].ok
               PROVE  /\ fop[h].fifo = 0 /\ fop[h].disk + fop[h].lost = fop[h].user
                      /\ fop[h].lost > 0 => VolumeMayFill
    BY DEF FlushedOnClose
  <2>1. h \in Handles /\ h # NoHandle /\ fop[h] \in FopType
    BY WokenOwner DEF Sync, Clients
  <2>2. Accounted(fop[h]) /\ fop[h].fifo = 0
    BY <2>1 DEF CalmInv, WriteOK, Woken
  <2>3. fop[h].disk \in Nat /\ fop[h].lost \in Nat
    BY <2>1 DEF FopType
  <2> QED
    BY <2>2, <2>3 DEF Accounted
<1> QED
  BY <1>1, Inductive, CalmInductive, PTL

(* A write that asked the worker for room gets it: no packet is dropped.   *)
THEOREM WritesAccepted ==
  ASSUME Calm, Chunk <= Cache, Chunk <= Rounds * Block
  PROVE  SafetySpec => WriteAccepted
<1>1. IInv /\ CalmInv /\ [Next]_vars =>
        [active => \A c \in Writers :
           WriteReturn(c) => fop'[client[c].h].user = fop[client[c].h].user + Chunk]_vars
  <2> SUFFICES ASSUME IInv, CalmInv, NEW c \in Writers, WriteReturn(c)
               PROVE  fop'[client[c].h].user = fop[client[c].h].user + Chunk
    OBVIOUS
  <2>1. PICK h : h = client[c].h
    OBVIOUS
  <2>2. Woken(c, "write") /\ "write" \in Sync /\ c \in Clients
    BY DEF WriteReturn, Sync, Clients
  <2>3. h \in Handles /\ h # NoHandle /\ fop[h] \in FopType
    BY <2>1, <2>2, WokenOwner
  <2>4. Fits(h)
    <3>1. WriteOK(c)
      BY DEF CalmInv
    <3>2. client[c].pc = "write" /\ fop[h].sem > 0
      BY <2>1, <2>2 DEF Woken
    <3> QED
      BY <2>1, <2>3, <3>1, <3>2 DEF WriteOK
  <2> QED
    BY <2>1, <2>3, <2>4, Types DEF WriteReturn, IInv, FopType
<1> QED
  BY <1>1, Inductive, CalmInductive, PTL DEF SafetySpec, WriteAccepted
=============================================================================
