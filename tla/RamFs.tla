------------------------------- MODULE RamFs -------------------------------
(***************************************************************************)
(* The file service of src/ramdisk.cpp: client threads (the mux threads    *)
(* that write segments and the servents that read them) send requests      *)
(* through one bounded message queue to one worker thread, the only thread *)
(* that calls FatFs, and wait for the answer on the semaphore of the file  *)
(* handle.  Reads and writes go through a byte fifo in the handle, so that *)
(* most of them need no request at all; the worker empties the write fifos *)
(* of the handles it has registered whenever the queue is empty.           *)
(*                                                                         *)
(* A fifo is represented by how many bytes it holds: ByteFifo shows that   *)
(* it delivers the bytes in order.  FatFs is external here (FatVolume has  *)
(* its inside): f_open finds a file of some size or fails; f_write takes   *)
(* what it is given, or less without an error when VolumeMayFill; f_read   *)
(* stops at the end of the file, and when ReadMayFail it may fail before   *)
(* it, and then for good; f_close fails when CloseMayFail.                 *)
(***************************************************************************)
EXTENDS Integers, Sequences, FiniteSets, FiniteSetsExt

CONSTANTS
  Writers,      (* the mux threads: each writes one segment file at a time *)
  Readers,      (* the direct servents: each reads one file at a time      *)
  Handles,      (* the addresses malloc may give a ramfs_fileop_t          *)
  NoHandle,     (* the null handle                                         *)
  QueueLen,     (* MAX_QUEUE_LEN: the ring holds one message less          *)
  NSlots,       (* QUICK_FW_LEN, the write handles the worker can register *)
  Block,        (* WR_CACHE_SIZE, bytes moved by one f_write or f_read     *)
  Rounds,       (* blocks the worker moves for one handle before it goes   *)
                (* on to something else (64 in the code)                   *)
  Cache,        (* bytes a handle's fifo can hold (bsize - 1)              *)
  Chunk,        (* bytes of one ramfs_fread or ramfs_fwrite (TSPKT_LEN)    *)
  MaxFile,      (* bound: bytes of one file                                *)
  MaxAsync,     (* requests without an answer a mux thread sends between   *)
                (* two that it waits for: rmdir, delete, mkdir             *)
  CloseMayFail, (* whether f_close may report an error                     *)
  VolumeMayFill,(* whether the volume may be full when f_write needs room  *)
  ReadMayFail,  (* whether a file may be deleted while it is being read    *)
  MayQuit       (* whether DVBCAST_Quit may be called                      *)

Clients == Writers \cup Readers

ASSUME ClientsAssumption ==
  Writers \cap Readers = {} /\ NoHandle \notin Handles
ASSUME SizesAssumption ==
  /\ QueueLen \in Nat \ {0} /\ NSlots \in Nat \ {0}
  /\ Block \in Nat \ {0} /\ Rounds \in Nat \ {0}
  /\ Cache \in Nat \ {0} /\ Chunk \in Nat \ {0}
  /\ MaxFile \in Nat /\ MaxAsync \in Nat
ASSUME FlagsAssumption ==
  /\ CloseMayFail \in BOOLEAN /\ VolumeMayFill \in BOOLEAN
  /\ ReadMayFail \in BOOLEAN /\ MayQuit \in BOOLEAN

VARIABLES
  active,   (* thread_active, and the queue and the volume exist           *)
  queue,    (* the messages in the ring                                    *)
  fop,      (* ramfs_fileop_t of each address, FreeFop when not allocated  *)
  slots,    (* m_file of the worker                                        *)
  worker,   (* where the worker is, and the message it holds               *)
  client    (* where each client is, and its handle                        *)

vars == <<active, queue, fop, slots, worker, client>>

Async == {"delete", "mkdir", "rmdir"}
Sync  == {"open", "close", "read", "write"}

(* fifo: bytes cached; disk: bytes the worker has written to the file, or  *)
(* read from it into the fifo; lost: bytes taken from the fifo that f_write*)
(* left out; user: bytes the client has written or read; size: bytes of    *)
(* the file when it was opened for reading; open: whether FIL is open;     *)
(* failed: whether an f_read has failed (FA__ERROR: every later one does). *)
FreeFop == [alloc |-> FALSE, mode |-> "none", open |-> FALSE, ok |-> TRUE,
            failed |-> FALSE, sem |-> 0, fifo |-> 0, disk |-> 0, lost |-> 0,
            user |-> 0, size |-> 0]

NewFop(mode) == [FreeFop EXCEPT !.alloc = TRUE, !.mode = mode]

NoMsg == [op |-> "none", h |-> NoHandle]

IdleWorker   == [pc |-> "recv", i |-> 1, idx |-> 0, msg |-> NoMsg]
IdleClient(h, n) == [pc |-> "idle", h |-> h, async |-> n]

Slot == 1 .. NSlots

Init ==
  /\ active = TRUE
  /\ queue = <<>>
  /\ fop = [h \in Handles |-> FreeFop]
  /\ slots = [i \in Slot |-> NoHandle]
  /\ worker = IdleWorker
  /\ client = [c \in Clients |-> IdleClient(NoHandle, 0)]

-----------------------------------------------------------------------------
(* The message queue: a ring with one slot kept empty, gone after quit.    *)

CanSend_Mut == active /\ Len(queue) + 2 < QueueLen

CanSend == active /\ Len(queue) + 1 < QueueLen

Send(op, h) == queue' = Append(queue, [op |-> op, h |-> h])

Request_Mut(c, op) ==
  LET h == client[c].h
  IN  /\ CanSend
      /\ Send(op, h)
      /\ fop' = [fop EXCEPT ![h].ok = TRUE]
      /\ UNCHANGED <<active, slots, worker, client>>

(* Send a request for h and wait for its semaphore. *)
Request(c, op) ==
  LET h == client[c].h
  IN  /\ CanSend
      /\ Send(op, h)
      /\ client' = [client EXCEPT ![c].pc = op]
      /\ fop' = [fop EXCEPT ![h].ok = TRUE]
      /\ UNCHANGED <<active, slots, worker>>

Idle(c, mode) == client[c].pc = "idle" /\ client[c].h # NoHandle
                 /\ fop[client[c].h].mode = mode

(* sem_wait returns in a client that waits for the answer to op. *)
Woken(c, op) == client[c].pc = op /\ fop[client[c].h].sem > 0

-----------------------------------------------------------------------------
(* Client operations.  A call that returns an error and changes nothing,   *)
(* such as an open or a read when the queue is full, is a stuttering step. *)

ModeOf(c) == IF c \in Writers THEN "write" ELSE "read"

(* ramfs_fopen: allocate the handle, send, wait. *)
Open(c) ==
  /\ client[c].pc = "idle" /\ client[c].h = NoHandle
  /\ CanSend
  /\ \E h \in Handles :
       /\ ~fop[h].alloc
       /\ fop' = [fop EXCEPT ![h] = NewFop(ModeOf(c))]
       /\ Send("open", h)
       /\ client' = [client EXCEPT ![c].pc = "open", ![c].h = h]
  /\ UNCHANGED <<active, slots, worker>>

(* An open that failed frees the handle again. *)
OpenReturn(c) ==
  LET h == client[c].h
  IN  /\ Woken(c, "open")
      /\ IF fop[h].ok
           THEN /\ fop' = [fop EXCEPT ![h].sem = @ - 1]
                /\ client' = [client EXCEPT ![c] = IdleClient(h, 0)]
           ELSE /\ fop' = [fop EXCEPT ![h] = FreeFop]
                /\ client' = [client EXCEPT ![c] = IdleClient(NoHandle, 0)]
      /\ UNCHANGED <<active, queue, slots, worker>>

(* buffer_fifoPut takes a whole chunk or nothing. *)
Fits(h) == fop[h].fifo + Chunk <= Cache

(* ramfs_fwrite: into the fifo if the chunk fits, else ask for room. *)
WriteFast(c) ==
  LET h == client[c].h
  IN  /\ Idle(c, "write")
      /\ fop[h].user + Chunk <= MaxFile
      /\ Fits(h)
      /\ fop' = [fop EXCEPT ![h].fifo = @ + Chunk, ![h].user = @ + Chunk]
      /\ UNCHANGED <<active, queue, slots, worker, client>>

WriteRequest(c) ==
  /\ Idle(c, "write")
  /\ fop[client[c].h].user + Chunk <= MaxFile
  /\ ~Fits(client[c].h)
  /\ Request(c, "write")

(* The put is tried once more; if it fails again the packet is dropped. *)
WriteReturn(c) ==
  LET h == client[c].h
      n == IF Fits(h) THEN Chunk ELSE 0
  IN  /\ Woken(c, "write")
      /\ fop' = [fop EXCEPT ![h].sem = @ - 1, ![h].fifo = @ + n, ![h].user = @ + n]
      /\ client' = [client EXCEPT ![c] = IdleClient(h, 0)]
      /\ UNCHANGED <<active, queue, slots, worker>>

(* ramfs_fread: out of the fifo if it holds a whole chunk, else ask. *)
ReadFast(c) ==
  LET h == client[c].h
  IN  /\ Idle(c, "read")
      /\ fop[h].fifo >= Chunk
      /\ fop' = [fop EXCEPT ![h].fifo = @ - Chunk, ![h].user = @ + Chunk]
      /\ UNCHANGED <<active, queue, slots, worker, client>>

ReadRequest(c) ==
  /\ Idle(c, "read")
  /\ fop[client[c].h].fifo < Chunk
  /\ Request(c, "read")

(* What the fifo holds by now, at most a chunk; 0 bytes end the segment. *)
ReadReturn(c) ==
  LET h == client[c].h
      n == Min({fop[h].fifo, Chunk})
  IN  /\ Woken(c, "read")
      /\ fop' = [fop EXCEPT ![h].sem = @ - 1, ![h].fifo = @ - n, ![h].user = @ + n]
      /\ client' = [client EXCEPT ![c] = IdleClient(h, 0)]
      /\ UNCHANGED <<active, queue, slots, worker>>

CloseRequest(c) == Idle(c, ModeOf(c)) /\ Request(c, "close")

(* ramfs_fclose with the queue full returns -1; the callers forget the     *)
(* handle all the same.                                                    *)
CloseRefused(c) ==
  /\ Idle(c, ModeOf(c))
  /\ ~CanSend
  /\ fop' = [fop EXCEPT ![client[c].h].ok = TRUE]
  /\ client' = [client EXCEPT ![c].h = NoHandle]
  /\ UNCHANGED <<active, queue, slots, worker>>

(* The handle is freed if the close succeeded, and leaks if it did not. *)
CloseReturn(c) ==
  LET h == client[c].h
  IN  /\ Woken(c, "close")
      /\ fop' = [fop EXCEPT ![h] = IF fop[h].ok THEN FreeFop
                                   ELSE [fop[h] EXCEPT !.sem = @ - 1]]
      /\ client' = [client EXCEPT ![c] = IdleClient(NoHandle, 0)]
      /\ UNCHANGED <<active, queue, slots, worker>>

(* ramfs_fdelete, fmkdir, frmdir copy the path, send and do not wait.      *)
(* With the queue full the request is dropped (and frmdir leaks the copy). *)
AsyncRequest(c, op) ==
  /\ client[c].pc = "idle" /\ client[c].h = NoHandle
  /\ client[c].async < MaxAsync
  /\ CanSend
  /\ Send(op, NoHandle)
  /\ client' = [client EXCEPT ![c].async = @ + 1]
  /\ UNCHANGED <<active, fop, slots, worker>>

(* ramdisk_destory: the queue, the volume and the mutex go at once. *)
Destroy ==
  /\ MayQuit /\ active
  /\ active' = FALSE
  /\ queue' = <<>>
  /\ UNCHANGED <<fop, slots, worker, client>>

-----------------------------------------------------------------------------
(* The worker, ramfs_thread. *)

Exit ==
  /\ worker.pc = "recv" /\ ~active
  /\ worker' = [worker EXCEPT !.pc = "exit"]
  /\ UNCHANGED <<active, queue, fop, slots, client>>

Recv ==
  /\ worker.pc = "recv" /\ active /\ queue # <<>>
  /\ worker' = [IdleWorker EXCEPT !.pc = "serve", !.msg = Head(queue)]
  /\ queue' = Tail(queue)
  /\ UNCHANGED <<active, fop, slots, client>>

(* With nothing to do, look at every registered handle in turn. *)
RecvEmpty ==
  /\ worker.pc = "recv" /\ active /\ queue = <<>>
  /\ worker' = [IdleWorker EXCEPT !.pc = "drain"]
  /\ UNCHANGED <<active, queue, fop, slots, client>>

(* Bytes f_write may take of n: none once the volume is gone.  The worker  *)
(* does not look at bw, and a full volume is no error.                     *)
Written(n) ==
  IF ~active THEN {0} ELSE IF VolumeMayFill THEN 0 .. n ELSE {n}

(* n bytes leave the fifo of h, and w of them get into the file. *)
ToFile(h, n, w) ==
  [fop[h] EXCEPT !.fifo = @ - n, !.disk = @ + w, !.lost = @ + (n - w)]

HasBlock(i) == slots[i] # NoHandle /\ fop[slots[i]].fifo >= Block

(* One full block of one handle; an f_write error ends its turn. *)
DrainBlock ==
  LET h == slots[worker.i]
  IN  /\ worker.pc = "drain" /\ worker.i \in Slot
      /\ HasBlock(worker.i) /\ worker.idx < Rounds
      /\ \E w \in Written(Block) : fop' = [fop EXCEPT ![h] = ToFile(h, Block, w)]
      /\ worker' = [worker EXCEPT !.idx = IF active THEN @ + 1 ELSE Rounds]
      /\ UNCHANGED <<active, queue, slots, client>>

DrainNext ==
  /\ worker.pc = "drain" /\ worker.i \in Slot
  /\ ~HasBlock(worker.i) \/ worker.idx = Rounds
  /\ worker' = [worker EXCEPT !.i = @ + 1, !.idx = 0]
  /\ UNCHANGED <<active, queue, fop, slots, client>>

(* The turn is over, sleep and look at the queue again. *)
DrainEnd ==
  /\ worker.pc = "drain" /\ worker.i \notin Slot
  /\ worker' = IdleWorker
  /\ UNCHANGED <<active, queue, fop, slots, client>>

Serving(op) == worker.pc = "serve" /\ worker.msg.op = op

Served == worker' = IdleWorker /\ UNCHANGED <<active, queue, client>>

Registered(h) == \E i \in Slot : slots[i] = h

(* A handle opened for writing takes the first free slot, if there is one. *)
Register(h) ==
  LET free == {i \in Slot : slots[i] = NoHandle}
  IN  IF free = {} THEN slots ELSE [slots EXCEPT ![Min(free)] = h]

ServeOpen ==
  LET h == worker.msg.h
  IN  /\ Serving("open")
      /\ \/ /\ active
            /\ \E n \in IF fop[h].mode = "read" THEN 0 .. MaxFile ELSE {0} :
                 fop' = [fop EXCEPT ![h].open = TRUE, ![h].size = n, ![h].sem = @ + 1]
            /\ slots' = IF fop[h].mode = "write" THEN Register(h) ELSE slots
         \/ /\ fop' = [fop EXCEPT ![h].ok = FALSE, ![h].sem = @ + 1]
            /\ UNCHANGED slots
      /\ Served

Unregister_Mut(h) == slots

(* The first slot that holds the handle is cleared. *)
Unregister(h) ==
  IF Registered(h)
    THEN [slots EXCEPT ![Min({i \in Slot : slots[i] = h})] = NoHandle]
    ELSE slots

Flush_Mut(h, w) ==
  IF Registered(h)
    THEN LET n == fop[h].fifo - (fop[h].fifo % Block)
         IN  ToFile(h, n, Min({n, w}))
    ELSE fop[h]

(* A registered handle has everything still in its fifo written. *)
Flush(h, w) == IF Registered(h) THEN ToFile(h, fop[h].fifo, w) ELSE fop[h]

ServeClose ==
  LET h == worker.msg.h
  IN  /\ Serving("close")
      /\ \E ok \in BOOLEAN, w \in Written(fop[h].fifo) :
           /\ ~ok => CloseMayFail \/ ~active
           /\ ok  => active
           /\ fop' = [fop EXCEPT ![h] =
                        [Flush(h, w) EXCEPT !.open = ~ok, !.ok = ok, !.sem = @ + 1]]
      /\ slots' = Unregister(h)
      /\ Served

ReadAhead_Mut(h) ==
  Min({Rounds * Block, fop[h].size - fop[h].disk, fop[h].fifo})

(* Blocks read until the file ends, the fifo is full or the turn is over;  *)
(* the last block is clipped to the room, so that its put cannot fail.     *)
ReadAhead(h) ==
  Min({Rounds * Block, fop[h].size - fop[h].disk, Cache - fop[h].fifo})

ReadInto(h, n, failed) ==
  [fop[h] EXCEPT !.fifo = @ + n, !.disk = @ + n, !.failed = failed, !.ok = TRUE,
                 !.sem = @ + 1]

ServeRead_Mut ==
  LET h == worker.msg.h
      n == IF active THEN ReadAhead(h) ELSE 0
  IN  /\ Serving("read")
      /\ fop' = [fop EXCEPT ![h] = [ReadInto(h, n, FALSE) EXCEPT
                                     !.sem = IF n > 0 THEN @ ELSE fop[h].sem]]
      /\ Served /\ UNCHANGED <<slots>>

(* An f_read that fails ends the turn after whole blocks; the answer is    *)
(* FR_OK all the same.                                                     *)
ServeRead ==
  LET h == worker.msg.h
      Reads(n, failed) == fop' = [fop EXCEPT ![h] = ReadInto(h, n, failed)]
  IN  /\ Serving("read")
      /\ IF ~active \/ fop[h].failed
           THEN Reads(0, fop[h].failed)
           ELSE \/ Reads(ReadAhead(h), FALSE)
                \/ \E k \in 0 .. Rounds - 1 :
                     /\ ReadMayFail /\ k * Block < ReadAhead(h)
                     /\ Reads(k * Block, TRUE)
      /\ Served /\ UNCHANGED <<slots>>

DrainFor_Mut(h) == 0

(* Bytes an F_WRITE moves to the file: whole and partial blocks. *)
DrainFor(h) == IF Registered(h) THEN Min({Rounds * Block, fop[h].fifo}) ELSE 0

ServeWrite ==
  LET h == worker.msg.h
      n == DrainFor(h)
  IN  /\ Serving("write")
      /\ \E w \in Written(n) :
           fop' = [fop EXCEPT ![h] = [ToFile(h, n, w) EXCEPT !.ok = TRUE, !.sem = @ + 1]]
      /\ Served /\ UNCHANGED <<slots>>

(* f_unlink or f_mkdir; its error is only printed.  The path is freed. *)
ServeAsync ==
  /\ worker.pc = "serve" /\ worker.msg.op \in Async
  /\ Served /\ UNCHANGED <<fop, slots>>

-----------------------------------------------------------------------------
ClientReturn(c) ==
  OpenReturn(c) \/ WriteReturn(c) \/ ReadReturn(c) \/ CloseReturn(c)

ClientCall(c) ==
  \/ Open(c) \/ WriteFast(c) \/ WriteRequest(c) \/ ReadFast(c) \/ ReadRequest(c)
  \/ CloseRequest(c) \/ CloseRefused(c)

Worker ==
  \/ Exit \/ Recv \/ RecvEmpty \/ DrainBlock \/ DrainNext \/ DrainEnd
  \/ ServeOpen \/ ServeClose \/ ServeRead \/ ServeWrite \/ ServeAsync

Next ==
  \/ \E c \in Clients : ClientCall(c) \/ ClientReturn(c)
  \/ \E c \in Writers, op \in Async : AsyncRequest(c, op)
  \/ Worker
  \/ Destroy

(* The worker is a running thread that blocks nowhere but in bounded       *)
(* sleeps, and a posted semaphore wakes its only waiter.  No call is owed. *)
Fairness == WF_vars(Worker) /\ \A c \in Clients : WF_vars(ClientReturn(c))

SafetySpec == Init /\ [][Next]_vars
Spec       == SafetySpec /\ Fairness

-----------------------------------------------------------------------------
Waiting(c) == client[c].pc \in Sync

(* Types of the queue, the handles, the worker and the clients. *)
TypeOK ==
  /\ active \in BOOLEAN
  /\ queue \in Seq([op : Sync \cup Async, h : Handles \cup {NoHandle}])
  /\ fop \in [Handles -> [alloc : BOOLEAN, mode : {"none", "read", "write"},
                         open : BOOLEAN, ok : BOOLEAN, failed : BOOLEAN,
                         sem : Nat, fifo : 0 .. Cache, disk : Nat, lost : Nat,
                         user : Nat, size : Nat]]
  /\ slots \in [Slot -> Handles \cup {NoHandle}]
  /\ worker \in [pc : {"recv", "drain", "serve", "exit"}, i : Nat, idx : 0 .. Rounds,
                 msg : [op : Sync \cup Async \cup {"none"}, h : Handles \cup {NoHandle}]]
  /\ client \in [Clients -> [pc : Sync \cup {"idle"}, h : Handles \cup {NoHandle},
                             async : 0 .. MaxAsync]]

(* No dangling handle: what a queued message, the message the worker holds,*)
(* a slot of m_file or a client points at is allocated, also when a close  *)
(* fails, the queue is full or the address of a freed handle is used again;*)
(* a registered handle has an open file; and no two threads share one.     *)
NoDanglingHandle ==
  /\ \A i \in DOMAIN queue : queue[i].op \in Sync => fop[queue[i].h].alloc
  /\ worker.msg.op \in Sync => fop[worker.msg.h].alloc
  /\ \A i \in Slot : slots[i] # NoHandle => fop[slots[i]].alloc /\ fop[slots[i]].open
  /\ \A c \in Clients : client[c].h # NoHandle => fop[client[c].h].alloc
  /\ \A c, d \in Clients : c # d /\ client[c].h = client[d].h => client[c].h = NoHandle

(* No pointer dangles, and every handle, message and slot is well-typed:   *)
(* in particular no cache of a handle overflows (ramdisk.cpp:690-910).     *)
HandlesSound == TypeOK /\ NoDanglingHandle

(* Requests for h queued, being served, or answered and not yet noticed. *)
Pending(h) ==
  Cardinality({i \in DOMAIN queue : queue[i].h = h})
    + (IF worker.msg.h = h THEN 1 ELSE 0) + fop[h].sem

(* One request, one answer: a handle never has two requests or a stale     *)
(* semaphore token outstanding, so a client is never woken before its own  *)
(* request was served; and as long as the service runs a client that waits *)
(* has its request on the way.                                             *)
OneAnswer ==
  \A h \in Handles :
    /\ Pending(h) <= 1
    /\ Pending(h) = 1 => \E c \in Clients : client[c].h = h /\ Waiting(c)
    /\ active => \A c \in Clients : client[c].h = h /\ Waiting(c) => Pending(h) = 1

(* With at most QUICK_FW_LEN mux threads every file open for writing is    *)
(* registered with the worker, once: none is left out because an earlier   *)
(* handle's slot was not given back.                                       *)
WritersRegistered ==
  \A c \in Writers :
    LET h == client[c].h
    IN  h # NoHandle /\ fop[h].open => Cardinality({i \in Slot : slots[i] = h}) = 1

(* When ramfs_fclose reports success every byte that ramfs_fwrite accepted,*)
(* the last partial block included, has been handed to f_write: what the   *)
(* file lacks is only what a full volume had no room for (the bw that      *)
(* ramdisk.cpp:713, 775 and 842 do not look at), and nothing otherwise.    *)
FlushedOnClose ==
  \A c \in Writers :
    LET h == client[c].h
    IN  Woken(c, "close") /\ fop[h].ok =>
          /\ fop[h].fifo = 0
          /\ fop[h].disk + fop[h].lost = fop[h].user
          /\ fop[h].lost > 0 => VolumeMayFill

(* A ramfs_fwrite that had to ask for room gets it: after the F_WRITE no   *)
(* packet is dropped, whatever the worker did meanwhile.                   *)
WriteAccepted ==
  [][active => \A c \in Writers :
       WriteReturn(c) => fop'[client[c].h].user = fop[client[c].h].user + Chunk]_vars

(* ramfs_fread returns less than it was asked for only at the end of the   *)
(* file, or when f_read has failed on it (it was deleted meanwhile; the    *)
(* worker answers FR_OK, ramdisk.cpp:806-818), and then with all that had  *)
(* been read.  sendRawChannel takes a read of 0 bytes for the end of the   *)
(* segment and goes on to the next.                                        *)
ShortReadAtEnd ==
  [][active => \A c \in Readers :
       LET h == client[c].h
       IN  ReadReturn(c) => \/ fop'[h].user = fop[h].user + Chunk
                            \/ fop'[h].user = fop[h].size
                            \/ fop[h].failed /\ fop'[h].user = fop[h].disk]_vars

(* No request is refused for want of room: a mux thread has at most        *)
(* MaxAsync + 1 messages queued and a servent one, and the queue is long   *)
(* enough for all of them.                                                 *)
NeverRefused ==
  active => \A c \in Clients :
    client[c].pc = "idle" /\ (client[c].h # NoHandle \/ client[c].async < MaxAsync)
      => CanSend

(* Every thread blocked in ramfs gets its answer, unless the service is    *)
(* destroyed under it.                                                     *)
Answered ==
  \A c \in Clients : Waiting(c) ~> ~Waiting(c) \/ ~active
=============================================================================
