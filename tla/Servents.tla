------------------------------ MODULE Servents ------------------------------
(***************************************************************************)
(* The servents of src/servent.cpp and the manager of src/servmgr.cpp: one *)
(* object per connection in a list that only grows, used again once it is  *)
(* S_FREE; a manager thread that keeps a server running on servent 1; the  *)
(* server's thread, which accepts; a thread per client; and DVBCAST_Quit   *)
(* on the application's thread.                                            *)
(*                                                                         *)
(* ServMgr::lock covers allocServent alone.  Statuses, sockets and thread  *)
(* flags are read by the other threads without it, so a step here is what  *)
(* one thread does between two reads or stores that another may notice.    *)
(* A client that streams reads its segments through the ramfs, which quit  *)
(* takes away: of RamFs this module has a call and its answer.             *)
(*                                                                         *)
(* restartServer stays false and autoServe true: nothing in the program    *)
(* sets them, so that abort() is never called.                             *)
(***************************************************************************)
EXTENDS Integers, FiniteSets, FiniteSetsExt

CONSTANTS
  MaxServIn,   (* maxServIn: clients served at a time on the port          *)
  MaxDirect,   (* maxDirect: streams of clients that are not local         *)
  MaxServents, (* bound: servents ever allocated                           *)
  MaxConns,    (* bound: sockets and threads at a time                     *)
  MaxFails,    (* bound: failing starts of the server                      *)
  MayQuit      (* whether DVBCAST_Quit may be called                       *)

ASSUME LimitsAssumption ==
  /\ MaxServIn \in Nat \ {0} /\ MaxDirect \in Nat \ {0}
  /\ MaxServents \in Nat \ {0} /\ MaxConns \in Nat \ {0}
  /\ MaxFails \in Nat /\ MayQuit \in BOOLEAN

VARIABLES
  count,   (* servents in the list; a new one goes to its head, so that    *)
           (* the list holds servents count, count - 1, ..., 1             *)
  sv,      (* status, type, sock and thread.active of each servent         *)
  live,    (* the ClientSockets that are allocated                         *)
  private, (* whether the peer of a socket is local, see isPrivate         *)
  thr,     (* the thread started for each socket: where it is, its         *)
           (* servent, and its walk along the list in numStreams           *)
  mgr,     (* the manager thread                                           *)
  quit,    (* DVBCAST_Quit and where its walk along the list is            *)
  fails    (* failing starts so far                                        *)

vars == <<count, sv, live, private, thr, mgr, quit, fails>>

Null    == 0
Conns   == 1 .. MaxConns
Server  == 1
Listed  == 1 .. count
Clients == {"incoming", "direct"}

(* reset(): a servent as allocServent hands it out. *)
Blank == [status |-> "none", type |-> "none", sock |-> Null, active |-> FALSE]

NoThread == [pc |-> "none", sv |-> Server, at |-> 0, n |-> 0, steady |-> {}]

Thread(pc, i) == [NoThread EXCEPT !.pc = pc, !.sv = i]

Init ==
  /\ count = 0
  /\ sv = [i \in 1 .. MaxServents |-> Blank]
  /\ live = {}
  /\ private = [c \in Conns |-> FALSE]
  /\ thr = [c \in Conns |-> NoThread]
  /\ mgr = [pc |-> "start", active |-> TRUE]
  /\ quit = [pc |-> "idle", at |-> 0]
  /\ fails = 0

Go(c, pc) == thr' = [thr EXCEPT ![c].pc = pc]

At(c, pc) == thr[c].pc = pc

(* What kill() leaves of a servent that no other thread is using. *)
Killed(s) ==
  IF s.type = "server"
    THEN [s EXCEPT !.status = "closing", !.sock = Null, !.active = FALSE]
    ELSE [Blank EXCEPT !.status = "free"]

(* Addresses and names of threads carry no meaning: take the lowest.       *)
Unused == {c \in Conns : c \notin live /\ At(c, "none")}

(* allocServent: a free servent, whichever the walk meets while others are *)
(* being freed, or a new one.                                              *)
Allocs ==
  LET free == {i \in Listed : sv[i].status = "free"}
  IN  IF free # {} THEN free
      ELSE IF count < MaxServents THEN {count + 1} ELSE {}

-----------------------------------------------------------------------------
(* The manager, ServMgr::serverProc.                                       *)

MgrStart ==
  /\ mgr.pc = "start"
  /\ count' = Server
  /\ mgr' = [mgr EXCEPT !.pc = "test"]
  /\ UNCHANGED <<sv, live, private, thr, quit, fails>>

MgrTest ==
  /\ mgr.pc = "test"
  /\ mgr' = [mgr EXCEPT !.pc = IF mgr.active THEN "body" ELSE "exit"]
  /\ UNCHANGED <<count, sv, live, private, thr, quit, fails>>

(* The server has its socket: sleep. *)
MgrSleep ==
  /\ mgr.pc = "body" /\ sv[Server].sock # Null
  /\ mgr' = [mgr EXCEPT !.pc = "test"]
  /\ UNCHANGED <<count, sv, live, private, thr, quit, fails>>

(* initServer; checkFree passes, see FreeIsIdle. *)
InitServer ==
  /\ mgr.pc = "body" /\ sv[Server].sock = Null
  /\ Unused # {}
  /\ LET c == Min(Unused)
     IN  /\ sv' = [sv EXCEPT ![Server] = [status |-> "wait", type |-> "server",
                                          sock |-> c, active |-> TRUE]]
         /\ live' = live \cup {c}
         /\ thr' = [thr EXCEPT ![c] = Thread("begin", Server)]
  /\ mgr' = [mgr EXCEPT !.pc = "test"]
  /\ UNCHANGED <<count, private, quit, fails>>

InitServerFails_Mut ==
  /\ mgr.pc = "body" /\ sv[Server].sock = Null
  /\ fails < MaxFails
  /\ \E type \in {sv[Server].type, "server"} :
       sv' = [sv EXCEPT ![Server] = [Killed([@ EXCEPT !.type = type])
                                       EXCEPT !.sock = Min(Conns)]]
  /\ fails' = fails + 1
  /\ mgr' = [mgr EXCEPT !.pc = "test"]
  /\ UNCHANGED <<count, live, private, thr, quit>>

(* bind throws before the type is set, or startThread after it. *)
InitServerFails ==
  /\ mgr.pc = "body" /\ sv[Server].sock = Null
  /\ fails < MaxFails
  /\ \E type \in {sv[Server].type, "server"} :
       sv' = [sv EXCEPT ![Server] = Killed([@ EXCEPT !.type = type])]
  /\ fails' = fails + 1
  /\ mgr' = [mgr EXCEPT !.pc = "test"]
  /\ UNCHANGED <<count, live, private, thr, quit>>

Manager == MgrStart \/ MgrTest \/ MgrSleep \/ InitServer \/ InitServerFails

-----------------------------------------------------------------------------
(* The server's thread, Servent::serverProc.                               *)

(* numActiveOnPort.  Its walk can be taken as one step: the only thread    *)
(* that makes a servent active is the one that counts, so what it finds is *)
(* the number at some moment of the walk.                                  *)
NumActive ==
  Cardinality({i \in Listed : /\ sv[i].active /\ sv[i].sock # Null
                              /\ sv[i].type \in Clients})

ServerBegin(c) ==
  /\ At(c, "begin")
  /\ sv' = [sv EXCEPT ![thr[c].sv].status = "listening"]
  /\ Go(c, "loop")
  /\ UNCHANGED <<count, live, private, mgr, quit, fails>>

MayAccept_Mut == NumActive <= MaxServIn

MayAccept == NumActive < MaxServIn

(* The test of the loop; with maxServIn clients it sleeps and tests again. *)
ServerTest(c) ==
  /\ At(c, "loop")
  /\ \/ sv[thr[c].sv].active /\ MayAccept /\ Go(c, "accept")
     \/ ~sv[thr[c].sv].active /\ Go(c, "kill")
  /\ UNCHANGED <<count, sv, live, private, mgr, quit, fails>>

(* accept finds nobody waiting. *)
AcceptNone(c) ==
  /\ At(c, "accept")
  /\ Go(c, "loop")
  /\ UNCHANGED <<count, sv, live, private, mgr, quit, fails>>

(* accept, allocServent and initIncoming. *)
Accept(c) ==
  /\ At(c, "accept") /\ Unused # {}
  /\ \E i \in Allocs :
       LET d == Min(Unused)
       IN  /\ count' = Max({count, i})
           /\ sv' = [sv EXCEPT ![i] = [status |-> "protocol", type |-> "incoming",
                                       sock |-> d, active |-> TRUE]]
           /\ live' = live \cup {d}
           /\ thr' = [thr EXCEPT ![c].pc = "loop", ![d] = Thread("request", i)]
  /\ UNCHANGED <<private, mgr, quit, fails>>

(* The thread cannot be started: kill() frees the servent and the socket.  *)
AcceptFails(c) ==
  /\ At(c, "accept")
  /\ \E i \in Allocs :
       /\ count' = Max({count, i})
       /\ sv' = [sv EXCEPT ![i] = Killed(Blank)]
  /\ Go(c, "loop")
  /\ UNCHANGED <<live, private, mgr, quit, fails>>

-----------------------------------------------------------------------------
(* A client's thread, Servent::incomingProc.                               *)

(* A bad request, a page, a command, RTSP, a closed or a slow connection.  *)
Serve(c) ==
  /\ At(c, "request")
  /\ Go(c, "kill")
  /\ UNCHANGED <<count, sv, live, private, mgr, quit, fails>>

Streaming(i) == sv[i].status = "connected" /\ sv[i].type = "direct"

(* Streams that count towards the limit. *)
Direct == {i \in Listed : Streaming(i) /\ sv[i].sock \in live /\ ~private[sv[i].sock]}

(* A request for a stream.  Whoever is local skips the limit, and so does  *)
(* whoever asks before the channel exists (handshakeStream looks it up     *)
(* twice); the others walk along the list from its head.  Whether the peer *)
(* is local is decided here, where it is first asked.                      *)
RequestStream(c) ==
  /\ At(c, "request")
  /\ sv' = [sv EXCEPT ![thr[c].sv].type = "direct"]
  /\ \E local \in BOOLEAN : private' = [private EXCEPT ![sv[thr[c].sv].sock] = local]
  /\ \/ Go(c, "wait")
     \/ /\ ~private'[sv[thr[c].sv].sock]
        /\ thr' = [thr EXCEPT ![c] = [@ EXCEPT !.pc = "count", !.at = count,
                                               !.n = 0, !.steady = Direct]]
  /\ UNCHANGED <<count, live, mgr, quit, fails>>

(* numStreams: is the next servent streaming? *)
Count(c) ==
  /\ At(c, "count") /\ thr[c].at > 0
  /\ thr' = IF Streaming(thr[c].at) THEN [thr EXCEPT ![c].pc = "host"]
                                    ELSE [thr EXCEPT ![c].at = @ - 1]
  /\ UNCHANGED <<count, sv, live, private, mgr, quit, fails>>

(* What isPrivate makes of a servent's socket.  A socket that its thread   *)
(* has deleted or is about to forget gives either answer, as does address  *)
(* 0 if the host's name does not resolve.                                  *)
Privacy(i) ==
  IF sv[i].sock \in live THEN {private[sv[i].sock]} ELSE BOOLEAN

(* Then look at its host; a count above the limit says no more.            *)
CountHost(c) ==
  /\ At(c, "host")
  /\ \E local \in Privacy(thr[c].at) :
       thr' = [thr EXCEPT ![c].pc = "count", ![c].at = @ - 1,
                          ![c].n = IF local THEN @ ELSE Min({@ + 1, MaxDirect})]
  /\ UNCHANGED <<count, sv, live, private, mgr, quit, fails>>

CountDone_Mut(c) ==
  /\ At(c, "count") /\ thr[c].at = 0
  /\ thr' = [thr EXCEPT ![c] = Thread(IF thr[c].n > MaxDirect THEN "kill" ELSE "wait",
                                      thr[c].sv)]
  /\ UNCHANGED <<count, sv, live, private, mgr, quit, fails>>

(* directFull: refused with 503, or on to wait for the channel. *)
CountDone(c) ==
  /\ At(c, "count") /\ thr[c].at = 0
  /\ thr' = [thr EXCEPT ![c] = Thread(IF thr[c].n >= MaxDirect THEN "kill" ELSE "wait",
                                      thr[c].sv)]
  /\ UNCHANGED <<count, sv, live, private, mgr, quit, fails>>

(* The channel is playing. *)
Connect(c) ==
  /\ At(c, "wait") /\ sv[thr[c].sv].active
  /\ sv' = [sv EXCEPT ![thr[c].sv].status = "connected"]
  /\ Go(c, "stream")
  /\ UNCHANGED <<count, live, private, mgr, quit, fails>>

(* No channel, none that plays in time, or the thread was shut down. *)
GiveUp(c) ==
  /\ At(c, "wait")
  /\ Go(c, "kill")
  /\ UNCHANGED <<count, sv, live, private, mgr, quit, fails>>

(* sendRawChannel: ramfs_fopen and ramfs_fread are messages to the worker, *)
(* and sem_wait has no timeout.  When ramdisk_destory has cleared h_msgq   *)
(* the message is refused and the call returns at once.                    *)
ReadSegment(c) ==
  /\ At(c, "stream") /\ sv[thr[c].sv].active /\ quit.pc # "destroyed"
  /\ Go(c, "ramfs")
  /\ UNCHANGED <<count, sv, live, private, mgr, quit, fails>>

(* The loop has ended with a segment open: ramfs_fclose waits likewise.    *)
CloseSegment(c) ==
  /\ At(c, "stream") /\ quit.pc # "destroyed"
  /\ Go(c, "fclose")
  /\ UNCHANGED <<count, sv, live, private, mgr, quit, fails>>

EndStream(c) ==
  /\ At(c, "stream") \/ At(c, "fclose")
  /\ sv' = [sv EXCEPT ![thr[c].sv].status = "closing"]
  /\ thr' = [d \in Conns |-> IF d = c THEN [thr[d] EXCEPT !.pc = "kill"]
                             ELSE [thr[d] EXCEPT !.steady = @ \ {thr[c].sv}]]
  /\ UNCHANGED <<count, live, private, mgr, quit, fails>>

(* No segment is open, or it is closed first. *)
StopReading(c) == At(c, "stream") /\ (EndStream(c) \/ CloseSegment(c))

Leave_Mut(c) == c \notin live /\ StopReading(c)

(* sendRawChannel ends when thread.active is cleared ... *)
Leave(c) == ~sv[thr[c].sv].active /\ StopReading(c)

(* ... when the channel is gone, or the client. *)
Disconnect(c) == StopReading(c)

(* The worker has served the call: go on with the loop, or end.            *)
Answer(c) ==
  \/ /\ At(c, "ramfs")
     /\ Go(c, "stream")
     /\ UNCHANGED <<count, sv, live, private, mgr, quit, fails>>
  \/ At(c, "fclose") /\ EndStream(c)

(* While the ramfs is there every call is answered, see Answered of RamFs; *)
(* afterwards only the one that the worker was serving may be.             *)
Answered(c) == quit.pc # "destroyed" /\ Answer(c)

-----------------------------------------------------------------------------
(* kill(), at the end of a server's or a client's thread.                  *)

KillStatus_Mut(c) ==
  /\ At(c, "kill")
  /\ sv' = [sv EXCEPT ![thr[c].sv] = [@ EXCEPT !.active = FALSE, !.status = "free"]]
  /\ Go(c, "close")
  /\ UNCHANGED <<count, live, private, mgr, quit, fails>>

KillStatus(c) ==
  /\ At(c, "kill")
  /\ sv' = [sv EXCEPT ![thr[c].sv] = [@ EXCEPT !.active = FALSE, !.status = "closing"]]
  /\ Go(c, "close")
  /\ UNCHANGED <<count, live, private, mgr, quit, fails>>

(* sock->close(), delete sock and sock = NULL: for the walk of another     *)
(* thread a socket deleted and one forgotten are the same, see Privacy.    *)
KillClose(c) ==
  /\ At(c, "close")
  /\ live' = live \ {sv[thr[c].sv].sock}
  /\ sv' = [sv EXCEPT ![thr[c].sv].sock = Null]
  /\ private' = [private EXCEPT ![c] = FALSE]
  /\ Go(c, "reset")
  /\ UNCHANGED <<count, mgr, quit, fails>>

KillReset_Mut(c) ==
  /\ At(c, "reset")
  /\ sv' = [sv EXCEPT ![thr[c].sv] = [Blank EXCEPT !.status = "free"]]
  /\ thr' = [thr EXCEPT ![c] = NoThread]
  /\ UNCHANGED <<count, live, private, mgr, quit, fails>>

(* A client's servent is reset and free.  The server's is left as it is:   *)
(* the manager may by now be starting a server on it.                      *)
KillReset(c) ==
  /\ At(c, "reset")
  /\ sv' = IF sv[thr[c].sv].type = "server" THEN sv
           ELSE [sv EXCEPT ![thr[c].sv] = [Blank EXCEPT !.status = "free"]]
  /\ thr' = [thr EXCEPT ![c] = NoThread]
  /\ UNCHANGED <<count, live, private, mgr, quit, fails>>

-----------------------------------------------------------------------------
(* ServMgr::quit: the manager's flag, then those of the servents, from the *)
(* head the list had when it began.                                        *)
Quit ==
  /\ MayQuit /\ quit.pc = "idle"
  /\ quit' = [pc |-> "walk", at |-> count]
  /\ mgr' = [mgr EXCEPT !.active = FALSE]
  /\ UNCHANGED <<count, sv, live, private, thr, fails>>

QuitNext ==
  /\ quit.pc = "walk" /\ quit.at > 0
  /\ sv' = [sv EXCEPT ![quit.at].active = FALSE]
  /\ quit' = [quit EXCEPT !.at = @ - 1]
  /\ UNCHANGED <<count, live, private, thr, mgr, fails>>

(* DVBCAST_Quit goes on: chanMgr->quit, which ends the channels, and       *)
(* ramdisk_destory, which frees the queue of messages with all in it.      *)
QuitRamfs ==
  /\ quit.pc = "walk" /\ quit.at = 0
  /\ quit' = [quit EXCEPT !.pc = "destroyed"]
  /\ UNCHANGED <<count, sv, live, private, thr, mgr, fails>>

-----------------------------------------------------------------------------
KillStep(c) == KillStatus(c) \/ KillClose(c) \/ KillReset(c)

ServerStep(c) ==
  ServerBegin(c) \/ ServerTest(c) \/ AcceptNone(c) \/ Accept(c) \/ AcceptFails(c)

ClientStep(c) ==
  \/ Serve(c) \/ RequestStream(c)
  \/ Count(c) \/ CountHost(c) \/ CountDone(c)
  \/ Connect(c) \/ GiveUp(c)
  \/ ReadSegment(c) \/ Leave(c) \/ Answered(c)

Step(c) == KillStep(c) \/ ServerStep(c) \/ ClientStep(c)

Next ==
  \/ Manager
  \/ \E c \in Conns : Step(c) \/ Disconnect(c) \/ Answer(c)
  \/ Quit \/ QuitNext \/ QuitRamfs

(* Every thread runs: a server polls; a client's request, its wait for the *)
(* channel and each of its reads and writes on the socket have a timeout;  *)
(* its calls of the ramfs have none and are answered while that is there   *)
(* (Answered).  No client ever has to connect or to hang up, and nobody    *)
(* has to quit.                                                            *)
Fairness == WF_vars(Manager) /\ \A c \in Conns : WF_vars(Step(c))

Spec == Init /\ [][Next]_vars /\ Fairness

-----------------------------------------------------------------------------
ServerPcs == {"begin", "loop", "accept"}
StreamPcs == {"stream", "ramfs", "fclose"}
ClientPcs == {"request", "count", "host", "wait"} \cup StreamPcs
KillPcs   == {"kill", "close", "reset"}

(* Types of the list, the servents, the threads and the walks. *)
TypeOK ==
  /\ count \in 0 .. MaxServents
  /\ sv \in [1 .. MaxServents ->
               [status : {"none", "wait", "listening", "protocol", "connected",
                          "closing", "free"},
                type : Clients \cup {"none", "server"},
                sock : Conns \cup {Null}, active : BOOLEAN]]
  /\ live \subseteq Conns
  /\ private \in [Conns -> BOOLEAN]
  /\ thr \in [Conns -> [pc : ServerPcs \cup ClientPcs \cup KillPcs \cup {"none"},
                        sv : 1 .. MaxServents, at : 0 .. MaxServents,
                        n : 0 .. MaxDirect, steady : SUBSET (1 .. MaxServents)]]
  /\ mgr \in [pc : {"start", "test", "body", "exit"}, active : BOOLEAN]
  /\ quit \in [pc : {"idle", "walk", "destroyed"}, at : 0 .. MaxServents]
  /\ fails \in 0 .. MaxFails

(* A thread whose kill() has not yet forgotten the socket. *)
Using(c) == thr[c].pc \notin {"none", "reset"}

(* "Each servent has one socket allocated to it on connect, it uses this   *)
(* to transfer all of its data" (servent.cpp:7): until it has closed it, a *)
(* thread's servent holds the very socket the thread was started for; no   *)
(* other thread has that servent; a client's thread is never on the        *)
(* manager's servent; and no socket is left without a servent to close it. *)
OneSocket ==
  /\ \A c \in Conns :
       Using(c) => /\ sv[thr[c].sv].sock = c
                   /\ c \in live
                   /\ thr[c].sv = Server <=> sv[thr[c].sv].type = "server"
  /\ \A c \in live : Using(c)

(* The same of a well-typed list: a thread, its servent and its socket     *)
(* belong together until the socket is closed (servent.cpp:169-193).       *)
SocketsSound == TypeOK /\ OneSocket

(* What allocServent may hand out is idle: a free servent has no thread,   *)
(* not even one at the end of its kill(), no socket and no running flag,   *)
(* so that the checkFree of its next user passes; and so has the manager's *)
(* servent when it has no socket, but for the end of a kill().             *)
FreeIsIdle ==
  \A i \in Listed :
    /\ sv[i].status = "free" =>
         /\ sv[i].sock = Null /\ ~sv[i].active
         /\ \A c \in Conns : thr[c].sv = i => At(c, "none")
    /\ i = Server /\ sv[i].sock = Null => ~sv[i].active

(* Never more than maxServIn clients are being served, although the thread *)
(* that accepts counts them without a lock and before it waits for one.    *)
IncomingBounded ==
  Cardinality({i \in Listed : sv[i].active /\ sv[i].type \in Clients}) <= MaxServIn

(* The limit on streams cannot be dodged by what the list does during the  *)
(* walk of numStreams (servents added at its head, freed, used again, read *)
(* while they are killed): a client that passes has not had maxDirect      *)
(* others streaming throughout.  Those that connect meanwhile, or that     *)
(* pass together, are not counted.                                         *)
LimitHonoured ==
  [][\A c \in Conns :
       CountDone(c) /\ thr'[c].pc = "wait" => Cardinality(thr[c].steady) < MaxDirect]_vars

(* The thread waits for an answer of a ramfs that is gone.                 *)
Stranded(c) == quit.pc = "destroyed" /\ thr[c].pc \in {"ramfs", "fclose"}

(* A thread whose flag was cleared, by quit or by its own kill(), ends:    *)
(* nothing sets the flag again under it.  What DVBCAST_Quit leaves behind  *)
(* are the streams it catches inside a call of the ramfs (dvbcast.cpp:61,  *)
(* ramdisk.cpp:431, 484, 537).                                             *)
ShutdownEnds ==
  \A c \in Conns :
    ~At(c, "none") /\ ~sv[thr[c].sv].active ~> At(c, "none") \/ Stranded(c)

(* The manager gets a server listening in the end, whatever failed before, *)
(* and again if it stops, unless the application quits.                    *)
ServerStarts ==
  quit.pc = "idle" ~> sv[Server].status = "listening" \/ quit.pc # "idle"
=============================================================================
