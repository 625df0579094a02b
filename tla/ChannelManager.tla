--------------------------- MODULE ChannelManager ---------------------------
(***************************************************************************)
(* The channels of src/channel.cpp: ChanMgr's list, the life of a Channel, *)
(* its mux thread and the DVB filter callback that feeds it.               *)
(*                                                                         *)
(* Four kinds of threads meet here.  A servent runs startservice           *)
(* (createChannel, then startStream) and stopservice (findChannel, then    *)
(* stopStream); each mux thread runs Channel::stream and at its end        *)
(* Channel::close; the DVB driver runs skydvb_filter_fn; the main thread   *)
(* runs ChanMgr::quit.  createChannel holds ChanMgr::lock and is one step. *)
(* startStream and close hold Channel::lock, which neither the callback    *)
(* nor createChannel nor quit takes: they are split where those can look.  *)
(***************************************************************************)
EXTENDS Integers, FiniteSets

CONSTANTS
  Admins,       (* the servents that carry out start and stop commands     *)
  Services,     (* the service ids they name                               *)
  NoService,    (* serviceID 0                                             *)
  Nobody,       (* no lock holder, no channel, no fifo                     *)
  MaxChannels,  (* bound: the channels createChannel may allocate          *)
  MaxFifos,     (* bound: the fifos that may be live at once               *)
  MayFail,      (* whether an allocation or a thread start may fail        *)
  MayQuit       (* whether the application may quit                        *)

ASSUME ServicesAssumption == NoService \notin Services
ASSUME NobodyAssumption   == Nobody \notin Admins \cup Nat
ASSUME BoundsAssumption   == MaxChannels \in Nat \ {0} /\ MaxFifos \in Nat
ASSUME FlagsAssumption    == {MayFail, MayQuit} \subseteq BOOLEAN

Channels == 1 .. MaxChannels
Fifos    == 1 .. MaxFifos
Kinds    == {"audio", "video"}   (* m_stream[0] and m_stream[1]            *)

VARIABLES
  allocated,  (* how many channels the list holds: 1 .. allocated          *)
  chan,       (* per channel: status, serviceID and thread.active          *)
  stream,     (* per channel and kind: h_filter # 0, and p_fifo            *)
  lock,       (* per channel: who holds Channel::lock                      *)
  closing,    (* per channel: how far a close() in progress has come       *)
  mux,        (* per channel: where its mux thread is                      *)
  admin,      (* per admin: the command in progress and the channel it has *)
  input,      (* pMuxAudioInput and pMuxVideoInput: whose stream they name *)
  callback,   (* the filter callback in progress                           *)
  live        (* the fifos allocated and not released                      *)

vars == <<allocated, chan, stream, lock, closing, mux, admin, input, callback, live>>

Free      == [status |-> "none", service |-> NoService, active |-> FALSE]
NoStream  == [filter |-> FALSE, fifo |-> Nobody]
NoStreams == [k \in Kinds |-> NoStream]
Idle      == [pc |-> "idle", chan |-> Nobody]
NoCall    == [pc |-> "idle", kind |-> "audio", fifo |-> Nobody]

Init ==
  /\ allocated = 0
  /\ chan = [c \in Channels |-> Free]
  /\ stream = [c \in Channels |-> NoStreams]
  /\ lock = [c \in Channels |-> Nobody]
  /\ closing = [c \in Channels |-> "no"]
  /\ mux = [c \in Channels |-> "off"]
  /\ admin = [a \in Admins |-> Idle]
  /\ input = [k \in Kinds |-> Nobody]
  /\ callback = NoCall
  /\ live = {}

List == 1 .. allocated

(* What findChannel(serviceID) returns: the list has the newest first.     *)
Serving(s)   == {c \in List : chan[c].service = s}
Available    == {c \in List : chan[c].status = "none"}
First(cs)    == CHOOSE c \in cs : \A d \in cs : d <= c

Goes(a, pc, c) == admin' = [admin EXCEPT ![a] = [pc |-> pc, chan |-> c]]

-----------------------------------------------------------------------------
(* The commands of a servent. *)

(* createChannel: the channel of the service if it has one, in whatever    *)
(* state that is, else a free one, else a new one.                         *)
CreateFound(a, s) ==
  /\ admin[a].pc = "idle"
  /\ Serving(s) # {}
  /\ Goes(a, "start", First(Serving(s)))
  /\ UNCHANGED <<allocated, chan, stream, lock, closing, mux, input, callback, live>>

Create_Mut(a, s) ==
  /\ admin[a].pc = "idle"
  /\ LET c == IF Available # {} THEN First(Available) ELSE allocated + 1
     IN  /\ c \in Channels
         /\ allocated' = IF c > allocated THEN c ELSE allocated
         /\ chan' = [chan EXCEPT ![c].status = "wait", ![c].service = s]
         /\ stream' = [stream EXCEPT ![c] = NoStreams]
         /\ Goes(a, "start", c)
  /\ UNCHANGED <<lock, closing, mux, input, callback, live>>

Create(a, s) ==
  /\ admin[a].pc = "idle"
  /\ Serving(s) = {}
  /\ LET c == IF Available # {} THEN First(Available) ELSE allocated + 1
     IN  /\ c \in Channels
         /\ allocated' = IF c > allocated THEN c ELSE allocated
         /\ chan' = [chan EXCEPT ![c].status = "wait", ![c].service = s]
         /\ stream' = [stream EXCEPT ![c] = NoStreams]
         /\ Goes(a, "start", c)
  /\ UNCHANGED <<lock, closing, mux, input, callback, live>>

(* startStream of a channel that does not wait to be started does nothing. *)
StartRefused(a) ==
  LET c == admin[a].chan
  IN  /\ admin[a].pc = "start" /\ lock[c] = Nobody
      /\ chan[c].status # "wait"
      /\ Goes(a, "idle", Nobody)
      /\ UNCHANGED <<allocated, chan, stream, lock, closing, mux, input, callback, live>>

StartStream_Mut(a) ==
  LET c == admin[a].chan
  IN  /\ admin[a].pc = "start"
      /\ chan[c].status = "wait"
      /\ chan' = [chan EXCEPT ![c].status = "connecting"]
      /\ Goes(a, "audio", c)
      /\ UNCHANGED <<allocated, stream, lock, closing, mux, input, callback, live>>

StartStream(a) ==
  LET c == admin[a].chan
  IN  /\ admin[a].pc = "start" /\ lock[c] = Nobody
      /\ chan[c].status = "wait"
      /\ lock' = [lock EXCEPT ![c] = a]
      /\ chan' = [chan EXCEPT ![c].status = "connecting"]
      /\ Goes(a, "audio", c)
      /\ UNCHANGED <<allocated, stream, closing, mux, input, callback, live>>

(* One stream after the other: its filter, its fifo, then the global the   *)
(* callback looks it up by.                                                *)
NextKind(k) == IF k = "audio" THEN "video" ELSE "thread"

OpenStream(a, k) ==
  LET c == admin[a].chan
  IN  /\ admin[a].pc = k
      /\ \E f \in Fifos \ live :
           /\ \A g \in Fifos \ live : f <= g
           /\ stream' = [stream EXCEPT ![c][k] = [filter |-> TRUE, fifo |-> f]]
           /\ live' = live \cup {f}
      /\ input' = [input EXCEPT ![k] = c]
      /\ Goes(a, NextKind(k), c)
      /\ UNCHANGED <<allocated, chan, lock, closing, mux, callback>>

(* A failed allocation goes to the error exit, which closes the channel.   *)
OpenFails(a, k) ==
  LET c == admin[a].chan
  IN  /\ MayFail /\ admin[a].pc = k
      /\ stream' = [stream EXCEPT ![c][k] = [filter |-> TRUE, fifo |-> Nobody]]
      /\ closing' = [closing EXCEPT ![c] = "release"]
      /\ Goes(a, "failed", c)
      /\ UNCHANGED <<allocated, chan, lock, mux, input, callback, live>>

StartThread(a) ==
  LET c == admin[a].chan
  IN  /\ admin[a].pc = "thread"
      /\ mux' = [mux EXCEPT ![c] = "run"]
      /\ chan' = [chan EXCEPT ![c].active = TRUE, ![c].status = "receiving"]
      /\ lock' = [lock EXCEPT ![c] = Nobody]
      /\ Goes(a, "idle", Nobody)
      /\ UNCHANGED <<allocated, stream, closing, input, callback, live>>

(* startThread sets active before it knows whether there is a thread.      *)
ThreadFails(a) ==
  LET c == admin[a].chan
  IN  /\ MayFail /\ admin[a].pc = "thread"
      /\ chan' = [chan EXCEPT ![c].active = TRUE]
      /\ closing' = [closing EXCEPT ![c] = "release"]
      /\ Goes(a, "failed", c)
      /\ UNCHANGED <<allocated, stream, lock, mux, input, callback, live>>

(* The end of the error exit, after close(): forget both inputs, unlock.   *)
StartFailed(a) ==
  LET c == admin[a].chan
  IN  /\ admin[a].pc = "failed" /\ closing[c] = "no"
      /\ input' = [k \in Kinds |-> Nobody]
      /\ lock' = [lock EXCEPT ![c] = Nobody]
      /\ Goes(a, "idle", Nobody)
      /\ UNCHANGED <<allocated, chan, stream, closing, mux, callback, live>>

(* stopservice: the channel is looked up without a lock.                   *)
Find(a, s) ==
  /\ admin[a].pc = "idle"
  /\ Serving(s) # {}
  /\ Goes(a, "stop", First(Serving(s)))
  /\ UNCHANGED <<allocated, chan, stream, lock, closing, mux, input, callback, live>>

StopRefused(a) ==
  LET c == admin[a].chan
  IN  /\ admin[a].pc = "stop" /\ lock[c] = Nobody
      /\ chan[c].status = "none"
      /\ Goes(a, "idle", Nobody)
      /\ UNCHANGED <<allocated, chan, stream, lock, closing, mux, input, callback, live>>

StopStream_Mut(a) ==
  LET c == admin[a].chan
  IN  /\ admin[a].pc = "stop" /\ lock[c] = Nobody
      /\ chan[c].status # "none"
      /\ chan' = [chan EXCEPT ![c].status = "closing"]
      /\ stream' = [stream EXCEPT ![c] = [k \in Kinds |-> [@[k] EXCEPT !.filter = FALSE]]]
      /\ Goes(a, "idle", Nobody)
      /\ UNCHANGED <<allocated, lock, closing, mux, input, callback, live>>

StopFrees_Mut(a) ==
  LET c == admin[a].chan
  IN  /\ admin[a].pc = "stop" /\ lock[c] = Nobody
      /\ chan[c].status # "none"
      /\ chan' = [chan EXCEPT ![c].status = "none", ![c].active = FALSE]
      /\ stream' = [stream EXCEPT ![c] = [k \in Kinds |-> [@[k] EXCEPT !.filter = FALSE]]]
      /\ Goes(a, "idle", Nobody)
      /\ UNCHANGED <<allocated, lock, closing, mux, input, callback, live>>

(* stopStream clears the filters, then asks the mux thread to end.         *)
StopStream(a) ==
  LET c == admin[a].chan
  IN  /\ admin[a].pc = "stop" /\ lock[c] = Nobody
      /\ chan[c].status # "none"
      /\ chan' = [chan EXCEPT ![c].status = "closing", ![c].active = FALSE]
      /\ stream' = [stream EXCEPT ![c] = [k \in Kinds |-> [@[k] EXCEPT !.filter = FALSE]]]
      /\ Goes(a, "idle", Nobody)
      /\ UNCHANGED <<allocated, lock, closing, mux, input, callback, live>>

(* ChanMgr::quit asks the mux threads to end and leaves the filters.       *)
Quit ==
  /\ MayQuit
  /\ \E c \in List : chan[c].active
  /\ chan' = [c \in Channels |-> [chan[c] EXCEPT !.active = FALSE]]
  /\ UNCHANGED <<allocated, stream, lock, closing, mux, admin, input, callback, live>>

-----------------------------------------------------------------------------
(* The mux thread: only its end matters here, the rest is SegmentWindow.   *)
(* Between the request and its close() it may still use its fifos.         *)
MuxClose(c) ==
  /\ mux[c] = "run" /\ ~chan[c].active
  /\ lock[c] = Nobody
  /\ lock' = [lock EXCEPT ![c] = c]
  /\ closing' = [closing EXCEPT ![c] = "release"]
  /\ mux' = [mux EXCEPT ![c] = "closing"]
  /\ UNCHANGED <<allocated, chan, stream, admin, input, callback, live>>

(* Channel::close and reset, by the mux thread or by the error exit of     *)
(* startStream.  The commented-out call under "if (h_filter)" leaves the   *)
(* release of the fifo as what that "if" guards.                           *)
Releases_Mut(st) == st.fifo # Nobody
Releases(st)     == st.filter /\ st.fifo # Nobody

CloseRelease(c) ==
  /\ closing[c] = "release"
  /\ live' = live \ {stream[c][k].fifo : k \in {j \in Kinds : Releases(stream[c][j])}}
  /\ closing' = [closing EXCEPT ![c] = "service"]
  /\ UNCHANGED <<allocated, chan, stream, lock, mux, admin, input, callback>>

CloseService(c) ==
  /\ closing[c] = "service"
  /\ chan' = [chan EXCEPT ![c].service = NoService]
  /\ closing' = [closing EXCEPT ![c] = "streams"]
  /\ UNCHANGED <<allocated, stream, lock, mux, admin, input, callback, live>>

CloseStreams(c) ==
  /\ closing[c] = "streams"
  /\ stream' = [stream EXCEPT ![c] = NoStreams]
  /\ closing' = [closing EXCEPT ![c] = "status"]
  /\ UNCHANGED <<allocated, chan, lock, mux, admin, input, callback, live>>

(* The status goes last: from here on createChannel may take the channel.  *)
CloseStatus(c) ==
  /\ closing[c] = "status"
  /\ chan' = [chan EXCEPT ![c].status = "none"]
  /\ closing' = [closing EXCEPT ![c] = IF mux[c] = "closing" THEN "unlock" ELSE "no"]
  /\ UNCHANGED <<allocated, stream, lock, mux, admin, input, callback, live>>

MuxGone(c) ==
  /\ closing[c] = "unlock"
  /\ lock' = [lock EXCEPT ![c] = Nobody]
  /\ closing' = [closing EXCEPT ![c] = "no"]
  /\ mux' = [mux EXCEPT ![c] = "off"]
  /\ UNCHANGED <<allocated, chan, stream, admin, input, callback, live>>

-----------------------------------------------------------------------------
(* skydvb_filter_fn: test both globals, find the stream of the filter, take*)
(* its fifo, put.  No lock, and in a build without optimisation each use of*)
(* a global or of p_fifo reads it again.  If the error exit of startStream *)
(* has cleared the global meanwhile the program crashes, and the call is   *)
(* over here as well.                                                      *)
CallbackEnters ==
  /\ callback.pc = "idle"
  /\ \A k \in Kinds : input[k] # Nobody
  /\ callback' = [NoCall EXCEPT !.pc = "look"]
  /\ UNCHANGED <<allocated, chan, stream, lock, closing, mux, admin, input, live>>

Fed(k) == stream[input[k]][k]

CallbackMatches(k) ==
  /\ callback.pc = "look" /\ input[k] # Nobody
  /\ Fed(k).filter
  /\ callback' = [NoCall EXCEPT !.pc = "take", !.kind = k]
  /\ UNCHANGED <<allocated, chan, stream, lock, closing, mux, admin, input, live>>

CallbackTakes(k) ==
  /\ callback.pc = "take" /\ callback.kind = k /\ input[k] # Nobody
  /\ Fed(k).fifo # Nobody
  /\ callback' = [NoCall EXCEPT !.pc = "put", !.fifo = Fed(k).fifo]
  /\ UNCHANGED <<allocated, chan, stream, lock, closing, mux, admin, input, live>>

(* No stream has the filter, or its fifo is gone; or the put is over.      *)
CallbackLeaves ==
  /\ \/ callback.pc \in {"look", "put"}
     \/ /\ callback.pc = "take"
        /\ input[callback.kind] # Nobody => Fed(callback.kind).fifo = Nobody
  /\ callback' = NoCall
  /\ UNCHANGED <<allocated, chan, stream, lock, closing, mux, admin, input, live>>

-----------------------------------------------------------------------------
Starting(a) ==
  \/ StartRefused(a) \/ StartStream(a)
  \/ \E k \in Kinds : OpenStream(a, k) \/ OpenFails(a, k)
  \/ StartThread(a) \/ ThreadFails(a) \/ StartFailed(a)

Stopping(a) == StopRefused(a) \/ StopStream(a)

Command(a) == \E s \in Services : CreateFound(a, s) \/ Create(a, s) \/ Find(a, s)

Closing(c) ==
  CloseRelease(c) \/ CloseService(c) \/ CloseStreams(c) \/ CloseStatus(c)

Mux(c) == MuxClose(c) \/ Closing(c) \/ MuxGone(c)

Callback ==
  \/ CallbackEnters
  \/ \E k \in Kinds : CallbackMatches(k) \/ CallbackTakes(k)
  \/ CallbackLeaves

Next ==
  \/ \E a \in Admins : Command(a) \/ Starting(a) \/ Stopping(a)
  \/ \E c \in Channels : Mux(c)
  \/ Callback
  \/ Quit

SafetySpec == Init /\ [][Next]_vars

(* Every thread that is in the middle of something goes on with it.        *)
Spec ==
  /\ SafetySpec
  /\ \A c \in Channels : WF_vars(Mux(c))
  /\ \A a \in Admins : WF_vars(Starting(a)) /\ WF_vars(Stopping(a))

-----------------------------------------------------------------------------
(* Types of the channels, their locks and streams, and of the four threads.*)
TypeOK ==
  /\ allocated \in 0 .. MaxChannels
  /\ chan \in [Channels -> [status : {"none", "wait", "connecting", "receiving", "closing"},
                            service : Services \cup {NoService}, active : BOOLEAN]]
  /\ stream \in [Channels -> [Kinds -> [filter : BOOLEAN, fifo : Fifos \cup {Nobody}]]]
  /\ lock \in [Channels -> Admins \cup Channels \cup {Nobody}]
  /\ closing \in [Channels -> {"no", "release", "service", "streams", "status", "unlock"}]
  /\ mux \in [Channels -> {"off", "run", "closing"}]
  /\ admin \in [Admins -> [pc : {"idle", "start", "audio", "video", "thread", "failed", "stop"},
                           chan : Channels \cup {Nobody}]]
  /\ input \in [Kinds -> Channels \cup {Nobody}]
  /\ callback \in [pc : {"idle", "look", "take"}, kind : Kinds, fifo : {Nobody}]
                  \cup [pc : {"put"}, kind : Kinds, fifo : Fifos]
  /\ live \subseteq Fifos

(* No two channels carry one service, however starts of it race with its   *)
(* stop: createChannel must see a service until its channel has let go.    *)
UniqueService == \A s \in Services : Cardinality(Serving(s)) <= 1

(* findChannel by service and the search for a free channel agree: while   *)
(* no close is under way a channel has a service exactly when it is not    *)
(* free, so createChannel neither hands out a free channel as a running    *)
(* one nor takes one that still serves.                                    *)
ServiceUnlessFree ==
  \A c \in List : closing[c] = "no" =>
    (chan[c].service # NoService <=> chan[c].status # "none")

(* Both, of well-typed channels: a service has one channel, and a channel  *)
(* that is not being closed has one exactly when it is not free            *)
(* (channel.cpp:631-674, 196-236).                                         *)
ServicesSound == TypeOK /\ UniqueService /\ ServiceUnlessFree

(* A mux thread in its loop has both its fifos, nobody has released them,  *)
(* and no other channel reads them: what its buffer_fifoGet relies on,     *)
(* without a lock, and what makes it the fifo's only consumer.             *)
Running == {c \in Channels : mux[c] = "run"}

MuxFifosLive ==
  \A c \in Running, k \in Kinds :
    /\ stream[c][k].fifo \in live
    /\ \A d \in Running, j \in Kinds :
         stream[d][j].fifo = stream[c][k].fifo => d = c /\ j = k

(* The channel is not restarted, and its fields are not reset, while the   *)
(* thread of its last start is still about: it has one ThreadInfo.         *)
OneMuxPerChannel ==
  \A a \in Admins :
    admin[a].pc \in {"audio", "video", "thread"} => mux[admin[a].chan] = "off"

(* While nothing fails and the application does not quit, the callback     *)
(* never puts into a released fifo, although it holds no lock against      *)
(* close(): it is the leak stated by StopReleasesFifos that saves it.      *)
CallbackFifoLive == callback.pc = "put" => callback.fifo \in live

(* With one servent giving the commands, a channel that is being closed    *)
(* comes free: its mux thread sees the request and runs to its end.  (Two  *)
(* servents can stop a channel between createChannel and startStream; it   *)
(* then has no thread to close it, and the service cannot be started again.)*)
StopFreesChannel ==
  \A c \in Channels : chan[c].status = "closing" ~> chan[c].status = "none"

(* close() stops the filters ("//stop filter", channel.cpp:200) and        *)
(* releases the fifos: a channel that is free again keeps none.            *)
StopReleasesFifos ==
  (\A c \in Channels : chan[c].status = "none" /\ mux[c] = "off") => live = {}
=============================================================================
