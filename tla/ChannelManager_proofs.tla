----------------------- MODULE ChannelManager_proofs -----------------------
(***************************************************************************)
(* Proofs about ChannelManager for any number of servents, services,       *)
(* channels and fifos: the invariants of a channel's life with every       *)
(* failure and quit, and the safety of the callback's fifo without.        *)
(***************************************************************************)
EXTENDS ChannelManager, FiniteSetTheorems, TLAPS

(* A set of naturals that is not empty has a smallest element. *)
LEMMA SmallestElement ==
  ASSUME NEW S \in SUBSET Nat, S # {}
  PROVE  \E m \in S : \A x \in S : m <= x
<1> DEFINE R == {ss \in Nat \X Nat : ss[1] < ss[2]}
<1>1. IsWellFoundedOn(R, Nat)
  BY NatLessThanWellFounded DEF OpToRel
<1>2. \A x, m \in Nat : x < m => <<x, m>> \in R
  OBVIOUS
<1> HIDE DEF R
<1>3. PICK m \in S : \A x \in S : ~(<<x, m>> \in R)
  BY <1>1, WFMin
<1>4. \A x \in S : x \in Nat /\ m \in Nat /\ ~(x < m)
  BY <1>2, <1>3
<1>5. \A x \in S : m <= x
  BY <1>4
<1> QED
  BY <1>5

(* And one with a bound has a largest: that of the smallest distance. *)
LEMMA LargestElement ==
  ASSUME NEW n \in Nat, NEW S \in SUBSET (0 .. n), S # {}
  PROVE  \E m \in S : \A x \in S : x <= m
<1> DEFINE T == {n - x : x \in S}
<1>1. \A x \in S : x \in Int /\ n - x \in Nat
  BY \A x \in S : x \in 0 .. n
<1>2. T \in SUBSET Nat /\ T # {}
  BY <1>1
<1>3. PICK k \in T : \A l \in T : k <= l
  BY <1>2, SmallestElement
<1>4. PICK m \in S : k = n - m
  OBVIOUS
<1>5. \A x \in S : n - m <= n - x
  BY <1>3, <1>4
<1> QED
  BY <1>1, <1>5

Opening(a) == admin[a].pc \in {"audio", "video", "thread"}
Holding(a) == Opening(a) \/ admin[a].pc = "failed"

(* Beyond the list there is nothing yet.                                   *)
ListInv ==
  \A c \in Channels \ List :
    chan[c] = Free /\ closing[c] = "no" /\ mux[c] = "off"

(* A command has a channel of the list; while it holds Channel::lock it is *)
(* the only one that does, and the channel has no mux thread.              *)
AdminInv ==
  /\ \A a \in Admins : admin[a].pc # "idle" => admin[a].chan \in List
  /\ \A a \in Admins : Holding(a) =>
       lock[admin[a].chan] # Nobody /\ mux[admin[a].chan] = "off"
  /\ \A a, b \in Admins :
       Holding(a) /\ Holding(b) /\ admin[a].chan = admin[b].chan => a = b
  /\ \A a \in Admins : Opening(a) =>
       chan[admin[a].chan].status = "connecting" /\ closing[admin[a].chan] = "no"

(* A close is that of the mux thread or of the error exit, under the lock; *)
(* createChannel takes the channel neither before its end nor while the    *)
(* thread is in its loop.                                                  *)
CloseInv ==
  \A c \in Channels :
    /\ mux[c] = "run" => closing[c] = "no" /\ chan[c].status \in {"receiving", "closing"}
    /\ mux[c] = "closing" => closing[c] # "no" /\ lock[c] # Nobody
    /\ closing[c] # "no" =>
         \/ mux[c] = "closing"
         \/ closing[c] # "unlock" /\ \E a \in Admins : admin[a].pc = "failed" /\ admin[a].chan = c
    /\ closing[c] \notin {"no", "unlock"} => chan[c].status \notin {"none", "wait"}

(* The service goes while the status still keeps the channel from others.  *)
ServiceInv ==
  /\ \A c \in Channels : closing[c] \in {"streams", "status"} => chan[c].service = NoService
  /\ \A c \in List : closing[c] \in {"no", "unlock"} =>
       (chan[c].service # NoService <=> chan[c].status # "none")
  /\ \A c, d \in List : chan[c].service = chan[d].service /\ chan[c].service # NoService
       => c = d

(* A fifo that a stream names has not been released, but for the streams   *)
(* of a channel in the middle of its close; and it has one stream.         *)
Names(c, k) == stream[c][k].fifo # Nobody /\ closing[c] \notin {"service", "streams"}

FifoInv ==
  /\ \A c \in Channels, k \in Kinds : Names(c, k) => stream[c][k].fifo \in live
  /\ \A c, d \in Channels, j, k \in Kinds :
       Names(c, j) /\ Names(d, k) /\ stream[c][j].fifo = stream[d][k].fifo => c = d /\ j = k

(* A stream that is open has its fifo, and so have those of a mux thread.  *)
OpenInv ==
  /\ \A a \in Admins : admin[a].pc \in {"video", "thread"} =>
       stream[admin[a].chan]["audio"].fifo # Nobody
  /\ \A a \in Admins : admin[a].pc = "thread" =>
       stream[admin[a].chan]["video"].fifo # Nobody
  /\ \A c \in Channels, k \in Kinds : mux[c] = "run" => stream[c][k].fifo # Nobody

IInv == TypeOK /\ ListInv /\ AdminInv /\ CloseInv /\ ServiceInv /\ FifoInv /\ OpenInv

(* When nothing fails and nobody quits: a channel is closed only after a   *)
(* stop, which has cleared the filters, so that no fifo is ever released.  *)
CalmInv ==
  /\ \A a \in Admins : admin[a].pc # "failed"
  /\ \A c \in Channels : mux[c] = "closing" \/ (mux[c] = "run" /\ ~chan[c].active) =>
       \A k \in Kinds : ~stream[c][k].filter
  /\ \A c \in Channels, k \in Kinds : stream[c][k].fifo # Nobody => stream[c][k].fifo \in live
  /\ callback.pc = "put" => callback.fifo \in live

-----------------------------------------------------------------------------
(* What First picks is in the set. *)
LEMMA FirstIn == ASSUME NEW cs \in SUBSET List, allocated \in Nat, cs # {}
                 PROVE First(cs) \in cs
<1>1. cs \in SUBSET (0 .. allocated)
  BY DEF List
<1>2. \E c \in cs : \A d \in cs : d <= c
  BY <1>1, LargestElement
<1> QED
  BY <1>2 DEF First

LEMMA ServingList == ASSUME TypeOK, NEW s, Serving(s) # {}
                     PROVE First(Serving(s)) \in List /\ chan[First(Serving(s))].service = s
<1>1. Serving(s) \in SUBSET List /\ allocated \in Nat
  BY BoundsAssumption DEF Serving, TypeOK
<1>2. First(Serving(s)) \in Serving(s)
  BY <1>1, FirstIn
<1> QED
  BY <1>2 DEF Serving

LEMMA AvailableFree == ASSUME TypeOK, Available # {}
                       PROVE First(Available) \in List /\ chan[First(Available)].status = "none"
<1>1. Available \in SUBSET List /\ allocated \in Nat
  BY BoundsAssumption DEF Available, TypeOK
<1>2. First(Available) \in Available
  BY <1>1, FirstIn
<1> QED
  BY <1>2 DEF Available

(* The types of a channel, a command and a callback in progress.           *)
ChanType  == [status : {"none", "wait", "connecting", "receiving", "closing"},
              service : Services \cup {NoService}, active : BOOLEAN]
AdminType == [pc : {"idle", "start", "audio", "video", "thread", "failed", "stop"},
              chan : Channels \cup {Nobody}]

LEMMA Types == TypeOK =>
  /\ allocated \in Nat /\ List \subseteq Channels
  /\ chan \in [Channels -> ChanType]
  /\ admin \in [Admins -> AdminType]
BY BoundsAssumption DEF TypeOK, ChanType, AdminType, List, Channels

LEMMA ChanTypeOK ==
  ASSUME TypeOK, chan' \in [Channels -> ChanType],
         UNCHANGED <<allocated, stream, callback, live, input>>,
         (lock \in [Channels -> Admins \cup Channels \cup {Nobody}])',
         (closing \in [Channels -> {"no", "release", "service", "streams", "status", "unlock"}])',
         (mux \in [Channels -> {"off", "run", "closing"}])',
         admin' \in [Admins -> AdminType]
  PROVE  TypeOK'
BY DEF TypeOK, ChanType, AdminType

(* A step that changes one field of a channel of the list.                 *)
LEMMA OneChanges ==
  ASSUME ListInv, TypeOK, NEW c \in List, NEW x \in ChanType,
         chan' = [chan EXCEPT ![c] = x], UNCHANGED <<allocated>>,
         \A d \in Channels \ {c} : closing'[d] = closing[d] /\ mux'[d] = mux[d]
  PROVE  /\ chan' \in [Channels -> ChanType]
         /\ ListInv'
BY Types DEF ListInv, List

LEMMA CreateFoundInv ==
  ASSUME IInv, NEW a \in Admins, NEW s \in Services, CreateFound(a, s) PROVE IInv'
<1> USE NobodyAssumption, ServicesAssumption, BoundsAssumption DEF IInv, CreateFound, Goes, Kinds
<1>0. First(Serving(s)) \in List
  BY ServingList
<1>1. TypeOK'
  BY <1>0, Types DEF TypeOK
<1>2. ListInv'
  BY <1>0, Types DEF ListInv, List, TypeOK, AdminInv, CloseInv
<1>3. AdminInv'
  BY <1>0, Types DEF AdminInv, List, Holding, Opening, CloseInv, TypeOK
<1>4. CloseInv'
  BY <1>0, Types DEF CloseInv, TypeOK, ListInv, AdminInv, Holding, Opening
<1>5. ServiceInv'
  BY <1>0, Types DEF ServiceInv, TypeOK, ListInv, AdminInv, CloseInv, Holding, Opening, List, Channels
<1>6. FifoInv'
  BY <1>0, Types DEF FifoInv, Names, TypeOK, AdminInv, CloseInv, Holding, Opening, NoStreams, NoStream
<1>7. OpenInv'
  BY <1>0, Types DEF OpenInv, TypeOK, AdminInv, CloseInv, Holding, Opening, NoStreams, NoStream
<1> QED
  BY <1>1, <1>2, <1>3, <1>4, <1>5, <1>6, <1>7 DEF IInv

LEMMA CreateInv ==
  ASSUME IInv, NEW a \in Admins, NEW s \in Services, Create(a, s) PROVE IInv'
<1> DEFINE c == IF Available # {} THEN First(Available) ELSE allocated + 1
           x == [chan[c] EXCEPT !.status = "wait", !.service = s]
<1> USE DEF IInv, Kinds
<1>1. c \in Channels /\ c \in List \cup {allocated + 1}
  BY AvailableFree DEF Create
<1>2. chan[c].status = "none"
  BY <1>1, AvailableFree, Types DEF ListInv, List, Free
<1>3. closing[c] \in {"no", "unlock"} /\ mux[c] # "run" /\ \A b \in Admins : Opening(b) => admin[b].chan # c
  BY <1>1, <1>2 DEF CloseInv, AdminInv, TypeOK
<1>4. List' = List \cup {c} /\ allocated' \in 0 .. MaxChannels
  BY <1>1, BoundsAssumption DEF Create, List, Channels, TypeOK
<1>5. x \in ChanType /\ chan' = [chan EXCEPT ![c] = x]
  <2>1. chan \in [Channels -> ChanType] /\ chan[c] \in ChanType
    BY <1>1, Types
  <2>2. x \in ChanType
    BY <2>1 DEF ChanType
  <2> QED
    BY <1>1, <2>1, <2>2 DEF Create
<1>6. admin' = [admin EXCEPT ![a] = [pc |-> "start", chan |-> c]] /\ admin[a].pc = "idle"
  BY DEF Create, Goes
<1>7. stream' = [stream EXCEPT ![c] = NoStreams]
      /\ UNCHANGED <<lock, closing, mux, input, callback, live>>
  BY DEF Create
<1>8. \A d \in List : chan[d].service # s
  BY DEF Create, Serving
<1>9. chan'[c].status = "wait" /\ chan'[c].service = s /\ s # NoService
      /\ \A d \in Channels \ {c} : chan'[d] = chan[d]
  BY <1>1, <1>5, Types, ServicesAssumption DEF ChanType
<1> HIDE DEF c, x
<1>10. TypeOK'
  <2>1. chan' \in [Channels -> ChanType] /\ admin' \in [Admins -> AdminType]
    BY <1>1, <1>5, <1>6, Types DEF AdminType
  <2>2. stream' \in [Channels -> [Kinds -> [filter : BOOLEAN, fifo : Fifos \cup {Nobody}]]]
    BY <1>7 DEF TypeOK, NoStreams, NoStream
  <2> QED
    BY <1>4, <1>7, <2>1, <2>2 DEF TypeOK, ChanType, AdminType
<1>11. ListInv'
  BY <1>1, <1>4, <1>7, <1>9 DEF ListInv
<1>12. AdminInv'
  <2>1. \A b \in Admins : b # a => admin'[b] = admin[b]
    BY <1>6, Types
  <2>2. admin'[a].pc = "start" /\ admin'[a].chan = c
    BY <1>6, Types
  <2>3. \A b \in Admins : Holding(b)' => Holding(b) /\ b # a /\ admin'[b] = admin[b]
    BY <2>1, <2>2 DEF Holding, Opening
  <2>4. \A b \in Admins : Opening(b)' => Opening(b) /\ b # a /\ admin'[b] = admin[b]
    BY <2>1, <2>2 DEF Opening
  <2>5. \A b \in Admins : Opening(b) => admin[b].chan \in Channels \ {c}
    BY <1>3, Types DEF AdminInv, Opening
  <2> QED
    BY <1>4, <1>7, <1>9, <2>1, <2>2, <2>3, <2>4, <2>5 DEF AdminInv
<1>13. CloseInv'
  BY <1>3, <1>6, <1>7, <1>9, Types DEF CloseInv
<1>14. ServiceInv'
  BY <1>3, <1>4, <1>7, <1>8, <1>9, Types DEF ServiceInv
<1>15. FifoInv'
  BY <1>1, <1>7 DEF FifoInv, Names, NoStreams, NoStream, TypeOK
<1>16. OpenInv'
  BY <1>1, <1>3, <1>6, <1>7, Types DEF OpenInv, Opening, TypeOK
<1> QED
  BY <1>10, <1>11, <1>12, <1>13, <1>14, <1>15, <1>16

LEMMA StartRefusedInv ==
  ASSUME IInv, NEW a \in Admins, StartRefused(a) PROVE IInv'
<1> USE NobodyAssumption, ServicesAssumption, BoundsAssumption DEF IInv, StartRefused, Goes, Kinds
<1>1. TypeOK'
  BY Types DEF TypeOK
<1>2. ListInv'
  BY Types DEF ListInv, List, TypeOK, AdminInv, CloseInv
<1>3. AdminInv'
  BY Types DEF AdminInv, List, Holding, Opening, CloseInv, TypeOK
<1>4. CloseInv'
  BY Types DEF CloseInv, TypeOK, ListInv, AdminInv, Holding, Opening
<1>5. ServiceInv'
  BY Types DEF ServiceInv, TypeOK, ListInv, AdminInv, CloseInv, Holding, Opening, List, Channels
<1>6. FifoInv'
  BY Types DEF FifoInv, Names, TypeOK, AdminInv, CloseInv, Holding, Opening, NoStreams, NoStream
<1>7. OpenInv'
  BY Types DEF OpenInv, TypeOK, AdminInv, CloseInv, Holding, Opening, NoStreams, NoStream
<1> QED
  BY <1>1, <1>2, <1>3, <1>4, <1>5, <1>6, <1>7 DEF IInv

LEMMA StartStreamInv ==
  ASSUME IInv, NEW a \in Admins, StartStream(a) PROVE IInv'
<1> USE NobodyAssumption, ServicesAssumption, BoundsAssumption DEF IInv, StartStream, Goes, Kinds
<1> DEFINE c == admin[a].chan
<1>a. c \in List
  BY DEF AdminInv
<1> DEFINE x == [chan[c] EXCEPT !.status = "connecting"]
<1>b. x \in ChanType /\ chan' = [chan EXCEPT ![c] = x]
  BY <1>a, Types DEF ChanType
<1>c. chan' \in [Channels -> ChanType] /\ ListInv'
  <2>1. \A d \in Channels \ {c} : closing'[d] = closing[d] /\ mux'[d] = mux[d]
    BY DEF TypeOK
  <2> HIDE DEF x
  <2> QED
    BY <1>a, <1>b, <2>1, OneChanges, Types
<1>1. TypeOK'
  BY <1>a, <1>c, Types, ChanTypeOK DEF TypeOK, AdminType
<1>2. ListInv'
  BY <1>c
<1>3. AdminInv'
  <2>1. \A b \in Admins : b # a => admin'[b] = admin[b]
    BY Types
  <2>2. admin'[a].pc = "audio" /\ admin'[a].chan = c /\ Opening(a)'
    BY Types DEF Opening
  <2>3. \A b \in Admins : b # a => (Holding(b)' <=> Holding(b)) /\ (Opening(b)' <=> Opening(b))
    BY <2>1 DEF Holding, Opening
  <2>4. lock'[c] = a /\ a # Nobody /\ mux'[c] = "off" /\ closing'[c] = "no"
    <3>1. c \in Channels /\ lock[c] = Nobody /\ chan[c].status = "wait"
      BY <1>a, Types
    <3>2. mux[c] = "off"
      BY <3>1 DEF CloseInv, TypeOK
    <3>3. \A b \in Admins : admin[b].pc = "failed" => admin[b].chan # c
      BY <3>1 DEF AdminInv, Holding
    <3>4. closing[c] = "no"
      BY <3>1, <3>2, <3>3 DEF CloseInv
    <3> QED
      BY <3>1, <3>2, <3>4 DEF TypeOK
  <2>5. \A b \in Admins : Holding(b) => admin[b].chan # c /\ admin[b].chan \in Channels
    BY Types DEF AdminInv, Holding, Opening
  <2>6. \A d \in Channels \ {c} : chan'[d] = chan[d] /\ lock'[d] = lock[d]
    BY DEF TypeOK
  <2>7. chan'[c].status = "connecting"
    BY <1>a, Types, <1>b DEF ChanType
  <2> QED
    BY <1>a, <2>1, <2>2, <2>3, <2>4, <2>5, <2>6, <2>7 DEF AdminInv, List, Holding
<1>4. CloseInv'
  BY <1>a, Types DEF CloseInv, TypeOK, ListInv, AdminInv, Holding, Opening
<1>5. ServiceInv'
  BY <1>a, Types DEF ServiceInv, TypeOK, ListInv, AdminInv, CloseInv, Holding, Opening, List, Channels
<1>6. FifoInv'
  BY <1>a, Types DEF FifoInv, Names, TypeOK, AdminInv, CloseInv, Holding, Opening, NoStreams, NoStream
<1>7. OpenInv'
  BY <1>a, Types DEF OpenInv, TypeOK, AdminInv, CloseInv, Holding, Opening, NoStreams, NoStream
<1> QED
  BY <1>1, <1>2, <1>3, <1>4, <1>5, <1>6, <1>7 DEF IInv

LEMMA OpenStreamInv ==
  ASSUME IInv, NEW a \in Admins, NEW k \in Kinds, OpenStream(a, k) PROVE IInv'
<1> USE NobodyAssumption, ServicesAssumption, BoundsAssumption DEF IInv, OpenStream, Goes, Kinds
<1> DEFINE c == admin[a].chan
<1>a. c \in Channels /\ k \in {"audio", "video"}
  BY Types DEF AdminInv
<1>1. TypeOK'
  <2>1. PICK f \in Fifos \ live :
          /\ stream' = [stream EXCEPT ![c][k] = [filter |-> TRUE, fifo |-> f]]
          /\ live' = live \cup {f}
    OBVIOUS
  <2>2. stream' \in [Channels -> [Kinds -> [filter : BOOLEAN, fifo : Fifos \cup {Nobody}]]]
    BY <1>a, <2>1 DEF TypeOK
  <2>3. admin' \in [Admins -> AdminType]
    BY <1>a, Types DEF AdminType, NextKind
  <2> QED
    BY <1>a, <2>1, <2>2, <2>3 DEF TypeOK, AdminType
<1>2. ListInv'
  BY Types DEF ListInv, List, TypeOK, AdminInv, CloseInv
<1>3. AdminInv'
  BY Types DEF AdminInv, List, Holding, Opening, CloseInv, TypeOK
<1>4. CloseInv'
  BY Types DEF CloseInv, TypeOK, ListInv, AdminInv, Holding, Opening
<1>5. ServiceInv'
  BY Types DEF ServiceInv, TypeOK, ListInv, AdminInv, CloseInv, Holding, Opening, List, Channels
<1>6. FifoInv'
  BY Types, SMTT(90) DEF FifoInv, Names, TypeOK, AdminInv, CloseInv, Holding, Opening, NoStreams, NoStream
<1>7. OpenInv'
  <2>1. PICK f \in Fifos \ live :
          stream' = [stream EXCEPT ![c][k] = [filter |-> TRUE, fifo |-> f]]
    OBVIOUS
  <2>2. f # Nobody /\ \A d \in Channels, j \in Kinds :
          stream'[d][j].fifo = IF d = c /\ j = k THEN f ELSE stream[d][j].fifo
    BY <1>a, <2>1 DEF TypeOK, Fifos
  <2>3. \A b \in Admins : b # a => admin'[b] = admin[b]
    BY Types
  <2>4. admin'[a].pc = NextKind(k) /\ admin'[a].chan = c /\ admin[a].pc = k
    BY Types
  <2>5. \A b \in Admins : admin[b].pc \in {"video", "thread"} => admin[b].chan \in Channels
    BY Types DEF AdminInv
  <2> QED
    BY <1>a, <2>2, <2>3, <2>4, <2>5 DEF OpenInv, NextKind
<1> QED
  BY <1>1, <1>2, <1>3, <1>4, <1>5, <1>6, <1>7 DEF IInv

LEMMA OpenFailsInv ==
  ASSUME IInv, NEW a \in Admins, NEW k \in Kinds, OpenFails(a, k) PROVE IInv'
<1> USE NobodyAssumption, ServicesAssumption, BoundsAssumption DEF IInv, OpenFails, Goes, Kinds
<1>1. TypeOK'
  BY Types DEF TypeOK
<1>2. ListInv'
  BY Types DEF ListInv, List, TypeOK, AdminInv, CloseInv
<1>3. AdminInv'
  BY Types DEF AdminInv, List, Holding, Opening, CloseInv, TypeOK
<1>4. CloseInv'
  BY Types DEF CloseInv, TypeOK, ListInv, AdminInv, Holding, Opening
<1>5. ServiceInv'
  BY Types DEF ServiceInv, TypeOK, ListInv, AdminInv, CloseInv, Holding, Opening, List, Channels
<1>6. FifoInv'
  BY Types, SMTT(90) DEF FifoInv, Names, TypeOK, AdminInv, CloseInv, Holding, Opening, NoStreams, NoStream
<1>7. OpenInv'
  BY Types DEF OpenInv, TypeOK, AdminInv, CloseInv, Holding, Opening, NoStreams, NoStream
<1> QED
  BY <1>1, <1>2, <1>3, <1>4, <1>5, <1>6, <1>7 DEF IInv

LEMMA StartThreadInv ==
  ASSUME IInv, NEW a \in Admins, StartThread(a) PROVE IInv'
<1> USE NobodyAssumption, ServicesAssumption, BoundsAssumption DEF IInv, StartThread, Goes, Kinds
<1> DEFINE c == admin[a].chan
<1>a. c \in List
  BY DEF AdminInv
<1> DEFINE x == [chan[c] EXCEPT !.active = TRUE, !.status = "receiving"]
<1>b. x \in ChanType /\ chan' = [chan EXCEPT ![c] = x]
  BY <1>a, Types, ZenonT(60) DEF ChanType
<1>c. chan' \in [Channels -> ChanType] /\ ListInv'
  <2>1. \A d \in Channels \ {c} : closing'[d] = closing[d] /\ mux'[d] = mux[d]
    BY DEF TypeOK
  <2> HIDE DEF x
  <2> QED
    BY <1>a, <1>b, <2>1, OneChanges, Types
<1>1. TypeOK'
  BY <1>a, <1>c, Types, ChanTypeOK DEF TypeOK, AdminType
<1>2. ListInv'
  BY <1>c
<1>3. AdminInv'
  BY <1>a, Types DEF AdminInv, List, Holding, Opening, CloseInv, TypeOK
<1>4. CloseInv'
  BY <1>a, Types DEF CloseInv, TypeOK, ListInv, AdminInv, Holding, Opening
<1>5. ServiceInv'
  BY <1>a, Types DEF ServiceInv, TypeOK, ListInv, AdminInv, CloseInv, Holding, Opening, List, Channels
<1>6. FifoInv'
  BY <1>a, Types DEF FifoInv, Names, TypeOK, AdminInv, CloseInv, Holding, Opening, NoStreams, NoStream
<1>7. OpenInv'
  BY <1>a, Types DEF OpenInv, TypeOK, AdminInv, CloseInv, Holding, Opening, NoStreams, NoStream
<1> QED
  BY <1>1, <1>2, <1>3, <1>4, <1>5, <1>6, <1>7 DEF IInv

LEMMA ThreadFailsInv ==
  ASSUME IInv, NEW a \in Admins, ThreadFails(a) PROVE IInv'
<1> USE NobodyAssumption, ServicesAssumption, BoundsAssumption DEF IInv, ThreadFails, Goes, Kinds
<1> DEFINE c == admin[a].chan
<1>a. c \in List
  BY DEF AdminInv
<1> DEFINE x == [chan[c] EXCEPT !.active = TRUE]
<1>b. x \in ChanType /\ chan' = [chan EXCEPT ![c] = x]
  BY <1>a, Types, ZenonT(60) DEF ChanType
<1>c. chan' \in [Channels -> ChanType] /\ ListInv'
  <2>1. \A d \in Channels \ {c} : closing'[d] = closing[d] /\ mux'[d] = mux[d]
    BY DEF TypeOK
  <2> HIDE DEF x
  <2> QED
    BY <1>a, <1>b, <2>1, OneChanges, Types
<1>1. TypeOK'
  BY <1>a, <1>c, Types, ChanTypeOK DEF TypeOK, AdminType
<1>2. ListInv'
  BY <1>c
<1>3. AdminInv'
  BY <1>a, Types DEF AdminInv, List, Holding, Opening, CloseInv, TypeOK
<1>4. CloseInv'
  BY <1>a, Types DEF CloseInv, TypeOK, ListInv, AdminInv, Holding, Opening
<1>5. ServiceInv'
  BY <1>a, Types DEF ServiceInv, TypeOK, ListInv, AdminInv, CloseInv, Holding, Opening, List, Channels
<1>6. FifoInv'
  BY <1>a, Types DEF FifoInv, Names, TypeOK, AdminInv, CloseInv, Holding, Opening, NoStreams, NoStream
<1>7. OpenInv'
  BY <1>a, Types DEF OpenInv, TypeOK, AdminInv, CloseInv, Holding, Opening, NoStreams, NoStream
<1> QED
  BY <1>1, <1>2, <1>3, <1>4, <1>5, <1>6, <1>7 DEF IInv

LEMMA StartFailedInv ==
  ASSUME IInv, NEW a \in Admins, StartFailed(a) PROVE IInv'
<1> USE NobodyAssumption, ServicesAssumption, BoundsAssumption DEF IInv, StartFailed, Goes, Kinds
<1>1. TypeOK'
  BY Types DEF TypeOK
<1>2. ListInv'
  BY Types DEF ListInv, List, TypeOK, AdminInv, CloseInv
<1>3. AdminInv'
  BY Types DEF AdminInv, List, Holding, Opening, CloseInv, TypeOK
<1>4. CloseInv'
  BY Types DEF CloseInv, TypeOK, ListInv, AdminInv, Holding, Opening
<1>5. ServiceInv'
  BY Types DEF ServiceInv, TypeOK, ListInv, AdminInv, CloseInv, Holding, Opening, List, Channels
<1>6. FifoInv'
  BY Types DEF FifoInv, Names, TypeOK, AdminInv, CloseInv, Holding, Opening, NoStreams, NoStream
<1>7. OpenInv'
  BY Types DEF OpenInv, TypeOK, AdminInv, CloseInv, Holding, Opening, NoStreams, NoStream
<1> QED
  BY <1>1, <1>2, <1>3, <1>4, <1>5, <1>6, <1>7 DEF IInv

LEMMA FindInv ==
  ASSUME IInv, NEW a \in Admins, NEW s \in Services, Find(a, s) PROVE IInv'
<1> USE NobodyAssumption, ServicesAssumption, BoundsAssumption DEF IInv, Find, Goes, Kinds
<1>0. First(Serving(s)) \in List
  BY ServingList
<1>1. TypeOK'
  BY <1>0, Types DEF TypeOK
<1>2. ListInv'
  BY <1>0, Types DEF ListInv, List, TypeOK, AdminInv, CloseInv
<1>3. AdminInv'
  BY <1>0, Types DEF AdminInv, List, Holding, Opening, CloseInv, TypeOK
<1>4. CloseInv'
  BY <1>0, Types DEF CloseInv, TypeOK, ListInv, AdminInv, Holding, Opening
<1>5. ServiceInv'
  BY <1>0, Types DEF ServiceInv, TypeOK, ListInv, AdminInv, CloseInv, Holding, Opening, List, Channels
<1>6. FifoInv'
  BY <1>0, Types DEF FifoInv, Names, TypeOK, AdminInv, CloseInv, Holding, Opening, NoStreams, NoStream
<1>7. OpenInv'
  BY <1>0, Types DEF OpenInv, TypeOK, AdminInv, CloseInv, Holding, Opening, NoStreams, NoStream
<1> QED
  BY <1>1, <1>2, <1>3, <1>4, <1>5, <1>6, <1>7 DEF IInv

LEMMA StopRefusedInv ==
  ASSUME IInv, NEW a \in Admins, StopRefused(a) PROVE IInv'
<1> USE NobodyAssumption, ServicesAssumption, BoundsAssumption DEF IInv, StopRefused, Goes, Kinds
<1>1. TypeOK'
  BY Types DEF TypeOK
<1>2. ListInv'
  BY Types DEF ListInv, List, TypeOK, AdminInv, CloseInv
<1>3. AdminInv'
  BY Types DEF AdminInv, List, Holding, Opening, CloseInv, TypeOK
<1>4. CloseInv'
  BY Types DEF CloseInv, TypeOK, ListInv, AdminInv, Holding, Opening
<1>5. ServiceInv'
  BY Types DEF ServiceInv, TypeOK, ListInv, AdminInv, CloseInv, Holding, Opening, List, Channels
<1>6. FifoInv'
  BY Types DEF FifoInv, Names, TypeOK, AdminInv, CloseInv, Holding, Opening, NoStreams, NoStream
<1>7. OpenInv'
  BY Types DEF OpenInv, TypeOK, AdminInv, CloseInv, Holding, Opening, NoStreams, NoStream
<1> QED
  BY <1>1, <1>2, <1>3, <1>4, <1>5, <1>6, <1>7 DEF IInv

LEMMA StopStreamInv ==
  ASSUME IInv, NEW a \in Admins, StopStream(a) PROVE IInv'
<1> USE NobodyAssumption, ServicesAssumption, BoundsAssumption DEF IInv, StopStream, Goes, Kinds
<1> DEFINE c == admin[a].chan
<1>a. c \in List
  BY DEF AdminInv
<1> DEFINE x == [chan[c] EXCEPT !.status = "closing", !.active = FALSE]
<1>b. x \in ChanType /\ chan' = [chan EXCEPT ![c] = x]
  BY <1>a, Types, ZenonT(60) DEF ChanType
<1>c. chan' \in [Channels -> ChanType] /\ ListInv'
  <2>1. \A d \in Channels \ {c} : closing'[d] = closing[d] /\ mux'[d] = mux[d]
    BY DEF TypeOK
  <2> HIDE DEF x
  <2> QED
    BY <1>a, <1>b, <2>1, OneChanges, Types
<1>1. TypeOK'
  <2>1. [j \in Kinds |-> [stream[c][j] EXCEPT !.filter = FALSE]]
          \in [Kinds -> [filter : BOOLEAN, fifo : Fifos \cup {Nobody}]]
    <3>1. \A j \in Kinds : stream[c][j] \in [filter : BOOLEAN, fifo : Fifos \cup {Nobody}]
      BY <1>a, Types DEF TypeOK
    <3> QED
      BY <3>1
  <2>3. stream' \in [Channels -> [Kinds -> [filter : BOOLEAN, fifo : Fifos \cup {Nobody}]]]
    BY <2>1 DEF TypeOK
  <2>2. admin' \in [Admins -> AdminType]
    BY Types DEF AdminType
  <2> QED
    BY <1>c, <2>3, <2>2 DEF TypeOK, ChanType, AdminType
<1>2. ListInv'
  BY <1>c
<1>3. AdminInv'
  BY <1>a, Types DEF AdminInv, List, Holding, Opening, CloseInv, TypeOK
<1>4. CloseInv'
  BY <1>a, Types DEF CloseInv, TypeOK, ListInv, AdminInv, Holding, Opening
<1>5. ServiceInv'
  BY <1>a, Types DEF ServiceInv, TypeOK, ListInv, AdminInv, CloseInv, Holding, Opening, List, Channels
<1>6. FifoInv'
  BY <1>a, Types, SMTT(90) DEF FifoInv, Names, TypeOK, AdminInv, CloseInv, Holding, Opening, NoStreams, NoStream
<1>7. OpenInv'
  BY <1>a, Types DEF OpenInv, TypeOK, AdminInv, CloseInv, Holding, Opening, NoStreams, NoStream
<1> QED
  BY <1>1, <1>2, <1>3, <1>4, <1>5, <1>6, <1>7 DEF IInv

LEMMA QuitInv ==
  ASSUME IInv, Quit PROVE IInv'
<1> USE NobodyAssumption, ServicesAssumption, BoundsAssumption DEF IInv, Quit, Goes, Kinds
<1>a. /\ chan' \in [Channels -> ChanType]
      /\ \A c \in Channels : /\ chan'[c].status = chan[c].status
                             /\ chan'[c].service = chan[c].service
                             /\ chan[c] = Free => chan'[c] = Free
  <2>1. \A c \in Channels : chan'[c] = [chan[c] EXCEPT !.active = FALSE] /\ chan[c] \in ChanType
    BY Types
  <2>2. ASSUME NEW x \in ChanType
        PROVE  LET y == [x EXCEPT !.active = FALSE]
               IN  y \in ChanType /\ y.status = x.status /\ y.service = x.service
    BY DEF ChanType
  <2>3. [Free EXCEPT !.active = FALSE] = Free
    <3>1. Free \in ChanType /\ [Free EXCEPT !.active = FALSE] \in ChanType
      BY DEF Free, ChanType
    <3>2. \A y, z \in ChanType : y.status = z.status /\ y.service = z.service
                                 /\ y.active = z.active => y = z
      BY DEF ChanType
    <3> QED
      BY <3>1, <3>2 DEF Free
  <2> QED
    BY <2>1, <2>2, <2>3
<1>1. TypeOK'
  BY <1>a DEF TypeOK, ChanType
<1>2. ListInv'
  BY <1>a DEF ListInv, List
<1>3. AdminInv'
  BY Types DEF AdminInv, List, Holding, Opening, CloseInv, TypeOK
<1>4. CloseInv'
  BY Types DEF CloseInv, TypeOK, ListInv, AdminInv, Holding, Opening
<1>5. ServiceInv'
  BY Types DEF ServiceInv, TypeOK, ListInv, AdminInv, CloseInv, Holding, Opening, List, Channels
<1>6. FifoInv'
  BY Types DEF FifoInv, Names, TypeOK, AdminInv, CloseInv, Holding, Opening, NoStreams, NoStream
<1>7. OpenInv'
  BY Types DEF OpenInv, TypeOK, AdminInv, CloseInv, Holding, Opening, NoStreams, NoStream
<1> QED
  BY <1>1, <1>2, <1>3, <1>4, <1>5, <1>6, <1>7 DEF IInv

LEMMA MuxCloseInv ==
  ASSUME IInv, NEW c \in Channels, MuxClose(c) PROVE IInv'
<1> USE NobodyAssumption, ServicesAssumption, BoundsAssumption DEF IInv, MuxClose, Goes, Kinds
<1>1. TypeOK'
  BY Types DEF TypeOK
<1>2. ListInv'
  BY Types DEF ListInv, List, TypeOK, AdminInv, CloseInv
<1>3. AdminInv'
  BY Types DEF AdminInv, List, Holding, Opening, CloseInv, TypeOK
<1>4. CloseInv'
  <2>1. \A d \in Channels \ {c} : /\ closing'[d] = closing[d] /\ mux'[d] = mux[d]
                                  /\ lock'[d] = lock[d]
    BY DEF TypeOK
  <2>2. closing'[c] = "release" /\ mux'[c] = "closing" /\ lock'[c] = c /\ c # Nobody
    BY DEF TypeOK, Channels
  <2>3. chan[c].status \in {"receiving", "closing"}
    BY DEF CloseInv
  <2> QED
    BY <2>1, <2>2, <2>3 DEF CloseInv
<1>5. ServiceInv'
  BY Types DEF ServiceInv, TypeOK, ListInv, AdminInv, CloseInv, Holding, Opening, List, Channels
<1>6. FifoInv'
  BY Types DEF FifoInv, Names, TypeOK, AdminInv, CloseInv, Holding, Opening, NoStreams, NoStream
<1>7. OpenInv'
  BY Types DEF OpenInv, TypeOK, AdminInv, CloseInv, Holding, Opening, NoStreams, NoStream
<1> QED
  BY <1>1, <1>2, <1>3, <1>4, <1>5, <1>6, <1>7 DEF IInv

LEMMA CloseReleaseInv ==
  ASSUME IInv, NEW c \in Channels, CloseRelease(c) PROVE IInv'
<1> USE NobodyAssumption, ServicesAssumption, BoundsAssumption DEF IInv, CloseRelease, Goes, Kinds
<1>1. TypeOK'
  BY Types DEF TypeOK
<1>2. ListInv'
  BY Types DEF ListInv, List, TypeOK, AdminInv, CloseInv
<1>3. AdminInv'
  BY Types DEF AdminInv, List, Holding, Opening, CloseInv, TypeOK
<1>4. CloseInv'
  BY Types DEF CloseInv, TypeOK, ListInv, AdminInv, Holding, Opening
<1>5. ServiceInv'
  BY Types DEF ServiceInv, TypeOK, ListInv, AdminInv, CloseInv, Holding, Opening, List, Channels
<1>6. FifoInv'
  <2>1. \A d \in Channels \ {c} : closing'[d] = closing[d]
    BY DEF TypeOK
  <2>2. closing'[c] = "service" /\ closing[c] = "release"
    BY DEF TypeOK
  <2>3. \A d \in Channels, j \in Kinds : Names(d, j)' => Names(d, j) /\ d # c
    BY <2>1, <2>2 DEF Names
  <2>4. \A j \in Kinds : Releases(stream[c][j]) => Names(c, j)
    BY <2>2 DEF Names, Releases
  <2>5. ASSUME NEW d \in Channels, NEW j \in Kinds, Names(d, j)' PROVE stream[d][j].fifo \in live'
    <3>1. ASSUME NEW i \in Kinds, Releases(stream[c][i]) PROVE stream[c][i].fifo # stream[d][j].fifo
      BY <2>3, <2>4, <2>5, <3>1 DEF FifoInv
    <3> QED
      BY <2>3, <2>5, <3>1 DEF FifoInv
  <2> QED
    BY <2>3, <2>5 DEF FifoInv
<1>7. OpenInv'
  BY Types DEF OpenInv, TypeOK, AdminInv, CloseInv, Holding, Opening, NoStreams, NoStream
<1> QED
  BY <1>1, <1>2, <1>3, <1>4, <1>5, <1>6, <1>7 DEF IInv

LEMMA CloseServiceInv ==
  ASSUME IInv, NEW c \in Channels, CloseService(c) PROVE IInv'
<1> USE NobodyAssumption, ServicesAssumption, BoundsAssumption DEF IInv, CloseService, Goes, Kinds
<1>a. c \in List
  BY DEF ListInv
<1> DEFINE x == [chan[c] EXCEPT !.service = NoService]
<1>b. x \in ChanType /\ chan' = [chan EXCEPT ![c] = x]
  BY <1>a, Types DEF ChanType
<1>c. chan' \in [Channels -> ChanType] /\ ListInv'
  <2>1. \A d \in Channels \ {c} : closing'[d] = closing[d] /\ mux'[d] = mux[d]
    BY DEF TypeOK
  <2> HIDE DEF x
  <2> QED
    BY <1>a, <1>b, <2>1, OneChanges, Types
<1>1. TypeOK'
  BY <1>a, <1>c, Types, ChanTypeOK DEF TypeOK, AdminType
<1>2. ListInv'
  BY <1>c
<1>3. AdminInv'
  BY <1>a, Types DEF AdminInv, List, Holding, Opening, CloseInv, TypeOK
<1>4. CloseInv'
  BY <1>a, Types DEF CloseInv, TypeOK, ListInv, AdminInv, Holding, Opening
<1>5. ServiceInv'
  BY <1>a, Types DEF ServiceInv, TypeOK, ListInv, AdminInv, CloseInv, Holding, Opening, List, Channels
<1>6. FifoInv'
  BY <1>a, Types DEF FifoInv, Names, TypeOK, AdminInv, CloseInv, Holding, Opening, NoStreams, NoStream
<1>7. OpenInv'
  BY <1>a, Types DEF OpenInv, TypeOK, AdminInv, CloseInv, Holding, Opening, NoStreams, NoStream
<1> QED
  BY <1>1, <1>2, <1>3, <1>4, <1>5, <1>6, <1>7 DEF IInv

LEMMA CloseStreamsInv ==
  ASSUME IInv, NEW c \in Channels, CloseStreams(c) PROVE IInv'
<1> USE NobodyAssumption, ServicesAssumption, BoundsAssumption DEF IInv, CloseStreams, Goes, Kinds
<1>1. TypeOK'
  <2>1. stream' \in [Channels -> [Kinds -> [filter : BOOLEAN, fifo : Fifos \cup {Nobody}]]]
    BY DEF TypeOK, NoStreams, NoStream
  <2> QED
    BY <2>1 DEF TypeOK
<1>2. ListInv'
  BY Types DEF ListInv, List, TypeOK, AdminInv, CloseInv
<1>3. AdminInv'
  BY Types DEF AdminInv, List, Holding, Opening, CloseInv, TypeOK
<1>4. CloseInv'
  BY Types DEF CloseInv, TypeOK, ListInv, AdminInv, Holding, Opening
<1>5. ServiceInv'
  BY Types DEF ServiceInv, TypeOK, ListInv, AdminInv, CloseInv, Holding, Opening, List, Channels
<1>6. FifoInv'
  BY Types DEF FifoInv, Names, TypeOK, AdminInv, CloseInv, Holding, Opening, NoStreams, NoStream
<1>7. OpenInv'
  BY Types DEF OpenInv, TypeOK, AdminInv, CloseInv, Holding, Opening, NoStreams, NoStream
<1> QED
  BY <1>1, <1>2, <1>3, <1>4, <1>5, <1>6, <1>7 DEF IInv

LEMMA CloseStatusInv ==
  ASSUME IInv, NEW c \in Channels, CloseStatus(c) PROVE IInv'
<1> USE NobodyAssumption, ServicesAssumption, BoundsAssumption DEF IInv, CloseStatus, Goes, Kinds
<1>a. c \in List
  BY DEF ListInv
<1> DEFINE x == [chan[c] EXCEPT !.status = "none"]
<1>b. x \in ChanType /\ chan' = [chan EXCEPT ![c] = x]
  BY <1>a, Types DEF ChanType
<1>c. chan' \in [Channels -> ChanType] /\ ListInv'
  <2>1. \A d \in Channels \ {c} : closing'[d] = closing[d] /\ mux'[d] = mux[d]
    BY DEF TypeOK
  <2> HIDE DEF x
  <2> QED
    BY <1>a, <1>b, <2>1, OneChanges, Types
<1>1. TypeOK'
  BY <1>a, <1>c, Types, ChanTypeOK DEF TypeOK, AdminType
<1>2. ListInv'
  BY <1>c
<1>3. AdminInv'
  BY <1>a, Types DEF AdminInv, List, Holding, Opening, CloseInv, TypeOK
<1>4. CloseInv'
  BY <1>a, Types DEF CloseInv, TypeOK, ListInv, AdminInv, Holding, Opening
<1>5. ServiceInv'
  BY <1>a, Types DEF ServiceInv, TypeOK, ListInv, AdminInv, CloseInv, Holding, Opening, List, Channels
<1>6. FifoInv'
  BY <1>a, Types DEF FifoInv, Names, TypeOK, AdminInv, CloseInv, Holding, Opening, NoStreams, NoStream
<1>7. OpenInv'
  BY <1>a, Types DEF OpenInv, TypeOK, AdminInv, CloseInv, Holding, Opening, NoStreams, NoStream
<1> QED
  BY <1>1, <1>2, <1>3, <1>4, <1>5, <1>6, <1>7 DEF IInv

LEMMA MuxGoneInv ==
  ASSUME IInv, NEW c \in Channels, MuxGone(c) PROVE IInv'
<1> USE NobodyAssumption, ServicesAssumption, BoundsAssumption DEF IInv, MuxGone, Goes, Kinds
<1>1. TypeOK'
  BY Types DEF TypeOK
<1>2. ListInv'
  BY Types DEF ListInv, List, TypeOK, AdminInv, CloseInv
<1>3. AdminInv'
  BY Types DEF AdminInv, List, Holding, Opening, CloseInv, TypeOK
<1>4. CloseInv'
  BY Types DEF CloseInv, TypeOK, ListInv, AdminInv, Holding, Opening
<1>5. ServiceInv'
  BY Types DEF ServiceInv, TypeOK, ListInv, AdminInv, CloseInv, Holding, Opening, List, Channels
<1>6. FifoInv'
  BY Types DEF FifoInv, Names, TypeOK, AdminInv, CloseInv, Holding, Opening, NoStreams, NoStream
<1>7. OpenInv'
  BY Types DEF OpenInv, TypeOK, AdminInv, CloseInv, Holding, Opening, NoStreams, NoStream
<1> QED
  BY <1>1, <1>2, <1>3, <1>4, <1>5, <1>6, <1>7 DEF IInv

LEMMA CallbackInv == ASSUME IInv, Callback PROVE IInv'
<1> DEFINE Calls == [pc : {"idle", "look", "take"}, kind : Kinds, fifo : {Nobody}]
                    \cup [pc : {"put"}, kind : Kinds, fifo : Fifos]
<1>1. UNCHANGED <<allocated, chan, stream, lock, closing, mux, admin, input, live>>
  BY DEF Callback, CallbackEnters, CallbackMatches, CallbackTakes, CallbackLeaves
<1>2. callback' \in Calls
  <2>1. CASE CallbackEnters \/ CallbackLeaves
    BY <2>1 DEF CallbackEnters, CallbackLeaves, NoCall, Kinds
  <2>2. ASSUME NEW k \in Kinds, CallbackMatches(k) PROVE callback' \in Calls
    BY <2>2 DEF CallbackMatches, NoCall, Kinds
  <2>3. ASSUME NEW k \in Kinds, CallbackTakes(k) PROVE callback' \in Calls
    <3>1. Fed(k).fifo \in Fifos
      BY <2>3 DEF CallbackTakes, Fed, IInv, TypeOK
    <3> QED
      BY <2>3, <3>1 DEF CallbackTakes, NoCall, Kinds
  <2> QED
    BY <2>1, <2>2, <2>3 DEF Callback
<1>3. TypeOK'
  BY <1>1, <1>2 DEF IInv, TypeOK
<1>4. (ListInv /\ AdminInv /\ CloseInv /\ ServiceInv /\ FifoInv /\ OpenInv)'
  BY <1>1 DEF IInv, ListInv, AdminInv, CloseInv, ServiceInv, FifoInv, OpenInv, List,
              Holding, Opening, Names
<1> QED
  BY <1>3, <1>4 DEF IInv

LEMMA InitInv == Init => IInv
<1> SUFFICES ASSUME Init PROVE IInv
  OBVIOUS
<1> USE BoundsAssumption, NobodyAssumption DEF Init
<1>1. TypeOK
  <2>1. NoStreams \in [Kinds -> [filter : BOOLEAN, fifo : Fifos \cup {Nobody}]]
    BY DEF NoStreams, NoStream
  <2>2. stream \in [Channels -> [Kinds -> [filter : BOOLEAN, fifo : Fifos \cup {Nobody}]]]
    BY <2>1
  <2> QED
    BY <2>2 DEF TypeOK, Free, Idle, NoCall, Kinds
<1>2. ListInv /\ AdminInv /\ CloseInv
  BY DEF ListInv, AdminInv, CloseInv, Holding, Opening, Idle, Free
<1>3. ServiceInv /\ FifoInv /\ OpenInv
  BY DEF ServiceInv, FifoInv, OpenInv, Names, NoStreams, NoStream, Idle, Free, List, Channels
<1> QED
  BY <1>1, <1>2, <1>3 DEF IInv

LEMMA StepInv == IInv /\ [Next]_vars => IInv'
<1> SUFFICES ASSUME IInv, [Next]_vars PROVE IInv'
  OBVIOUS
<1>1. ASSUME NEW a \in Admins, Command(a) PROVE IInv'
  BY <1>1, CreateFoundInv, CreateInv, FindInv DEF Command
<1>2. ASSUME NEW a \in Admins, Starting(a) PROVE IInv'
  BY <1>2, StartRefusedInv, StartStreamInv, OpenStreamInv, OpenFailsInv, StartThreadInv,
     ThreadFailsInv, StartFailedInv DEF Starting
<1>3. ASSUME NEW a \in Admins, Stopping(a) PROVE IInv'
  BY <1>3, StopRefusedInv, StopStreamInv DEF Stopping
<1>4. ASSUME NEW c \in Channels, Mux(c) PROVE IInv'
  BY <1>4, MuxCloseInv, CloseReleaseInv, CloseServiceInv, CloseStreamsInv, CloseStatusInv,
     MuxGoneInv DEF Mux, Closing
<1>5. CASE UNCHANGED vars
  BY <1>5 DEF IInv, TypeOK, ListInv, AdminInv, CloseInv, ServiceInv, FifoInv, OpenInv, List,
              Holding, Opening, Names, vars
<1> QED
  BY <1>1, <1>2, <1>3, <1>4, <1>5, CallbackInv, QuitInv DEF Next

(* The strengthening is an invariant of every behaviour, with every failure*)
(* of a start and a quit of the application.                               *)
THEOREM Inductive == SafetySpec => []IInv
BY InitInv, StepInv, PTL DEF SafetySpec

-----------------------------------------------------------------------------
(* However many servents start and stop services at once: no service has   *)
(* two channels, and a channel that nobody is closing has a service exactly*)
(* when it is not free (createChannel, stopStream and close).              *)
THEOREM ServicesAreSound == SafetySpec => []ServicesSound
<1>1. IInv => ServicesSound
  <2> SUFFICES ASSUME IInv PROVE ServicesSound
    OBVIOUS
  <2>1. ASSUME NEW s \in Services PROVE Cardinality(Serving(s)) <= 1
    <3>1. \A c, d \in Serving(s) : c = d
      BY ServicesAssumption DEF IInv, ServiceInv, Serving
    <3>2. CASE Serving(s) = {}
      BY <3>2, FS_EmptySet
    <3>3. CASE Serving(s) # {}
      <4>1. PICK c \in Serving(s) : TRUE
        BY <3>3
      <4>2. Serving(s) = {c}
        BY <3>1, <4>1
      <4> QED
        BY <4>2, FS_Singleton
    <3> QED
      BY <3>2, <3>3
  <2>2. ServiceUnlessFree
    BY DEF IInv, ServiceInv, ServiceUnlessFree
  <2> QED
    BY <2>1, <2>2 DEF ServicesSound, UniqueService, IInv
<1> QED
  BY <1>1, Inductive, PTL

(* A channel is not started while the thread of its last start is about:   *)
(* startStream refuses what does not wait, and only the end of close, with *)
(* the lock still held, makes a channel free for createChannel.            *)
THEOREM OneMux == SafetySpec => []OneMuxPerChannel
<1>1. IInv => OneMuxPerChannel
  BY DEF IInv, AdminInv, Holding, Opening, OneMuxPerChannel
<1> QED
  BY <1>1, Inductive, PTL

(* The fifos a mux thread gets from are allocated, and no other running    *)
(* mux thread gets from them: the lock-free buffer_fifoGet has the single  *)
(* consumer it needs.                                                      *)
THEOREM FifosLive == SafetySpec => []MuxFifosLive
<1>1. IInv => MuxFifosLive
  <2> SUFFICES ASSUME IInv, NEW c \in Running, NEW k \in Kinds
      PROVE  /\ stream[c][k].fifo \in live
             /\ \A d \in Running, j \in Kinds :
                  stream[d][j].fifo = stream[c][k].fifo => d = c /\ j = k
    BY DEF MuxFifosLive
  <2>1. \A d \in Running, j \in Kinds : d \in Channels /\ Names(d, j)
    BY DEF IInv, CloseInv, OpenInv, Running, Names
  <2> QED
    BY <2>1 DEF IInv, FifoInv
<1> QED
  BY <1>1, Inductive, PTL

-----------------------------------------------------------------------------
(* Without failures and without quit no step leads out of CalmInv: before  *)
(* a close releases anything stopStream has cleared the filters, and close *)
(* releases only under "if (h_filter)".                                    *)
LEMMA CalmStep ==
  ASSUME ~MayFail, ~MayQuit, IInv, CalmInv, [Next]_vars PROVE CalmInv'
<1> USE DEF Kinds
<1>1. ASSUME NEW a \in Admins, NEW s \in Services, Create(a, s) PROVE CalmInv'
  <2> DEFINE c == IF Available # {} THEN First(Available) ELSE allocated + 1
             x == [chan[c] EXCEPT !.status = "wait", !.service = s]
  <2>1. c \in Channels /\ stream' = [stream EXCEPT ![c] = NoStreams]
        /\ chan' = [chan EXCEPT ![c] = x] /\ admin' = [admin EXCEPT ![a] = [pc |-> "start", chan |-> c]]
        /\ UNCHANGED <<mux, callback, live>>
    BY <1>1 DEF Create, Goes
  <2>2. \A d \in Channels, k \in Kinds : /\ d # c => stream'[d] = stream[d] /\ chan'[d] = chan[d]
                                         /\ ~stream'[c][k].filter /\ stream'[c][k].fifo = Nobody
    BY <2>1 DEF IInv, TypeOK, NoStreams, NoStream
  <2> HIDE DEF c, x
  <2> QED
    BY <2>1, <2>2, Types DEF CalmInv, IInv
<1>2. ASSUME NEW a \in Admins, NEW k \in Kinds, OpenStream(a, k) PROVE CalmInv'
  <2> DEFINE c == admin[a].chan
  <2>1. c \in Channels /\ mux[c] = "off" /\ k \in {"audio", "video"}
    BY <1>2, Types DEF OpenStream, IInv, AdminInv, Holding, Opening
  <2>2. PICK f \in Fifos \ live :
          /\ stream' = [stream EXCEPT ![c][k] = [filter |-> TRUE, fifo |-> f]]
          /\ live' = live \cup {f}
    BY <1>2 DEF OpenStream
  <2>3. /\ UNCHANGED <<mux, chan, callback>>
        /\ admin' = [admin EXCEPT ![a] = [pc |-> NextKind(k), chan |-> c]]
    BY <1>2 DEF OpenStream, Goes
  <2>4. \A d \in Channels, j \in Kinds :
          stream'[d][j] = IF d = c /\ j = k THEN [filter |-> TRUE, fifo |-> f] ELSE stream[d][j]
    BY <2>1, <2>2 DEF IInv, TypeOK
  <2> QED
    BY <2>1, <2>2, <2>3, <2>4, Types DEF CalmInv, NextKind, IInv
<1>3. ASSUME NEW a \in Admins, StopStream(a) PROVE CalmInv'
  <2> DEFINE c == admin[a].chan
  <2>1. /\ c \in Channels /\ UNCHANGED <<mux, callback, live>>
        /\ stream' = [stream EXCEPT ![c] = [k \in Kinds |-> [stream[c][k] EXCEPT !.filter = FALSE]]]
        /\ admin' = [admin EXCEPT ![a] = Idle]
    BY <1>3, Types DEF StopStream, Goes, Idle, IInv, AdminInv
  <2>2. \A d \in Channels, j \in Kinds : /\ stream'[d][j].fifo = stream[d][j].fifo
                                         /\ ~stream'[c][j].filter
                                         /\ d # c => stream'[d] = stream[d] /\ chan'[d] = chan[d]
    BY <1>3, <2>1 DEF IInv, TypeOK, StopStream
  <2> QED
    BY <2>1, <2>2, Types DEF CalmInv, Idle, IInv
<1>4. ASSUME NEW c \in Channels, CloseRelease(c) PROVE CalmInv'
  <2>1. mux[c] = "closing"
    BY <1>4 DEF CloseRelease, IInv, CloseInv, CalmInv
  <2>2. live' = live
    BY <1>4, <2>1 DEF CloseRelease, Releases, CalmInv
  <2> QED
    BY <1>4, <2>2 DEF CloseRelease, CalmInv
<1>5. ASSUME NEW c \in Channels, CloseStreams(c) PROVE CalmInv'
  <2>1. \A d \in Channels, k \in Kinds : /\ d # c => stream'[d] = stream[d]
                                         /\ ~stream'[c][k].filter /\ stream'[c][k].fifo = Nobody
    BY <1>5 DEF CloseStreams, IInv, TypeOK, NoStreams, NoStream
  <2> QED
    BY <1>5, <2>1 DEF CloseStreams, CalmInv
<1>6. ASSUME NEW a \in Admins,
             \/ \E s \in Services : CreateFound(a, s) \/ Find(a, s)
             \/ StartRefused(a) \/ StopRefused(a)
      PROVE  CalmInv'
  <2>1. UNCHANGED <<chan, stream, mux, callback, live>>
        /\ \E c : \E pc \in {"start", "stop", "idle"} : Goes(a, pc, c)
    BY <1>6 DEF CreateFound, Find, StartRefused, StopRefused
  <2> QED
    BY <2>1, Types DEF CalmInv, Goes, IInv
<1>7. ASSUME NEW a \in Admins, StartStream(a) PROVE CalmInv'
  <2>1. \A d \in Channels : chan'[d].active = chan[d].active
    BY <1>7, Types DEF StartStream, IInv, AdminInv, ChanType
  <2> QED
    BY <1>7, <2>1, Types DEF CalmInv, StartStream, Goes, IInv
<1>8. ASSUME NEW a \in Admins, StartThread(a) PROVE CalmInv'
  <2> DEFINE c == admin[a].chan
  <2>1. \A d \in Channels : /\ d # c => chan'[d] = chan[d] /\ mux'[d] = mux[d]
                            /\ chan'[c].active /\ mux'[c] = "run"
    BY <1>8, Types DEF StartThread, IInv, AdminInv, ChanType, TypeOK
  <2> QED
    BY <1>8, <2>1, Types DEF CalmInv, StartThread, Goes, IInv
<1>9. ASSUME NEW a \in Admins, StartFailed(a) PROVE CalmInv'
  BY <1>9 DEF StartFailed, CalmInv
<1>10. ASSUME NEW c \in Channels, MuxClose(c) \/ MuxGone(c) PROVE CalmInv'
  <2>1. UNCHANGED <<chan, stream, admin, callback, live>>
        /\ \A d \in Channels : d # c => mux'[d] = mux[d]
    BY <1>10 DEF MuxClose, MuxGone, IInv, TypeOK
  <2>2. \/ mux[c] = "run" /\ ~chan[c].active
        \/ mux'[c] = "off"
    BY <1>10 DEF MuxClose, MuxGone, IInv, TypeOK
  <2> QED
    BY <2>1, <2>2 DEF CalmInv
<1>11. ASSUME NEW c \in Channels, CloseService(c) \/ CloseStatus(c) PROVE CalmInv'
  <2>1. UNCHANGED <<stream, mux, admin, callback, live>>
        /\ \A d \in Channels : chan'[d].active = chan[d].active
    BY <1>11, Types DEF CloseService, CloseStatus, IInv, ChanType
  <2> QED
    BY <2>1 DEF CalmInv
<1>12. CASE Callback
  <2>1. UNCHANGED <<chan, stream, mux, admin, live>>
    BY <1>12 DEF Callback, CallbackEnters, CallbackMatches, CallbackTakes, CallbackLeaves
  <2>2. callback'.pc = "put" => callback'.fifo \in live
    <3>1. ASSUME NEW k \in Kinds, CallbackTakes(k) PROVE callback'.fifo \in live
      BY <3>1 DEF CallbackTakes, Fed, NoCall, CalmInv, IInv, TypeOK
    <3>2. CASE CallbackEnters \/ CallbackLeaves
      BY <3>2 DEF CallbackEnters, CallbackLeaves, NoCall
    <3>3. ASSUME NEW k \in Kinds, CallbackMatches(k) PROVE callback'.pc = "take"
      BY <3>3 DEF CallbackMatches, NoCall
    <3> QED
      BY <1>12, <3>1, <3>2, <3>3 DEF Callback
  <2> QED
    BY <2>1, <2>2 DEF CalmInv
<1>13. CASE UNCHANGED vars
  BY <1>13 DEF vars, CalmInv
<1>14. ~Quit /\ \A a \in Admins : ~ThreadFails(a) /\ \A k \in Kinds : ~OpenFails(a, k)
  BY DEF Quit, ThreadFails, OpenFails
<1> QED
  BY <1>1, <1>2, <1>3, <1>4, <1>5, <1>6, <1>7, <1>8, <1>9, <1>10, <1>11, <1>12, <1>13, <1>14
     DEF Next, Command, Starting, Stopping, Mux, Closing

(* With no failed start and no quit the filter callback, which takes no    *)
(* lock, puts into a fifo that has not been released, however many servents*)
(* start and stop channels meanwhile: close() releases nothing of a channel*)
(* whose filters stopStream has cleared.                                   *)
THEOREM CallbackSafe == ASSUME ~MayFail, ~MayQuit PROVE SafetySpec => []CallbackFifoLive
<1>1. Init => CalmInv
  BY DEF Init, CalmInv, Idle, NoStreams, NoStream, NoCall
<1>2. IInv /\ CalmInv /\ [Next]_vars => CalmInv'
  BY CalmStep
<1>3. CalmInv => CallbackFifoLive
  BY DEF CalmInv, CallbackFifoLive
<1> QED
  BY <1>1, <1>2, <1>3, Inductive, PTL DEF SafetySpec
=============================================================================
