--------------------------- MODULE Servents_proofs ---------------------------
(***************************************************************************)
(* Proofs about Servents, for any limits and any number of servents and    *)
(* connections: a servent, its thread and its socket belong together, what *)
(* is free is idle, and the two limits hold although nothing but           *)
(* allocServent is locked.                                                 *)
(***************************************************************************)
EXTENDS Servents, FiniteSetTheorems, TLAPS

(* A set of naturals that is not empty has a smallest element. *)
LEMMA SmallestElement ==
  ASSUME NEW S \in SUBSET Nat, S # {}
  PROVE  \E m \in S : \A x \in S : m <= x
<1> DEFINE R == {ss \in Nat \X Nat : ss[1] < ss[2]}
<1>1. IsWellFoundedOn(R, Nat)
  BY NatLessThanWellFounded DEF OpToRel
<1>2. \A x, m \in Nat : x < m => <<x, m>> \in R
  OBVIOUS
<1> HIDE DEF R
<1>3. PICK m \in S : \A x \in S : ~(<<x, m>> \in R)
  BY <1>1, WFMin
<1>4. \A x \in S : x \in Nat /\ m \in Nat /\ ~(x < m)
  BY <1>2, <1>3
<1>5. \A x \in S : m <= x
  BY <1>4
<1> QED
  BY <1>5

(* Min of two numbers. *)
LEMMA MinOfTwo ==
  ASSUME NEW a \in Nat, NEW b \in Nat
  PROVE  /\ Min({a, b}) \in {a, b} /\ Min({a, b}) <= a /\ Min({a, b}) <= b
         /\ Min({a, b}) \in Nat
<1>1. \E x \in {a, b} : \A y \in {a, b} : x <= y
  BY a <= b \/ b <= a
<1>2. Min({a, b}) \in {a, b} /\ \A y \in {a, b} : Min({a, b}) <= y
  BY <1>1 DEF Min
<1> QED
  BY <1>2

(* Max of two numbers. *)
LEMMA MaxOfTwo ==
  ASSUME NEW a \in Int, NEW b \in Int
  PROVE  Max({a, b}) = IF a < b THEN b ELSE a
<1>1. \E x \in {a, b} : \A y \in {a, b} : x >= y
  BY a <= b \/ b <= a
<1>2. Max({a, b}) \in {a, b} /\ \A y \in {a, b} : Max({a, b}) >= y
  BY <1>1 DEF Max
<1> QED
  BY <1>2

Index == 1 .. MaxServents

(* How far the thread of a client has come with its servent s.             *)
Phase(pc, s) ==
  /\ pc \in {"request", "count", "host", "wait"} => s.status = "protocol"
  /\ pc \in {"count", "host", "wait"} => s.type = "direct"
  /\ pc \in StreamPcs => s.status = "connected" /\ s.type = "direct"
  /\ pc = "kill" => s.status \in {"protocol", "closing"}
  /\ pc \in {"close", "reset"} => s.status = "closing"
  /\ pc = "reset" => s.sock = Null /\ ~s.active

ThreadOK(c) ==
  LET t == thr[c]
      s == sv[t.sv]
  IN  t.pc # "none" =>
        /\ t.sv \in Listed
        /\ IF t.sv = Server THEN s.type = "server" ELSE s.type \in Clients
        /\ t.pc \in ServerPcs => t.sv = Server
        /\ t.pc \in ClientPcs => t.sv # Server
        /\ t.pc # "reset" => s.sock = c /\ c \in live
        /\ t.pc = "close" => ~s.active
        /\ t.pc = "host" => t.at > 0
        /\ t.sv # Server => Phase(t.pc, s)

(* A servent has a socket only while the thread started for it uses it, is *)
(* active only with a socket, and is as good as new when it is free.       *)
ServentOK(i) ==
  LET s == sv[i]
  IN  /\ s.sock # Null => s.sock \in live /\ Using(s.sock) /\ thr[s.sock].sv = i
      /\ s.active => s.sock # Null
      /\ s.status = "free" => s = [Blank EXCEPT !.status = "free"]
      /\ s.type \in IF i = Server THEN {"none", "server"} ELSE Clients \cup {"none"}
      /\ i \notin Listed => s = Blank

(* A client's servent has one thread; the manager's may have some that are *)
(* past their kill() besides the one that runs.                            *)
OneThread ==
  \A c, d \in Conns :
    thr[c].pc # "none" /\ thr[d].pc # "none" /\ thr[c].sv = thr[d].sv /\ thr[c].sv # Server
      => c = d

WalksInv ==
  /\ mgr.pc = "start" <=> count = 0
  /\ quit.at <= count

Base ==
  /\ TypeOK
  /\ \A c \in Conns : ThreadOK(c)
  /\ \A i \in Index : ServentOK(i)
  /\ \A c \in live : Using(c)
  /\ OneThread
  /\ WalksInv

(* The clients being served, and room for one more when the server is      *)
(* about to accept.                                                        *)
Served == {i \in Listed : sv[i].active /\ sv[i].type \in Clients}

BoundInv ==
  /\ Cardinality(Served) <= MaxServIn
  /\ \A c \in Conns : At(c, "accept") => Cardinality(Served) < MaxServIn

(* Servents that stream all through a walk are passed and counted.         *)
SteadyOK(c) ==
  thr[c].steady \subseteq IF thr[c].pc \in {"count", "host"} THEN Direct ELSE {}

Passed(c) == {i \in thr[c].steady : i > thr[c].at}

CountOK(c) ==
  thr[c].pc \in {"count", "host"} =>
    thr[c].n >= MaxDirect \/ thr[c].n >= Cardinality(Passed(c))

LimitInv == \A c \in Conns : SteadyOK(c) /\ CountOK(c)

IInv == Base /\ BoundInv /\ LimitInv

-----------------------------------------------------------------------------
ServentType == [status : {"none", "wait", "listening", "protocol", "connected",
                          "closing", "free"},
                type : Clients \cup {"none", "server"},
                sock : Conns \cup {Null}, active : BOOLEAN]
ThreadType == [pc : ServerPcs \cup ClientPcs \cup KillPcs \cup {"none"},
               sv : Index, at : 0 .. MaxServents,
               n : 0 .. MaxDirect, steady : SUBSET Index]

LEMMA Types ==
  ASSUME TypeOK
  PROVE  /\ count \in Nat /\ count <= MaxServents
         /\ sv \in [Index -> ServentType] /\ live \in SUBSET Conns
         /\ private \in [Conns -> BOOLEAN] /\ thr \in [Conns -> ThreadType]
         /\ Listed \subseteq Index /\ Server \in Index
         /\ mgr \in [pc : {"start", "test", "body", "exit"}, active : BOOLEAN]
         /\ quit \in [pc : {"idle", "walk", "destroyed"}, at : 0 .. MaxServents]
         /\ fails \in 0 .. MaxFails
<1>1. count \in Nat /\ count <= MaxServents /\ Server \in Index
  BY LimitsAssumption DEF TypeOK, Server, Index
<1>2. Listed \subseteq Index
  BY <1>1, LimitsAssumption DEF Listed, Index
<1> QED
  BY <1>1, <1>2 DEF TypeOK, ServentType, ThreadType, Index

LEMMA TypesOK ==
  ASSUME count' \in 0 .. MaxServents, sv' \in [Index -> ServentType], live' \in SUBSET Conns,
         private' \in [Conns -> BOOLEAN], thr' \in [Conns -> ThreadType],
         mgr' \in [pc : {"start", "test", "body", "exit"}, active : BOOLEAN],
         quit' \in [pc : {"idle", "walk", "destroyed"}, at : 0 .. MaxServents],
         fails' \in 0 .. MaxFails
  PROVE  TypeOK'
BY DEF TypeOK, ServentType, ThreadType, Index

(* The other threads stay where they are.                                  *)
OnlyThread(c) ==
  \A d \in Conns : d # c => /\ thr'[d].pc = thr[d].pc /\ thr'[d].sv = thr[d].sv
                              /\ thr'[d].at = thr[d].at

(* A thread and its servent.                                               *)
LEMMA Own ==
  ASSUME Base, NEW c \in Conns, thr[c].pc # "none", NEW i, i = thr[c].sv
  PROVE  /\ i \in Index /\ i \in Listed /\ sv[i] \in ServentType /\ thr[c] \in ThreadType
         /\ ThreadOK(c) /\ ServentOK(i)
         /\ IF i = Server THEN sv[i].type = "server" ELSE sv[i].type \in Clients
         /\ thr[c].pc # "reset" => sv[i].sock = c /\ c \in live /\ Using(c)
         /\ i # Server => Phase(thr[c].pc, sv[i])
         /\ c # Null
<1>1. thr[c] \in ThreadType /\ i \in Index /\ c # Null
  BY Types DEF Base, ThreadType, Conns, Null
<1> QED
  BY <1>1, Types DEF Base, ThreadOK, Using

(* A step of thread c on its servent i, which becomes s.                   *)
LEMMA OwnStep ==
  ASSUME Base, NEW c \in Conns, thr[c].pc # "none", NEW i, i = thr[c].sv,
         NEW s \in ServentType, sv' = [sv EXCEPT ![i] = s],
         OnlyThread(c), thr' \in [Conns -> ThreadType],
         thr'[c].pc = "none" \/ thr'[c].sv = i,
         live' \in SUBSET live, \A d \in live : d # c => d \in live',
         UNCHANGED <<count, mgr, quit, fails>>, private' \in [Conns -> BOOLEAN],
         i = Server => s.type = "server" /\ (thr[c].pc = "reset" => s = sv[i]),
         ThreadOK(c)', ServentOK(i)', c \in live' => Using(c)'
  PROVE  Base'
<1>1. /\ i \in Index /\ ThreadOK(c) /\ sv'[i] = s /\ UNCHANGED Listed
      /\ \A j \in Index : j # i => sv'[j] = sv[j]
  BY Own, Types DEF Base, Listed
<1>2. TypeOK'
  <2>1. sv' \in [Index -> ServentType] /\ live' \in SUBSET Conns
    BY <1>1, Types DEF Base
  <2>2. /\ count' \in 0 .. MaxServents
        /\ mgr' \in [pc : {"start", "test", "body", "exit"}, active : BOOLEAN]
        /\ quit' \in [pc : {"idle", "walk", "destroyed"}, at : 0 .. MaxServents]
        /\ fails' \in 0 .. MaxFails
    BY Types DEF Base
  <2> QED
    BY <2>1, <2>2, TypesOK
<1>3. \A d \in Conns : d # c =>
        /\ thr'[d].pc = thr[d].pc /\ thr'[d].sv = thr[d].sv /\ thr'[d].at = thr[d].at
        /\ d \in live => d \in live'
  BY DEF OnlyThread
<1>4. ASSUME NEW d \in Conns, d # c PROVE ThreadOK(d)'
  <2>1. SUFFICES ASSUME thr[d].pc # "none" PROVE ThreadOK(d)'
    BY <1>3, <1>4 DEF ThreadOK
  <2>2. PICK j \in Index : j = thr[d].sv
    BY Types DEF Base, ThreadType
  <2>3. ThreadOK(d)
    BY DEF Base
  <2>4. CASE j # i
    BY <1>1, <1>3, <1>4, <2>2, <2>3, <2>4 DEF ThreadOK
  <2>5. CASE j = i
    <3>1. i = Server
      BY <1>4, <2>1, <2>2, <2>5 DEF Base, OneThread
    <3>2. thr[c].pc = "reset" \/ thr[d].pc = "reset"
      BY <1>1, <1>4, <2>1, <2>2, <2>3, <2>5 DEF ThreadOK
    <3>3. s.type = "server" /\ (thr[d].pc # "reset" => s = sv[i])
      BY <3>1, <3>2
    <3>4. thr'[d].pc = thr[d].pc /\ thr'[d].at = thr[d].at /\ thr'[d].sv = i /\ thr[d].sv = i
      BY <1>3, <1>4, <2>2, <2>5
    <3> QED
      BY <1>1, <1>3, <1>4, <2>1, <2>3, <3>1, <3>3, <3>4 DEF ThreadOK, ServerPcs, ClientPcs, StreamPcs, Server
  <2> QED
    BY <2>4, <2>5
<1>5. ASSUME NEW j \in Index, j # i PROVE ServentOK(j)'
  <2>1. ServentOK(j) /\ sv'[j] = sv[j]
    BY <1>1, <1>5 DEF Base
  <2>2. sv[j].sock # Null => sv[j].sock # c
    BY <1>5, <2>1 DEF ServentOK
  <2>3. sv[j].sock # Null => sv[j].sock \in Conns
    BY Types DEF Base, ServentType
  <2> QED
    BY <1>1, <1>3, <2>1, <2>2, <2>3 DEF ServentOK, Using
<1>6. \A d \in live' : Using(d)'
  BY <1>3, Types DEF Base, Using
<1>7. OneThread'
  BY <1>3 DEF Base, OneThread
<1>8. WalksInv'
  BY DEF Base, WalksInv
<1>9. (\A d \in Conns : ThreadOK(d)') /\ (\A j \in Index : ServentOK(j)')
  BY <1>4, <1>5
<1> QED
  BY <1>2, <1>6, <1>7, <1>8, <1>9 DEF Base

Waits == {"count", "host", "wait"}

(* A thread that streams calls the ramfs or returns from there.            *)
RamfsCall(c) ==
  /\ thr[c].pc \in {"stream", "ramfs"} /\ \E pc \in StreamPcs : Go(c, pc)
  /\ UNCHANGED <<count, sv, live, private, mgr, quit, fails>>

LEMMA StreamSteps ==
  ASSUME NEW c, ReadSegment(c) \/ Leave(c) \/ Disconnect(c) \/ Answer(c) \/ Answered(c)
  PROVE  RamfsCall(c) \/ EndStream(c)
<1>1. ASSUME ReadSegment(c) \/ CloseSegment(c) PROVE RamfsCall(c)
  BY <1>1 DEF ReadSegment, CloseSegment, RamfsCall, At, StreamPcs
<1>2. ASSUME Answer(c) PROVE RamfsCall(c) \/ EndStream(c)
  BY <1>2 DEF Answer, RamfsCall, At, StreamPcs
<1> QED
  BY <1>1, <1>2 DEF Leave, Disconnect, StopReading, Answered

(* A thread goes on and leaves its servent as it is.                       *)
LEMMA GoStep ==
  ASSUME Base, NEW c \in Conns,
         \/ thr[c].pc \in ServerPcs /\ thr'[c].pc \in ServerPcs \cup {"kill"}
         \/ thr[c].pc \in Waits /\ thr'[c].pc \in Waits \cup {"kill"}
         \/ thr[c].pc \in StreamPcs /\ thr'[c].pc \in StreamPcs
         \/ thr[c].pc = "request" /\ thr'[c].pc = "kill",
         thr'[c].sv = thr[c].sv, OnlyThread(c), thr' \in [Conns -> ThreadType],
         thr'[c].pc = "host" => thr'[c].at > 0,
         UNCHANGED <<count, sv, live, private, mgr, quit, fails>>
  PROVE  Base'
<1>1. PICK i : i = thr[c].sv
  OBVIOUS
<1>2. thr[c].pc \notin {"none", "close", "reset"} /\ thr'[c].pc \notin {"none", "close", "reset"}
  BY DEF ServerPcs, Waits, StreamPcs
<1>3. /\ i \in Index /\ sv[i] \in ServentType /\ ThreadOK(c) /\ ServentOK(i)
      /\ IF i = Server THEN sv[i].type = "server" ELSE sv[i].type \in Clients
      /\ sv[i].sock = c /\ c \in live
      /\ i # Server => Phase(thr[c].pc, sv[i])
  BY <1>1, <1>2, Own
<1>4. sv' = [sv EXCEPT ![i] = sv[i]]
  BY <1>3, Types DEF Base
<1>5. ThreadOK(c)'
  <2>1. i # Server => Phase(thr'[c].pc, sv[i])
    BY <1>1, <1>2, <1>3 DEF Phase, Waits, ThreadOK, ServerPcs, StreamPcs
  <2>2. UNCHANGED Listed /\ (thr'[c].pc \in ServerPcs => i = Server) /\ (thr'[c].pc \in ClientPcs => i # Server)
    BY <1>1, <1>2, <1>3 DEF Listed, ThreadOK, ServerPcs, ClientPcs, StreamPcs, Waits
  <2> QED
    BY <1>1, <1>2, <1>3, <2>1, <2>2 DEF ThreadOK
<1>6. ServentOK(i)' /\ Using(c)'
  <2>1. \A d \in Conns : Using(d)' <=> Using(d)
    BY <1>2 DEF Using, OnlyThread
  <2>2. UNCHANGED Listed /\ \A d \in Conns : thr'[d].sv = thr[d].sv
    BY DEF Listed, OnlyThread
  <2>3. sv[i].sock \in Conns \cup {Null}
    BY <1>3 DEF ServentType
  <2>4. Using(c)
    BY <1>2 DEF Using
  <2> QED
    BY <1>3, <2>1, <2>2, <2>3, <2>4 DEF ServentOK
<1>7. private \in [Conns -> BOOLEAN]
  BY Types DEF Base
<1> QED
  BY <1>1, <1>2, <1>3, <1>4, <1>5, <1>6, <1>7, OwnStep

LEMMA GoType ==
  ASSUME TypeOK, NEW c \in Conns, NEW pc \in ServerPcs \cup ClientPcs \cup KillPcs, Go(c, pc)
  PROVE  thr' \in [Conns -> ThreadType] /\ OnlyThread(c) /\ thr'[c].pc = pc /\ thr'[c].sv = thr[c].sv
BY Types DEF Go, ThreadType, OnlyThread

(* Steps along the walk of numStreams.                                     *)
LEMMA WalkType ==
  ASSUME TypeOK, NEW c \in Conns, NEW t \in ThreadType, thr' = [thr EXCEPT ![c] = t]
  PROVE  thr' \in [Conns -> ThreadType] /\ OnlyThread(c) /\ thr'[c] = t
BY Types DEF OnlyThread

LEMMA ThreadTypes ==
  ASSUME NEW pc \in ServerPcs \cup ClientPcs \cup KillPcs, NEW i \in Index
  PROVE  /\ Thread(pc, i) \in ThreadType /\ Thread(pc, i).pc = pc /\ Thread(pc, i).sv = i
         /\ Thread(pc, i).at = 0 /\ Thread(pc, i).steady = {} /\ NoThread \in ThreadType
<1>1. Thread(pc, i) = [pc |-> pc, sv |-> i, at |-> 0, n |-> 0, steady |-> {}]
  <2>1. PICK e : e = {}
    OBVIOUS
  <2>2. NoThread = [pc |-> "none", sv |-> Server, at |-> 0, n |-> 0, steady |-> e]
    BY <2>1 DEF NoThread
  <2>3. Thread(pc, i) = [[NoThread EXCEPT !.pc = pc] EXCEPT !.sv = i]
    BY DEF Thread
  <2>4. Thread(pc, i) = [pc |-> pc, sv |-> i, at |-> 0, n |-> 0, steady |-> e]
    BY <2>2, <2>3
  <2> QED
    BY <2>1, <2>4
<1>2. /\ 0 \in 0 .. MaxServents /\ 0 \in 0 .. MaxDirect /\ {} \in SUBSET Index
      /\ Server \in Index
  BY LimitsAssumption DEF Server, Index
<1> QED
  BY <1>1, <1>2 DEF ThreadType, NoThread

LEMMA CountTypes ==
  ASSUME Base, NEW c \in Conns, Count(c) \/ CountHost(c) \/ CountDone(c)
  PROVE  /\ thr[c].pc \in Waits /\ thr' \in [Conns -> ThreadType] /\ OnlyThread(c)
         /\ thr'[c].pc \in Waits \cup {"kill"} /\ thr'[c].sv = thr[c].sv
         /\ thr'[c].pc = "host" => thr'[c].at > 0
         /\ UNCHANGED <<count, sv, live, private, mgr, quit, fails>>
<1>1. thr[c] \in ThreadType /\ thr[c].at \in Nat /\ thr[c].at <= MaxServents
      /\ thr[c].n \in Nat /\ thr[c].n <= MaxDirect
  BY Types DEF Base, ThreadType
<1>2. CASE Count(c)
  <2>1. thr[c].pc = "count" /\ thr[c].at > 0
        /\ UNCHANGED <<count, sv, live, private, mgr, quit, fails>>
    BY <1>2 DEF Count, At
  <2>2. PICK t : t = IF Streaming(thr[c].at) THEN [thr[c] EXCEPT !.pc = "host"]
                                             ELSE [thr[c] EXCEPT !.at = @ - 1]
    OBVIOUS
  <2>5. thr' = [thr EXCEPT ![c] = t]
    <3>1. CASE Streaming(thr[c].at)
      <4>1. thr' = [thr EXCEPT ![c] = [thr[c] EXCEPT !.pc = "host"]]
        BY <1>2, <3>1 DEF Count
      <4> QED
        BY <2>2, <3>1, <4>1
    <3>2. CASE ~Streaming(thr[c].at)
      <4>1. thr' = [thr EXCEPT ![c] = [thr[c] EXCEPT !.at = thr[c].at - 1]]
        BY <1>2, <3>2 DEF Count
      <4> QED
        BY <2>2, <3>2, <4>1
    <3> QED
      BY <3>1, <3>2
  <2>3. thr[c].at - 1 \in 0 .. MaxServents
    BY <1>1, <2>1, LimitsAssumption
  <2>4. /\ t \in ThreadType /\ t.pc \in {"host", "count"} /\ t.sv = thr[c].sv
        /\ t.pc = "host" => t.at > 0
    BY <1>1, <2>1, <2>2, <2>3 DEF ThreadType, ClientPcs, StreamPcs
  <2>6. thr' \in [Conns -> ThreadType] /\ OnlyThread(c) /\ thr'[c] = t
    <3>1. t \in ThreadType
      BY <2>4
    <3> QED
      BY <2>5, <3>1, WalkType DEF Base
  <2>7. /\ thr'[c].pc \in {"host", "count"} /\ thr'[c].sv = thr[c].sv
        /\ thr'[c].pc = "host" => thr'[c].at > 0
    BY <2>4, <2>6
  <2> QED
    BY <2>1, <2>6, <2>7 DEF Waits
<1>3. CASE CountHost(c)
  <2>0. thr[c].pc = "host" /\ thr[c].at > 0
    BY <1>3 DEF CountHost, At, Base, ThreadOK
  <2>1. thr[c].pc = "host" /\ UNCHANGED <<count, sv, live, private, mgr, quit, fails>>
    BY <1>3 DEF CountHost, At
  <2>2. PICK local \in BOOLEAN :
          thr' = [thr EXCEPT ![c].pc = "count", ![c].at = @ - 1,
                             ![c].n = IF local THEN @ ELSE Min({@ + 1, MaxDirect})]
    <3>1. Privacy(thr[c].at) \subseteq BOOLEAN
      <4>1. \A k \in live : private[k] \in BOOLEAN
        BY Types DEF Base
      <4> QED
        BY <4>1 DEF Privacy
    <3> QED
      BY <1>3, <3>1 DEF CountHost
  <2>3. PICK m : m = IF local THEN thr[c].n ELSE Min({thr[c].n + 1, MaxDirect})
    OBVIOUS
  <2>4. m \in 0 .. MaxDirect
    <3>1. CASE local
      BY <1>1, <2>3, <3>1, LimitsAssumption
    <3>2. CASE ~local
      <4>1. thr[c].n + 1 \in Nat /\ MaxDirect \in Nat
        BY <1>1, LimitsAssumption
      <4>2. Min({thr[c].n + 1, MaxDirect}) \in Nat /\ Min({thr[c].n + 1, MaxDirect}) <= MaxDirect
        BY <4>1, MinOfTwo
      <4> QED
        BY <2>3, <3>2, <4>1, <4>2
    <3> QED
      BY <3>1, <3>2
  <2>5. PICK t : t = [thr[c] EXCEPT !.pc = "count", !.at = thr[c].at - 1, !.n = m]
    OBVIOUS
  <2>6. thr' = [thr EXCEPT ![c] = t]
    <3>1. thr' = [thr EXCEPT ![c] = [thr[c] EXCEPT !.pc = "count", !.at = thr[c].at - 1, !.n = m]]
      BY <2>2, <2>3, Types DEF Base, ThreadType
    <3> QED
      BY <2>5, <3>1
  <2>7. thr[c].at - 1 \in 0 .. MaxServents
    BY <1>1, <2>0, LimitsAssumption
  <2>8. t \in ThreadType /\ t.pc = "count" /\ t.sv = thr[c].sv
    BY <1>1, <2>4, <2>5, <2>7 DEF ThreadType, ClientPcs, StreamPcs
  <2> QED
    BY <2>1, <2>6, <2>8, WalkType DEF Base, Waits
<1>4. CASE CountDone(c)
  <2>1. /\ thr[c].pc = "count" /\ UNCHANGED <<count, sv, live, private, mgr, quit, fails>>
        /\ \E pc \in {"kill", "wait"} : thr' = [thr EXCEPT ![c] = Thread(pc, thr[c].sv)]
    BY <1>4 DEF CountDone, At
  <2>2. PICK pc \in {"kill", "wait"} : thr' = [thr EXCEPT ![c] = Thread(pc, thr[c].sv)]
    BY <2>1
  <2>3. /\ Thread(pc, thr[c].sv) \in ThreadType /\ Thread(pc, thr[c].sv).pc = pc
        /\ Thread(pc, thr[c].sv).sv = thr[c].sv
    <3>1. thr[c].sv \in Index
      BY <1>1 DEF ThreadType
    <3>2. pc \in ServerPcs \cup ClientPcs \cup KillPcs
      BY <2>2 DEF ClientPcs, KillPcs
    <3> QED
      BY <3>1, <3>2, ThreadTypes
  <2> QED
    BY <2>1, <2>2, <2>3, WalkType DEF Base, Waits
<1> QED
  BY <1>2, <1>3, <1>4

(* A thread changes its servent and keeps the socket.                      *)
LEMMA KeepStep ==
  ASSUME Base, NEW c \in Conns, thr[c].pc \notin {"none", "reset"}, NEW i, i = thr[c].sv,
         NEW s \in ServentType, sv' = [sv EXCEPT ![i] = s], s.sock = sv[i].sock, s.status # "free",
         IF i = Server THEN s.type = "server" ELSE s.type \in Clients,
         OnlyThread(c), thr' \in [Conns -> ThreadType], thr'[c].sv = i,
         thr'[c].pc \notin {"none", "reset"}, thr'[c].pc \in ServerPcs => i = Server,
         thr'[c].pc \in ClientPcs => i # Server, thr'[c].pc = "close" => ~s.active,
         thr'[c].pc = "host" => thr'[c].at > 0, i # Server => Phase(thr'[c].pc, s),
         UNCHANGED <<count, live, mgr, quit, fails>>, private' \in [Conns -> BOOLEAN]
  PROVE  Base'
<1>1. i \in Index /\ i \in Listed /\ sv[i].sock = c /\ c \in live /\ c # Null /\ ServentOK(i)
  BY Own
<1>2. sv'[i] = s /\ UNCHANGED Listed
  BY <1>1, Types DEF Base, Listed
<1>3. ThreadOK(c)'
  BY <1>1, <1>2 DEF ThreadOK
<1>4. Using(c)' /\ ServentOK(i)'
  BY <1>1, <1>2 DEF ServentOK, Using
<1> QED
  BY <1>3, <1>4, OwnStep

LEMMA GoBase ==
  ASSUME Base, NEW c \in Conns,
         \/ ServerTest(c) \/ AcceptNone(c) \/ Serve(c)
         \/ Count(c) \/ CountHost(c) \/ CountDone(c) \/ GiveUp(c)
  PROVE  Base'
<1>1. CASE ServerTest(c) \/ AcceptNone(c) \/ Serve(c) \/ GiveUp(c)
  <2>1. \E pc \in ServerPcs \cup {"kill"} :
          /\ thr[c].pc \in ServerPcs \/ (thr[c].pc \in Waits \cup {"request"} /\ pc = "kill")
          /\ Go(c, pc) /\ UNCHANGED <<count, sv, live, private, mgr, quit, fails>>
    BY <1>1 DEF ServerTest, AcceptNone, Serve, GiveUp, At, ServerPcs, Waits
  <2>2. PICK pc \in ServerPcs \cup {"kill"} :
          /\ thr[c].pc \in ServerPcs \/ (thr[c].pc \in Waits \cup {"request"} /\ pc = "kill")
          /\ Go(c, pc) /\ UNCHANGED <<count, sv, live, private, mgr, quit, fails>>
    BY <2>1
  <2>3. thr' \in [Conns -> ThreadType] /\ OnlyThread(c) /\ thr'[c].pc = pc /\ thr'[c].sv = thr[c].sv
    BY <2>2, GoType DEF Base, KillPcs
  <2>4. pc # "host"
    BY DEF ServerPcs
  <2> QED
    BY <2>2, <2>3, <2>4, GoStep
<1>2. CASE Count(c) \/ CountHost(c) \/ CountDone(c)
  BY <1>2, CountTypes, GoStep
<1> QED
  BY <1>1, <1>2

LEMMA ServerBeginBase == ASSUME Base, NEW c \in Conns, ServerBegin(c) PROVE Base'
<1>1. PICK i : i = thr[c].sv
  OBVIOUS
<1>2. /\ thr[c].pc = "begin" /\ UNCHANGED <<count, live, private, mgr, quit, fails>>
      /\ Go(c, "loop") /\ "loop" \in ServerPcs /\ "begin" \in ServerPcs
  BY DEF ServerBegin, At, ServerPcs
<1>3. sv[i] \in ServentType /\ i = Server /\ sv[i].type = "server"
  BY <1>1, <1>2, Own DEF ThreadOK
<1>4. PICK s : s = [sv[i] EXCEPT !.status = "listening"]
  OBVIOUS
<1>5. s \in ServentType /\ s.sock = sv[i].sock /\ s.status = "listening" /\ s.type = "server"
  BY <1>3, <1>4 DEF ServentType
<1>6. sv' = [sv EXCEPT ![i] = s]
  BY <1>1, <1>4 DEF ServerBegin
<1>7. thr' \in [Conns -> ThreadType] /\ OnlyThread(c) /\ thr'[c].pc = "loop" /\ thr'[c].sv = i
  BY <1>1, <1>2, GoType DEF Base
<1>8. private' \in [Conns -> BOOLEAN]
  BY <1>2, Types DEF Base
<1>9. "loop" \notin ClientPcs
  BY DEF ClientPcs, StreamPcs
<1> QED
  BY <1>1, <1>2, <1>3, <1>5, <1>6, <1>7, <1>8, <1>9, KeepStep

LEMMA RequestTypes ==
  ASSUME Base, NEW c \in Conns, RequestStream(c), NEW i, i = thr[c].sv
  PROVE  /\ thr[c].pc = "request" /\ sv[i].sock = c
         /\ sv' = [sv EXCEPT ![i].type = "direct"]
         /\ private' \in [Conns -> BOOLEAN] /\ \A d \in Conns : d # c => private'[d] = private[d]
         /\ thr' \in [Conns -> ThreadType] /\ OnlyThread(c) /\ thr'[c].sv = i
         /\ \A d \in Conns : d # c => thr'[d] = thr[d]
         /\ \/ thr'[c].pc = "wait" /\ thr'[c].steady = thr[c].steady
            \/ thr'[c].pc = "count" /\ thr'[c].n = 0 /\ thr'[c].at = count /\ thr'[c].steady = Direct
<1>1. thr[c].pc = "request" /\ sv' = [sv EXCEPT ![i].type = "direct"]
  BY DEF RequestStream, At
<1>2. sv[i].sock = c /\ thr[c] \in ThreadType
  BY <1>1, Own
<1>3. private' \in [Conns -> BOOLEAN] /\ \A d \in Conns : d # c => private'[d] = private[d]
  <2>1. PICK local \in BOOLEAN : private' = [private EXCEPT ![c] = local]
    BY <1>2 DEF RequestStream
  <2> QED
    BY <2>1, Types DEF Base
<1>4. CASE Go(c, "wait")
  <2>1. thr' = [thr EXCEPT ![c] = [thr[c] EXCEPT !.pc = "wait"]]
    BY <1>4 DEF Go
  <2>2. PICK t : t = [thr[c] EXCEPT !.pc = "wait"]
    OBVIOUS
  <2>3. t \in ThreadType /\ t.pc = "wait" /\ t.sv = i /\ t.steady = thr[c].steady
    BY <1>2, <2>2 DEF ThreadType, ClientPcs, StreamPcs
  <2>4. thr' = [thr EXCEPT ![c] = t]
    BY <2>1, <2>2
  <2>5. thr'[c] = t /\ thr' \in [Conns -> ThreadType] /\ OnlyThread(c)
        /\ \A d \in Conns : d # c => thr'[d] = thr[d]
    BY <2>3, <2>4, Types DEF Base, OnlyThread
  <2> QED
    BY <1>1, <1>2, <1>3, <2>3, <2>5
<1>5. CASE thr' = [thr EXCEPT ![c] = [thr[c] EXCEPT !.pc = "count", !.at = count,
                                                    !.n = 0, !.steady = Direct]]
  <2>1. PICK D : D = Direct
    OBVIOUS
  <2>2. D \in SUBSET Index
    BY <2>1, Types DEF Base, Direct
  <2>3. PICK t : t = [thr[c] EXCEPT !.pc = "count", !.at = count, !.n = 0, !.steady = D]
    OBVIOUS
  <2>4. count \in 0 .. MaxServents /\ 0 \in 0 .. MaxDirect
    BY Types, LimitsAssumption DEF Base
  <2>5. /\ t \in ThreadType /\ t.pc = "count" /\ t.sv = i
        /\ t.n = 0 /\ t.at = count /\ t.steady = D
    BY <1>2, <2>2, <2>3, <2>4 DEF ThreadType, ClientPcs, StreamPcs
  <2>6. thr' = [thr EXCEPT ![c] = t]
    BY <1>5, <2>1, <2>3
  <2>7. thr'[c] = t /\ thr' \in [Conns -> ThreadType] /\ OnlyThread(c)
        /\ \A d \in Conns : d # c => thr'[d] = thr[d]
    BY <2>5, <2>6, Types DEF Base, OnlyThread
  <2> QED
    BY <1>1, <1>2, <1>3, <2>1, <2>5, <2>7
<1> QED
  BY <1>4, <1>5 DEF RequestStream

LEMMA RequestBase == ASSUME Base, NEW c \in Conns, RequestStream(c) PROVE Base'
<1>1. PICK i : i = thr[c].sv
  OBVIOUS
<1>2. /\ thr[c].pc = "request" /\ sv' = [sv EXCEPT ![i].type = "direct"]
      /\ thr' \in [Conns -> ThreadType] /\ OnlyThread(c) /\ thr'[c].sv = i
      /\ thr'[c].pc \in {"wait", "count"} /\ private' \in [Conns -> BOOLEAN]
  BY <1>1, RequestTypes
<1>3. sv[i] \in ServentType /\ i # Server /\ sv[i].status = "protocol"
  BY <1>1, <1>2, Own DEF ThreadOK, ClientPcs, StreamPcs, Phase
<1>4. PICK s : s = [sv[i] EXCEPT !.type = "direct"]
  OBVIOUS
<1>5. s \in ServentType /\ s.sock = sv[i].sock /\ s.status = "protocol" /\ s.type = "direct"
      /\ s.type \in Clients
  BY <1>3, <1>4 DEF ServentType, Clients
<1>6. sv' = [sv EXCEPT ![i] = s] /\ UNCHANGED <<count, live, mgr, quit, fails>>
  BY <1>2, <1>4 DEF RequestStream
<1>7. Phase(thr'[c].pc, s) /\ thr'[c].pc \notin ServerPcs
  BY <1>2, <1>5 DEF Phase, ServerPcs, StreamPcs
<1> QED
  BY <1>1, <1>2, <1>3, <1>5, <1>6, <1>7, KeepStep

LEMMA ConnectBase == ASSUME Base, NEW c \in Conns, Connect(c) PROVE Base'
<1>1. PICK i : i = thr[c].sv
  OBVIOUS
<1>2. /\ thr[c].pc = "wait" /\ UNCHANGED <<count, live, private, mgr, quit, fails>>
      /\ Go(c, "stream") /\ "stream" \in ClientPcs /\ "stream" \notin ServerPcs
  BY DEF Connect, At, ClientPcs, StreamPcs, ServerPcs
<1>3. sv[i] \in ServentType /\ i # Server /\ sv[i].type = "direct" /\ "direct" \in Clients
  BY <1>1, <1>2, Own DEF ThreadOK, ClientPcs, StreamPcs, Phase, Clients
<1>4. PICK s : s = [sv[i] EXCEPT !.status = "connected"]
  OBVIOUS
<1>5. s \in ServentType /\ s.sock = sv[i].sock /\ s.status = "connected" /\ s.type = sv[i].type
  BY <1>3, <1>4 DEF ServentType
<1>6. sv' = [sv EXCEPT ![i] = s]
  BY <1>1, <1>4 DEF Connect
<1>7. thr' \in [Conns -> ThreadType] /\ OnlyThread(c) /\ thr'[c].pc = "stream" /\ thr'[c].sv = i
  BY <1>1, <1>2, GoType DEF Base
<1>8. private' \in [Conns -> BOOLEAN] /\ Phase("stream", s)
  BY <1>2, <1>3, <1>5, Types DEF Base, Phase
<1> QED
  BY <1>1, <1>2, <1>3, <1>5, <1>6, <1>7, <1>8, KeepStep

LEMMA RamfsCallTypes ==
  ASSUME TypeOK, NEW c \in Conns, RamfsCall(c)
  PROVE  /\ thr[c].pc \in StreamPcs /\ thr'[c].pc \in StreamPcs /\ thr'[c].sv = thr[c].sv
         /\ OnlyThread(c) /\ thr' \in [Conns -> ThreadType]
         /\ thr'[c].steady = thr[c].steady /\ \A d \in Conns : d # c => thr'[d] = thr[d]
<1>1. PICK pc \in StreamPcs : Go(c, pc)
  BY DEF RamfsCall
<1>2. pc \in ServerPcs \cup ClientPcs \cup KillPcs
  BY DEF ClientPcs
<1>3. /\ thr' \in [Conns -> ThreadType] /\ OnlyThread(c) /\ thr'[c].pc = pc
      /\ thr'[c].sv = thr[c].sv
  BY <1>1, <1>2, GoType
<1>4. thr'[c].steady = thr[c].steady /\ \A d \in Conns : d # c => thr'[d] = thr[d]
  BY <1>1, Types DEF Go, ThreadType
<1>5. thr[c].pc \in StreamPcs
  BY DEF RamfsCall, StreamPcs
<1> QED
  BY <1>1, <1>3, <1>4, <1>5

LEMMA RamfsCallBase == ASSUME Base, NEW c \in Conns, RamfsCall(c) PROVE Base'
<1>1. /\ thr[c].pc \in StreamPcs /\ thr'[c].pc \in StreamPcs /\ thr'[c].sv = thr[c].sv
      /\ OnlyThread(c) /\ thr' \in [Conns -> ThreadType]
  BY RamfsCallTypes DEF Base
<1>2. thr'[c].pc # "host"
  BY <1>1 DEF StreamPcs
<1>3. UNCHANGED <<count, sv, live, private, mgr, quit, fails>>
  BY DEF RamfsCall
<1> QED
  BY <1>1, <1>2, <1>3, GoStep

LEMMA EndStreamTypes ==
  ASSUME Base, NEW c \in Conns, EndStream(c), NEW i, i = thr[c].sv
  PROVE  /\ thr[c].pc \in StreamPcs /\ sv' = [sv EXCEPT ![i].status = "closing"]
         /\ thr' \in [Conns -> ThreadType] /\ OnlyThread(c)
         /\ thr'[c].pc = "kill" /\ thr'[c].sv = i /\ thr'[c].steady = thr[c].steady
         /\ \A d \in Conns : d # c =>
              thr'[d].n = thr[d].n /\ thr'[d].steady = thr[d].steady \ {i}
<1>1. thr[c].pc \in StreamPcs /\ sv' = [sv EXCEPT ![i].status = "closing"]
  BY DEF EndStream, At, StreamPcs
<1>2. thr' = [d \in Conns |-> IF d = c THEN [thr[d] EXCEPT !.pc = "kill"]
                              ELSE [thr[d] EXCEPT !.steady = thr[d].steady \ {i}]]
  BY DEF EndStream
<1>3. ASSUME NEW d \in Conns, d # c
      PROVE  /\ thr'[d] \in ThreadType /\ thr'[d].pc = thr[d].pc /\ thr'[d].sv = thr[d].sv
             /\ thr'[d].at = thr[d].at
             /\ thr'[d].n = thr[d].n /\ thr'[d].steady = thr[d].steady \ {i}
  <2>1. PICK S : S = thr[d].steady \ {i}
    OBVIOUS
  <2>2. thr[d] \in ThreadType
    BY Types DEF Base
  <2>3. S \in SUBSET Index
    BY <2>1, <2>2 DEF ThreadType
  <2>4. thr'[d] = [thr[d] EXCEPT !.steady = S]
    BY <1>2, <1>3, <2>1
  <2> QED
    BY <2>1, <2>2, <2>3, <2>4 DEF ThreadType
<1>4. /\ thr'[c] \in ThreadType /\ thr'[c].pc = "kill" /\ thr'[c].sv = i
      /\ thr'[c].steady = thr[c].steady
  <2>1. thr[c] \in ThreadType
    BY Types DEF Base
  <2>2. thr'[c] = [thr[c] EXCEPT !.pc = "kill"]
    BY <1>2
  <2> QED
    BY <2>1, <2>2 DEF ThreadType, KillPcs
<1>5. thr' \in [Conns -> ThreadType]
  <2>1. \A d \in Conns : thr'[d] \in ThreadType
    BY <1>3, <1>4
  <2>2. thr' = [d \in Conns |-> thr'[d]]
    BY <1>2
  <2> QED
    BY <2>1, <2>2
<1> QED
  BY <1>1, <1>3, <1>4, <1>5 DEF OnlyThread

LEMMA EndStreamBase == ASSUME Base, NEW c \in Conns, EndStream(c) PROVE Base'
<1>1. PICK i : i = thr[c].sv
  OBVIOUS
<1>2. /\ thr[c].pc \in StreamPcs /\ sv' = [sv EXCEPT ![i].status = "closing"]
      /\ thr' \in [Conns -> ThreadType] /\ OnlyThread(c)
      /\ thr'[c].pc = "kill" /\ thr'[c].sv = i
  BY <1>1, EndStreamTypes
<1>3. sv[i] \in ServentType /\ i # Server /\ sv[i].type \in Clients
  BY <1>1, <1>2, Own DEF ThreadOK, ClientPcs, StreamPcs
<1>4. PICK s : s = [sv[i] EXCEPT !.status = "closing"]
  OBVIOUS
<1>5. s \in ServentType /\ s.sock = sv[i].sock /\ s.status = "closing" /\ s.type \in Clients
  BY <1>3, <1>4 DEF ServentType
<1>6. sv' = [sv EXCEPT ![i] = s] /\ UNCHANGED <<count, live, private, mgr, quit, fails>>
  BY <1>2, <1>4 DEF EndStream
<1>7. private' \in [Conns -> BOOLEAN]
  BY <1>6, Types DEF Base
<1>8. Phase("kill", s) /\ "kill" \notin ServerPcs /\ "kill" \notin ClientPcs
  BY <1>5 DEF Phase, ServerPcs, ClientPcs, StreamPcs
<1>9. thr[c].pc \notin {"none", "reset"}
  BY <1>2 DEF StreamPcs
<1> QED
  BY <1>1, <1>2, <1>3, <1>5, <1>6, <1>7, <1>8, <1>9, KeepStep, ZenonT(60)

LEMMA KillStatusBase == ASSUME Base, NEW c \in Conns, KillStatus(c) PROVE Base'
<1>1. PICK i : i = thr[c].sv
  OBVIOUS
<1>2. /\ thr[c].pc = "kill" /\ UNCHANGED <<count, live, private, mgr, quit, fails>>
      /\ Go(c, "close") /\ "close" \in KillPcs /\ "close" \notin ServerPcs
      /\ "close" \notin ClientPcs
  BY DEF KillStatus, At, KillPcs, ServerPcs, ClientPcs, StreamPcs
<1>3. /\ sv[i] \in ServentType
      /\ IF i = Server THEN sv[i].type = "server" ELSE sv[i].type \in Clients
  BY <1>1, <1>2, Own
<1>4. PICK s : s = [sv[i] EXCEPT !.active = FALSE, !.status = "closing"]
  OBVIOUS
<1>5. /\ s \in ServentType /\ s.sock = sv[i].sock /\ s.status = "closing" /\ s.type = sv[i].type
      /\ ~s.active
  BY <1>3, <1>4 DEF ServentType
<1>6. sv' = [sv EXCEPT ![i] = s]
  BY <1>1, <1>4 DEF KillStatus
<1>7. thr' \in [Conns -> ThreadType] /\ OnlyThread(c) /\ thr'[c].pc = "close" /\ thr'[c].sv = i
  BY <1>1, <1>2, GoType DEF Base
<1>8. private' \in [Conns -> BOOLEAN] /\ Phase("close", s)
  BY <1>2, <1>5, Types DEF Base, Phase, StreamPcs
<1> QED
  BY <1>1, <1>2, <1>3, <1>5, <1>6, <1>7, <1>8, KeepStep

LEMMA KillCloseBase == ASSUME Base, NEW c \in Conns, KillClose(c) PROVE Base'
<1>1. PICK i : i = thr[c].sv
  OBVIOUS
<1>2. thr[c].pc = "close" /\ UNCHANGED <<count, mgr, quit, fails>> /\ Go(c, "reset")
      /\ "reset" \in KillPcs /\ "reset" \notin ServerPcs /\ "reset" \notin ClientPcs
  BY DEF KillClose, At, KillPcs, ServerPcs, ClientPcs, StreamPcs
<1>3. /\ i \in Index /\ i \in Listed /\ sv[i] \in ServentType /\ sv[i].sock = c /\ ~sv[i].active
      /\ IF i = Server THEN sv[i].type = "server" ELSE sv[i].type \in Clients
      /\ i # Server => sv[i].status = "closing"
      /\ ServentOK(i)
  BY <1>1, <1>2, Own DEF ThreadOK, Phase
<1>4. PICK s : s = [sv[i] EXCEPT !.sock = Null]
  OBVIOUS
<1>5. /\ s \in ServentType /\ s.sock = Null /\ s.status = sv[i].status /\ s.type = sv[i].type
      /\ ~s.active
  BY <1>3, <1>4 DEF ServentType
<1>6. sv' = [sv EXCEPT ![i] = s] /\ live' = live \ {c}
  BY <1>1, <1>3, <1>4 DEF KillClose
<1>7. thr' \in [Conns -> ThreadType] /\ OnlyThread(c) /\ thr'[c].pc = "reset" /\ thr'[c].sv = i
  BY <1>1, <1>2, GoType DEF Base
<1>8. private' \in [Conns -> BOOLEAN]
  BY Types DEF Base, KillClose
<1>9. sv'[i] = s /\ UNCHANGED Listed
  BY <1>2, <1>3, <1>6, Types DEF Base, Listed
<1>10. ThreadOK(c)'
  <2>1. i # Server => Phase("reset", s)
    BY <1>3, <1>5 DEF Phase, StreamPcs
  <2> QED
    BY <1>2, <1>3, <1>5, <1>7, <1>9, <2>1 DEF ThreadOK
<1>11. ServentOK(i)'
  <2>1. s.status # "free"
    <3>1. sv[i].type # "none"
      BY <1>3 DEF Clients
    <3> QED
      BY <1>3, <1>5, <3>1 DEF ServentOK, Blank
  <2>2. s.type \in IF i = Server THEN {"none", "server"} ELSE Clients \cup {"none"}
    BY <1>3, <1>5
  <2> QED
    BY <1>3, <1>5, <1>9, <2>1, <2>2 DEF ServentOK
<1> QED
  BY <1>1, <1>2, <1>3, <1>5, <1>6, <1>7, <1>8, <1>10, <1>11, OwnStep

LEMMA BlankTypes ==
  /\ [Blank EXCEPT !.status = "free"] \in ServentType /\ Blank \in ServentType
  /\ Blank.sock = Null /\ ~Blank.active /\ Blank.status = "none" /\ Blank.type = "none"
  /\ [Blank EXCEPT !.status = "free"].sock = Null /\ ~[Blank EXCEPT !.status = "free"].active
  /\ [Blank EXCEPT !.status = "free"].type = "none" /\ [Blank EXCEPT !.status = "free"].status = "free"
BY DEF Blank, ServentType

LEMMA KillResetBase == ASSUME Base, NEW c \in Conns, KillReset(c) PROVE Base'
<1>1. PICK i : i = thr[c].sv
  OBVIOUS
<1>2. /\ thr[c].pc = "reset" /\ UNCHANGED <<count, live, private, mgr, quit, fails>>
      /\ thr' = [thr EXCEPT ![c] = NoThread]
  BY DEF KillReset, At
<1>3. /\ i \in Index /\ i \in Listed /\ sv[i] \in ServentType /\ ServentOK(i)
      /\ IF i = Server THEN sv[i].type = "server" ELSE sv[i].type \in Clients
      /\ c \notin live
  BY <1>1, <1>2, Own DEF Base, Using
<1>4. PICK s : s = IF i = Server THEN sv[i] ELSE [Blank EXCEPT !.status = "free"]
  OBVIOUS
<1>5. s \in ServentType /\ sv' = [sv EXCEPT ![i] = s]
  <2>1. CASE i = Server
    <3>1. sv' = sv
      BY <1>1, <1>3, <2>1 DEF KillReset
    <3> QED
      BY <1>3, <1>4, <2>1, <3>1, Types DEF Base
  <2>2. CASE i # Server
    <3>1. sv[i].type # "server"
      BY <1>3, <2>2 DEF Clients
    <3>2. sv' = [sv EXCEPT ![i] = [Blank EXCEPT !.status = "free"]]
      BY <1>1, <3>1 DEF KillReset
    <3> QED
      BY <1>4, <2>2, <3>2, BlankTypes
  <2> QED
    BY <2>1, <2>2
<1>6. /\ thr' \in [Conns -> ThreadType] /\ thr'[c].pc = "none"
      /\ \A d \in Conns : d # c => thr'[d] = thr[d]
  <2>1. NoThread \in ThreadType /\ NoThread.pc = "none"
    <3>1. NoThread.pc = "none"
      BY DEF NoThread
    <3>2. NoThread \in ThreadType
      BY ThreadTypes, <1>3 DEF ServerPcs
    <3> QED
      BY <3>1, <3>2
  <2> HIDE DEF NoThread
  <2> QED
    BY <1>2, <2>1, Types DEF Base
<1>7. sv'[i] = s /\ UNCHANGED Listed
  BY <1>2, <1>3, <1>5, Types DEF Base, Listed
<1>8. ThreadOK(c)'
  BY <1>6 DEF ThreadOK
<1>9. ServentOK(i)'
  <2>1. CASE i = Server
    <3>1. sv[i].sock # Null => sv[i].sock # c
      BY <1>3 DEF ServentOK
    <3>2. sv[i].sock \in Conns \cup {Null}
      BY <1>3 DEF ServentType
    <3> QED
      BY <1>2, <1>3, <1>4, <1>6, <1>7, <2>1, <3>1, <3>2 DEF ServentOK, Using
  <2>2. CASE i # Server
    BY <1>3, <1>4, <1>7, <2>2, BlankTypes DEF ServentOK
  <2> QED
    BY <2>1, <2>2
<1>10. i = Server => s = sv[i] /\ s.type = "server"
  BY <1>3, <1>4
<1>11. private' \in [Conns -> BOOLEAN] /\ OnlyThread(c)
  BY <1>2, <1>6, Types DEF Base, OnlyThread
<1> QED
  BY <1>1, <1>2, <1>3, <1>5, <1>6, <1>8, <1>9, <1>10, <1>11, OwnStep

-----------------------------------------------------------------------------
(* A servent that no thread uses is taken: it becomes s, and a thread is   *)
(* started for it, or not.  Threads may go from accept back to their loop. *)
GoesOn(e) ==
  /\ thr'[e].sv = thr[e].sv /\ thr'[e].at = thr[e].at
  /\ thr'[e].pc = thr[e].pc \/ (thr[e].pc = "accept" /\ thr'[e].pc = "loop")

Unneeded(i, s) ==
  \A e \in Conns : thr[e].pc # "none" /\ thr[e].sv = i =>
    i = Server /\ thr[e].pc = "reset" /\ s.type = "server"

(* The list up to servent i.                                               *)
ListedTo(i) ==
  /\ count' \in 0 .. MaxServents /\ count <= count' /\ i <= count'
  /\ \A j \in Index : j # i /\ j > count => j > count'

LEMMA AllocStep ==
  ASSUME Base, NEW i \in Index, ListedTo(i),
         NEW s \in ServentType, sv' = [sv EXCEPT ![i] = s], Unneeded(i, s), ServentOK(i)',
         NEW D \in SUBSET Conns, \A d, e \in D : d = e, live' = live \cup D,
         \A d \in D : /\ thr[d].pc = "none" /\ thr'[d].sv = i
                      /\ Using(d)' /\ ThreadOK(d)',
         \A e \in Conns \ D : GoesOn(e), thr' \in [Conns -> ThreadType],
         mgr.pc # "start", mgr'.pc # "start",
         mgr' \in [pc : {"start", "test", "body", "exit"}, active : BOOLEAN],
         UNCHANGED <<private, quit>>, fails' \in 0 .. MaxFails
  PROVE  Base'
<1>1. /\ sv'[i] = s /\ \A j \in Index : j # i => sv'[j] = sv[j]
      /\ Listed \subseteq Listed' /\ \A j \in Index : j # i /\ j \notin Listed => j \notin Listed'
  <2>1. \A j \in Index : j \in Int /\ j >= 1
    BY DEF Index
  <2>2. count \in Nat /\ count' \in Nat /\ count <= count'
    BY Types DEF Base, ListedTo
  <2> QED
    BY <2>1, <2>2, Types DEF Base, Listed, ListedTo
<1>2. TypeOK'
  <2>1. sv' \in [Index -> ServentType] /\ live' \in SUBSET Conns /\ count' \in 0 .. MaxServents
    BY Types DEF Base, ListedTo
  <2>2. /\ private' \in [Conns -> BOOLEAN]
        /\ quit' \in [pc : {"idle", "walk", "destroyed"}, at : 0 .. MaxServents]
    BY Types DEF Base
  <2> QED
    BY <2>1, <2>2, TypesOK
<1>3. ASSUME NEW d \in Conns \ D PROVE ThreadOK(d)'
  <2>1. GoesOn(d)
    BY <1>3
  <2>2. SUFFICES ASSUME thr[d].pc # "none" PROVE ThreadOK(d)'
    BY <2>1 DEF ThreadOK, GoesOn
  <2>3. PICK j \in Index : j = thr[d].sv
    BY Types DEF Base, ThreadType
  <2>4. ThreadOK(d)
    BY DEF Base
  <2>5. CASE j = i
    <3>1. i = Server /\ thr[d].pc = "reset" /\ s.type = "server"
      BY <2>2, <2>3, <2>5 DEF Unneeded
    <3>2. thr'[d].pc = "reset" /\ thr'[d].sv = i /\ i \in Listed
      BY <2>1, <2>2, <2>3, <2>4, <2>5, <3>1 DEF GoesOn, ThreadOK
    <3> QED
      BY <1>1, <3>1, <3>2 DEF ThreadOK, ServerPcs, ClientPcs, StreamPcs
  <2>6. CASE j # i
    <3>1. thr[d].pc = "accept" => j = Server
      BY <2>3, <2>4 DEF ThreadOK, ServerPcs
    <3>2. sv'[j] = sv[j] /\ thr'[d].sv = j /\ thr'[d].at = thr[d].at /\ j \in Listed'
      BY <1>1, <2>1, <2>2, <2>3, <2>4, <2>6 DEF ThreadOK, GoesOn
    <3>3. CASE thr'[d].pc = thr[d].pc
      BY <2>2, <2>3, <2>4, <3>2, <3>3 DEF ThreadOK
    <3>4. CASE thr[d].pc = "accept" /\ thr'[d].pc = "loop"
      BY <2>3, <2>4, <3>1, <3>2, <3>4 DEF ThreadOK, ServerPcs, ClientPcs, StreamPcs
    <3> QED
      BY <2>1, <3>3, <3>4 DEF GoesOn
  <2> QED
    BY <2>5, <2>6
<1>4. \A d \in Conns : (Using(d) => Using(d)') /\ (thr[d].pc # "none" => thr'[d].sv = thr[d].sv)
  BY DEF Using, GoesOn
<1>5. ASSUME NEW j \in Index, j # i PROVE ServentOK(j)'
  <2>1. ServentOK(j) /\ sv'[j] = sv[j]
    BY <1>1, <1>5 DEF Base
  <2>2. sv[j].sock # Null => sv[j].sock \in Conns /\ thr[sv[j].sock].pc # "none"
    BY <2>1, Types DEF Base, ServentType, ServentOK, Using
  <2> QED
    BY <1>1, <1>4, <1>5, <2>1, <2>2 DEF ServentOK
<1>6. \A d \in live' : Using(d)'
  BY <1>4, Types DEF Base
<1>7. OneThread'
  <2>1. ASSUME NEW c \in Conns, NEW d \in Conns, thr'[c].pc # "none", thr'[d].pc # "none",
               thr'[c].sv = thr'[d].sv, thr'[c].sv # Server
        PROVE  c = d
    <3>1. \A e \in Conns \ D : thr'[e].pc # "none" => thr[e].pc # "none" /\ thr'[e].sv = thr[e].sv
      BY DEF GoesOn
    <3>2. CASE c \in D \/ d \in D
      BY <2>1, <3>1, <3>2 DEF Unneeded
    <3>3. CASE c \notin D /\ d \notin D
      BY <2>1, <3>1, <3>3 DEF Base, OneThread
    <3> QED
      BY <3>2, <3>3
  <2> QED
    BY <2>1 DEF OneThread
<1>8. WalksInv'
  <2>1. count \in Nat /\ count # 0 /\ count' \in Nat /\ count <= count' /\ quit.at <= count /\ quit.at \in Nat
    BY Types DEF Base, WalksInv, ListedTo
  <2> QED
    BY <2>1 DEF WalksInv
<1>9. (\A d \in Conns : ThreadOK(d)') /\ (\A j \in Index : ServentOK(j)')
  BY <1>3, <1>5
<1> QED
  BY <1>2, <1>6, <1>7, <1>8, <1>9 DEF Base

LEMMA LowestUnused ==
  ASSUME TypeOK, Unused # {}
  PROVE  Min(Unused) \in Unused
<1>1. Unused \in SUBSET Nat
  BY DEF Unused, Conns
<1>2. \E m \in Unused : \A x \in Unused : m <= x
  BY <1>1, SmallestElement
<1> QED
  BY <1>2 DEF Min

(* The manager's servent without a socket: only threads past their kill(). *)
LEMMA ServerUnneeded ==
  ASSUME Base, sv[Server].sock = Null, NEW s, s.type = "server" \/ sv[Server].type = "none"
  PROVE  Unneeded(Server, s)
<1> SUFFICES ASSUME NEW e \in Conns, thr[e].pc # "none", thr[e].sv = Server
             PROVE  thr[e].pc = "reset" /\ s.type = "server"
  BY DEF Unneeded
<1>1. sv[Server].type = "server" /\ (thr[e].pc # "reset" => sv[Server].sock = e) /\ e # Null
  BY Own
<1> QED
  BY <1>1

LEMMA InitServerBase == ASSUME Base, InitServer PROVE Base'
<1>1. PICK d : d = Min(Unused)
  OBVIOUS
<1>2. d \in Conns /\ d \notin live /\ thr[d].pc = "none"
  BY <1>1, LowestUnused DEF InitServer, Base, Unused, At
<1>3. PICK s : s = [status |-> "wait", type |-> "server", sock |-> d, active |-> TRUE]
  OBVIOUS
<1>4. s \in ServentType /\ s.status = "wait" /\ s.type = "server" /\ s.sock = d
  BY <1>2, <1>3 DEF ServentType
<1>5. /\ sv' = [sv EXCEPT ![Server] = s] /\ live' = live \cup {d}
      /\ thr' = [thr EXCEPT ![d] = Thread("begin", Server)]
      /\ sv[Server].sock = Null /\ mgr.pc = "body" /\ mgr' = [mgr EXCEPT !.pc = "test"]
      /\ UNCHANGED <<count, private, quit, fails>>
  BY <1>1, <1>3 DEF InitServer
<1>6. Server \in Index /\ Server \in Listed /\ count \in Nat
  <2>1. count \in Nat /\ count # 0
    BY <1>5, Types DEF Base, WalksInv
  <2> QED
    BY <2>1, Types DEF Base, Listed, Server
<1>7. ListedTo(Server)
  BY <1>5, <1>6, Types DEF Base, ListedTo, Listed, Index
<1>8. PICK t : t = Thread("begin", Server)
  OBVIOUS
<1>9. t \in ThreadType /\ t.pc = "begin" /\ t.sv = Server
  BY <1>6, <1>8, ThreadTypes DEF ServerPcs
<1>10. /\ thr' \in [Conns -> ThreadType] /\ thr'[d] = t
       /\ \A e \in Conns \ {d} : thr'[e] = thr[e]
  BY <1>2, <1>5, <1>8, <1>9, Types DEF Base
<1>11. sv'[Server] = s /\ UNCHANGED Listed
  BY <1>5, <1>6, Types DEF Base, Listed
<1>12. ThreadOK(d)' /\ Using(d)'
  BY <1>2, <1>4, <1>5, <1>6, <1>9, <1>10, <1>11 DEF ThreadOK, Using, ServerPcs, ClientPcs, StreamPcs, Server
<1>13. ServentOK(Server)'
  <2>1. d # Null /\ d \in live'
    BY <1>2, <1>5 DEF Conns, Null
  <2> QED
    BY <1>4, <1>5, <1>6, <1>9, <1>10, <1>11, <1>12, <2>1 DEF ServentOK
<1>14. Unneeded(Server, s)
  BY <1>4, <1>5, ServerUnneeded
<1>15. \A e \in Conns \ {d} : GoesOn(e)
  BY <1>10 DEF GoesOn
<1>16. /\ mgr' \in [pc : {"start", "test", "body", "exit"}, active : BOOLEAN] /\ mgr'.pc # "start"
       /\ fails' \in 0 .. MaxFails
  BY <1>5, Types DEF Base
<1>17. PICK D : D = {d}
  OBVIOUS
<1>18. /\ D \in SUBSET Conns /\ live' = live \cup D /\ \A e, f \in D : e = f
       /\ \A e \in Conns \ D : GoesOn(e)
       /\ \A e \in D : /\ thr[e].pc = "none" /\ thr'[e].sv = Server
                       /\ Using(e)' /\ ThreadOK(e)'
  BY <1>2, <1>5, <1>9, <1>10, <1>12, <1>15, <1>17
<1>19. UNCHANGED <<private, quit>>
  BY <1>5
<1> QED
  BY <1>4, <1>5, <1>6, <1>7, <1>10, <1>13, <1>14, <1>16, <1>18, <1>19, AllocStep

LEMMA KilledTypes ==
  ASSUME NEW s \in ServentType
  PROVE  /\ Killed(s) \in ServentType /\ Killed(s).sock = Null /\ ~Killed(s).active
         /\ s.type = "server" => Killed(s).type = "server" /\ Killed(s).status = "closing"
         /\ s.type # "server" => Killed(s) = [Blank EXCEPT !.status = "free"]
<1>1. CASE s.type = "server"
  <2>1. Killed(s) = [s EXCEPT !.status = "closing", !.sock = Null, !.active = FALSE]
    BY <1>1 DEF Killed
  <2> QED
    BY <1>1, <2>1 DEF ServentType
<1>2. CASE s.type # "server"
  BY <1>2, BlankTypes DEF Killed
<1> QED
  BY <1>1, <1>2

LEMMA InitServerFailsBase == ASSUME Base, InitServerFails PROVE Base'
<1>1. /\ sv[Server].sock = Null /\ mgr.pc = "body" /\ mgr' = [mgr EXCEPT !.pc = "test"]
      /\ UNCHANGED <<count, live, private, thr, quit>> /\ fails < MaxFails /\ fails' = fails + 1
  BY DEF InitServerFails
<1>2. Server \in Index /\ Server \in Listed /\ count \in Nat
  <2>1. count \in Nat /\ count # 0
    BY <1>1, Types DEF Base, WalksInv
  <2> QED
    BY <2>1, Types DEF Base, Listed, Server
<1>3. PICK type \in {sv[Server].type, "server"} :
        sv' = [sv EXCEPT ![Server] = Killed([sv[Server] EXCEPT !.type = type])]
  BY DEF InitServerFails
<1>4. PICK r : r = [sv[Server] EXCEPT !.type = type]
  OBVIOUS
<1>5. sv[Server] \in ServentType /\ sv[Server].type \in {"none", "server"}
  BY <1>2, Types DEF Base, ServentOK
<1>6. r \in ServentType /\ r.type = type /\ type \in {"none", "server"}
  BY <1>3, <1>4, <1>5 DEF ServentType
<1>7. PICK s : s = Killed(r)
  OBVIOUS
<1>8. /\ s \in ServentType /\ s.sock = Null /\ ~s.active
      /\ type = "server" => s.type = "server" /\ s.status = "closing"
      /\ type # "server" => s = [Blank EXCEPT !.status = "free"]
  BY <1>6, <1>7, KilledTypes
<1>9. sv' = [sv EXCEPT ![Server] = s]
  BY <1>3, <1>4, <1>7
<1>10. Unneeded(Server, s)
  <2>1. s.type = "server" \/ sv[Server].type = "none"
    BY <1>3, <1>5, <1>8
  <2> QED
    BY <1>1, <2>1, ServerUnneeded
<1>11. sv'[Server] = s /\ UNCHANGED Listed
  BY <1>1, <1>2, <1>9, Types DEF Base, Listed
<1>12. ServentOK(Server)'
  BY <1>2, <1>6, <1>8, <1>11, BlankTypes DEF ServentOK
<1>13. ListedTo(Server)
  BY <1>1, <1>2, Types DEF Base, ListedTo, Listed, Index
<1>14. \A e \in Conns \ {} : GoesOn(e)
  BY <1>1 DEF GoesOn
<1>15. /\ mgr' \in [pc : {"start", "test", "body", "exit"}, active : BOOLEAN] /\ mgr'.pc # "start"
       /\ fails' \in 0 .. MaxFails /\ thr' \in [Conns -> ThreadType]
  BY <1>1, Types, LimitsAssumption DEF Base
<1>16. PICK D : D = {}
  OBVIOUS
<1>17. /\ D \in SUBSET Conns /\ live' = live \cup D /\ \A d, e \in D : d = e
       /\ \A e \in Conns \ D : GoesOn(e)
       /\ \A d \in D : /\ thr[d].pc = "none" /\ thr'[d].sv = Server
                       /\ Using(d)' /\ ThreadOK(d)'
  BY <1>1, <1>14, <1>16
<1> QED
  BY <1>1, <1>2, <1>8, <1>9, <1>10, <1>12, <1>13, <1>15, <1>17, AllocStep

(* What the server's thread gets from allocServent is nobody's.            *)
LEMMA Allocated ==
  ASSUME Base, NEW c \in Conns, At(c, "accept"), NEW i \in Allocs, count' = Max({count, i})
  PROVE  /\ i \in Index /\ i # Server /\ ListedTo(i)
         /\ sv[i].type = "none" /\ ~sv[i].active /\ ~Streaming(i)
         /\ \A e \in Conns : thr[e].pc # "none" => thr[e].sv # i
         /\ i \in Listed' /\ mgr.pc # "start"
<1>1. /\ thr[c].sv = Server /\ sv[Server].type = "server" /\ Server \in Listed
  BY Own DEF At, ThreadOK, ServerPcs
<1>2. count \in Nat /\ count <= MaxServents /\ count # 0
  BY <1>1, Types DEF Base, Listed, Server
<1>3. \/ i \in Listed /\ sv[i].status = "free"
      \/ i = count + 1 /\ count < MaxServents
  BY DEF Allocs
<1>4. i \in Index /\ i \in Nat
  <2>1. MaxServents \in Nat
    BY LimitsAssumption
  <2> QED
    BY <1>2, <1>3, <2>1 DEF Listed, Index
<1>5. sv[i] \in {Blank, [Blank EXCEPT !.status = "free"]}
  <2>1. ServentOK(i)
    BY <1>4 DEF Base
  <2>2. CASE i \in Listed /\ sv[i].status = "free"
    BY <2>1, <2>2 DEF ServentOK
  <2>3. CASE i = count + 1
    <3>1. i \notin Listed
      BY <1>2, <2>3 DEF Listed
    <3> QED
      BY <2>1, <3>1 DEF ServentOK
  <2> QED
    BY <1>3, <2>2, <2>3
<1>6. sv[i].type = "none" /\ ~sv[i].active
  BY <1>5, BlankTypes
<1>7. \A e \in Conns : thr[e].pc # "none" => thr[e].sv # i
  BY <1>6, Own DEF Clients
<1>8. i # Server
  BY <1>1, <1>6
<1>9. count' = IF count < i THEN i ELSE count
  BY <1>2, <1>4, MaxOfTwo
<1>10. ListedTo(i) /\ i \in Listed'
  <2>1. MaxServents \in Nat /\ \A j \in Index : j \in Nat /\ j >= 1
    BY LimitsAssumption DEF Index
  <2>2. i <= count \/ (i = count + 1 /\ i <= MaxServents)
    BY <1>2, <1>3, <2>1 DEF Listed
  <2>3. count' \in 0 .. MaxServents /\ count <= count' /\ i <= count'
    BY <1>2, <1>4, <1>9, <2>1, <2>2
  <2>4. \A j \in Index : j # i /\ j > count => j > count'
    BY <1>2, <1>4, <1>9, <2>1, <2>2
  <2> QED
    BY <1>4, <2>1, <2>3, <2>4 DEF ListedTo, Listed
<1>11. mgr.pc # "start"
  BY <1>2 DEF Base, WalksInv
<1>12. ~Streaming(i)
  BY <1>6 DEF Streaming
<1> QED
  BY <1>4, <1>6, <1>7, <1>8, <1>10, <1>11, <1>12

LEMMA AcceptTypes ==
  ASSUME Base, NEW c \in Conns, At(c, "accept"), NEW i \in Allocs, count' = Max({count, i}),
         NEW d \in Conns, d \notin live, thr[d].pc = "none",
         sv' = [sv EXCEPT ![i] = [status |-> "protocol", type |-> "incoming",
                                  sock |-> d, active |-> TRUE]],
         thr' = [thr EXCEPT ![c].pc = "loop", ![d] = Thread("request", i)]
  PROVE  /\ c # d /\ i \in Index /\ thr' \in [Conns -> ThreadType]
         /\ thr'[d] = Thread("request", i)
         /\ thr'[c] = [thr[c] EXCEPT !.pc = "loop"]
         /\ \A e \in Conns : e # c /\ e # d => thr'[e] = thr[e]
         /\ sv'[i] \in ServentType /\ sv'[i].status = "protocol" /\ sv'[i].type = "incoming"
         /\ sv'[i].sock = d /\ sv'[i].active
         /\ \A j \in Index : j # i => sv'[j] = sv[j]
<1>1. c # d /\ thr[c] \in ThreadType
  BY Own DEF At
<1>2. i \in Index
  BY Allocated
<1>3. PICK u : u = [thr[c] EXCEPT !.pc = "loop"]
  OBVIOUS
<1>4. PICK t : t = Thread("request", i)
  OBVIOUS
<1>5. thr' = [[thr EXCEPT ![c] = u] EXCEPT ![d] = t]
  BY <1>3, <1>4
<1>6. u \in ThreadType
  BY <1>1, <1>3 DEF ThreadType, ServerPcs
<1>7. t \in ThreadType
  BY <1>2, <1>4, ThreadTypes DEF ClientPcs, StreamPcs
<1>8. thr' \in [Conns -> ThreadType] /\ thr'[d] = t /\ thr'[c] = u
      /\ \A e \in Conns : e # c /\ e # d => thr'[e] = thr[e]
  BY <1>1, <1>5, <1>6, <1>7, Types DEF Base
<1>9. PICK s : s = [status |-> "protocol", type |-> "incoming", sock |-> d, active |-> TRUE]
  OBVIOUS
<1>10. /\ s \in ServentType /\ s.status = "protocol" /\ s.type = "incoming"
       /\ s.sock = d /\ s.active
  BY <1>9 DEF ServentType, Clients
<1>11. sv'[i] = s /\ \A j \in Index : j # i => sv'[j] = sv[j]
  BY <1>2, <1>9, Types DEF Base
<1> QED
  BY <1>1, <1>2, <1>3, <1>4, <1>8, <1>10, <1>11

LEMMA AcceptBase == ASSUME Base, NEW c \in Conns, Accept(c) PROVE Base'
<1>1. PICK d : d = Min(Unused)
  OBVIOUS
<1>2. d \in Conns /\ d \notin live /\ thr[d].pc = "none" /\ d # Null
  BY <1>1, LowestUnused DEF Accept, Base, Unused, At, Conns, Null
<1>3. PICK i \in Allocs :
        /\ count' = Max({count, i})
        /\ sv' = [sv EXCEPT ![i] = [status |-> "protocol", type |-> "incoming",
                                    sock |-> d, active |-> TRUE]]
        /\ live' = live \cup {d}
        /\ thr' = [thr EXCEPT ![c].pc = "loop", ![d] = Thread("request", i)]
  BY <1>1 DEF Accept
<1>4. At(c, "accept") /\ UNCHANGED <<private, mgr, quit, fails>>
  BY DEF Accept
<1>5. /\ c # d /\ i \in Index /\ thr' \in [Conns -> ThreadType]
      /\ thr'[d] = Thread("request", i)
      /\ thr'[c] = [thr[c] EXCEPT !.pc = "loop"]
      /\ \A e \in Conns : e # c /\ e # d => thr'[e] = thr[e]
      /\ sv'[i] \in ServentType /\ sv'[i].status = "protocol" /\ sv'[i].type = "incoming"
      /\ sv'[i].sock = d /\ sv'[i].active
      /\ \A j \in Index : j # i => sv'[j] = sv[j]
  BY <1>2, <1>3, <1>4, AcceptTypes
<1>6. /\ i # Server /\ ListedTo(i) /\ i \in Listed' /\ mgr.pc # "start"
      /\ \A e \in Conns : thr[e].pc # "none" => thr[e].sv # i
  BY <1>3, <1>4, Allocated
<1>7. thr'[d].pc = "request" /\ thr'[d].sv = i
  <2>1. i \in Index /\ "request" \in ServerPcs \cup ClientPcs \cup KillPcs
    BY <1>5 DEF ClientPcs, StreamPcs
  <2>2. Thread("request", i).pc = "request" /\ Thread("request", i).sv = i
    BY <2>1, ThreadTypes
  <2> QED
    BY <1>5, <2>2
<1>8. ThreadOK(d)' /\ Using(d)'
  <2>1. d \in live'
    BY <1>3
  <2> QED
    BY <1>5, <1>6, <1>7, <2>1 DEF ThreadOK, Using, Phase, ServerPcs, StreamPcs, Clients
<1>9. ServentOK(i)'
  <2>1. d \in live'
    BY <1>3
  <2> QED
    BY <1>2, <1>5, <1>6, <1>7, <1>8, <2>1 DEF ServentOK, Clients
<1>10. PICK s : s = [status |-> "protocol", type |-> "incoming", sock |-> d, active |-> TRUE]
  OBVIOUS
<1>11. s \in ServentType /\ sv' = [sv EXCEPT ![i] = s]
  BY <1>2, <1>3, <1>10 DEF ServentType, Clients
<1>12. Unneeded(i, s)
  BY <1>6 DEF Unneeded
<1>13. \A e \in Conns \ {d} : GoesOn(e)
  <2>1. thr[c] \in ThreadType /\ thr[c].pc = "accept"
    BY <1>4, Own DEF At
  <2>2. thr'[c].sv = thr[c].sv /\ thr'[c].at = thr[c].at /\ thr'[c].pc = "loop"
    BY <1>5, <2>1 DEF ThreadType
  <2> QED
    BY <1>5, <2>1, <2>2 DEF GoesOn
<1>14. PICK D : D = {d}
  OBVIOUS
<1>15. /\ D \in SUBSET Conns /\ live' = live \cup D /\ \A e, f \in D : e = f
       /\ \A e \in Conns \ D : GoesOn(e)
       /\ \A e \in D : /\ thr[e].pc = "none" /\ thr'[e].sv = i
                       /\ Using(e)' /\ ThreadOK(e)'
  BY <1>2, <1>3, <1>7, <1>8, <1>13, <1>14
<1>16. /\ mgr' \in [pc : {"start", "test", "body", "exit"}, active : BOOLEAN] /\ mgr'.pc # "start"
       /\ fails' \in 0 .. MaxFails /\ UNCHANGED <<private, quit>>
  BY <1>4, <1>6, Types DEF Base
<1> QED
  BY <1>5, <1>6, <1>9, <1>11, <1>12, <1>15, <1>16, AllocStep

LEMMA AcceptFailsTypes ==
  ASSUME Base, NEW c \in Conns, AcceptFails(c)
  PROVE  /\ At(c, "accept") /\ UNCHANGED <<live, private, mgr, quit, fails>>
         /\ thr' \in [Conns -> ThreadType] /\ OnlyThread(c)
         /\ thr'[c] = [thr[c] EXCEPT !.pc = "loop"]
         /\ \A e \in Conns : e # c => thr'[e] = thr[e]
         /\ \E i \in Allocs :
              /\ count' = Max({count, i})
              /\ sv' = [sv EXCEPT ![i] = [Blank EXCEPT !.status = "free"]]
<1>1. At(c, "accept") /\ UNCHANGED <<live, private, mgr, quit, fails>> /\ Go(c, "loop")
  BY DEF AcceptFails
<1>2. PICK u : u = [thr[c] EXCEPT !.pc = "loop"]
  OBVIOUS
<1>3. thr' = [thr EXCEPT ![c] = u]
  BY <1>1, <1>2 DEF Go
<1>4. thr[c] \in ThreadType
  BY <1>1, Own DEF At
<1>5. u \in ThreadType
  BY <1>2, <1>4 DEF ThreadType, ServerPcs
<1>6. /\ thr' \in [Conns -> ThreadType] /\ thr'[c] = u
      /\ \A e \in Conns : e # c => thr'[e] = thr[e]
  BY <1>3, <1>5, Types DEF Base
<1>7. Killed(Blank) = [Blank EXCEPT !.status = "free"]
  BY BlankTypes, KilledTypes
<1> QED
  BY <1>1, <1>2, <1>6, <1>7 DEF AcceptFails, OnlyThread

LEMMA AcceptFailsBase == ASSUME Base, NEW c \in Conns, AcceptFails(c) PROVE Base'
<1>1. /\ At(c, "accept") /\ UNCHANGED <<live, private, mgr, quit, fails>>
      /\ thr' \in [Conns -> ThreadType]
      /\ thr'[c] = [thr[c] EXCEPT !.pc = "loop"]
      /\ \A e \in Conns : e # c => thr'[e] = thr[e]
  BY AcceptFailsTypes
<1>2. PICK s : s = [Blank EXCEPT !.status = "free"]
  OBVIOUS
<1>3. PICK i \in Allocs : count' = Max({count, i}) /\ sv' = [sv EXCEPT ![i] = s]
  BY <1>2, AcceptFailsTypes
<1>4. /\ s \in ServentType /\ s.sock = Null /\ ~s.active /\ s.type = "none"
  BY <1>2, BlankTypes
<1>5. /\ i \in Index /\ i # Server /\ ListedTo(i) /\ i \in Listed' /\ mgr.pc # "start"
      /\ \A e \in Conns : thr[e].pc # "none" => thr[e].sv # i
  BY <1>1, <1>3, Allocated
<1>6. sv'[i] = s
  BY <1>3, <1>5, Types DEF Base
<1>7. ServentOK(i)'
  BY <1>2, <1>4, <1>5, <1>6 DEF ServentOK
<1>8. Unneeded(i, s)
  BY <1>5 DEF Unneeded
<1>9. \A e \in Conns : GoesOn(e)
  <2>1. thr[c] \in ThreadType /\ thr[c].pc = "accept"
    BY <1>1, Own DEF At
  <2>2. thr'[c].sv = thr[c].sv /\ thr'[c].at = thr[c].at /\ thr'[c].pc = "loop"
    BY <1>1, <2>1 DEF ThreadType
  <2> QED
    BY <1>1, <2>1, <2>2 DEF GoesOn
<1>10. PICK D : D = {}
  OBVIOUS
<1>11. /\ D \in SUBSET Conns /\ live' = live \cup D /\ \A e, f \in D : e = f
       /\ \A e \in Conns \ D : GoesOn(e)
       /\ \A e \in D : /\ thr[e].pc = "none" /\ thr'[e].sv = i
                       /\ Using(e)' /\ ThreadOK(e)'
  BY <1>1, <1>9, <1>10
<1>12. /\ mgr' \in [pc : {"start", "test", "body", "exit"}, active : BOOLEAN] /\ mgr'.pc # "start"
       /\ fails' \in 0 .. MaxFails /\ UNCHANGED <<private, quit>>
  BY <1>1, <1>5, Types DEF Base
<1> QED
  BY <1>1, <1>3, <1>4, <1>5, <1>7, <1>8, <1>11, <1>12, AllocStep

LEMMA InitBase == ASSUME Init PROVE Base
<1>1. Server \in Index /\ Listed = {} /\ 0 \in 0 .. MaxServents /\ 0 \in 0 .. MaxFails
  BY LimitsAssumption DEF Init, Server, Index, Listed
<1>2. NoThread \in ThreadType
  BY <1>1, ThreadTypes DEF ServerPcs
<1>3. NoThread.pc = "none"
  BY DEF NoThread
<1>4. TypeOK
  <2>1. /\ sv \in [Index -> ServentType] /\ thr \in [Conns -> ThreadType]
        /\ private \in [Conns -> BOOLEAN] /\ live \in SUBSET Conns
    BY <1>2, BlankTypes DEF Init, Index
  <2>2. /\ count \in 0 .. MaxServents /\ fails \in 0 .. MaxFails
        /\ mgr \in [pc : {"start", "test", "body", "exit"}, active : BOOLEAN]
        /\ quit \in [pc : {"idle", "walk", "destroyed"}, at : 0 .. MaxServents]
    BY <1>1 DEF Init
  <2> QED
    BY <2>1, <2>2 DEF TypeOK, ServentType, ThreadType, Index
<1>5. (\A c \in Conns : thr[c].pc = "none") /\ (\A i \in Index : sv[i] = Blank)
  BY <1>3 DEF Init, Index
<1>6. (\A c \in Conns : ThreadOK(c)) /\ (\A i \in Index : ServentOK(i))
  BY <1>5, BlankTypes DEF ThreadOK, ServentOK
<1>7. OneThread /\ WalksInv /\ \A c \in live : Using(c)
  BY <1>5 DEF OneThread, WalksInv, Init
<1> QED
  BY <1>4, <1>6, <1>7 DEF Base

(* The manager and quit leave the threads and what the servents have.      *)
LEMMA OutsideStep ==
  ASSUME Base, count' \in 0 .. MaxServents, count <= count', Listed \subseteq Listed',
         sv' \in [Index -> ServentType],
         \A i \in Index : sv'[i] = sv[i] \/ (i \in Listed /\ sv'[i] = [sv[i] EXCEPT !.active = FALSE]),
         UNCHANGED <<live, private, thr, fails>>,
         mgr' \in [pc : {"start", "test", "body", "exit"}, active : BOOLEAN],
         quit' \in [pc : {"idle", "walk", "destroyed"}, at : 0 .. MaxServents],
         WalksInv'
  PROVE  Base'
<1>1. TypeOK'
  BY Types, TypesOK DEF Base
<1>2. \A i \in Index : /\ sv'[i].status = sv[i].status /\ sv'[i].type = sv[i].type
                       /\ sv'[i].sock = sv[i].sock /\ (sv'[i].active => sv[i].active)
                       /\ (~sv[i].active => sv'[i] = sv[i])
                       /\ (i \notin Listed => sv'[i] = sv[i])
  <2> SUFFICES ASSUME NEW i \in Index
               PROVE  /\ sv'[i].status = sv[i].status /\ sv'[i].type = sv[i].type
                      /\ sv'[i].sock = sv[i].sock /\ (sv'[i].active => sv[i].active)
                      /\ (~sv[i].active => sv'[i] = sv[i])
                      /\ (i \notin Listed => sv'[i] = sv[i])
    OBVIOUS
  <2>1. sv[i] \in ServentType
    BY Types DEF Base
  <2>2. CASE sv'[i] = sv[i]
    BY <2>2
  <2>3. CASE i \in Listed /\ sv'[i] = [sv[i] EXCEPT !.active = FALSE]
    <3>1. PICK s : s = sv[i]
      OBVIOUS
    <3>2. PICK r : r = [s EXCEPT !.active = FALSE]
      OBVIOUS
    <3>3. /\ r.status = s.status /\ r.type = s.type /\ r.sock = s.sock /\ ~r.active
      BY <2>1, <3>1, <3>2 DEF ServentType
    <3>4. ~s.active => r = s
      <4>1. ~s.active => s.active = FALSE
        BY <2>1, <3>1 DEF ServentType
      <4> QED
        BY <2>1, <3>1, <3>2, <4>1 DEF ServentType
    <3> QED
      BY <2>3, <3>1, <3>2, <3>3, <3>4
  <2> QED
    BY <2>2, <2>3
<1>3. ASSUME NEW c \in Conns PROVE ThreadOK(c)'
  <2>1. ThreadOK(c) /\ thr[c].sv \in Index
    BY Types DEF Base, ThreadType
  <2>2. PICK i \in Index : i = thr[c].sv
    BY <2>1
  <2>3. Phase(thr[c].pc, sv[i]) => Phase(thr[c].pc, sv'[i])
    BY <1>2 DEF Phase
  <2> QED
    BY <1>2, <2>1, <2>2, <2>3 DEF ThreadOK
<1>4. ASSUME NEW i \in Index PROVE ServentOK(i)'
  <2>1. ServentOK(i)
    BY DEF Base
  <2>2. sv[i].status = "free" => ~sv[i].active
    BY <2>1, BlankTypes DEF ServentOK
  <2>3. i \notin Listed' => i \notin Listed
    OBVIOUS
  <2> QED
    BY <1>2, <2>1, <2>2, <2>3 DEF ServentOK, Using
<1>5. OneThread' /\ (\A c \in live' : Using(c)')
  BY DEF Base, OneThread, Using
<1> QED
  BY <1>1, <1>3, <1>4, <1>5 DEF Base

LEMMA MgrBase == ASSUME Base, MgrStart \/ MgrTest \/ MgrSleep PROVE Base'
<1>1. count \in Nat /\ count <= MaxServents /\ MaxServents \in Nat \ {0} /\ sv \in [Index -> ServentType]
      /\ mgr \in [pc : {"start", "test", "body", "exit"}, active : BOOLEAN]
      /\ quit \in [pc : {"idle", "walk", "destroyed"}, at : 0 .. MaxServents] /\ WalksInv
  BY Types, LimitsAssumption DEF Base
<1>2. CASE MgrStart
  <2>1. count' = 1 /\ count = 0 /\ mgr'.pc = "test" /\ UNCHANGED <<sv, live, private, thr, quit, fails>>
        /\ mgr' \in [pc : {"start", "test", "body", "exit"}, active : BOOLEAN]
    BY <1>1, <1>2 DEF MgrStart, Server, WalksInv
  <2>2. WalksInv' /\ Listed \subseteq Listed' /\ count' \in 0 .. MaxServents /\ count <= count'
    BY <1>1, <2>1 DEF WalksInv, Listed
  <2> QED
    BY <1>1, <2>1, <2>2, OutsideStep
<1>3. CASE MgrTest \/ MgrSleep
  <2>1. /\ UNCHANGED <<count, sv, live, private, thr, quit, fails>> /\ mgr.pc # "start" /\ mgr'.pc # "start"
        /\ mgr' \in [pc : {"start", "test", "body", "exit"}, active : BOOLEAN]
    BY <1>1, <1>3 DEF MgrTest, MgrSleep
  <2>2. WalksInv' /\ Listed \subseteq Listed' /\ count' \in 0 .. MaxServents /\ count <= count'
    BY <1>1, <2>1 DEF WalksInv, Listed
  <2> QED
    BY <1>1, <2>1, <2>2, OutsideStep
<1> QED
  BY <1>2, <1>3

LEMMA QuitBase == ASSUME Base, Quit \/ QuitNext \/ QuitRamfs PROVE Base'
<1>1. count \in Nat /\ count <= MaxServents /\ MaxServents \in Nat \ {0} /\ sv \in [Index -> ServentType]
      /\ mgr \in [pc : {"start", "test", "body", "exit"}, active : BOOLEAN]
      /\ quit \in [pc : {"idle", "walk", "destroyed"}, at : 0 .. MaxServents] /\ WalksInv
  BY Types, LimitsAssumption DEF Base
<1>2. CASE Quit
  <2>1. /\ UNCHANGED <<count, sv, live, private, thr, fails>> /\ mgr'.pc = mgr.pc
        /\ mgr' \in [pc : {"start", "test", "body", "exit"}, active : BOOLEAN]
        /\ quit' \in [pc : {"idle", "walk", "destroyed"}, at : 0 .. MaxServents] /\ quit'.at = count
    <3>1. UNCHANGED <<count, sv, live, private, thr, fails>>
      BY <1>2 DEF Quit
    <3>2. mgr' = [mgr EXCEPT !.active = FALSE] /\ quit' = [pc |-> "walk", at |-> count]
      BY <1>2 DEF Quit
    <3>3. mgr'.pc = mgr.pc /\ mgr' \in [pc : {"start", "test", "body", "exit"}, active : BOOLEAN]
      BY <1>1, <3>2
    <3>4. quit' \in [pc : {"idle", "walk", "destroyed"}, at : 0 .. MaxServents] /\ quit'.at = count
      BY <1>1, <3>2
    <3> QED
      BY <3>1, <3>3, <3>4
  <2>2. WalksInv' /\ Listed \subseteq Listed' /\ count' \in 0 .. MaxServents /\ count <= count'
    BY <1>1, <2>1 DEF WalksInv, Listed
  <2> QED
    BY <1>1, <2>1, <2>2, OutsideStep
<1>3. CASE QuitNext
  <2>1. /\ UNCHANGED <<count, live, private, thr, mgr, fails>> /\ quit.at > 0
        /\ quit' = [quit EXCEPT !.at = quit.at - 1]
    BY <1>3 DEF QuitNext
  <2>2. PICK i : i = quit.at
    OBVIOUS
  <2>3. i \in Index /\ i \in Listed /\ quit.at \in Nat
    BY <1>1, <2>1, <2>2 DEF WalksInv, Listed, Index
  <2>4. PICK s : s = [sv[i] EXCEPT !.active = FALSE]
    OBVIOUS
  <2>5. s \in ServentType /\ sv' = [sv EXCEPT ![i] = s]
    <3>1. sv[i] \in ServentType
      BY <1>1, <2>3
    <3> QED
      BY <1>3, <2>2, <2>4, <3>1 DEF QuitNext, ServentType
  <2>6. /\ sv' \in [Index -> ServentType]
        /\ \A j \in Index : sv'[j] = sv[j] \/ (j \in Listed /\ sv'[j] = [sv[j] EXCEPT !.active = FALSE])
    BY <1>1, <2>3, <2>4, <2>5
  <2>7. /\ quit' \in [pc : {"idle", "walk", "destroyed"}, at : 0 .. MaxServents] /\ quit'.at <= count
    <3>1. quit.at - 1 \in 0 .. MaxServents /\ quit.at - 1 <= count
      BY <1>1, <2>1, <2>3 DEF WalksInv
    <3> QED
      BY <1>1, <2>1, <3>1
  <2>8. WalksInv' /\ Listed \subseteq Listed' /\ count' \in 0 .. MaxServents /\ count <= count'
    BY <1>1, <2>1, <2>7 DEF WalksInv, Listed
  <2> QED
    BY <1>1, <2>1, <2>6, <2>7, <2>8, OutsideStep
<1>4. CASE QuitRamfs
  <2>1. /\ UNCHANGED <<count, sv, live, private, thr, mgr, fails>>
        /\ quit' = [quit EXCEPT !.pc = "destroyed"]
    BY <1>4 DEF QuitRamfs
  <2>2. quit' \in [pc : {"idle", "walk", "destroyed"}, at : 0 .. MaxServents] /\ quit'.at = quit.at
    BY <1>1, <2>1
  <2>3. WalksInv' /\ Listed \subseteq Listed' /\ count' \in 0 .. MaxServents /\ count <= count'
    BY <1>1, <2>1, <2>2 DEF WalksInv, Listed
  <2> QED
    BY <1>1, <2>1, <2>2, <2>3, OutsideStep
<1> QED
  BY <1>2, <1>3, <1>4

LEMMA NextBase == ASSUME Base, [Next]_vars PROVE Base'
<1>1. CASE Manager
  BY <1>1, MgrBase, InitServerBase, InitServerFailsBase DEF Manager
<1>2. CASE \E c \in Conns : Step(c) \/ Disconnect(c) \/ Answer(c)
  <2>1. PICK c \in Conns : Step(c) \/ Disconnect(c) \/ Answer(c)
    BY <1>2
  <2>2. CASE KillStep(c)
    BY <2>2, KillStatusBase, KillCloseBase, KillResetBase DEF KillStep
  <2>3. CASE ServerStep(c)
    BY <2>3, ServerBeginBase, GoBase, AcceptBase, AcceptFailsBase DEF ServerStep
  <2>4. CASE ClientStep(c)
    <3>1. CASE ReadSegment(c) \/ Leave(c) \/ Answered(c)
      BY <3>1, StreamSteps, RamfsCallBase, EndStreamBase
    <3> QED
      BY <2>4, <3>1, GoBase, RequestBase, ConnectBase DEF ClientStep
  <2>5. CASE Disconnect(c) \/ Answer(c)
    BY <2>5, StreamSteps, RamfsCallBase, EndStreamBase
  <2> QED
    BY <2>1, <2>2, <2>3, <2>4, <2>5 DEF Step
<1>3. CASE Quit \/ QuitNext \/ QuitRamfs
  BY <1>3, QuitBase
<1>4. CASE UNCHANGED vars
  <2>1. UNCHANGED <<count, sv, live, private, thr, mgr, quit, fails>>
    BY <1>4 DEF vars
  <2>2. WalksInv' /\ Listed \subseteq Listed' /\ count' \in 0 .. MaxServents /\ count <= count'
    BY <2>1, Types DEF Base, WalksInv, Listed
  <2> QED
    BY <2>1, <2>2, Types, OutsideStep DEF Base
<1> QED
  BY <1>1, <1>2, <1>3, <1>4 DEF Next

-----------------------------------------------------------------------------
(* The limit on clients.                                                   *)
LEMMA ServedFinite ==
  ASSUME Base
  PROVE  IsFiniteSet(Served) /\ Cardinality(Served) \in Nat /\ NumActive = Cardinality(Served)
<1>1. count \in Nat /\ 1 \in Int /\ count \in Int
  BY Types DEF Base
<1>2. IsFiniteSet(1 .. count)
  BY <1>1, FS_Interval
<1>3. IsFiniteSet(Served)
  <2>1. Served \subseteq 1 .. count
    BY DEF Served, Listed
  <2> QED
    BY <1>2, <2>1, FS_Subset
<1>4. Cardinality(Served) \in Nat
  BY <1>3, FS_CardinalityType
<1>5. Served = {i \in Listed : /\ sv[i].active /\ sv[i].sock # Null
                               /\ sv[i].type \in Clients}
  BY Types DEF Base, ServentOK, Served
<1> QED
  BY <1>3, <1>4, <1>5 DEF NumActive

(* No client more is served, and no other thread has got to accept.        *)
LEMMA NoMore ==
  ASSUME Base, BoundInv, Served' \subseteq Served,
         \A c \in Conns : thr'[c].pc = "accept" => thr[c].pc = "accept"
  PROVE  BoundInv'
<1>1. /\ IsFiniteSet(Served) /\ Cardinality(Served) \in Nat
  BY ServedFinite
<1>2. Cardinality(Served') \in Nat /\ Cardinality(Served') <= Cardinality(Served)
  <2>1. IsFiniteSet(Served')
    BY <1>1, FS_Subset
  <2>2. Cardinality(Served') <= Cardinality(Served)
    BY <1>1, FS_Subset
  <2> QED
    BY <2>1, <2>2, FS_CardinalityType
<1>3. MaxServIn \in Nat
  BY LimitsAssumption
<1>4. Cardinality(Served') <= MaxServIn
  BY <1>1, <1>2, <1>3 DEF BoundInv
<1>5. ASSUME NEW c \in Conns, thr'[c].pc = "accept" PROVE Cardinality(Served') < MaxServIn
  <2>1. Cardinality(Served) < MaxServIn
    BY <1>5 DEF BoundInv, At
  <2> QED
    BY <1>1, <1>2, <1>3, <2>1
<1> QED
  BY <1>4, <1>5 DEF BoundInv, At

(* The thread of a servent that stays with it, and serves no more.         *)
LEMMA NoMoreStep ==
  ASSUME Base, BoundInv, UNCHANGED Listed, NEW i \in Index,
         \A j \in Index : j # i => sv'[j] = sv[j],
         sv'[i].active /\ sv'[i].type \in Clients => sv[i].active /\ sv[i].type \in Clients,
         \A c \in Conns : thr'[c].pc = "accept" => thr[c].pc = "accept"
  PROVE  BoundInv'
<1>1. Served' \subseteq Served
  BY Types DEF Base, Served
<1> QED
  BY <1>1, NoMore

LEMMA ManagerBound == ASSUME Base, BoundInv, Manager PROVE BoundInv'
<1>1. Server \in Index /\ sv \in [Index -> ServentType]
  BY Types DEF Base
<1>2. CASE MgrStart
  <2>1. count = 0 /\ UNCHANGED <<sv, thr>> /\ count' = Server
    BY <1>2 DEF MgrStart, Base, WalksInv
  <2>2. Listed' = {Server} /\ Server \notin Listed
    BY <2>1 DEF Listed, Server
  <2>3. ~sv[Server].active
    BY <1>1, <2>2, BlankTypes DEF Base, ServentOK
  <2>4. Served' \subseteq Served
    BY <2>1, <2>2, <2>3 DEF Served
  <2> QED
    BY <2>1, <2>4, NoMore
<1>3. CASE MgrTest \/ MgrSleep
  <2>1. UNCHANGED <<count, sv, thr>>
    BY <1>3 DEF MgrTest, MgrSleep
  <2>2. Served' \subseteq Served
    BY <2>1 DEF Served, Listed
  <2> QED
    BY <2>1, <2>2, NoMore
<1>4. CASE InitServer
  <2>1. PICK d : d = Min(Unused)
    OBVIOUS
  <2>2. d \in Conns
    BY <1>4, <2>1, LowestUnused DEF InitServer, Base, Unused
  <2>3. PICK s : s = [status |-> "wait", type |-> "server", sock |-> d, active |-> TRUE]
    OBVIOUS
  <2>4. PICK t : t = Thread("begin", Server)
    OBVIOUS
  <2>5. sv' = [sv EXCEPT ![Server] = s] /\ thr' = [thr EXCEPT ![d] = t] /\ UNCHANGED count
    BY <1>4, <2>1, <2>3, <2>4 DEF InitServer
  <2>6. t.pc = "begin" /\ s.type = "server" /\ s.type \notin Clients
    BY <1>1, <2>3, <2>4, ThreadTypes DEF ServerPcs, Clients
  <2>7. UNCHANGED Listed /\ sv'[Server] = s /\ \A j \in Index : j # Server => sv'[j] = sv[j]
    BY <1>1, <2>5 DEF Listed
  <2>8. \A c \in Conns : thr'[c].pc = "accept" => thr[c].pc = "accept"
    BY <2>5, <2>6, Types DEF Base
  <2> QED
    BY <1>1, <2>6, <2>7, <2>8, NoMoreStep
<1>5. CASE InitServerFails
  <2>1. PICK type \in {sv[Server].type, "server"} :
          sv' = [sv EXCEPT ![Server] = Killed([sv[Server] EXCEPT !.type = type])]
    BY <1>5 DEF InitServerFails
  <2>2. PICK r : r = [sv[Server] EXCEPT !.type = type]
    OBVIOUS
  <2>3. r \in ServentType
    BY <1>1, <2>1, <2>2 DEF ServentType
  <2>4. ~Killed(r).active
    BY <2>3, KilledTypes
  <2>5. sv'[Server] = Killed(r) /\ \A j \in Index : j # Server => sv'[j] = sv[j]
    BY <1>1, <2>1, <2>2
  <2>6. UNCHANGED <<count, thr>>
    BY <1>5 DEF InitServerFails
  <2>7. UNCHANGED Listed
    BY <2>6 DEF Listed
  <2> QED
    BY <1>1, <2>4, <2>5, <2>6, <2>7, NoMoreStep
<1> QED
  BY <1>2, <1>3, <1>4, <1>5 DEF Manager

LEMMA ServerTestBound == ASSUME Base, BoundInv, NEW c \in Conns, ServerTest(c) PROVE BoundInv'
<1>1. UNCHANGED <<count, sv>> /\ At(c, "loop")
  BY DEF ServerTest
<1>2. UNCHANGED Served
  BY <1>1 DEF Served, Listed
<1>3. CASE MayAccept
  <2>1. Cardinality(Served) < MaxServIn
    BY <1>3, ServedFinite DEF MayAccept
  <2>2. Cardinality(Served) \in Nat /\ MaxServIn \in Nat
    BY ServedFinite, LimitsAssumption
  <2> QED
    BY <1>2, <2>1, <2>2 DEF BoundInv
<1>4. CASE Go(c, "kill")
  <2>1. \A d \in Conns : thr'[d].pc = "accept" => thr[d].pc = "accept"
    BY <1>4, GoType DEF Base, OnlyThread, KillPcs
  <2> QED
    BY <1>2, <2>1, NoMore
<1> QED
  BY <1>3, <1>4 DEF ServerTest

LEMMA AcceptBound == ASSUME Base, BoundInv, NEW c \in Conns, Accept(c) PROVE BoundInv'
<1>1. PICK d : d = Min(Unused)
  OBVIOUS
<1>2. d \in Conns /\ d \notin live /\ thr[d].pc = "none" /\ d # Null
  BY <1>1, LowestUnused DEF Accept, Base, Unused, At, Conns, Null
<1>3. PICK i \in Allocs :
        /\ count' = Max({count, i})
        /\ sv' = [sv EXCEPT ![i] = [status |-> "protocol", type |-> "incoming",
                                    sock |-> d, active |-> TRUE]]
        /\ thr' = [thr EXCEPT ![c].pc = "loop", ![d] = Thread("request", i)]
  BY <1>1 DEF Accept
<1>4. At(c, "accept")
  BY DEF Accept
<1>5. /\ c # d /\ i \in Index /\ thr' \in [Conns -> ThreadType]
      /\ thr'[d] = Thread("request", i)
      /\ thr'[c] = [thr[c] EXCEPT !.pc = "loop"]
      /\ \A e \in Conns : e # c /\ e # d => thr'[e] = thr[e]
      /\ sv'[i] \in ServentType /\ sv'[i].status = "protocol" /\ sv'[i].type = "incoming"
      /\ sv'[i].sock = d /\ sv'[i].active
      /\ \A j \in Index : j # i => sv'[j] = sv[j]
  BY <1>2, <1>3, <1>4, AcceptTypes
<1>6. ListedTo(i)
  BY <1>3, <1>4, Allocated
<1>7. Served' \subseteq Served \cup {i}
  <2>1. \A j \in Listed' : j # i => j \in Listed
    <3>1. count \in Nat /\ count' \in 0 .. MaxServents /\ MaxServents \in Nat
      BY <1>6, Types, LimitsAssumption DEF Base, ListedTo
    <3>2. \A j \in Listed' : j \in Index /\ j \in Nat /\ j >= 1 /\ j <= count'
      BY <3>1 DEF Listed, Index
    <3>3. \A j \in Listed' : j # i => ~(j > count)
      BY <1>6, <3>1, <3>2 DEF ListedTo
    <3> QED
      BY <3>1, <3>2, <3>3 DEF Listed
  <2> QED
    BY <1>5, <2>1, Types DEF Base, Served
<1>8. IsFiniteSet(Served) /\ Cardinality(Served) \in Nat /\ Cardinality(Served) < MaxServIn
      /\ MaxServIn \in Nat
  BY <1>4, ServedFinite, LimitsAssumption DEF BoundInv
<1>9. Cardinality(Served') <= MaxServIn
  <2>1. /\ IsFiniteSet(Served \cup {i})
        /\ Cardinality(Served \cup {i}) = IF i \in Served THEN Cardinality(Served)
                                          ELSE Cardinality(Served) + 1
    BY <1>8, FS_AddElement
  <2>2. Cardinality(Served') <= Cardinality(Served \cup {i}) /\ IsFiniteSet(Served')
    BY <1>7, <2>1, FS_Subset
  <2>3. Cardinality(Served') \in Nat
    BY <2>2, FS_CardinalityType
  <2> QED
    BY <1>8, <2>1, <2>2, <2>3
<1>10. \A e \in Conns : thr'[e].pc # "accept"
  <2>1. \A e \in Conns : thr[e].pc = "accept" => e = c
    <3>1. \A e \in Conns : thr[e].pc = "accept" => thr[e].sv = Server /\ sv[Server].sock = e
      BY Own DEF ThreadOK, ServerPcs
    <3> QED
      BY <1>4, <3>1 DEF At
  <2>2. thr'[d].pc = "request"
    <3>1. "request" \in ClientPcs
      BY DEF ClientPcs, StreamPcs
    <3> QED
      BY <1>5, <3>1, ThreadTypes
  <2>3. thr'[c].pc = "loop"
    <3>1. thr[c] \in ThreadType
      BY <1>4, Own DEF At
    <3> QED
      BY <1>5, <3>1 DEF ThreadType
  <2> QED
    BY <1>5, <2>1, <2>2, <2>3
<1> QED
  BY <1>9, <1>10 DEF BoundInv, At

LEMMA AcceptFailsBound == ASSUME Base, BoundInv, NEW c \in Conns, AcceptFails(c) PROVE BoundInv'
<1>1. /\ At(c, "accept")
      /\ thr'[c] = [thr[c] EXCEPT !.pc = "loop"]
      /\ \A e \in Conns : e # c => thr'[e] = thr[e]
  BY AcceptFailsTypes
<1>2. PICK i \in Allocs : count' = Max({count, i}) /\ sv' = [sv EXCEPT ![i] = [Blank EXCEPT !.status = "free"]]
  BY AcceptFailsTypes
<1>3. i \in Index /\ ListedTo(i)
  BY <1>1, <1>2, Allocated
<1>4. ~sv'[i].active /\ \A j \in Index : j # i => sv'[j] = sv[j]
  BY <1>2, <1>3, BlankTypes, Types DEF Base
<1>5. \A j \in Listed' : j # i => j \in Listed
  <2>1. count \in Nat /\ count' \in 0 .. MaxServents /\ MaxServents \in Nat
    BY <1>3, Types, LimitsAssumption DEF Base, ListedTo
  <2>2. \A j \in Listed' : j \in Index /\ j \in Nat /\ j >= 1 /\ j <= count'
    BY <2>1 DEF Listed, Index
  <2>3. \A j \in Listed' : j # i => ~(j > count)
    BY <1>3, <2>1, <2>2 DEF ListedTo
  <2> QED
    BY <2>1, <2>2, <2>3 DEF Listed
<1>6. Served' \subseteq Served
  BY <1>4, <1>5, Types DEF Base, Served
<1>7. \A e \in Conns : thr'[e].pc = "accept" => thr[e].pc = "accept"
  BY <1>1 DEF At
<1> QED
  BY <1>6, <1>7, NoMore

(* The steps of a thread on its own servent.                               *)
LEMMA OwnBound ==
  ASSUME Base, BoundInv, NEW c \in Conns,
         \/ KillStep(c) \/ ServerBegin(c) \/ AcceptNone(c)
         \/ Serve(c) \/ RequestStream(c) \/ Count(c) \/ CountHost(c) \/ CountDone(c)
         \/ Connect(c) \/ GiveUp(c) \/ RamfsCall(c) \/ EndStream(c)
  PROVE  BoundInv'
<1>1. PICK i : i = thr[c].sv
  OBVIOUS
<1>2. /\ thr[c].pc # "none" /\ UNCHANGED count
  BY DEF KillStep, KillStatus, KillClose, KillReset, ServerBegin, AcceptNone, Serve,
         RequestStream, Count, CountHost, CountDone, Connect, GiveUp, RamfsCall, EndStream, At
<1>3. /\ i \in Index /\ sv[i] \in ServentType /\ sv \in [Index -> ServentType] /\ UNCHANGED Listed
      /\ IF i = Server THEN sv[i].type = "server" ELSE sv[i].type \in Clients
  BY <1>1, <1>2, Own, Types DEF Base, Listed
<1>4. \A d \in Conns : thr'[d].pc = "accept" => thr[d].pc = "accept"
  <2>1. CASE \E pc \in ServerPcs \cup ClientPcs \cup KillPcs : pc # "accept" /\ Go(c, pc)
    BY <2>1, GoType DEF Base, OnlyThread
  <2>2. CASE Serve(c) \/ AcceptNone(c) \/ GiveUp(c) \/ ServerBegin(c) \/ Connect(c)
             \/ KillStatus(c) \/ KillClose(c)
    <3>1. "loop" \in ServerPcs /\ "stream" \in ClientPcs /\ {"kill", "close", "reset"} \subseteq KillPcs
      BY DEF ServerPcs, ClientPcs, StreamPcs, KillPcs
    <3> QED
      BY <2>1, <2>2, <3>1 DEF Serve, AcceptNone, GiveUp, ServerBegin, Connect, KillStatus, KillClose
  <2>3. CASE Count(c) \/ CountHost(c) \/ CountDone(c)
    BY <2>3, CountTypes DEF OnlyThread, Waits
  <2>4. CASE RequestStream(c)
    BY <2>4, RequestTypes DEF OnlyThread
  <2>5. CASE EndStream(c)
    BY <2>5, EndStreamTypes DEF OnlyThread
  <2>6. CASE KillReset(c)
    <3>1. thr' = [thr EXCEPT ![c] = NoThread] /\ NoThread.pc = "none"
      BY <2>6 DEF KillReset, NoThread
    <3> QED
      BY <3>1, Types DEF Base
  <2>7. CASE RamfsCall(c)
    BY <2>7, RamfsCallTypes DEF Base, StreamPcs
  <2> QED
    BY <2>2, <2>3, <2>4, <2>5, <2>6, <2>7 DEF KillStep
<1>5. /\ \A j \in Index : j # i => sv'[j] = sv[j]
      /\ sv'[i].active /\ sv'[i].type \in Clients => sv[i].active /\ sv[i].type \in Clients
  <2>1. CASE UNCHANGED sv
    BY <2>1
  <2>2. CASE ServerBegin(c)
    BY <1>1, <1>3, <2>2 DEF ServerBegin, ServentType
  <2>3. CASE Connect(c)
    BY <1>1, <1>3, <2>3 DEF Connect, ServentType
  <2>4. CASE EndStream(c)
    BY <1>1, <1>3, <2>4 DEF EndStream, ServentType
  <2>5. CASE KillClose(c)
    BY <1>1, <1>3, <2>5 DEF KillClose, ServentType
  <2>6. CASE KillStatus(c)
    BY <1>1, <1>3, <2>6 DEF KillStatus, ServentType
  <2>7. CASE KillReset(c)
    <3>1. sv' = sv \/ sv' = [sv EXCEPT ![i] = [Blank EXCEPT !.status = "free"]]
      BY <1>1, <2>7 DEF KillReset
    <3> QED
      BY <1>3, <2>1, <3>1, BlankTypes
  <2>8. CASE RequestStream(c)
    <3>1. sv' = [sv EXCEPT ![i].type = "direct"] /\ thr[c].pc = "request"
      BY <1>1, <2>8, RequestTypes
    <3>2. i # Server
      BY <1>1, <1>2, <3>1, Own DEF ThreadOK, ClientPcs, StreamPcs
    <3> QED
      BY <1>3, <3>1, <3>2 DEF ServentType
  <2> QED
    BY <2>1, <2>2, <2>3, <2>4, <2>5, <2>6, <2>7, <2>8
       DEF KillStep, AcceptNone, Serve, Count, CountHost, CountDone, GiveUp, RamfsCall
<1> QED
  BY <1>3, <1>4, <1>5, NoMoreStep

LEMMA QuitBound == ASSUME Base, BoundInv, Quit \/ QuitNext \/ QuitRamfs \/ UNCHANGED vars PROVE BoundInv'
<1>1. UNCHANGED <<count, thr>>
  BY DEF Quit, QuitNext, QuitRamfs, vars
<1>2. \A i \in Index : sv'[i].active /\ sv'[i].type \in Clients => sv[i].active /\ sv[i].type \in Clients
  <2>1. CASE sv' = sv
    BY <2>1
  <2>2. CASE QuitNext
    <3>1. sv' = [sv EXCEPT ![quit.at].active = FALSE]
      BY <2>2 DEF QuitNext
    <3> QED
      BY <3>1, Types DEF Base, ServentType
  <2> QED
    BY <2>1, <2>2 DEF Quit, QuitRamfs, vars
<1>3. Served' \subseteq Served
  BY <1>1, <1>2, Types DEF Base, Served, Listed
<1> QED
  BY <1>1, <1>3, NoMore

LEMMA NextBound == ASSUME Base, BoundInv, [Next]_vars PROVE BoundInv'
<1>1. CASE \E c \in Conns : Step(c) \/ Disconnect(c) \/ Answer(c)
  <2>1. PICK c \in Conns : Step(c) \/ Disconnect(c) \/ Answer(c)
    BY <1>1
  <2>2. CASE ServerStep(c)
    BY <2>2, ServerTestBound, AcceptBound, AcceptFailsBound, OwnBound DEF ServerStep
  <2>3. CASE KillStep(c) \/ ClientStep(c) \/ Disconnect(c) \/ Answer(c)
    BY <2>3, StreamSteps, OwnBound DEF ClientStep
  <2> QED
    BY <2>1, <2>2, <2>3 DEF Step
<1> QED
  BY <1>1, ManagerBound, QuitBound DEF Next

-----------------------------------------------------------------------------
(* The limit on streams.                                                   *)

(* Every thread that streams keeps its servent as it is.                   *)
StreamsKept ==
  \A d \in Conns : thr[d].pc \in StreamPcs =>
    LET j == thr[d].sv
    IN  /\ sv'[j].status = sv[j].status /\ sv'[j].type = sv[j].type
        /\ sv'[j].sock = sv[j].sock /\ d \in live' /\ private'[d] = private[d]

(* Whose stream it is that counts.                                         *)
LEMMA StreamOwner ==
  ASSUME Base, NEW i \in Direct
  PROVE  \E d \in Conns : /\ thr[d].pc \in StreamPcs /\ thr[d].sv = i /\ sv[i].sock = d
                          /\ d \in live /\ ~private[d]
<1>1. /\ i \in Listed /\ i \in Index /\ sv[i].status = "connected" /\ sv[i].type = "direct"
      /\ sv[i].sock \in live /\ ~private[sv[i].sock]
  BY Types DEF Base, Direct, Streaming
<1>2. PICK d : d = sv[i].sock
  OBVIOUS
<1>3. d \in Conns /\ Using(d) /\ thr[d].sv = i
  BY <1>1, <1>2, Types DEF Base, ServentOK, Conns, Null
<1>4. i # Server
  BY <1>1 DEF Base, ServentOK
<1>5. thr[d] \in ThreadType /\ Phase(thr[d].pc, sv[i]) /\ ThreadOK(d)
  BY <1>3, <1>4, Own DEF Using
<1>6. thr[d].pc \notin ServerPcs
  BY <1>3, <1>4, <1>5 DEF ThreadOK, Using
<1>7. thr[d].pc \in StreamPcs
  BY <1>1, <1>3, <1>5, <1>6 DEF ThreadType, Phase, Using, ClientPcs, StreamPcs, KillPcs
<1> QED
  BY <1>1, <1>2, <1>3, <1>7

LEMMA DirectKept ==
  ASSUME Base, Listed \subseteq Listed', StreamsKept
  PROVE  Direct \subseteq Direct'
<1> SUFFICES ASSUME NEW i \in Direct PROVE i \in Direct'
  OBVIOUS
<1>1. PICK d \in Conns : /\ thr[d].pc \in StreamPcs /\ thr[d].sv = i /\ sv[i].sock = d
                         /\ d \in live /\ ~private[d]
  BY StreamOwner
<1>2. i \in Listed /\ sv[i].status = "connected" /\ sv[i].type = "direct"
  BY DEF Direct, Streaming
<1> QED
  BY <1>1, <1>2 DEF StreamsKept, Direct, Streaming

LEMMA LimitStep ==
  ASSUME Base, LimitInv, Direct \subseteq Direct',
         \A d \in Conns : thr'[d] = thr[d] \/ (SteadyOK(d)' /\ CountOK(d)')
  PROVE  LimitInv'
<1> SUFFICES ASSUME NEW d \in Conns, thr'[d] = thr[d]
             PROVE  SteadyOK(d)' /\ CountOK(d)'
  BY DEF LimitInv
<1>1. SteadyOK(d) /\ CountOK(d)
  BY DEF LimitInv
<1>2. Passed(d)' = Passed(d)
  BY DEF Passed
<1> QED
  BY <1>1, <1>2 DEF SteadyOK, CountOK

(* A thread that is not on its walk has nothing to remember.               *)
LEMMA Idle ==
  ASSUME NEW d \in Conns, thr'[d].pc \notin {"count", "host"}, thr'[d].steady = {}
  PROVE  SteadyOK(d)' /\ CountOK(d)'
BY DEF SteadyOK, CountOK

(* Whoever streams has another servent than a thread at work elsewhere.    *)
LEMMA OthersStream ==
  ASSUME Base, NEW c \in Conns, thr[c].pc \notin {"none"} \cup StreamPcs, NEW i, i = thr[c].sv,
         \A j \in Index : j # i => sv'[j] = sv[j],
         \A d \in Conns : d # c /\ d \in live => d \in live' /\ private'[d] = private[d]
  PROVE  StreamsKept
<1> SUFFICES ASSUME NEW d \in Conns, thr[d].pc \in StreamPcs, NEW j, j = thr[d].sv
             PROVE  /\ sv'[j].status = sv[j].status /\ sv'[j].type = sv[j].type
                    /\ sv'[j].sock = sv[j].sock /\ d \in live' /\ private'[d] = private[d]
  BY DEF StreamsKept
<1>1. d # c /\ d \in live /\ j \in Index /\ j # Server
  BY Own DEF ThreadOK, ClientPcs, StreamPcs
<1>2. j # i
  BY <1>1 DEF Base, OneThread, StreamPcs
<1> QED
  BY <1>1, <1>2

LEMMA ManagerLimit == ASSUME Base, LimitInv, Manager PROVE LimitInv'
<1>1. Server \in Index /\ sv \in [Index -> ServentType]
  BY Types DEF Base
<1>2. /\ \A j \in Index : j # Server => sv'[j] = sv[j]
      /\ live \subseteq live' /\ UNCHANGED private /\ Listed \subseteq Listed'
  <2>1. CASE InitServerFails
    BY <1>1, <2>1 DEF InitServerFails, Listed
  <2>2. CASE InitServer
    BY <1>1, <2>2 DEF InitServer, Listed
  <2>3. CASE MgrStart
    <3>1. count = 0 /\ count' = 1 /\ UNCHANGED <<sv, live, private>>
      BY <2>3 DEF MgrStart, Base, WalksInv, Server
    <3> QED
      BY <3>1 DEF Listed
  <2>4. CASE MgrTest \/ MgrSleep
    BY <2>4 DEF MgrTest, MgrSleep, Listed
  <2> QED
    BY <2>1, <2>2, <2>3, <2>4 DEF Manager
<1>3. StreamsKept
  <2> SUFFICES ASSUME NEW d \in Conns, thr[d].pc \in StreamPcs, NEW j, j = thr[d].sv
               PROVE  /\ sv'[j].status = sv[j].status /\ sv'[j].type = sv[j].type
                      /\ sv'[j].sock = sv[j].sock /\ d \in live' /\ private'[d] = private[d]
    BY DEF StreamsKept
  <2>1. d \in live /\ j \in Index /\ j # Server
    BY Own DEF ThreadOK, ClientPcs, StreamPcs
  <2> QED
    BY <1>2, <2>1
<1>4. Direct \subseteq Direct'
  BY <1>2, <1>3, DirectKept
<1>5. \A d \in Conns : thr'[d] = thr[d] \/ (SteadyOK(d)' /\ CountOK(d)')
  <2>1. CASE InitServer
    <3>1. PICK c : c = Min(Unused)
      OBVIOUS
    <3>2. c \in Conns
      BY <2>1, <3>1, LowestUnused DEF InitServer, Base, Unused
    <3>3. thr' = [thr EXCEPT ![c] = Thread("begin", Server)]
      BY <2>1, <3>1 DEF InitServer
    <3>4. Thread("begin", Server).pc = "begin" /\ Thread("begin", Server).steady = {}
      BY <1>1, ThreadTypes DEF ServerPcs
    <3>5. thr'[c].pc = "begin" /\ thr'[c].steady = {} /\ \A d \in Conns : d # c => thr'[d] = thr[d]
      BY <3>2, <3>3, <3>4, Types DEF Base
    <3> QED
      BY <3>2, <3>5, Idle
  <2>2. CASE UNCHANGED thr
    BY <2>2
  <2> QED
    BY <2>1, <2>2 DEF Manager, MgrStart, MgrTest, MgrSleep, InitServerFails
<1> QED
  BY <1>4, <1>5, LimitStep

LEMMA QuitLimit == ASSUME Base, LimitInv, Quit \/ QuitNext \/ QuitRamfs \/ UNCHANGED vars PROVE LimitInv'
<1>1. UNCHANGED <<count, thr, live, private>>
  BY DEF Quit, QuitNext, QuitRamfs, vars
<1>2. \A j \in Index : /\ sv'[j].status = sv[j].status /\ sv'[j].type = sv[j].type
                       /\ sv'[j].sock = sv[j].sock
  <2>1. CASE sv' = sv
    BY <2>1
  <2>2. CASE QuitNext
    <3>1. sv' = [sv EXCEPT ![quit.at].active = FALSE]
      BY <2>2 DEF QuitNext
    <3> QED
      BY <3>1, Types DEF Base, ServentType
  <2> QED
    BY <2>1, <2>2 DEF Quit, QuitRamfs, vars
<1>3. StreamsKept
  BY <1>1, <1>2, Own DEF StreamsKept, StreamPcs
<1>4. Direct \subseteq Direct'
  BY <1>1, <1>3, DirectKept DEF Listed
<1> QED
  BY <1>1, <1>4, LimitStep

LEMMA AcceptLimit == ASSUME Base, LimitInv, NEW c \in Conns, Accept(c) \/ AcceptFails(c) PROVE LimitInv'
<1>1. At(c, "accept") /\ thr[c].pc = "accept" /\ UNCHANGED private
  BY DEF Accept, AcceptFails, At
<1>2. thr[c].steady = {} /\ thr[c] \in ThreadType
  BY <1>1, Own DEF LimitInv, SteadyOK
<1>3. PICK u : u = [thr[c] EXCEPT !.pc = "loop"]
  OBVIOUS
<1>4. u.pc = "loop" /\ u.steady = {}
  BY <1>2, <1>3 DEF ThreadType
<1>5. PICK i \in Allocs : /\ count' = Max({count, i})
                          /\ \A j \in Index : j # i => sv'[j] = sv[j]
                          /\ live \subseteq live'
                          /\ thr'[c] = u
                          /\ \A e \in Conns : e # c =>
                               thr'[e] = thr[e] \/ (thr'[e].pc = "request" /\ thr'[e].steady = {})
  <2>1. CASE AcceptFails(c)
    <3>1. PICK i \in Allocs : count' = Max({count, i}) /\ sv' = [sv EXCEPT ![i] = [Blank EXCEPT !.status = "free"]]
      BY <2>1, AcceptFailsTypes
    <3>2. \A j \in Index : j # i => sv'[j] = sv[j]
      BY <3>1, Types DEF Base
    <3> QED
      BY <1>3, <2>1, <3>1, <3>2, AcceptFailsTypes
  <2>2. CASE Accept(c)
    <3>1. PICK d : d = Min(Unused)
      OBVIOUS
    <3>2. d \in Conns /\ d \notin live /\ thr[d].pc = "none"
      BY <2>2, <3>1, LowestUnused DEF Accept, Base, Unused, At
    <3>3. PICK i \in Allocs :
            /\ count' = Max({count, i})
            /\ sv' = [sv EXCEPT ![i] = [status |-> "protocol", type |-> "incoming",
                                        sock |-> d, active |-> TRUE]]
            /\ live' = live \cup {d}
            /\ thr' = [thr EXCEPT ![c].pc = "loop", ![d] = Thread("request", i)]
      BY <2>2, <3>1 DEF Accept
    <3>4. /\ c # d /\ i \in Index /\ thr' \in [Conns -> ThreadType]
          /\ thr'[d] = Thread("request", i)
          /\ thr'[c] = [thr[c] EXCEPT !.pc = "loop"]
          /\ \A e \in Conns : e # c /\ e # d => thr'[e] = thr[e]
          /\ sv'[i] \in ServentType /\ sv'[i].status = "protocol" /\ sv'[i].type = "incoming"
          /\ sv'[i].sock = d /\ sv'[i].active
          /\ \A j \in Index : j # i => sv'[j] = sv[j]
      <4>1. At(c, "accept") /\ d \in Conns /\ d \notin live /\ thr[d].pc = "none"
        BY <1>1, <3>2
      <4> QED
        BY <3>3, <4>1, AcceptTypes
    <3>5. Thread("request", i).pc = "request" /\ Thread("request", i).steady = {}
      <4>1. "request" \in ServerPcs \cup ClientPcs \cup KillPcs
        BY DEF ClientPcs, StreamPcs
      <4> QED
        BY <3>4, <4>1, ThreadTypes
    <3> QED
      BY <1>3, <3>3, <3>4, <3>5
  <2> QED
    BY <2>1, <2>2
<1>6. ListedTo(i) /\ \A e \in Conns : thr[e].pc # "none" => thr[e].sv # i
  BY <1>1, <1>5, Allocated
<1>7. Listed \subseteq Listed'
  BY <1>6, Types DEF Base, ListedTo, Listed
<1>8. StreamsKept
  <2> SUFFICES ASSUME NEW d \in Conns, thr[d].pc \in StreamPcs, NEW j, j = thr[d].sv
               PROVE  /\ sv'[j].status = sv[j].status /\ sv'[j].type = sv[j].type
                      /\ sv'[j].sock = sv[j].sock /\ d \in live' /\ private'[d] = private[d]
    BY DEF StreamsKept
  <2>1. d \in live /\ j \in Index
    BY Own DEF StreamPcs
  <2>2. j # i
    BY <1>6 DEF StreamPcs
  <2> QED
    BY <1>1, <1>5, <2>1, <2>2
<1>9. Direct \subseteq Direct'
  BY <1>7, <1>8, DirectKept
<1>10. \A e \in Conns : thr'[e] = thr[e] \/ (SteadyOK(e)' /\ CountOK(e)')
  <2>1. SteadyOK(c)' /\ CountOK(c)'
    BY <1>4, <1>5, Idle
  <2>2. ASSUME NEW e \in Conns, e # c, thr'[e] # thr[e] PROVE SteadyOK(e)' /\ CountOK(e)'
    <3>1. thr'[e].pc = "request" /\ thr'[e].steady = {}
      BY <1>5, <2>2
    <3> QED
      BY <3>1, Idle
  <2> QED
    BY <2>1, <2>2
<1> QED
  BY <1>9, <1>10, LimitStep

(* The steps of a thread that is neither streaming nor on its walk.        *)
LEMMA OwnLimit ==
  ASSUME Base, LimitInv, NEW c \in Conns,
         \/ KillStep(c) \/ ServerBegin(c) \/ ServerTest(c) \/ AcceptNone(c)
         \/ Serve(c) \/ Connect(c) \/ GiveUp(c)
  PROVE  LimitInv'
<1>1. PICK i : i = thr[c].sv
  OBVIOUS
<1>2. /\ thr[c].pc \notin {"none", "count", "host"} \cup StreamPcs /\ UNCHANGED count
  BY DEF KillStep, KillStatus, KillClose, KillReset, ServerBegin, ServerTest, AcceptNone, Serve,
         Connect, GiveUp, At, StreamPcs
<1>3. /\ i \in Index /\ sv[i] \in ServentType /\ sv \in [Index -> ServentType] /\ UNCHANGED Listed
      /\ thr[c] \in ThreadType /\ thr[c].steady = {}
  BY <1>1, <1>2, Own, Types DEF Base, Listed, LimitInv, SteadyOK
<1>4. \A j \in Index : j # i => sv'[j] = sv[j]
  <2>1. CASE UNCHANGED sv
    BY <2>1
  <2>2. CASE ServerBegin(c) \/ Connect(c) \/ KillStatus(c) \/ KillClose(c) \/ KillReset(c)
    BY <1>1, <1>3, <2>2 DEF ServerBegin, Connect, KillStatus, KillClose, KillReset
  <2> QED
    BY <2>1, <2>2 DEF KillStep, ServerTest, AcceptNone, Serve, GiveUp
<1>5. \A d \in Conns : d # c /\ d \in live => d \in live' /\ private'[d] = private[d]
  <2>1. CASE UNCHANGED <<live, private>>
    BY <2>1
  <2>2. CASE KillClose(c)
    <3>1. sv[i].sock = c
      BY <1>1, <2>2, Own DEF KillClose, At
    <3>2. live' = live \ {c} /\ private' = [private EXCEPT ![c] = FALSE]
      BY <1>1, <2>2, <3>1 DEF KillClose
    <3> QED
      BY <3>2, Types DEF Base
  <2> QED
    BY <2>1, <2>2 DEF KillStep, KillStatus, KillReset, ServerBegin, ServerTest, AcceptNone, Serve,
                      Connect, GiveUp
<1>6. Direct \subseteq Direct'
  <2>1. StreamsKept
    BY <1>1, <1>2, <1>4, <1>5, OthersStream
  <2> QED
    BY <1>3, <2>1, DirectKept
<1>7. PICK t : /\ thr' = [thr EXCEPT ![c] = t] /\ t.steady = {} /\ t.pc \notin {"count", "host"}
  <2>1. CASE KillReset(c)
    <3>1. NoThread.pc = "none" /\ NoThread.steady = {}
      BY DEF NoThread
    <3> QED
      BY <2>1, <3>1 DEF KillReset
  <2>2. CASE \E pc \in {"loop", "accept", "kill", "stream", "close", "reset"} : Go(c, pc)
    <3>1. PICK pc \in {"loop", "accept", "kill", "stream", "close", "reset"} : Go(c, pc)
      BY <2>2
    <3>2. PICK t : t = [thr[c] EXCEPT !.pc = pc]
      OBVIOUS
    <3>3. t.steady = {} /\ t.pc = pc
      BY <1>3, <3>2 DEF ThreadType
    <3>4. thr' = [thr EXCEPT ![c] = t]
      BY <3>1, <3>2 DEF Go
    <3> QED
      BY <3>1, <3>3, <3>4
  <2> QED
    BY <2>1, <2>2 DEF KillStep, KillStatus, KillClose, ServerBegin, ServerTest, AcceptNone, Serve,
                      Connect, GiveUp
<1>8. thr'[c] = t /\ \A d \in Conns : d # c => thr'[d] = thr[d]
  BY <1>7, Types DEF Base
<1>9. SteadyOK(c)' /\ CountOK(c)'
  BY <1>7, <1>8, Idle
<1> QED
  BY <1>6, <1>8, <1>9, LimitStep

LEMMA PassedFinite ==
  ASSUME Base, NEW c \in Conns
  PROVE  IsFiniteSet(Passed(c)) /\ Cardinality(Passed(c)) \in Nat /\ Passed(c) \subseteq Index
<1>1. Passed(c) \subseteq 1 .. MaxServents /\ Passed(c) \subseteq Index
  BY Types DEF Base, ThreadType, Passed, Index
<1>2. 1 \in Int /\ MaxServents \in Int
  BY LimitsAssumption
<1>3. IsFiniteSet(1 .. MaxServents)
  BY <1>2, FS_Interval
<1>4. IsFiniteSet(Passed(c))
  BY <1>1, <1>3, FS_Subset
<1>5. Cardinality(Passed(c)) \in Nat
  BY <1>4, FS_CardinalityType
<1> QED
  BY <1>1, <1>4, <1>5

LEMMA RequestLimit == ASSUME Base, LimitInv, NEW c \in Conns, RequestStream(c) PROVE LimitInv'
<1>1. PICK i : i = thr[c].sv
  OBVIOUS
<1>2. /\ thr[c].pc = "request" /\ sv[i].sock = c
      /\ sv' = [sv EXCEPT ![i].type = "direct"]
      /\ private' \in [Conns -> BOOLEAN] /\ \A d \in Conns : d # c => private'[d] = private[d]
      /\ thr' \in [Conns -> ThreadType] /\ OnlyThread(c) /\ thr'[c].sv = i
      /\ \A d \in Conns : d # c => thr'[d] = thr[d]
      /\ \/ thr'[c].pc = "wait" /\ thr'[c].steady = thr[c].steady
         \/ thr'[c].pc = "count" /\ thr'[c].n = 0 /\ thr'[c].at = count /\ thr'[c].steady = Direct
  BY <1>1, RequestTypes
<1>3. UNCHANGED <<count, live>> /\ UNCHANGED Listed
  BY DEF RequestStream, Listed
<1>4. StreamsKept
  <2>1. \A j \in Index : j # i => sv'[j] = sv[j]
    BY <1>2, Types DEF Base
  <2>2. \A d \in Conns : d # c /\ d \in live => d \in live' /\ private'[d] = private[d]
    BY <1>2, <1>3
  <2> QED
    BY <1>1, <1>2, <2>1, <2>2, OthersStream DEF StreamPcs
<1>5. Direct \subseteq Direct'
  BY <1>3, <1>4, DirectKept
<1>6. thr[c].steady = {}
  BY <1>2 DEF LimitInv, SteadyOK
<1>7. SteadyOK(c)' /\ CountOK(c)'
  <2>1. CASE thr'[c].pc = "wait" /\ thr'[c].steady = thr[c].steady
    BY <1>6, <2>1, Idle
  <2>2. CASE thr'[c].pc = "count" /\ thr'[c].n = 0 /\ thr'[c].at = count /\ thr'[c].steady = Direct
    <3>1. SteadyOK(c)'
      BY <1>5, <2>2 DEF SteadyOK
    <3>2. Passed(c)' = {}
      BY <2>2, Types DEF Base, Passed, Direct, Listed
    <3>3. Cardinality({}) = 0
      BY FS_EmptySet
    <3>4. CountOK(c)'
      BY <2>2, <3>2, <3>3 DEF CountOK
    <3> QED
      BY <3>1, <3>4
  <2> QED
    BY <1>2, <2>1, <2>2
<1> QED
  BY <1>2, <1>5, <1>7, LimitStep

LEMMA RamfsCallLimit == ASSUME Base, LimitInv, NEW c \in Conns, RamfsCall(c) PROVE LimitInv'
<1>1. /\ thr[c].pc \in StreamPcs /\ thr'[c].pc \in StreamPcs
      /\ thr'[c].steady = thr[c].steady /\ \A d \in Conns : d # c => thr'[d] = thr[d]
  BY RamfsCallTypes DEF Base
<1>2. UNCHANGED Direct
  BY DEF RamfsCall, Direct, Streaming, Listed
<1>3. SteadyOK(c)' /\ CountOK(c)'
  <2>1. thr[c].steady = {}
    BY <1>1 DEF LimitInv, SteadyOK, StreamPcs
  <2> QED
    BY <1>1, <2>1, Idle DEF StreamPcs
<1> QED
  BY <1>1, <1>2, <1>3, LimitStep

LEMMA EndStreamLimit == ASSUME Base, LimitInv, NEW c \in Conns, EndStream(c) PROVE LimitInv'
<1>1. PICK i : i = thr[c].sv
  OBVIOUS
<1>2. /\ thr[c].pc \in StreamPcs /\ thr' \in [Conns -> ThreadType] /\ OnlyThread(c)
      /\ thr'[c].pc = "kill" /\ thr'[c].sv = i /\ thr'[c].steady = thr[c].steady
      /\ \A d \in Conns : d # c =>
           thr'[d].n = thr[d].n /\ thr'[d].steady = thr[d].steady \ {i}
  BY <1>1, EndStreamTypes
<1>3. UNCHANGED <<count, live, private>> /\ UNCHANGED Listed
  BY DEF EndStream, Listed
<1>4. Direct \ {i} \subseteq Direct'
  <2>1. \A j \in Index : j # i => sv'[j] = sv[j]
    BY <1>1, Types DEF EndStream, Base
  <2> QED
    BY <1>3, <2>1, Types DEF Base, Direct, Streaming
<1>5. SteadyOK(c)' /\ CountOK(c)'
  <2>1. thr[c].steady = {}
    BY <1>2 DEF LimitInv, SteadyOK, StreamPcs
  <2> QED
    BY <1>2, <2>1, Idle
<1>6. ASSUME NEW d \in Conns, d # c PROVE SteadyOK(d)' /\ CountOK(d)'
  <2>1. /\ thr'[d].n = thr[d].n /\ thr'[d].steady = thr[d].steady \ {i}
        /\ thr'[d].pc = thr[d].pc /\ thr'[d].at = thr[d].at /\ SteadyOK(d) /\ CountOK(d)
    BY <1>2, <1>6 DEF OnlyThread, LimitInv
  <2>2. SteadyOK(d)'
    BY <1>4, <2>1 DEF SteadyOK
  <2>3. Passed(d)' \subseteq Passed(d)
    BY <2>1 DEF Passed
  <2>4. IsFiniteSet(Passed(d)) /\ Cardinality(Passed(d)) \in Nat
    BY PassedFinite
  <2>5. Cardinality(Passed(d)') <= Cardinality(Passed(d)) /\ IsFiniteSet(Passed(d)')
    BY <2>3, <2>4, FS_Subset
  <2>6. Cardinality(Passed(d)') \in Nat
    BY <2>5, FS_CardinalityType
  <2>7. thr[d].n \in Nat
    BY Types DEF Base, ThreadType
  <2>8. CountOK(d)'
    BY <2>1, <2>4, <2>5, <2>6, <2>7 DEF CountOK
  <2> QED
    BY <2>2, <2>8
<1> QED
  BY <1>5, <1>6 DEF LimitInv

(* One servent further along the list.                                     *)
LEMMA PassOne ==
  ASSUME Base, NEW c \in Conns, thr'[c].at = thr[c].at - 1, thr'[c].steady = thr[c].steady
  PROVE  /\ thr[c].at \notin thr[c].steady => Passed(c)' = Passed(c)
         /\ thr[c].at \in thr[c].steady =>
              Cardinality(Passed(c)') = Cardinality(Passed(c)) + 1
<1>1. PICK a : a = thr[c].at
  OBVIOUS
<1>2. PICK S : S = thr[c].steady
  OBVIOUS
<1>3. a \in Nat /\ \A i \in S : i \in Int
  BY <1>1, <1>2, Types DEF Base, ThreadType, Index
<1>4. \A i \in S : i > a - 1 <=> i > a \/ i = a
  BY <1>3
<1>5. Passed(c) = {i \in S : i > a} /\ Passed(c)' = {i \in S : i > a - 1}
  BY <1>1, <1>2 DEF Passed
<1>6. thr[c].at \notin thr[c].steady => Passed(c)' = Passed(c)
  BY <1>1, <1>2, <1>4, <1>5
<1>7. ASSUME a \in S PROVE Cardinality(Passed(c)') = Cardinality(Passed(c)) + 1
  <2>1. a \notin Passed(c)
    BY <1>3, <1>5
  <2>2. Passed(c)' = Passed(c) \cup {a}
    BY <1>4, <1>5, <1>7
  <2>3. IsFiniteSet(Passed(c))
    BY PassedFinite
  <2> QED
    BY <2>1, <2>2, <2>3, FS_AddElement
<1> QED
  BY <1>1, <1>2, <1>6, <1>7

LEMMA CountLimit == ASSUME Base, LimitInv, NEW c \in Conns, Count(c) PROVE LimitInv'
<1>1. /\ thr[c].pc = "count" /\ UNCHANGED <<count, sv, live, private>>
      /\ thr[c] \in ThreadType /\ SteadyOK(c) /\ CountOK(c) /\ UNCHANGED Direct
  BY Types DEF Count, At, Base, LimitInv, Direct, Streaming, Listed
<1>2. CASE Streaming(thr[c].at)
  <2>1. PICK t : t = [thr[c] EXCEPT !.pc = "host"]
    OBVIOUS
  <2>2. thr' = [thr EXCEPT ![c] = t]
    BY <1>2, <2>1 DEF Count
  <2>3. t.pc = "host" /\ t.at = thr[c].at /\ t.n = thr[c].n /\ t.steady = thr[c].steady
    BY <1>1, <2>1 DEF ThreadType
  <2>4. /\ thr'[c].pc = "host" /\ thr'[c].at = thr[c].at /\ thr'[c].n = thr[c].n
        /\ thr'[c].steady = thr[c].steady
        /\ \A d \in Conns : d # c => thr'[d] = thr[d]
    BY <2>2, <2>3, Types DEF Base
  <2>5. Passed(c)' = Passed(c)
    BY <2>4 DEF Passed
  <2>6. SteadyOK(c)' /\ CountOK(c)'
    BY <1>1, <2>4, <2>5 DEF SteadyOK, CountOK
  <2> QED
    BY <1>1, <2>4, <2>6, LimitStep
<1>3. CASE ~Streaming(thr[c].at)
  <2>1. PICK t : t = [thr[c] EXCEPT !.at = thr[c].at - 1]
    OBVIOUS
  <2>2. thr' = [thr EXCEPT ![c] = t]
    <3>1. thr' = [thr EXCEPT ![c] = [thr[c] EXCEPT !.at = thr[c].at - 1]]
      BY <1>3 DEF Count
    <3> QED
      BY <2>1, <3>1
  <2>3. t.pc = "count" /\ t.at = thr[c].at - 1 /\ t.n = thr[c].n /\ t.steady = thr[c].steady
    BY <1>1, <2>1 DEF ThreadType
  <2>4. /\ thr'[c].pc = "count" /\ thr'[c].at = thr[c].at - 1 /\ thr'[c].n = thr[c].n
        /\ thr'[c].steady = thr[c].steady
        /\ \A d \in Conns : d # c => thr'[d] = thr[d]
    BY <2>2, <2>3, Types DEF Base
  <2>5. thr[c].at \notin thr[c].steady
    BY <1>1, <1>3 DEF SteadyOK, Direct
  <2>6. Passed(c)' = Passed(c)
    BY <2>4, <2>5, PassOne
  <2>7. SteadyOK(c)' /\ CountOK(c)'
    BY <1>1, <2>4, <2>6 DEF SteadyOK, CountOK
  <2> QED
    BY <1>1, <2>4, <2>7, LimitStep
<1> QED
  BY <1>2, <1>3

LEMMA HostLimit == ASSUME Base, LimitInv, NEW c \in Conns, CountHost(c) PROVE LimitInv'
<1>1. /\ thr[c].pc = "host" /\ UNCHANGED <<count, sv, live, private>>
      /\ thr[c] \in ThreadType /\ SteadyOK(c) /\ CountOK(c) /\ UNCHANGED Direct
  BY Types DEF CountHost, At, Base, LimitInv, Direct, Streaming, Listed
<1>2. PICK local \in Privacy(thr[c].at) :
        thr' = [thr EXCEPT ![c].pc = "count", ![c].at = @ - 1,
                           ![c].n = IF local THEN @ ELSE Min({@ + 1, MaxDirect})]
  BY DEF CountHost
<1>3. PICK m : m = IF local THEN thr[c].n ELSE Min({thr[c].n + 1, MaxDirect})
  OBVIOUS
<1>4. PICK t : t = [thr[c] EXCEPT !.pc = "count", !.at = thr[c].at - 1, !.n = m]
  OBVIOUS
<1>5. thr' = [thr EXCEPT ![c] = t]
  <2>1. thr' = [thr EXCEPT ![c] = [thr[c] EXCEPT !.pc = "count", !.at = thr[c].at - 1, !.n = m]]
    BY <1>2, <1>3, Types DEF Base, ThreadType
  <2> QED
    BY <1>4, <2>1
<1>6. t.pc = "count" /\ t.at = thr[c].at - 1 /\ t.n = m /\ t.steady = thr[c].steady
  BY <1>1, <1>4 DEF ThreadType
<1>7. /\ thr'[c].pc = "count" /\ thr'[c].at = thr[c].at - 1 /\ thr'[c].n = m
      /\ thr'[c].steady = thr[c].steady
      /\ \A d \in Conns : d # c => thr'[d] = thr[d]
  BY <1>5, <1>6, Types DEF Base
<1>8. SteadyOK(c)'
  BY <1>1, <1>7 DEF SteadyOK
<1>9. CountOK(c)'
  <2>1. thr[c].n \in Nat /\ thr[c].n <= MaxDirect /\ MaxDirect \in Nat
        /\ Cardinality(Passed(c)) \in Nat
    BY <1>1, LimitsAssumption, PassedFinite DEF ThreadType
  <2>2. CASE local
    <3>1. m = thr[c].n
      BY <1>3, <2>2
    <3>2. thr[c].at \notin thr[c].steady
      <4>1. ASSUME thr[c].at \in Direct PROVE FALSE
        <5>1. sv[thr[c].at].sock \in live /\ ~private[sv[thr[c].at].sock]
          BY <4>1 DEF Direct
        <5> QED
          BY <2>2, <5>1 DEF Privacy
      <4> QED
        BY <1>1, <4>1 DEF SteadyOK
    <3>3. Passed(c)' = Passed(c)
      BY <1>7, <3>2, PassOne
    <3> QED
      BY <1>1, <1>7, <3>1, <3>3 DEF CountOK
  <2>3. CASE ~local
    <3>1. m \in {thr[c].n + 1, MaxDirect} /\ thr[c].n + 1 \in Nat
      <4>1. thr[c].n + 1 \in Nat
        BY <2>1
      <4> QED
        BY <1>3, <2>1, <2>3, <4>1, MinOfTwo
    <3>2. m <= thr[c].n + 1
      BY <1>3, <2>1, <2>3, <3>1, MinOfTwo
    <3>3. Cardinality(Passed(c)') = Cardinality(Passed(c)) \/ Cardinality(Passed(c)') = Cardinality(Passed(c)) + 1
      BY <1>7, PassOne
    <3>4. thr[c].n >= MaxDirect \/ thr[c].n >= Cardinality(Passed(c))
      BY <1>1 DEF CountOK
    <3>5. m >= MaxDirect \/ m >= Cardinality(Passed(c)')
      BY <2>1, <3>1, <3>2, <3>3, <3>4
    <3> QED
      BY <1>7, <3>5 DEF CountOK
  <2> QED
    BY <2>2, <2>3
<1> QED
  BY <1>1, <1>7, <1>8, <1>9, LimitStep

(* A thread that reaches the end of its walk and passes.                   *)
LEMMA DonePasses ==
  ASSUME Base, LimitInv, NEW c \in Conns, CountDone(c)
  PROVE  /\ thr'[c].steady = {} /\ thr'[c].pc \in {"wait", "kill"}
         /\ \A d \in Conns : d # c => thr'[d] = thr[d]
         /\ thr'[c].pc = "wait" => Cardinality(thr[c].steady) < MaxDirect
<1>1. /\ thr[c].pc = "count" /\ thr[c].at = 0 /\ thr[c] \in ThreadType /\ CountOK(c)
  BY Types DEF CountDone, At, Base, LimitInv
<1>2. PICK pc : pc = IF thr[c].n >= MaxDirect THEN "kill" ELSE "wait"
  OBVIOUS
<1>3. thr' = [thr EXCEPT ![c] = Thread(pc, thr[c].sv)]
  BY <1>2 DEF CountDone
<1>4. /\ Thread(pc, thr[c].sv).pc = pc /\ Thread(pc, thr[c].sv).steady = {}
  <2>1. thr[c].sv \in Index /\ pc \in ServerPcs \cup ClientPcs \cup KillPcs
    BY <1>1, <1>2 DEF ThreadType, ClientPcs, StreamPcs, KillPcs
  <2> QED
    BY <2>1, ThreadTypes
<1>5. thr'[c].pc = pc /\ thr'[c].steady = {} /\ \A d \in Conns : d # c => thr'[d] = thr[d]
  BY <1>3, <1>4, Types DEF Base
<1>6. ASSUME pc = "wait" PROVE Cardinality(thr[c].steady) < MaxDirect
  <2>1. Passed(c) = thr[c].steady
    BY <1>1 DEF Passed, ThreadType, Index
  <2>2. Cardinality(thr[c].steady) \in Nat
    BY <2>1, PassedFinite
  <2>3. thr[c].n \in Nat /\ MaxDirect \in Nat
    BY <1>1, LimitsAssumption DEF ThreadType
  <2>4. ~(thr[c].n >= MaxDirect)
    BY <1>2, <1>6
  <2>5. thr[c].n >= Cardinality(thr[c].steady)
    BY <1>1, <2>1, <2>4 DEF CountOK
  <2> QED
    BY <2>2, <2>3, <2>4, <2>5
<1> QED
  BY <1>2, <1>5, <1>6

LEMMA DoneLimit == ASSUME Base, LimitInv, NEW c \in Conns, CountDone(c) PROVE LimitInv'
<1>1. /\ thr'[c].steady = {} /\ thr'[c].pc \in {"wait", "kill"}
      /\ \A d \in Conns : d # c => thr'[d] = thr[d]
  BY DonePasses
<1>2. UNCHANGED Direct
  BY DEF CountDone, Direct, Streaming, Listed
<1>3. SteadyOK(c)' /\ CountOK(c)'
  BY <1>1, Idle
<1> QED
  BY <1>1, <1>2, <1>3, LimitStep

LEMMA NextLimit == ASSUME Base, LimitInv, [Next]_vars PROVE LimitInv'
<1>1. CASE \E c \in Conns : Step(c) \/ Disconnect(c) \/ Answer(c)
  <2>1. PICK c \in Conns : Step(c) \/ Disconnect(c) \/ Answer(c)
    BY <1>1
  <2>2. CASE KillStep(c) \/ ServerStep(c)
    BY <2>2, OwnLimit, AcceptLimit DEF ServerStep
  <2>3. CASE ClientStep(c) \/ Disconnect(c) \/ Answer(c)
    <3>1. CASE ReadSegment(c) \/ Leave(c) \/ Disconnect(c) \/ Answer(c) \/ Answered(c)
      BY <3>1, StreamSteps, RamfsCallLimit, EndStreamLimit
    <3> QED
      BY <2>3, <3>1, OwnLimit, RequestLimit, CountLimit, HostLimit, DoneLimit DEF ClientStep
  <2> QED
    BY <2>1, <2>2, <2>3 DEF Step
<1> QED
  BY <1>1, ManagerLimit, QuitLimit DEF Next

-----------------------------------------------------------------------------
LEMMA InitLimits == ASSUME Init PROVE BoundInv /\ LimitInv
<1>1. NoThread.pc = "none" /\ NoThread.steady = {}
  BY DEF NoThread
<1>2. \A c \in Conns : thr[c].pc = "none" /\ thr[c].steady = {}
  BY <1>1 DEF Init
<1>3. LimitInv
  BY <1>2 DEF LimitInv, SteadyOK, CountOK
<1>4. Served = {}
  BY DEF Init, Served, Listed
<1>5. Cardinality({}) = 0
  BY FS_EmptySet
<1>6. BoundInv
  BY <1>2, <1>4, <1>5, LimitsAssumption DEF BoundInv, At
<1> QED
  BY <1>3, <1>6

(* The invariant all the others rest on: a servent, its thread and its     *)
(* socket belong together in every state of the program, the server's      *)
(* thread has room for the client it is about to accept, and the walk of   *)
(* numStreams has counted every stream it passed that lasts.               *)
THEOREM Inductive == Spec => []IInv
<1>1. Init => IInv
  BY InitBase, InitLimits DEF IInv
<1>2. IInv /\ [Next]_vars => IInv'
  BY NextBase, NextBound, NextLimit DEF IInv
<1> QED
  BY <1>1, <1>2, PTL DEF Spec

(* Each servent has the one socket it was given on connect, each thread    *)
(* one servent, a client's thread never the manager's, and no socket is    *)
(* left without a thread to close it (servent.cpp:7, 169-193).             *)
THEOREM SocketsAreSound == Spec => []SocketsSound
<1>1. IInv => SocketsSound
  <2> SUFFICES ASSUME Base PROVE SocketsSound
    BY DEF IInv
  <2>1. ASSUME NEW c \in Conns, Using(c)
        PROVE  /\ sv[thr[c].sv].sock = c /\ c \in live
               /\ thr[c].sv = Server <=> sv[thr[c].sv].type = "server"
    BY <2>1, Own DEF Using, Clients
  <2> QED
    BY <2>1 DEF SocketsSound, OneSocket, Base
<1> QED
  BY <1>1, Inductive, PTL

(* What allocServent or initServer may take is idle, so that checkFree     *)
(* passes (servmgr.cpp:68-103, servent.cpp:175-192).                      *)
THEOREM FreeServentsAreIdle == Spec => []FreeIsIdle
<1>1. IInv => FreeIsIdle
  <2> SUFFICES ASSUME Base, NEW i \in Listed
               PROVE  /\ sv[i].status = "free" =>
                           /\ sv[i].sock = Null /\ ~sv[i].active
                           /\ \A c \in Conns : thr[c].sv = i => At(c, "none")
                      /\ i = Server /\ sv[i].sock = Null => ~sv[i].active
    BY DEF IInv, FreeIsIdle
  <2>1. i \in Index /\ ServentOK(i)
    BY Types DEF Base
  <2>2. ASSUME sv[i].status = "free"
        PROVE  /\ sv[i].sock = Null /\ ~sv[i].active
               /\ \A c \in Conns : thr[c].sv = i => At(c, "none")
    <3>1. sv[i].sock = Null /\ ~sv[i].active /\ sv[i].type = "none"
      BY <2>1, <2>2, BlankTypes DEF ServentOK
    <3> QED
      BY <3>1, Own DEF At, Clients
  <2> QED
    BY <2>1, <2>2 DEF ServentOK
<1> QED
  BY <1>1, Inductive, PTL

(* maxServIn is kept although numActiveOnPort counts without the lock and  *)
(* before accept waits (servmgr.cpp:106-118, servent.cpp:871).                *)
THEOREM ClientsBounded == Spec => []IncomingBounded
<1>1. IInv => IncomingBounded
  BY DEF IInv, BoundInv, IncomingBounded, Served
<1> QED
  BY <1>1, Inductive, PTL

(* maxDirect is kept against every stream that lasts, whatever the list    *)
(* does during the walk of numStreams (servmgr.cpp:157-170).               *)
THEOREM StreamsLimited == Spec => LimitHonoured
<1>1. IInv /\ [Next]_vars =>
        [\A c \in Conns :
           CountDone(c) /\ thr'[c].pc = "wait" => Cardinality(thr[c].steady) < MaxDirect]_vars
  BY DonePasses DEF IInv
<1> QED
  BY <1>1, Inductive, PTL DEF Spec, LimitHonoured
=============================================================================
