------------------------ MODULE SegmentWindow_proofs ------------------------
(***************************************************************************)
(* Proofs about SegmentWindow for any window, any number of servents and   *)
(* any number of rotations and restarts: the files of a run stay within    *)
(* SEGMENT_NUM, and what is being read is whole.                           *)
(***************************************************************************)
EXTENDS SegmentWindow, FiniteSetTheorems, TLAPS

Requests == 1 .. Len(queue)
On       == mux.pc # "off"

(* What the requests under way say of those that wait for them: one create *)
(* or close of the mux thread, one open of a reader, and deletes, which are*)
(* all served before the next create.                                      *)
CreateInv ==
  \A i \in Requests : queue[i].op = "create" =>
    /\ mux.pc = "opening" /\ queue[i].seg = mux.seg
    /\ \A j \in Requests : queue[j].op \in {"create", "delete"} => j <= i

CloseInv ==
  \A i \in Requests : queue[i].op = "close" =>
    /\ mux.pc \in {"closing", "ending"} /\ queue[i].seg = mux.seg
    /\ \A j \in Requests : queue[j].op = "close" => j = i

DeleteInv ==
  \A i \in Requests : queue[i].op = "delete" =>
    /\ mux.pc \in {"off", "open", "opening"}
    /\ On => queue[i].seg = mux.seg - SegmentNum \/ mux.seg = 1

OpenInv ==
  \A i \in Requests : queue[i].op = "open" =>
    /\ queue[i].by \in Readers
    /\ reader[queue[i].by].pc = "opening" /\ queue[i].seg = reader[queue[i].by].seg
    /\ \A j \in Requests : queue[j].op = "open" /\ queue[j].by = queue[i].by => j = i

(* The mux thread numbers its segments from 1, and decides after a round.  *)
MuxInv ==
  /\ On => mux.seg >= 1 /\ runs >= 1
  /\ ~On => mux = Off
  /\ mux.pkts <= SegmentPkts + Streams
  /\ mux.pc \in {"open", "opening"} => mux.pkts = 0
  /\ mux.pc \in {"write", "round"} => mux.pkts <= SegmentPkts

(* The segments before the current one, back to the edge of the window, are*)
(* there and closed.                                                       *)
WindowInv ==
  /\ On => \A s \in Segments : mux.seg - SegmentNum < s /\ s < mux.seg => files[s] = "done"
  /\ mux.pc = "closed" => files[mux.seg] = "done"

(* The last segment that has been created in this run, the files on disk   *)
(* and those of them that this run should keep.                            *)
Last     == IF mux.pc \in {"open", "opening"} THEN mux.seg - 1 ELSE mux.seg
Existing == {s \in Segments : files[s] # "none"}
Kept     == (Last - SegmentNum + 1) .. Last

(* Outside its window this run finds what earlier runs have left; what has *)
(* fallen out of the window has its delete on the way.                     *)
DiskInv ==
  /\ On => Cardinality(Existing \ Kept) <= SegmentNum * (runs - 1)
  /\ ~On => Cardinality(Existing) <= SegmentNum * runs
  /\ mux.pc \in {"open", "opening"} =>
       \A s \in Segments : s = mux.seg - SegmentNum /\ files[s] # "none" =>
         \E i \in Requests : queue[i].op = "delete" /\ queue[i].seg = s

(* A reader that is neither too slow nor left over from an earlier run is  *)
(* within the window, and its segment is closed and stays.                 *)
Timely(r) == Busy(r) /\ reader[r].run = runs /\ reader[r].lag <= Slack

ReaderInv ==
  \A r \in Readers :
    /\ reader[r].run <= runs
    /\ Busy(r) => reader[r].seg < MaxSeg
    /\ Timely(r) =>
         /\ files[reader[r].seg] = "done"
         /\ \A i \in Requests : queue[i].op = "delete" => queue[i].seg # reader[r].seg
         /\ On => reader[r].seg < mux.seg /\ mux.seg <= reader[r].seg + Safe + reader[r].lag


IInv == /\ TypeOK /\ CreateInv /\ CloseInv /\ DeleteInv /\ OpenInv
        /\ MuxInv /\ WindowInv /\ DiskInv /\ ReaderInv

USE WindowAssumption, LimitAssumption, PcrAssumption

-----------------------------------------------------------------------------
(* The types of a request, the mux thread and a reader.                    *)
Request    == [op : {"create", "close", "delete", "open"}, seg : Segments,
               by : Readers \cup {"mux"}]
MuxType    == [pc : {"off", "open", "opening", "write", "round", "full", "closing", "closed",
                     "ending"},
               seg : 0 .. MaxSeg, pkts : Nat, first : Pcr \cup {0}, last : Pcr \cup {0}]
ReaderType == [pc : {"poll", "found", "opening", "read", "gone"},
               seg : 1 .. MaxSeg, run : 0 .. MaxRuns, lag : 0 .. Slack + 1]

LEMMA Types ==
  ASSUME TypeOK
  PROVE  /\ mux \in MuxType /\ runs \in Nat /\ Slack \in Nat
         /\ files \in [Segments -> {"none", "writing", "done"}]
         /\ reader \in [Readers -> ReaderType]
         /\ queue \in Seq(Request)
         /\ \A i \in Requests : queue[i] \in Request /\ i \in Nat
<1>1. queue \in Seq(Request)
  BY DEF TypeOK, Request
<1>2. \A i \in Requests : queue[i] \in Request /\ i \in Nat
  BY <1>1 DEF Requests
<1>3. mux \in MuxType
  BY DEF TypeOK, MuxType
<1>4. reader \in [Readers -> ReaderType]
  BY DEF TypeOK, ReaderType
<1> QED
  BY <1>1, <1>2, <1>3, <1>4 DEF TypeOK, Slack

LEMMA TypesOK ==
  ASSUME mux' \in MuxType, runs' \in 0 .. MaxRuns, active' \in BOOLEAN,
         files' \in [Segments -> {"none", "writing", "done"}],
         reader' \in [Readers -> ReaderType], queue' \in Seq(Request)
  PROVE  TypeOK'
BY DEF TypeOK, MuxType, ReaderType, Request

(* A request that joins the queue.                                         *)
Joins(m, n) ==
  /\ queue' \in Seq(Request)
  /\ Requests' = Requests \cup {n} /\ n \in Nat /\ queue'[n] = m
  /\ \A i \in Requests : i \in Nat /\ i < n /\ queue'[i] = queue[i]

LEMMA Asked ==
  ASSUME TypeOK, NEW m \in Request, queue' = Append(queue, m)
  PROVE  \E n : Joins(m, n)
<1>1. queue \in Seq(Request)
  BY Types
<1>2. queue' \in Seq(Request) /\ Len(queue') = Len(queue) + 1 /\ Len(queue) \in Nat
      /\ queue'[Len(queue) + 1] = m /\ \A i \in 1 .. Len(queue) : queue'[i] = queue[i]
  BY <1>1
<1> QED
  BY <1>2 DEF Joins, Requests

(* The request that the worker takes from the queue.                       *)
Takes ==
  /\ queue' \in Seq(Request)
  /\ 1 \in Requests /\ Head(queue) = queue[1] /\ queue[1] \in Request
  /\ \A i \in Requests' : i \in Nat /\ i + 1 \in Requests /\ queue'[i] = queue[i + 1]
  /\ \A i \in Requests : i = 1 \/ i - 1 \in Requests'

LEMMA Served ==
  ASSUME TypeOK, NEW op, Serving(op)
  PROVE  Takes /\ queue[1].op = op
<1>1. queue \in Seq(Request) /\ queue # <<>> /\ queue' = Tail(queue) /\ Head(queue).op = op
  BY Types DEF Serving
<1>2. queue' \in Seq(Request) /\ Len(queue') = Len(queue) - 1 /\ Len(queue) \in Nat \ {0}
      /\ \A i \in 1 .. Len(queue') : queue'[i] = queue[i + 1]
  BY <1>1
<1>3. Head(queue) = queue[1] /\ queue[1] \in Request
  BY <1>1
<1> QED
  BY <1>1, <1>2, <1>3 DEF Takes, Requests

-----------------------------------------------------------------------------
(* The steps of the mux thread.                                            *)
LEMMA ExistingFinite == IsFiniteSet(Existing) /\ Existing \subseteq Segments
<1>1. Existing \in SUBSET (1 .. MaxSeg) /\ 1 \in Int /\ MaxSeg \in Int
  BY DEF Existing, Segments
<1>2. IsFiniteSet(1 .. MaxSeg)
  BY <1>1, FS_Interval
<1> QED
  BY <1>1, <1>2, FS_Subset DEF Segments

LEMMA OpensAt ==
  ASSUME NEW t \in 0 .. MaxSeg
  PROVE  [Off EXCEPT !.pc = "open", !.seg = t] \in MuxType
BY DEF Off, MuxType

LEMMA StartInv == ASSUME IInv, Start PROVE IInv'
<1> USE DEF IInv
<1>1. /\ mux.pc = "off" /\ mux' \in MuxType
      /\ mux'.pc = "open" /\ mux'.seg = 1 /\ mux'.pkts = 0
      /\ runs \in Nat /\ runs' = runs + 1 /\ runs' \in 0 .. MaxRuns /\ active' \in BOOLEAN
      /\ UNCHANGED <<files, queue, reader>>
  <2>1. 1 \in 0 .. MaxSeg /\ MaxRuns \in Nat
    OBVIOUS
  <2>2. [Off EXCEPT !.pc = "open", !.seg = 1] \in MuxType
    BY <2>1, OpensAt
  <2>3. runs \in Nat /\ runs + 1 \in 0 .. MaxRuns
    BY <2>1 DEF Start, TypeOK
  <2> QED
    BY <2>2, <2>3 DEF Start, Off
<1>2. TypeOK'
  BY <1>1, Types, TypesOK DEF TypeOK
<1>3. UNCHANGED Requests
  BY <1>1 DEF Requests
<1>4. (CreateInv /\ CloseInv /\ DeleteInv /\ OpenInv)'
  BY <1>1, <1>3 DEF CreateInv, CloseInv, DeleteInv, OpenInv, On
<1>5. (MuxInv /\ WindowInv)'
  BY <1>1 DEF MuxInv, WindowInv, On, Segments
<1>6. DiskInv'
  <2>1. Existing' = Existing /\ IsFiniteSet(Existing)
    BY <1>1, ExistingFinite DEF Existing
  <2>2. Cardinality(Existing \ Kept') <= Cardinality(Existing)
    BY <2>1, FS_Subset
  <2>3. Cardinality(Existing) <= SegmentNum * runs
    BY <1>1 DEF DiskInv, On
  <2>4. Cardinality(Existing) \in Nat /\ Cardinality(Existing \ Kept') \in Nat
    BY <2>1, FS_Subset, FS_CardinalityType
  <2>5. Cardinality((Existing \ Kept)') <= SegmentNum * (runs' - 1)
    BY <1>1, <2>1, <2>2, <2>3, <2>4
  <2>6. \A s \in Segments : s # mux'.seg - SegmentNum
    BY <1>1 DEF Segments
  <2> QED
    BY <1>1, <2>5, <2>6 DEF DiskInv, On
<1>7. ReaderInv'
  <2>1. \A r \in Readers : reader[r].run \in Nat
    BY Types DEF ReaderType
  <2> QED
    BY <1>1, <2>1 DEF ReaderInv, Timely, Busy
<1> QED
  BY <1>2, <1>4, <1>5, <1>6, <1>7

(* A step that leaves alone everything but the packets of the segment and  *)
(* where the mux thread is within it.                                      *)
LEMMA WithinInv ==
  ASSUME IInv, mux' \in MuxType, mux'.seg = mux.seg, active' \in BOOLEAN,
         UNCHANGED <<runs, files, queue, reader>>,
         mux'.pkts <= SegmentPkts + Streams,
         mux'.pc \in {"write", "round"} => mux'.pkts <= SegmentPkts,
         \/ mux' = mux
         \/ mux.pc \in {"write", "round"} /\ mux'.pc \in {"write", "round", "full"}
  PROVE  IInv'
<1> USE DEF IInv
<1>1. TypeOK'
  BY Types, TypesOK DEF TypeOK
<1>2. UNCHANGED Requests
  BY DEF Requests
<1>3. (CreateInv /\ CloseInv /\ DeleteInv /\ OpenInv)'
  BY <1>2 DEF CreateInv, CloseInv, DeleteInv, OpenInv, On
<1>4. (MuxInv /\ WindowInv)'
  BY DEF MuxInv, WindowInv, On
<1>5. DiskInv'
  BY <1>2 DEF DiskInv, Existing, Kept, Last, On
<1>6. ReaderInv'
  BY <1>2 DEF ReaderInv, Timely, Busy, On
<1> QED
  BY <1>1, <1>3, <1>4, <1>5, <1>6

LEMMA QuietInv == ASSUME IInv, Stop \/ Enter PROVE IInv'
<1> USE DEF IInv
<1>1. mux \in MuxType /\ mux.pkts <= SegmentPkts + Streams
      /\ (mux.pc \in {"write", "round"} => mux.pkts <= SegmentPkts)
  BY Types DEF MuxInv
<1>2. CASE Stop
  BY <1>1, <1>2, WithinInv DEF Stop
<1>3. CASE Enter
  <2>1. mux' \in MuxType /\ mux'.seg = mux.seg /\ mux'.pkts = mux.pkts /\ mux'.pc = "round"
        /\ mux.pc = "write"
    BY <1>1, <1>3 DEF Enter, MuxType
  <2> QED
    BY <1>1, <1>3, <2>1, WithinInv DEF Enter, TypeOK
<1> QED
  BY <1>2, <1>3

LEMMA RoundInv == ASSUME IInv, Round PROVE IInv'
<1>1. PICK n \in 1 .. Streams, m \in {mux} \cup {Timed(mux, p) : p \in Pcr} :
        LET now == [m EXCEPT !.pkts = @ + n]
        IN  mux' = [now EXCEPT !.pc = IF Continues(now) THEN "write" ELSE "full"]
  BY DEF Round
<1>2. mux \in MuxType /\ mux.pc = "round" /\ mux.pkts <= SegmentPkts
  BY Types DEF IInv, MuxInv, Round
<1>3. m \in MuxType /\ m.seg = mux.seg /\ m.pkts = mux.pkts
  BY <1>2 DEF Timed, MuxType
<1> DEFINE now == [m EXCEPT !.pkts = @ + n]
<1>4. now \in MuxType /\ now.seg = mux.seg /\ now.pkts = mux.pkts + n
  BY <1>3 DEF MuxType
<1>5. mux' = [now EXCEPT !.pc = IF Continues(now) THEN "write" ELSE "full"]
  BY <1>1
<1> HIDE DEF now
<1>6. /\ mux' \in MuxType /\ mux'.seg = mux.seg /\ mux'.pkts = mux.pkts + n
      /\ mux'.pc \in {"write", "full"} /\ (mux'.pc = "write" => mux.pkts + n <= SegmentPkts)
  BY <1>4, <1>5 DEF MuxType, Continues
<1>7. mux.pkts + n <= SegmentPkts + Streams
  BY <1>2 DEF MuxType
<1> QED
  BY <1>2, <1>6, <1>7, WithinInv DEF Round, IInv, TypeOK

LEMMA OpenSegmentInv == ASSUME IInv, OpenSegment PROVE IInv'
<1> USE DEF IInv
<1> DEFINE m == Msg("create", mux.seg, "mux")
<1>1. /\ mux.pc = "open" /\ mux' \in MuxType
      /\ mux'.pc = "opening" /\ mux'.seg = mux.seg /\ mux'.pkts = mux.pkts
      /\ UNCHANGED <<active, runs, files, reader>>
  BY Types DEF OpenSegment, MuxType
<1>2. m \in Request /\ m.op = "create" /\ m.seg = mux.seg
  BY <1>1, Types DEF Msg, Request, MuxInv, MuxType, On, Segments
<1>3. PICK n : Joins(m, n)
  BY <1>2, Asked DEF OpenSegment, Ask
<1> HIDE DEF m
<1> USE <1>1, <1>2, <1>3 DEF Joins
<1>4. TypeOK'
  BY Types, TypesOK DEF TypeOK
<1>5. CreateInv' /\ CloseInv' /\ DeleteInv' /\ OpenInv'
  <2>1. CreateInv'
    BY DEF CreateInv
  <2>2. CloseInv'
    BY DEF CloseInv
  <2>3. DeleteInv'
    BY DEF DeleteInv, On
  <2>4. OpenInv'
    <3>1. \A i \in Requests' : queue'[i].op = "open" => i \in Requests /\ queue'[i] = queue[i]
      OBVIOUS
    <3>2. UNCHANGED reader
      OBVIOUS
    <3> HIDE <1>2, <1>3
    <3> QED
      BY <3>1, <3>2 DEF OpenInv
  <2> QED
    BY <2>1, <2>2, <2>3, <2>4
<1>6. (MuxInv /\ WindowInv)'
  BY DEF MuxInv, WindowInv, On
<1>7. DiskInv'
  <2>1. UNCHANGED <<Existing, Kept>>
    BY DEF Existing, Kept, Last
  <2>2. \A s : (\E i \in Requests : queue[i].op = "delete" /\ queue[i].seg = s)
             => \E i \in Requests' : queue'[i].op = "delete" /\ queue'[i].seg = s
    OBVIOUS
  <2> QED
    BY <2>1, <2>2 DEF DiskInv, On
<1>8. ReaderInv'
  <2>1. \A r \in Readers : Timely(r)' <=> Timely(r)
    BY DEF Timely, Busy
  <2>2. \A r \in Readers : Busy(r)' <=> Busy(r)
    BY DEF Busy
  <2> QED
    BY <2>1, <2>2, SMTT(30) DEF ReaderInv, On
<1> QED
  BY <1>4, <1>5, <1>6, <1>7, <1>8

LEMMA CloseSegmentInv ==
  ASSUME IInv, CloseSegment \/ (End /\ mux.pc = "write") PROVE IInv'
<1> USE DEF IInv
<1> DEFINE m == Msg("close", mux.seg, "mux")
<1>1. /\ mux.pc \in {"write", "full"} /\ mux' \in MuxType
      /\ mux'.pc \in {"closing", "ending"} /\ mux'.seg = mux.seg /\ mux'.pkts = mux.pkts
      /\ UNCHANGED <<active, runs, files, reader>>
  BY Types DEF CloseSegment, End, MuxType
<1>2. m \in Request /\ m.op = "close" /\ m.seg = mux.seg
  BY <1>1, Types DEF Msg, Request, MuxInv, MuxType, On, Segments
<1>3. PICK n : Joins(m, n)
  BY <1>2, Asked DEF CloseSegment, End, Ask
<1> HIDE DEF m
<1> USE <1>1, <1>2, <1>3 DEF Joins
<1>4. TypeOK'
  BY Types, TypesOK DEF TypeOK
<1>5. CreateInv' /\ CloseInv' /\ DeleteInv' /\ OpenInv'
  <2>1. CreateInv'
    BY DEF CreateInv
  <2>2. CloseInv'
    BY DEF CloseInv
  <2>3. DeleteInv'
    BY DEF DeleteInv, On
  <2>4. OpenInv'
    <3>1. \A i \in Requests' : queue'[i].op = "open" => i \in Requests /\ queue'[i] = queue[i]
      OBVIOUS
    <3>2. UNCHANGED reader
      OBVIOUS
    <3> HIDE <1>2, <1>3
    <3> QED
      BY <3>1, <3>2 DEF OpenInv
  <2> QED
    BY <2>1, <2>2, <2>3, <2>4
<1>6. (MuxInv /\ WindowInv)'
  BY DEF MuxInv, WindowInv, On
<1>7. DiskInv'
  BY DEF DiskInv, Existing, Kept, Last, On
<1>8. ReaderInv'
  BY DEF ReaderInv, Timely, Busy, On
<1> QED
  BY <1>4, <1>5, <1>6, <1>7, <1>8

(* seg_index moves on: what falls out of the window gets its delete, which *)
(* is the only one on its way, and the edge passes no timely reader.       *)
LEMMA NextSegmentInv == ASSUME IInv, NextSegment PROVE IInv'
<1> USE DEF IInv
<1> DEFINE s == mux.seg + 1
<1>1. /\ mux.pc = "closed" /\ mux \in MuxType /\ s \in 2 .. MaxSeg
      /\ mux' \in MuxType /\ mux'.pc = "open" /\ mux'.seg = s /\ mux'.pkts = 0
      /\ UNCHANGED <<active, runs, files>>
  <2>1. mux \in MuxType /\ mux.seg >= 1
    BY Types DEF NextSegment, MuxInv, On
  <2>2. s \in 2 .. MaxSeg
    BY <2>1 DEF NextSegment, MuxType
  <2>3. [Off EXCEPT !.pc = "open", !.seg = s] \in MuxType
    <3>1. s \in 0 .. MaxSeg
      BY <2>2
    <3> HIDE DEF s
    <3> QED
      BY <3>1, OpensAt
  <2> QED
    BY <2>1, <2>2, <2>3 DEF NextSegment, Off
<1>2. \A r \in Readers :
        /\ reader[r] \in ReaderType /\ reader'[r] \in ReaderType
        /\ reader'[r].pc = reader[r].pc /\ reader'[r].seg = reader[r].seg
        /\ reader'[r].run = reader[r].run
        /\ Busy(r) /\ reader[r].lag <= Slack => reader'[r].lag = reader[r].lag + 1
        /\ ~(Busy(r) /\ reader[r].lag <= Slack) => reader'[r] = reader[r]
  <2> SUFFICES ASSUME NEW r \in Readers
               PROVE  /\ reader[r] \in ReaderType /\ reader'[r] \in ReaderType
                      /\ reader'[r].pc = reader[r].pc /\ reader'[r].seg = reader[r].seg
                      /\ reader'[r].run = reader[r].run
                      /\ Busy(r) /\ reader[r].lag <= Slack => reader'[r].lag = reader[r].lag + 1
                      /\ ~(Busy(r) /\ reader[r].lag <= Slack) => reader'[r] = reader[r]
    OBVIOUS
  <2>1. reader[r] \in ReaderType /\ Slack \in Nat
    BY Types
  <2>2. reader'[r] = IF Busy(r) /\ reader[r].lag <= Slack
                     THEN [reader[r] EXCEPT !.lag = @ + 1] ELSE reader[r]
    BY DEF NextSegment
  <2> QED
    BY <2>1, <2>2 DEF ReaderType
<1>3. reader' \in [Readers -> ReaderType]
  BY <1>2 DEF NextSegment
<1>4. \A i \in Requests : queue[i].op = "open"
  BY <1>1, Types DEF CreateInv, CloseInv, DeleteInv, Request
<1> DEFINE m == Msg("delete", s - SegmentNum, "mux")
<1>5. \/ /\ s - SegmentNum \notin Segments
         /\ queue' \in Seq(Request) /\ Requests' = Requests
         /\ \A i \in Requests : queue'[i] = queue[i]
      \/ /\ s - SegmentNum \in Segments
         /\ \E n : Joins(m, n)
  <2>1. CASE s - SegmentNum \notin Segments
    <3>1. Outdated(s) = {}
      BY <2>1 DEF Outdated
    <3> QED
      BY <2>1, <3>1, Types DEF NextSegment, Requests
  <2>2. CASE s - SegmentNum \in Segments
    <3>1. Outdated(s) = {s - SegmentNum}
      BY <2>2 DEF Outdated
    <3>2. (CHOOSE d \in Outdated(s) : TRUE) = s - SegmentNum
      BY <3>1
    <3>3. queue' = Append(queue, m)
      BY <3>1, <3>2 DEF NextSegment
    <3>4. m \in Request
      BY <2>2 DEF Msg, Request
    <3> HIDE DEF m
    <3> QED
      BY <2>2, <3>3, <3>4, Asked
  <2> QED
    BY <2>1, <2>2
<1>6. m.op = "delete" /\ m.seg = mux'.seg - SegmentNum
  BY <1>1 DEF Msg
<1>7. /\ Requests \subseteq Requests' /\ queue' \in Seq(Request)
      /\ \A i \in Requests : queue'[i] = queue[i]
      /\ \A i \in Requests' : i \notin Requests => queue'[i] = m
      /\ s - SegmentNum \in Segments => \E i \in Requests' : queue'[i] = m
  BY <1>5 DEF Joins
<1> HIDE DEF m
<1>8. TypeOK'
  BY <1>1, <1>3, <1>7, Types, TypesOK DEF TypeOK
<1>9. (CreateInv /\ CloseInv)'
  BY <1>4, <1>6, <1>7 DEF CreateInv, CloseInv
<1>10. DeleteInv'
  BY <1>1, <1>4, <1>6, <1>7 DEF DeleteInv
<1>11. OpenInv'
  <2>1. \A i \in Requests' : queue'[i].op = "open" => i \in Requests /\ queue'[i] = queue[i]
    BY <1>6, <1>7
  <2> QED
    BY <1>2, <2>1 DEF OpenInv
<1>12. MuxInv'
  BY <1>1 DEF MuxInv, On
<1>13. WindowInv'
  <2>1. \A t \in Segments : s - SegmentNum < t /\ t < s => files[t] = "done"
    BY <1>1 DEF WindowInv, On, MuxType, Segments
  <2> QED
    BY <1>1, <2>1 DEF WindowInv, On
<1>14. DiskInv'
  <2>1. UNCHANGED <<Existing, Kept>>
    BY <1>1 DEF Existing, Kept, Last, MuxType
  <2>2. \A t \in Segments : t = mux'.seg - SegmentNum =>
          \E i \in Requests' : queue'[i].op = "delete" /\ queue'[i].seg = t
    BY <1>1, <1>6, <1>7
  <2> QED
    BY <1>1, <2>1, <2>2 DEF DiskInv, On
<1>15. ReaderInv'
  <2> SUFFICES ASSUME NEW r \in Readers
               PROVE  /\ reader'[r].run <= runs'
                      /\ Busy(r)' => reader'[r].seg < MaxSeg
                      /\ Timely(r)' =>
                           /\ files'[reader'[r].seg] = "done"
                           /\ \A i \in Requests' : queue'[i].op = "delete" => queue'[i].seg # reader'[r].seg
                           /\ On' => reader'[r].seg < mux'.seg
                                     /\ mux'.seg <= reader'[r].seg + Safe + reader'[r].lag
    BY DEF ReaderInv
  <2>1. reader'[r].run <= runs' /\ (Busy(r)' => reader'[r].seg < MaxSeg)
    BY <1>1, <1>2 DEF ReaderInv, Busy
  <2>2. ASSUME Timely(r)' PROVE Timely(r) /\ reader'[r].lag = reader[r].lag + 1
    BY <1>1, <1>2, <2>2, Types DEF Timely, Busy, ReaderType
  <2>3. ASSUME Timely(r)'
        PROVE  /\ files'[reader'[r].seg] = "done"
               /\ reader'[r].seg < mux'.seg
               /\ mux'.seg <= reader'[r].seg + Safe + reader'[r].lag
    BY <1>1, <1>2, <2>2, <2>3 DEF ReaderInv, On, MuxType, ReaderType, Segments
  <2>4. ASSUME Timely(r)', NEW i \in Requests', queue'[i].op = "delete"
        PROVE  queue'[i].seg # reader'[r].seg
    <3>1. queue'[i].seg = mux'.seg - SegmentNum
      BY <1>4, <1>6, <1>7, <2>4
    <3>2. reader'[r].lag <= SegmentNum - Safe - 1
      BY <1>1, <2>4 DEF Timely, Slack
    <3> QED
      BY <1>1, <1>2, <2>3, <2>4, <3>1, <3>2 DEF MuxType, ReaderType, Segments
  <2> QED
    BY <2>1, <2>3, <2>4
<1> QED
  BY <1>8, <1>9, <1>10, <1>11, <1>12, <1>13, <1>14, <1>15

(* When a run ends its window joins what earlier runs have left.           *)
LEMMA WindowLeft ==
  ASSUME IInv, On, NEW E \in SUBSET Segments, E \ Kept \subseteq Existing
  PROVE  Cardinality(E) <= SegmentNum * runs
<1>1. mux \in MuxType /\ runs \in Nat /\ runs >= 1
  BY Types DEF IInv, MuxInv
<1>2. IsFiniteSet(Existing) /\ IsFiniteSet(E)
  <2>1. IsFiniteSet(Segments)
    BY FS_Interval DEF Segments
  <2> QED
    BY <2>1, ExistingFinite, FS_Subset
<1>3. Last \in Int
  BY <1>1 DEF Last, MuxType
<1>4. IsFiniteSet(Kept) /\ Cardinality(Kept) = SegmentNum
  <2>1. Last - SegmentNum + 1 \in Int /\ Last - SegmentNum + 1 <= Last
    BY <1>3
  <2> QED
    BY <1>3, <2>1, FS_Interval DEF Kept
<1> DEFINE A == E \ Kept
           B == Existing \ Kept
<1>5. IsFiniteSet(B) /\ A \subseteq B
  BY <1>2, FS_Subset
<1>6. IsFiniteSet(A) /\ Cardinality(A) <= Cardinality(B)
  BY <1>5, FS_Subset
<1>7. /\ IsFiniteSet(A \cup Kept)
      /\ Cardinality(A \cup Kept) = Cardinality(A) + Cardinality(Kept) - Cardinality(A \cap Kept)
  BY <1>4, <1>6, FS_Union
<1>8. A \cap Kept = {} /\ E \subseteq A \cup Kept
  OBVIOUS
<1>9. Cardinality(E) <= Cardinality(A \cup Kept)
  BY <1>7, <1>8, FS_Subset
<1>10. Cardinality(B) <= SegmentNum * (runs - 1)
  BY DEF IInv, DiskInv
<1>11. SegmentNum * (runs - 1) + SegmentNum = SegmentNum * runs
       /\ SegmentNum * (runs - 1) \in Int /\ SegmentNum * runs \in Int
  BY <1>1
<1>12. /\ Cardinality(E) \in Nat /\ Cardinality(A) \in Nat /\ Cardinality(B) \in Nat
       /\ Cardinality(A \cap Kept) = 0
  BY <1>2, <1>5, <1>6, <1>8, FS_CardinalityType, FS_EmptySet
<1> HIDE DEF A, B
<1> QED
  BY <1>4, <1>6, <1>7, <1>9, <1>10, <1>11, <1>12

LEMMA EndInv == ASSUME IInv, End PROVE IInv'
<1>1. CASE mux.pc = "write"
  BY <1>1, CloseSegmentInv
<1>2. CASE mux.pc # "write"
  <2> USE DEF IInv
  <2>1. /\ mux.pc = "open" /\ mux' = Off /\ Off \in MuxType
        /\ UNCHANGED <<active, runs, files, queue, reader>>
    BY <1>2 DEF End, Off, MuxType
  <2>2. UNCHANGED <<Requests, Existing>>
    BY <2>1 DEF Requests, Existing
  <2>3. TypeOK'
    BY <2>1, Types, TypesOK DEF TypeOK
  <2>4. (CreateInv /\ CloseInv /\ DeleteInv /\ OpenInv)'
    BY <2>1, <2>2 DEF CreateInv, CloseInv, DeleteInv, OpenInv, On, Off
  <2>5. (MuxInv /\ WindowInv)'
    BY <2>1 DEF MuxInv, WindowInv, On, Off
  <2>6. DiskInv'
    <3>1. Cardinality(Existing) <= SegmentNum * runs
      BY <2>1, WindowLeft, ExistingFinite DEF On
    <3> QED
      BY <2>1, <2>2, <3>1 DEF DiskInv, On, Off
  <2>7. ReaderInv'
    BY <2>1, <2>2 DEF ReaderInv, Timely, Busy, On, Off
  <2> QED
    BY <2>3, <2>4, <2>5, <2>6, <2>7
<1> QED
  BY <1>1, <1>2

-----------------------------------------------------------------------------
(* The steps of the worker.  A request that has been served is gone, and   *)
(* the others are as they were.                                            *)
LEMMA OthersWait ==
  ASSUME IInv, Takes, UNCHANGED <<reader>>
  PROVE  OpenInv'
<1>1. ASSUME NEW i \in Requests', queue'[i].op = "open"
      PROVE  /\ i + 1 \in Requests /\ queue'[i] = queue[i + 1]
             /\ \A j \in Requests' : queue'[j].op = "open" /\ queue'[j].by = queue'[i].by => j = i
  <2>1. i \in Nat /\ i + 1 \in Requests /\ queue'[i] = queue[i + 1]
    BY DEF Takes
  <2>2. ASSUME NEW j \in Requests', queue'[j].op = "open", queue'[j].by = queue'[i].by
        PROVE  j = i
    <3>1. j \in Nat /\ j + 1 \in Requests /\ queue'[j] = queue[j + 1]
      BY DEF Takes
    <3>2. j + 1 = i + 1
      BY <1>1, <2>1, <2>2, <3>1 DEF IInv, OpenInv
    <3> QED
      BY <2>1, <3>1, <3>2
  <2> QED
    BY <2>1, <2>2
<1> QED
  BY <1>1 DEF IInv, OpenInv

LEMMA OthersKept ==
  ASSUME IInv, Takes, UNCHANGED <<mux>>
  PROVE  (CreateInv /\ CloseInv /\ DeleteInv)'
<1> USE DEF IInv
<1>1. ASSUME NEW i \in Requests'
      PROVE  i \in Nat /\ i + 1 \in Requests /\ queue'[i] = queue[i + 1]
  BY DEF Takes
<1>2. CreateInv'
  <2>1. ASSUME NEW i \in Requests', queue'[i].op = "create", NEW j \in Requests',
               queue'[j].op \in {"create", "delete"}
        PROVE  j <= i
    <3>1. j + 1 <= i + 1
      BY <1>1, <2>1 DEF CreateInv
    <3> QED
      BY <1>1, <3>1
  <2> QED
    BY <1>1, <2>1 DEF CreateInv
<1>3. CloseInv'
  <2>1. ASSUME NEW i \in Requests', queue'[i].op = "close", NEW j \in Requests',
               queue'[j].op = "close"
        PROVE  j = i
    <3>1. j + 1 = i + 1
      BY <1>1, <2>1 DEF CloseInv
    <3> QED
      BY <1>1, <3>1
  <2> QED
    BY <1>1, <2>1 DEF CloseInv
<1>4. DeleteInv'
  BY <1>1 DEF DeleteInv, On
<1> QED
  BY <1>2, <1>3, <1>4

(* When a create or a close is served no other request of the mux thread   *)
(* is on its way.                                                          *)
LEMMA OnlyOpens ==
  ASSUME IInv, Takes, queue[1].op \in {"create", "close"}
  PROVE  /\ queue[1].seg = mux.seg
         /\ mux.pc \in IF queue[1].op = "create" THEN {"opening"} ELSE {"closing", "ending"}
         /\ \A j \in Requests : j # 1 => queue[j].op = "open"
         /\ \A j \in Requests' : queue'[j].op = "open"
<1> USE DEF IInv
<1>1. 1 \in Requests
  BY DEF Takes
<1>2. /\ queue[1].seg = mux.seg
      /\ mux.pc \in IF queue[1].op = "create" THEN {"opening"} ELSE {"closing", "ending"}
  BY <1>1 DEF CreateInv, CloseInv
<1>3. ASSUME NEW j \in Requests, j # 1 PROVE queue[j].op = "open"
  <2>1. j \in Nat /\ ~(j <= 1) /\ queue[j].op \in {"create", "close", "delete", "open"}
    BY <1>3, Types DEF Requests, Request
  <2>2. queue[j].op \notin {"create", "delete", "close"}
    BY <1>1, <1>2, <1>3, <2>1 DEF CreateInv, CloseInv, DeleteInv
  <2> QED
    BY <2>1, <2>2
<1>4. ASSUME NEW j \in Requests' PROVE queue'[j].op = "open"
  <2>1. j + 1 \in Requests /\ queue'[j] = queue[j + 1] /\ j \in Nat /\ j + 1 # 1
    BY DEF Takes, Requests
  <2> QED
    BY <1>3, <2>1
<1> QED
  BY <1>2, <1>3, <1>4

(* A file comes to be: every delete has been served, so that what fell out *)
(* of the window is gone.                                                  *)
LEMMA ServeCreateInv == ASSUME IInv, ServeCreate PROVE IInv'
<1> USE DEF IInv
<1>1. Takes /\ queue[1].op = "create"
  BY Served DEF ServeCreate
<1>2. /\ mux.pc \in {"opening"} /\ queue[1].seg = mux.seg
      /\ \A j \in Requests : j # 1 => queue[j].op = "open"
      /\ \A j \in Requests' : queue'[j].op = "open"
  BY <1>1, OnlyOpens
<1>3. mux \in MuxType /\ mux.seg \in Segments /\ mux.pkts = 0
  BY <1>2, Types DEF MuxInv, On, MuxType, Segments
<1>4. /\ mux' \in MuxType /\ mux'.pc = "round" /\ mux'.seg = mux.seg /\ mux'.pkts = 0
      /\ UNCHANGED <<active, runs, reader>>
  BY <1>3 DEF ServeCreate, MuxType
<1>5. /\ files' \in [Segments -> {"none", "writing", "done"}] /\ files'[mux.seg] = "writing"
      /\ \A s \in Segments : s # mux.seg => files'[s] = files[s]
  BY <1>1, <1>2, <1>3, Types DEF ServeCreate, Takes
<1>6. TypeOK'
  BY <1>1, <1>4, <1>5, Types, TypesOK DEF TypeOK, Takes
<1>7. (CreateInv /\ CloseInv /\ DeleteInv)'
  BY <1>2 DEF CreateInv, CloseInv, DeleteInv
<1>8. OpenInv'
  BY <1>1, <1>4, OthersWait
<1>9. MuxInv'
  BY <1>2, <1>3, <1>4 DEF MuxInv, On
<1>10. WindowInv'
  BY <1>2, <1>3, <1>4, <1>5 DEF WindowInv, On, MuxType, Segments
<1>11. DiskInv'
  <2>1. \A s \in Segments : s = mux.seg - SegmentNum => files[s] = "none"
    <3>1. \A i \in Requests : queue[i].op # "delete"
      BY <1>1, <1>2
    <3> QED
      BY <1>2, <3>1 DEF DiskInv, TypeOK
  <2>2. ASSUME NEW e \in (Existing \ Kept)' PROVE e \in Existing \ Kept
    <3>1. e \in Segments /\ e \in Int /\ mux.seg \in Int /\ files'[e] # "none"
      BY <1>3, <2>2 DEF Existing, Segments
    <3>2. e \notin (mux.seg - SegmentNum + 1) .. mux.seg
      BY <1>4, <2>2 DEF Kept, Last
    <3>3. e # mux.seg /\ files[e] # "none"
      BY <1>5, <3>1, <3>2
    <3>4. e # mux.seg - SegmentNum
      BY <2>1, <3>1, <3>3
    <3>5. e \notin (mux.seg - 1 - SegmentNum + 1) .. (mux.seg - 1)
      BY <3>1, <3>2, <3>4
    <3> QED
      BY <1>2, <3>1, <3>3, <3>5 DEF Existing, Kept, Last
  <2>3. IsFiniteSet(Existing \ Kept)
    BY ExistingFinite, FS_Subset
  <2>4. Cardinality((Existing \ Kept)') <= Cardinality(Existing \ Kept)
    BY <2>2, <2>3, FS_Subset
  <2>5. IsFiniteSet((Existing \ Kept)')
    BY <2>2, <2>3, FS_Subset
  <2>6. Cardinality((Existing \ Kept)') \in Nat /\ Cardinality(Existing \ Kept) \in Nat
    BY <2>3, <2>5, FS_CardinalityType
  <2>7. Cardinality(Existing \ Kept) <= SegmentNum * (runs - 1) /\ SegmentNum * (runs - 1) \in Int
    BY <1>2, Types DEF DiskInv, On
  <2> QED
    BY <1>4, <2>4, <2>6, <2>7 DEF DiskInv, On
<1>12. ReaderInv'
  <2>1. \A r \in Readers : reader[r].seg \in Segments
    BY Types DEF ReaderType, Segments
  <2>2. \A r \in Readers : (Busy(r)' <=> Busy(r)) /\ (Timely(r)' <=> Timely(r))
    BY <1>4 DEF Timely, Busy
  <2>3. On /\ mux'.seg = mux.seg /\ UNCHANGED <<runs, reader>>
    BY <1>2, <1>4 DEF On
  <2>4. \A r \in Readers : Timely(r) => files'[reader[r].seg] = files[reader[r].seg]
    BY <1>3, <1>5, <2>1, <2>3 DEF ReaderInv, Segments
  <2> QED
    BY <1>2, <2>2, <2>3, <2>4 DEF ReaderInv
<1> QED
  BY <1>6, <1>7, <1>8, <1>9, <1>10, <1>11, <1>12

LEMMA ServeCloseInv == ASSUME IInv, ServeClose PROVE IInv'
<1> USE DEF IInv
<1>1. Takes /\ queue[1].op = "close"
  BY Served DEF ServeClose
<1>2. /\ mux.pc \in {"closing", "ending"} /\ queue[1].seg = mux.seg
      /\ \A j \in Requests : j # 1 => queue[j].op = "open"
      /\ \A j \in Requests' : queue'[j].op = "open"
  BY <1>1, OnlyOpens
<1>3. mux \in MuxType /\ mux.seg \in Segments
  BY <1>2, Types DEF MuxInv, On, MuxType, Segments
<1>4. /\ mux' \in MuxType /\ UNCHANGED <<active, runs, reader>>
      /\ \/ mux.pc = "ending" /\ mux' = Off /\ mux'.pc = "off"
         \/ mux'.pc = "closed" /\ mux'.seg = mux.seg /\ mux'.pkts = mux.pkts
  BY <1>2, <1>3 DEF ServeClose, MuxType, Off
<1>5. /\ files' \in [Segments -> {"none", "writing", "done"}] /\ files'[mux.seg] = "done"
      /\ \A s \in Segments : s # mux.seg => files'[s] = files[s]
  BY <1>1, <1>2, <1>3, Types DEF ServeClose, Takes
<1>6. TypeOK'
  BY <1>1, <1>4, <1>5, Types, TypesOK DEF TypeOK, Takes
<1>7. (CreateInv /\ CloseInv /\ DeleteInv)'
  BY <1>2 DEF CreateInv, CloseInv, DeleteInv
<1>8. OpenInv'
  BY <1>1, <1>4, OthersWait
<1>9. MuxInv'
  BY <1>2, <1>3, <1>4 DEF MuxInv, On, Off
<1>10. WindowInv'
  BY <1>2, <1>3, <1>4, <1>5 DEF WindowInv, On, MuxType, Segments
<1>11. DiskInv'
  <2>1. mux.seg \in Kept
    BY <1>2, <1>3 DEF Kept, Last, Segments
  <2>2. Existing' \subseteq Existing \cup {mux.seg}
    BY <1>5 DEF Existing
  <2>3. CASE mux.pc = "ending" /\ mux' = Off
    <3>1. Existing' \in SUBSET Segments /\ Existing' \ Kept \subseteq Existing
      BY <2>1, <2>2 DEF Existing
    <3>2. Cardinality(Existing') <= SegmentNum * runs
      BY <1>2, <3>1, WindowLeft DEF On
    <3> QED
      BY <1>4, <2>3, <3>2 DEF DiskInv, On, Off
  <2>4. CASE mux'.pc = "closed" /\ mux'.seg = mux.seg
    <3>1. Kept' = Kept
      BY <1>2, <2>4 DEF Kept, Last
    <3>2. (Existing \ Kept)' \subseteq Existing \ Kept
      BY <2>1, <2>2, <3>1
    <3>3. IsFiniteSet(Existing \ Kept)
      BY ExistingFinite, FS_Subset
    <3>4. Cardinality((Existing \ Kept)') <= Cardinality(Existing \ Kept)
          /\ IsFiniteSet((Existing \ Kept)')
      BY <3>2, <3>3, FS_Subset
    <3>5. Cardinality((Existing \ Kept)') \in Nat /\ Cardinality(Existing \ Kept) \in Nat
      BY <3>3, <3>4, FS_CardinalityType
    <3>6. Cardinality(Existing \ Kept) <= SegmentNum * (runs - 1)
      BY <1>2 DEF DiskInv, On
    <3>7. SegmentNum * (runs - 1) \in Int
      BY Types
    <3> QED
      BY <1>4, <2>4, <3>4, <3>5, <3>6, <3>7 DEF DiskInv, On
  <2> QED
    BY <1>4, <2>3, <2>4
<1>12. ReaderInv'
  BY <1>2, <1>3, <1>4, <1>5, Types DEF ReaderInv, Timely, Busy, On, ReaderType, MuxType, Segments
<1> QED
  BY <1>6, <1>7, <1>8, <1>9, <1>10, <1>11, <1>12

(* The delete of the segment that fell out of the window: no timely reader *)
(* has it.                                                                 *)
LEMMA ServeDeleteInv == ASSUME IInv, ServeDelete PROVE IInv'
<1> USE DEF IInv
<1>1. Takes /\ queue[1].op = "delete" /\ 1 \in Requests
  BY Served DEF ServeDelete, Takes
<1> DEFINE d == queue[1].seg
<1>2. /\ mux.pc \in {"off", "open", "opening"} /\ d \in Segments
      /\ On => d = mux.seg - SegmentNum \/ mux.seg = 1
  BY <1>1 DEF DeleteInv, Takes, Request
<1>3. /\ files' \in [Segments -> {"none", "writing", "done"}] /\ files'[d] = "none"
      /\ \A s \in Segments : s # d => files'[s] = files[s]
      /\ UNCHANGED <<mux, active, runs, reader>>
  BY <1>1, <1>2, Types DEF ServeDelete, Takes
<1> HIDE DEF d
<1>4. TypeOK'
  BY <1>1, <1>3, Types, TypesOK DEF TypeOK, Takes
<1>5. (CreateInv /\ CloseInv /\ DeleteInv)'
  BY <1>1, <1>3, OthersKept
<1>8. OpenInv'
  BY <1>1, <1>3, OthersWait
<1>9. MuxInv'
  BY <1>3 DEF MuxInv, On
<1>10. WindowInv'
  <2>1. \A s \in Segments : On /\ mux.seg - SegmentNum < s /\ s < mux.seg => s # d
    BY <1>2, Types DEF MuxType, Segments
  <2> QED
    BY <1>2, <1>3, <2>1 DEF WindowInv, On
<1>11. DiskInv'
  <2>1. Existing' \subseteq Existing /\ Kept' = Kept
    BY <1>3 DEF Existing, Kept, Last
  <2>2. IsFiniteSet(Existing) /\ IsFiniteSet(Existing \ Kept)
    BY ExistingFinite, FS_Subset
  <2>3. (Existing \ Kept)' \subseteq Existing \ Kept
    BY <2>1
  <2>4. /\ IsFiniteSet(Existing') /\ IsFiniteSet((Existing \ Kept)')
        /\ Cardinality(Existing') <= Cardinality(Existing)
        /\ Cardinality((Existing \ Kept)') <= Cardinality(Existing \ Kept)
    BY <2>1, <2>2, <2>3, FS_Subset
  <2>5. /\ Cardinality(Existing) \in Nat /\ Cardinality(Existing') \in Nat
        /\ Cardinality(Existing \ Kept) \in Nat /\ Cardinality((Existing \ Kept)') \in Nat
        /\ SegmentNum * runs \in Int /\ SegmentNum * (runs - 1) \in Int
    BY <2>2, <2>4, FS_CardinalityType, Types
  <2>6. ASSUME NEW s \in Segments, mux.pc \in {"open", "opening"}, s = mux.seg - SegmentNum,
               files'[s] # "none"
        PROVE  \E i \in Requests' : queue'[i].op = "delete" /\ queue'[i].seg = s
    <3>1. s # d /\ files[s] # "none"
      BY <1>3, <2>6
    <3>2. PICK i \in Requests : queue[i].op = "delete" /\ queue[i].seg = s
      BY <2>6, <3>1 DEF DiskInv
    <3>3. i # 1
      BY <3>1, <3>2 DEF d
    <3>4. i \in Nat /\ i - 1 \in Requests'
      BY <1>1, <3>3, Types DEF Takes
    <3>5. queue'[i - 1] = queue[(i - 1) + 1] /\ (i - 1) + 1 = i
      BY <1>1, <3>4 DEF Takes
    <3> QED
      BY <3>2, <3>4, <3>5
  <2>7. (On => Cardinality((Existing \ Kept)') <= SegmentNum * (runs - 1))
        /\ (~On => Cardinality(Existing') <= SegmentNum * runs)
    BY <2>4, <2>5 DEF DiskInv
  <2> QED
    BY <1>3, <2>6, <2>7 DEF DiskInv, On
<1>12. ReaderInv'
  <2>1. \A r \in Readers : reader[r].seg \in Segments
    BY Types DEF ReaderType, Segments
  <2>2. \A r \in Readers : (Busy(r)' <=> Busy(r)) /\ (Timely(r)' <=> Timely(r)) /\ (On' <=> On)
    BY <1>3 DEF Timely, Busy, On
  <2>3. \A r \in Readers : Timely(r) => reader[r].seg # d
    BY <1>1 DEF ReaderInv, d
  <2>4. ASSUME NEW r \in Readers, Timely(r), NEW i \in Requests', queue'[i].op = "delete"
        PROVE  queue'[i].seg # reader[r].seg
    BY <1>1, <2>4 DEF ReaderInv, Takes
  <2> QED
    BY <1>3, <2>1, <2>2, <2>3, <2>4 DEF ReaderInv
<1> QED
  BY <1>4, <1>5, <1>8, <1>9, <1>10, <1>11, <1>12

-----------------------------------------------------------------------------
(* The steps of the readers.  One that leaves the mux thread, the files and*)
(* the requests alone disturbs only what is said of the reader itself.     *)
LEMMA ReaderMoves ==
  ASSUME IInv, NEW r \in Readers, NEW x \in ReaderType,
         reader' = [reader EXCEPT ![r] = x], reader[r].pc # "opening",
         UNCHANGED <<mux, active, runs, files, queue>>,
         x.run <= runs,
         x.pc \in {"found", "opening", "read"} =>
           /\ x.seg < MaxSeg
           /\ x.run = runs /\ x.lag <= Slack =>
                /\ files[x.seg] = "done"
                /\ \A i \in Requests : queue[i].op = "delete" => queue[i].seg # x.seg
                /\ On => x.seg < mux.seg /\ mux.seg <= x.seg + Safe + x.lag
  PROVE  IInv'
<1> USE DEF IInv
<1>1. reader' \in [Readers -> ReaderType] /\ reader'[r] = x
      /\ \A q \in Readers \ {r} : reader'[q] = reader[q]
  BY Types
<1>2. UNCHANGED Requests
  BY DEF Requests
<1>3. TypeOK'
  BY <1>1, Types, TypesOK DEF TypeOK
<1>4. (CreateInv /\ CloseInv /\ DeleteInv /\ MuxInv /\ WindowInv)'
  BY <1>2 DEF CreateInv, CloseInv, DeleteInv, MuxInv, WindowInv, On
<1>5. OpenInv'
  BY <1>1, <1>2 DEF OpenInv
<1>6. DiskInv'
  BY <1>2 DEF DiskInv, Existing, Kept, Last, On
<1>7. ReaderInv'
  <2>1. \A q \in Readers \ {r} : (Busy(q)' <=> Busy(q)) /\ (Timely(q)' <=> Timely(q))
    BY <1>1 DEF Busy, Timely
  <2>2. Busy(r)' <=> x.pc \in {"found", "opening", "read"}
    BY <1>1 DEF Busy
  <2>3. Timely(r)' <=> Busy(r)' /\ x.run = runs /\ x.lag <= Slack
    BY <1>1 DEF Timely
  <2> QED
    BY <1>1, <1>2, <2>1, <2>2, <2>3 DEF ReaderInv, On
<1> QED
  BY <1>3, <1>4, <1>5, <1>6, <1>7

(* A reader finds a segment within SAFE_SEGMENT of the current one, which  *)
(* is inside the window and has been closed.                               *)
LEMMA PollInv == ASSUME IInv, NEW r \in Readers, Poll(r) PROVE IInv'
<1> DEFINE s == Window(reader[r].seg, mux.seg)
           x == [pc |-> "found", seg |-> s, run |-> runs, lag |-> 0]
<1> USE DEF IInv
<1>1. /\ reader' = [reader EXCEPT ![r] = x] /\ reader[r].pc # "opening" /\ On
      /\ UNCHANGED <<mux, active, runs, files, queue>>
      /\ reader[r].seg < mux.seg
  BY DEF Poll, On, Ready
<1>2. /\ mux.seg \in 1 .. MaxSeg /\ reader[r].seg \in 1 .. MaxSeg /\ Slack \in Nat
      /\ runs \in 0 .. MaxRuns
  BY <1>1, Types DEF MuxInv, MuxType, ReaderType, TypeOK
<1>3. s \in 1 .. MaxSeg /\ s < mux.seg /\ mux.seg <= s + Safe
  BY <1>1, <1>2 DEF Window
<1> HIDE DEF s
<1>4. x \in ReaderType /\ x.pc = "found" /\ x.seg = s /\ x.run = runs /\ x.lag = 0
  BY <1>2, <1>3 DEF ReaderType
<1>5. mux.seg - SegmentNum < s
  BY <1>2, <1>3
<1>6. files[s] = "done"
  BY <1>1, <1>3, <1>5 DEF WindowInv, Segments
<1>7. \A i \in Requests : queue[i].op = "delete" => queue[i].seg # s
  <2>1. ASSUME NEW i \in Requests, queue[i].op = "delete" PROVE queue[i].seg # s
    <3>1. queue[i].seg = mux.seg - SegmentNum \/ mux.seg = 1
      BY <1>1, <2>1 DEF DeleteInv
    <3> QED
      BY <1>2, <1>3, <1>5, <3>1
  <2> QED
    BY <2>1
<1>8. x.seg < MaxSeg /\ x.seg < mux.seg /\ mux.seg <= x.seg + Safe + x.lag
  BY <1>2, <1>3, <1>4
<1> HIDE DEF x
<1>9. /\ files[x.seg] = "done"
      /\ \A i \in Requests : queue[i].op = "delete" => queue[i].seg # x.seg
  BY <1>4, <1>6, <1>7
<1>10. x.run <= runs
  BY <1>2, <1>4
<1> QED
  BY <1>1, <1>4, <1>8, <1>9, <1>10, ReaderMoves

LEMMA FinishInv == ASSUME IInv, NEW r \in Readers, Finish(r) PROVE IInv'
<1> DEFINE x == [reader[r] EXCEPT !.pc = "poll", !.seg = @ + 1]
<1>1. reader[r] \in ReaderType /\ reader[r].run <= runs /\ reader[r].seg < MaxSeg
  BY Types DEF IInv, ReaderInv, Finish, Busy
<1>2. x \in ReaderType /\ x.pc = "poll" /\ x.run = reader[r].run
  <2>1. reader[r].seg + 1 \in 1 .. MaxSeg
    BY <1>1 DEF ReaderType
  <2> QED
    BY <1>1, <2>1 DEF ReaderType
<1>3. /\ reader' = [reader EXCEPT ![r] = x] /\ reader[r].pc # "opening"
      /\ UNCHANGED <<mux, active, runs, files, queue>>
  BY DEF Finish
<1> HIDE DEF x
<1> QED
  BY <1>1, <1>2, <1>3, ReaderMoves

LEMMA GoneInv == ASSUME IInv, NEW r \in Readers, Leave(r) \/ Disconnect(r) PROVE IInv'
<1> DEFINE x == [reader[r] EXCEPT !.pc = "gone"]
<1>1. reader[r] \in ReaderType /\ reader[r].run <= runs
  BY Types DEF IInv, ReaderInv
<1>2. x \in ReaderType /\ x.pc = "gone" /\ x.run = reader[r].run
  BY <1>1 DEF ReaderType
<1>3. /\ reader' = [reader EXCEPT ![r] = x] /\ reader[r].pc # "opening"
      /\ UNCHANGED <<mux, active, runs, files, queue>>
  BY DEF Leave, Disconnect
<1> HIDE DEF x
<1> QED
  BY <1>1, <1>2, <1>3, ReaderMoves

LEMMA OpenToReadInv == ASSUME IInv, NEW r \in Readers, OpenToRead(r) PROVE IInv'
<1> USE DEF IInv
<1> DEFINE m == Msg("open", reader[r].seg, r)
           x == [reader[r] EXCEPT !.pc = "opening"]
<1>1. reader[r].pc = "found" /\ reader[r] \in ReaderType /\ UNCHANGED <<mux, active, runs, files>>
  BY Types DEF OpenToRead
<1>2. m \in Request /\ m.op = "open" /\ m.seg = reader[r].seg /\ m.by = r
  BY <1>1 DEF Msg, Request, ReaderType, Segments
<1>3. PICK n : Joins(m, n)
  BY <1>2, Asked DEF OpenToRead, Ask
<1>4. /\ x \in ReaderType /\ x.pc = "opening" /\ x.seg = reader[r].seg
      /\ x.run = reader[r].run /\ x.lag = reader[r].lag
  BY <1>1 DEF ReaderType
<1>5. /\ reader' \in [Readers -> ReaderType] /\ reader'[r] = x
      /\ \A q \in Readers \ {r} : reader'[q] = reader[q]
  BY <1>4, Types DEF OpenToRead
<1> HIDE DEF m, x
<1>6. /\ Requests \subseteq Requests' /\ queue' \in Seq(Request)
      /\ \A i \in Requests' : \/ i \in Requests /\ queue'[i] = queue[i] /\ i # n
                              \/ i = n /\ queue'[i] = m
  BY <1>3 DEF Joins
<1>7. TypeOK'
  BY <1>1, <1>5, <1>6, Types, TypesOK DEF TypeOK
<1>8. CreateInv'
  <2>1. ASSUME NEW i \in Requests', queue'[i].op \in {"create", "delete"}
        PROVE  i \in Requests /\ queue'[i] = queue[i]
    BY <1>2, <1>6, <2>1
  <2> QED
    BY <1>1, <2>1 DEF CreateInv
<1>9. CloseInv' /\ DeleteInv'
  <2>1. ASSUME NEW i \in Requests', queue'[i].op \in {"close", "delete"}
        PROVE  i \in Requests /\ queue'[i] = queue[i]
    BY <1>2, <1>6, <2>1
  <2>2. CloseInv'
    BY <1>1, <2>1 DEF CloseInv
  <2>3. DeleteInv'
    BY <1>1, <2>1 DEF DeleteInv, On
  <2> QED
    BY <2>2, <2>3
<1>10. OpenInv'
  <2>1. ASSUME NEW i \in Requests, queue[i].op = "open"
        PROVE  queue[i].by \in Readers \ {r}
    BY <1>1, <2>1 DEF OpenInv
  <2>2. ASSUME NEW i \in Requests', queue'[i].op = "open"
        PROVE  /\ queue'[i].by \in Readers /\ reader'[queue'[i].by].pc = "opening"
               /\ queue'[i].seg = reader'[queue'[i].by].seg
    BY <1>2, <1>4, <1>5, <1>6, <2>1, <2>2 DEF OpenInv
  <2>3. ASSUME NEW i \in Requests', queue'[i].op = "open", NEW j \in Requests',
               queue'[j].op = "open", queue'[j].by = queue'[i].by
        PROVE  j = i
    BY <1>2, <1>6, <2>1, <2>3 DEF OpenInv
  <2> QED
    BY <2>2, <2>3 DEF OpenInv
<1>11. (MuxInv /\ WindowInv)'
  BY <1>1 DEF MuxInv, WindowInv, On
<1>12. DiskInv'
  <2>1. UNCHANGED <<Existing, Kept>>
    BY <1>1 DEF Existing, Kept, Last
  <2>2. \A i \in Requests : queue'[i] = queue[i]
    BY <1>3 DEF Joins
  <2> QED
    BY <1>1, <1>6, <2>1, <2>2 DEF DiskInv, On
<1>13. ReaderInv'
  <2>1. \A q \in Readers : /\ reader'[q].run = reader[q].run /\ reader'[q].seg = reader[q].seg
                           /\ reader'[q].lag = reader[q].lag
                           /\ Busy(q)' <=> Busy(q)
    BY <1>1, <1>4, <1>5 DEF Busy
  <2>2. \A q \in Readers : Timely(q)' <=> Timely(q)
    BY <1>1, <2>1 DEF Timely
  <2>3. ASSUME NEW i \in Requests', queue'[i].op = "delete"
        PROVE  i \in Requests /\ queue'[i] = queue[i]
    BY <1>2, <1>6, <2>3
  <2> QED
    BY <1>1, <2>1, <2>2, <2>3 DEF ReaderInv, On
<1> QED
  BY <1>7, <1>8, <1>9, <1>10, <1>11, <1>12, <1>13

(* The worker opens a file to a reader, or tells it that there is none.    *)
LEMMA ServeOpenInv == ASSUME IInv, ServeOpen PROVE IInv'
<1> USE DEF IInv
<1>1. Takes /\ queue[1].op = "open" /\ 1 \in Requests
  BY Served DEF ServeOpen, Takes
<1> DEFINE r == queue[1].by
<1>2. r \in Readers /\ reader[r].pc = "opening" /\ reader[r] \in ReaderType
      /\ UNCHANGED <<mux, active, runs, files>>
  BY <1>1, Types DEF OpenInv, ServeOpen
<1>3. PICK pc \in {"poll", "read"} : reader' = [reader EXCEPT ![r].pc = pc]
  BY <1>1 DEF ServeOpen, Takes
<1>4. reader' = [reader EXCEPT ![r] = [reader[r] EXCEPT !.pc = pc]]
  BY <1>2, <1>3, Types
<1> HIDE DEF r
<1>5. /\ reader' \in [Readers -> ReaderType]
      /\ reader'[r].pc = pc /\ \A q \in Readers \ {r} : reader'[q] = reader[q]
      /\ \A q \in Readers : /\ reader'[q].run = reader[q].run /\ reader'[q].seg = reader[q].seg
                            /\ reader'[q].lag = reader[q].lag
  <2>1. [reader[r] EXCEPT !.pc = pc] \in ReaderType
    BY <1>2 DEF ReaderType
  <2> QED
    BY <1>2, <1>4, <2>1, Types DEF ReaderType
<1>6. TypeOK'
  BY <1>1, <1>2, <1>5, Types, TypesOK DEF TypeOK, Takes
<1>7. (CreateInv /\ CloseInv /\ DeleteInv)'
  BY <1>1, <1>2, OthersKept
<1>10. OpenInv'
  <2>1. ASSUME NEW i \in Requests', queue'[i].op = "open"
        PROVE  /\ i \in Nat /\ i + 1 \in Requests /\ queue'[i] = queue[i + 1]
               /\ queue'[i].by \in Readers \ {r}
    <3>1. i \in Nat /\ i + 1 \in Requests /\ queue'[i] = queue[i + 1] /\ i + 1 # 1
      BY <1>1 DEF Takes, Requests
    <3>2. queue[i + 1].by # r
      BY <1>1, <2>1, <3>1 DEF OpenInv, r
    <3> QED
      BY <2>1, <3>1, <3>2 DEF OpenInv
  <2>2. ASSUME NEW i \in Requests', queue'[i].op = "open", NEW j \in Requests',
               queue'[j].op = "open", queue'[j].by = queue'[i].by
        PROVE  j = i
    <3>1. j + 1 = i + 1
      BY <2>1, <2>2 DEF OpenInv
    <3> QED
      BY <2>1, <2>2, <3>1
  <2>3. ASSUME NEW i \in Requests', queue'[i].op = "open"
        PROVE  /\ queue'[i].by \in Readers /\ reader'[queue'[i].by].pc = "opening"
               /\ queue'[i].seg = reader'[queue'[i].by].seg
    BY <1>5, <2>1, <2>3 DEF OpenInv
  <2> QED
    BY <2>2, <2>3 DEF OpenInv
<1>11. (MuxInv /\ WindowInv)'
  BY <1>2 DEF MuxInv, WindowInv, On
<1>12. DiskInv'
  <2>1. UNCHANGED <<Existing, Kept>>
    BY <1>2 DEF Existing, Kept, Last
  <2>2. ASSUME NEW i \in Requests, queue[i].op = "delete"
        PROVE  i - 1 \in Requests' /\ queue'[i - 1] = queue[i]
    <3>1. i \in Nat /\ i - 1 \in Requests'
      BY <1>1, <2>2, Types DEF Takes
    <3>2. queue'[i - 1] = queue[(i - 1) + 1] /\ (i - 1) + 1 = i
      BY <1>1, <3>1 DEF Takes
    <3> QED
      BY <3>1, <3>2
  <2>3. ASSUME NEW s, \E i \in Requests : queue[i].op = "delete" /\ queue[i].seg = s
        PROVE  \E i \in Requests' : queue'[i].op = "delete" /\ queue'[i].seg = s
    BY <2>2, <2>3
  <2> QED
    BY <1>2, <2>1, <2>3 DEF DiskInv, On
<1>13. ReaderInv'
  <2>1. \A q \in Readers : (Busy(q)' => Busy(q)) /\ (Timely(q)' => Timely(q))
    BY <1>2, <1>5 DEF Busy, Timely
  <2>2. ASSUME NEW q \in Readers, Timely(q), NEW i \in Requests', queue'[i].op = "delete"
        PROVE  queue'[i].seg # reader[q].seg
    BY <1>1, <2>2 DEF ReaderInv, Takes
  <2> QED
    BY <1>2, <1>5, <2>1, <2>2 DEF ReaderInv, On
<1> QED
  BY <1>6, <1>7, <1>10, <1>11, <1>12, <1>13

-----------------------------------------------------------------------------
LEMMA InitInv == Init => IInv
<1> SUFFICES ASSUME Init PROVE IInv
  OBVIOUS
<1> USE DEF Init
<1>1. Requests = {}
  BY DEF Requests
<1>2. TypeOK
  <2>1. mux \in MuxType
    BY DEF Off, MuxType
  <2>2. reader \in [Readers -> ReaderType]
    BY DEF ReaderType, Slack
  <2>3. queue \in Seq(Request) /\ runs \in 0 .. MaxRuns
    OBVIOUS
  <2> QED
    BY <2>1, <2>2, <2>3 DEF TypeOK, MuxType, ReaderType, Request
<1>3. CreateInv /\ CloseInv /\ DeleteInv /\ OpenInv
  BY <1>1 DEF CreateInv, CloseInv, DeleteInv, OpenInv
<1>4. MuxInv /\ WindowInv
  BY DEF MuxInv, WindowInv, On, Off
<1>5. DiskInv
  <2>1. Existing = {}
    BY DEF Existing
  <2>2. Cardinality(Existing) <= SegmentNum * runs
    BY <2>1, FS_EmptySet
  <2> QED
    BY <2>2 DEF DiskInv, On, Off
<1>6. ReaderInv
  BY DEF ReaderInv, Timely, Busy
<1> QED
  BY <1>2, <1>3, <1>4, <1>5, <1>6 DEF IInv

LEMMA StepInv == IInv /\ [Next]_vars => IInv'
<1> SUFFICES ASSUME IInv, [Next]_vars PROVE IInv'
  OBVIOUS
<1>1. ASSUME Mux PROVE IInv'
  BY <1>1, OpenSegmentInv, QuietInv, RoundInv, CloseSegmentInv, NextSegmentInv, EndInv DEF Mux
<1>2. ASSUME Worker PROVE IInv'
  BY <1>2, ServeCreateInv, ServeCloseInv, ServeDeleteInv, ServeOpenInv DEF Worker
<1>3. ASSUME NEW r \in Readers, Reader(r) \/ Disconnect(r) PROVE IInv'
  BY <1>3, PollInv, OpenToReadInv, FinishInv, GoneInv DEF Reader
<1>4. CASE UNCHANGED vars
  <2>1. UNCHANGED <<mux, active, runs, files, queue, reader, Requests>>
    BY <1>4 DEF vars, Requests
  <2> QED
    BY <2>1 DEF IInv, TypeOK, CreateInv, CloseInv, DeleteInv, OpenInv, MuxInv, WindowInv, DiskInv,
                ReaderInv, Existing, Kept, Last, On, Timely, Busy
<1> QED
  BY <1>1, <1>2, <1>3, <1>4, StartInv, QuietInv DEF Next

(* The strengthening is an invariant of every behaviour.                   *)
THEOREM Inductive == SafetySpec => []IInv
BY InitInv, StepInv, PTL DEF SafetySpec

(* Channel::stream keeps at most SEGMENT_NUM files of a run, though nobody *)
(* waits for its deletes, and a segment has at most a round more than      *)
(* SEGMENT_PKTS packets whatever the PCR does.                             *)
THEOREM BoundsKept == SafetySpec => []Bounded
<1>1. IInv => Bounded
  <2> SUFFICES ASSUME IInv PROVE Bounded
    OBVIOUS
  <2>1. CASE On
    <3>1. Cardinality(Existing) <= SegmentNum * runs
      BY <2>1, WindowLeft, ExistingFinite
    <3> QED
      BY <3>1 DEF Bounded, DiskBounded, SegmentBounded, Existing, IInv, MuxInv
  <2>2. CASE ~On
    BY <2>2 DEF Bounded, DiskBounded, SegmentBounded, Existing, IInv, MuxInv, DiskInv
  <2> QED
    BY <2>1, <2>2
<1> QED
  BY <1>1, Inductive, PTL

(* What sendRawChannel reads is a whole segment, however the worker, the   *)
(* mux thread and other servents interleave, if it is no slower than the   *)
(* window allows and the channel has not been started again meanwhile.     *)
THEOREM WholeReads == SafetySpec => []ReadsWhole
<1>1. IInv => ReadsWhole
  BY DEF IInv, ReaderInv, Timely, Busy, ReadsWhole
<1> QED
  BY <1>1, Inductive, PTL
=============================================================================
