---------------------------- MODULE SegmentWindow ----------------------------
(***************************************************************************)
(* The sliding window of segment files: the mux thread (Channel::stream)   *)
(* writes segment seg_index, closes it and deletes the one SEGMENT_NUM     *)
(* back; each direct servent (Servent::sendRawChannel) follows at most     *)
(* SAFE_SEGMENT behind.  They share nothing but seg_index, which a reader  *)
(* loads without a lock, and the files, which the ramfs worker creates,    *)
(* closes, deletes and opens in the order the requests were queued (RamFs).*)
(* Nothing stops the worker from deleting a file that is open for reading: *)
(* FatFs is built with _FS_LOCK 0.                                         *)
(***************************************************************************)
EXTENDS Integers, Sequences, FiniteSets

CONSTANTS
  SegmentNum,  (* SEGMENT_NUM, the files that are kept                     *)
  Safe,        (* SAFE_SEGMENT, how far behind a reader may start          *)
  SegmentPkts, (* SEGMENT_PKTS, packets after which a segment is full      *)
  Duration,    (* SEGMENT_DURATION, in the unit of the PCR values          *)
  Streams,     (* the streams of the channel: packets of one mux round     *)
  Pcr,         (* the PCR values the packets may carry                     *)
  Readers,     (* the direct servents                                      *)
  MaxSeg,      (* bound: the last segment of a run                         *)
  MaxRuns      (* bound: how often the channel is started                  *)

ASSUME WindowAssumption ==
  {SegmentNum, Safe, Streams, MaxSeg} \subseteq Nat \ {0} /\ Safe < SegmentNum
ASSUME LimitAssumption  == {SegmentPkts, Duration, MaxRuns} \subseteq Nat
ASSUME PcrAssumption    == Pcr \subseteq Nat

VARIABLES
  mux,     (* the mux thread and its m_segment                             *)
  active,  (* thread.active                                                *)
  runs,    (* how often the channel has been started                       *)
  files,   (* per segment number: no file, being written, or closed        *)
  queue,   (* the requests on their way to the ramfs worker                *)
  reader   (* per servent: where it is, rSegIndex and, for the segment it  *)
           (* found, the run of the channel and the rotations since        *)

vars == <<mux, active, runs, files, queue, reader>>

Segments == 1 .. MaxSeg
(* Rotations a reader may need from finding a segment to the end of reading*)
(* it, before the segment falls out of the window.                         *)
Slack    == SegmentNum - Safe - 1

Off      == [pc |-> "off", seg |-> 0, pkts |-> 0, first |-> 0, last |-> 0]

Init ==
  /\ mux = Off
  /\ active = FALSE
  /\ runs = 0
  /\ files = [s \in Segments |-> "none"]
  /\ queue = <<>>
  /\ reader = [r \in Readers |-> [pc |-> "poll", seg |-> 1, run |-> 0, lag |-> 0]]

Msg(op, s, by) == [op |-> op, seg |-> s, by |-> by]

Ask(op, s, by) == queue' = Append(queue, Msg(op, s, by))

-----------------------------------------------------------------------------
(* The mux thread. *)

Start ==
  /\ mux.pc = "off" /\ runs < MaxRuns
  /\ mux' = [Off EXCEPT !.pc = "open", !.seg = 1]
  /\ active' = TRUE
  /\ runs' = runs + 1
  /\ UNCHANGED <<files, queue, reader>>

Stop ==
  /\ active
  /\ active' = FALSE
  /\ UNCHANGED <<mux, runs, files, queue, reader>>

(* ramfs_fopen with FA_CREATE_ALWAYS. *)
OpenSegment ==
  /\ mux.pc = "open" /\ active
  /\ Ask("create", mux.seg, "mux")
  /\ mux' = [mux EXCEPT !.pc = "opening"]
  /\ UNCHANGED <<active, runs, files, reader>>

(* The segment goes on while it is short in time and in packets. *)
Continues(m) == m.last <= m.first + Duration /\ m.pkts <= SegmentPkts

(* The segment after a PCR: 0 stands for "none yet" in i_first_dts. *)
Timed(m, p) == [m EXCEPT !.first = IF @ = 0 THEN p ELSE @, !.last = p]

(* The head of the loop, with a file open, is where a stop is noticed. *)
Enter ==
  /\ mux.pc = "write" /\ active
  /\ mux' = [mux EXCEPT !.pc = "round"]
  /\ UNCHANGED <<active, runs, files, queue, reader>>

(* One round over the streams takes a packet of some of them, perhaps with *)
(* a PCR, and decides after that; a round of no packet changes nothing.    *)
Round ==
  /\ mux.pc = "round"
  /\ \E n \in 1 .. Streams, m \in {mux} \cup {Timed(mux, p) : p \in Pcr} :
       LET now == [m EXCEPT !.pkts = @ + n]
       IN  mux' = [now EXCEPT !.pc = IF Continues(now) THEN "write" ELSE "full"]
  /\ UNCHANGED <<active, runs, files, queue, reader>>

CloseSegment ==
  /\ mux.pc = "full"
  /\ Ask("close", mux.seg, "mux")
  /\ mux' = [mux EXCEPT !.pc = "closing"]
  /\ UNCHANGED <<active, runs, files, reader>>

(* A reader between finding a segment and the end of reading it.           *)
Busy(r) == reader[r].pc \in {"found", "opening", "read"}

Outdated_Mut(s) == {s - SegmentNum - 1} \cap Segments

(* The segment that falls out of the window when s becomes the current one.*)
Outdated(s) == {s - SegmentNum} \cap Segments

(* seg_index moves on; the delete is sent and not waited for. *)
NextSegment ==
  LET s == mux.seg + 1
  IN  /\ mux.pc = "closed" /\ s <= MaxSeg
      /\ mux' = [Off EXCEPT !.pc = "open", !.seg = s]
      /\ queue' = IF Outdated(s) = {} THEN queue
                  ELSE Append(queue, Msg("delete", CHOOSE d \in Outdated(s) : TRUE, "mux"))
      /\ reader' = [r \in Readers |-> IF Busy(r) /\ reader[r].lag <= Slack
                                      THEN [reader[r] EXCEPT !.lag = @ + 1]
                                      ELSE reader[r]]
      /\ UNCHANGED <<active, runs, files>>

(* The end of the thread: it closes the file it has open.  The rmdir that  *)
(* follows fails, for the directory is not empty, and close() resets       *)
(* m_segment.                                                              *)
End ==
  /\ ~active
  /\ \/ /\ mux.pc = "write"
        /\ Ask("close", mux.seg, "mux")
        /\ mux' = [mux EXCEPT !.pc = "ending"]
     \/ /\ mux.pc = "open"
        /\ mux' = Off
        /\ UNCHANGED queue
  /\ UNCHANGED <<active, runs, files, reader>>

-----------------------------------------------------------------------------
(* The ramfs worker serves the oldest request. *)

Serving(op) == queue # <<>> /\ Head(queue).op = op /\ queue' = Tail(queue)

ServeCreate ==
  /\ Serving("create")
  /\ files' = [files EXCEPT ![Head(queue).seg] = "writing"]
  /\ mux' = [mux EXCEPT !.pc = "round"]
  /\ UNCHANGED <<active, runs, reader>>

ServeClose ==
  /\ Serving("close")
  /\ files' = [files EXCEPT ![Head(queue).seg] = "done"]
  /\ mux' = IF mux.pc = "ending" THEN Off ELSE [mux EXCEPT !.pc = "closed"]
  /\ UNCHANGED <<active, runs, reader>>

ServeDelete ==
  /\ Serving("delete")
  /\ files' = [files EXCEPT ![Head(queue).seg] = "none"]
  /\ UNCHANGED <<mux, active, runs, reader>>

(* An open that fails sends the reader back to look at seg_index again. *)
ServeOpen ==
  /\ Serving("open")
  /\ reader' = [reader EXCEPT ![Head(queue).by].pc =
                  IF files[Head(queue).seg] = "none" THEN "poll" ELSE "read"]
  /\ UNCHANGED <<mux, active, runs, files>>

-----------------------------------------------------------------------------
(* A direct servent. *)

Ready_Mut(s) == s <= mux.seg
Ready(s)     == s < mux.seg

Window_Mut(s, w) == s

(* A reader that is too far behind jumps to SAFE_SEGMENT behind. *)
Window(s, w) == IF s + Safe < w THEN w - Safe ELSE s

Poll(r) ==
  /\ reader[r].pc = "poll" /\ mux.pc # "off"
  /\ Ready(reader[r].seg)
  /\ reader' = [reader EXCEPT ![r] =
                  [pc |-> "found", seg |-> Window(@.seg, mux.seg), run |-> runs, lag |-> 0]]
  /\ UNCHANGED <<mux, active, runs, files, queue>>

OpenToRead(r) ==
  /\ reader[r].pc = "found"
  /\ Ask("open", reader[r].seg, r)
  /\ reader' = [reader EXCEPT ![r].pc = "opening"]
  /\ UNCHANGED <<mux, active, runs, files>>

(* The last packet is sent and the file closed; on to the next segment. *)
Finish(r) ==
  /\ reader[r].pc = "read"
  /\ reader' = [reader EXCEPT ![r].pc = "poll", ![r].seg = @ + 1]
  /\ UNCHANGED <<mux, active, runs, files, queue>>

(* A channel that is gone ends the servent's loop. *)
Leave(r) ==
  /\ reader[r].pc = "poll" /\ mux.pc = "off" /\ runs > 0
  /\ reader' = [reader EXCEPT ![r].pc = "gone"]
  /\ UNCHANGED <<mux, active, runs, files, queue>>

(* The head of the loop, where a client that has hung up is noticed.  The  *)
(* close of the file it was reading changes nothing that is modelled here. *)
Disconnect(r) ==
  /\ reader[r].pc \in {"poll", "read"}
  /\ reader' = [reader EXCEPT ![r].pc = "gone"]
  /\ UNCHANGED <<mux, active, runs, files, queue>>

-----------------------------------------------------------------------------
Mux    == OpenSegment \/ Enter \/ Round \/ CloseSegment \/ NextSegment \/ End
Worker == ServeCreate \/ ServeClose \/ ServeDelete \/ ServeOpen
Reader(r) == Poll(r) \/ OpenToRead(r) \/ Finish(r) \/ Leave(r)

Next ==
  \/ Start \/ Stop
  \/ Mux
  \/ Worker
  \/ \E r \in Readers : Reader(r) \/ Disconnect(r)

SafetySpec == Init /\ [][Next]_vars

(* The worker and the readers run; nothing is asked of the DVB input.      *)
Spec == SafetySpec /\ WF_vars(Worker) /\ \A r \in Readers : WF_vars(Reader(r))

-----------------------------------------------------------------------------
(* Types of the segment, the files, the requests and the readers. *)
TypeOK ==
  /\ mux \in [pc : {"off", "open", "opening", "write", "round", "full", "closing",
                    "closed", "ending"},
              seg : 0 .. MaxSeg, pkts : Nat, first : Pcr \cup {0}, last : Pcr \cup {0}]
  /\ active \in BOOLEAN
  /\ runs \in 0 .. MaxRuns
  /\ files \in [Segments -> {"none", "writing", "done"}]
  /\ queue \in Seq([op : {"create", "close", "delete", "open"}, seg : Segments,
                    by : Readers \cup {"mux"}])
  /\ reader \in [Readers -> [pc : {"poll", "found", "opening", "read", "gone"},
                             seg : 1 .. MaxSeg, run : 0 .. MaxRuns, lag : 0 .. Slack + 1]]

(* While it is being read a segment is whole: closed before the reader     *)
(* opened it and neither deleted nor rewritten before the reader is done,  *)
(* if the reader needs at most Slack rotations and the channel is not      *)
(* started again meanwhile.  Slack is 1 with the window of the code        *)
(* (SEGMENT_NUM 4, SAFE_SEGMENT 2).                                        *)
ReadsWhole ==
  \A r \in Readers :
    reader[r].pc = "read" /\ reader[r].lag <= Slack /\ reader[r].run = runs
      => files[reader[r].seg] = "done"

(* The disk holds at most SEGMENT_NUM files of a run: the delete of the    *)
(* outdated one is served before the next one is created, although nobody  *)
(* waits for it.  Each earlier run may have left as many behind.           *)
DiskBounded == Cardinality({s \in Segments : files[s] # "none"}) <= SegmentNum * runs

(* A segment has at most a round more than SEGMENT_PKTS packets, whatever  *)
(* the PCR does: 0, standing still, or jumping back when its 33 bits wrap. *)
SegmentBounded == mux.pkts <= SegmentPkts + Streams

(* Both bounds, of well-typed segments and files (channel.cpp:543-568).    *)
Bounded == TypeOK /\ DiskBounded /\ SegmentBounded

(* A reader for which there is a finished segment gets to read one: it     *)
(* does not keep asking for a file that has been deleted.                  *)
GetsToRead ==
  \A r \in Readers :
    (reader[r].pc = "poll" /\ reader[r].seg < mux.seg)
      ~> (reader[r].pc \in {"read", "gone"} \/ mux.pc = "off")
=============================================================================
