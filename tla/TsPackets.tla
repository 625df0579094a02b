------------------------------ MODULE TsPackets ------------------------------
(***************************************************************************)
(* The head of a segment file.  Before a segment carries a stream packet,  *)
(* the mux thread builds a program association and a program map section   *)
(* (dvbpsi.cpp), cuts them into transport-stream packets (PEStoTS), and    *)
(* writes the packets to the file (channel.cpp, 365-413 and 456-473).      *)
(* Every allocation may fail, and a write may drop a packet.               *)
(*                                                                         *)
(* Bytes are numbers.  The 256-entry CRC table is not transcribed: Crc is  *)
(* any function from the bytes it covers to four bytes.                    *)
(*                                                                         *)
(* What a receiver makes of the packets is written from ISO 13818-1, not   *)
(* from the code: it is what the code is checked against.                  *)
(***************************************************************************)
EXTENDS Integers, Sequences, SequencesExt, FiniteSets

CONSTANTS Payload,     \* bytes of a packet after its header; 184
          Streams,     \* MAX_STREAM_NUM slots of a channel
          Pid(_),      \* i_org_pid of a slot
          Type(_),     \* i_org_type of a slot
          Service,     \* i_service_id
          PmtPid,      \* i_pmt_pid
          PcrPid,      \* i_pcr_pid
          Section,     \* bytes of the buffer of a section; 1024
          Crc(_),      \* CRC_32 of a sequence of bytes, as four bytes
          MaxFails     \* bound: allocations that fail and writes that drop

Pids == 0 .. 8191

(* dvbpsi_pmt_sections_generate tests the room for descriptors, of which   *)
(* the program adds none, but not for the five bytes of a stream.          *)
SectionAssumption == 12 + 5 * Cardinality(Streams) + 4 <= Section
PidAssumption ==
    /\ {PmtPid, PcrPid} \cup {Pid(i) : i \in Streams} \subseteq Pids \ {0}
    /\ \A i \in Streams : Pid(i) # PmtPid

(* Assumed where the module is used.                                       *)
PacketsAssumption ==
    /\ Streams \subseteq Nat /\ IsFiniteSet(Streams)
    /\ Payload \in Nat \ {0}
    /\ SectionAssumption /\ PidAssumption

VARIABLES used,    \* the slots with b_used
          pc,      \* where getDvbPsi is, then the write of the chain
          pes,     \* what PEStoTS has left of its block
          i_pid,   \* its parameter
          new_pes, \* b_new_pes
          cc,      \* i_continuity_counter
          chain,   \* the packets in buffer_chain_t
          file,    \* the packets written to the segment
          fails    \* failures so far

vars == <<used, pc, pes, i_pid, new_pes, cc, chain, file, fails>>

-----------------------------------------------------------------------------
(* Sections.                                                               *)

High(n) == n \div 256
Low(n) == n % 256

(* Plausible slips are the operators named _Mut.                           *)

(* dvbpsi_BuildPSISection: the header of eight bytes, with version 1, the  *)
(* current_next_indicator and section 0 of 0, and the CRC of all bytes up  *)
(* to p_payload_end.  body is what the generator put after the header.     *)
BuildPSISection_Mut(table_id, extension, body) ==
    LET length  == 5 + Len(body)
        section == << table_id, 176 + High(length), Low(length),
                      High(extension), Low(extension), 195, 0, 0 >> \o body
    IN  section \o Crc(section)

BuildPSISection(table_id, extension, body) ==
    LET length  == 9 + Len(body)
        section == << table_id, 176 + High(length), Low(length),
                      High(extension), Low(extension), 195, 0, 0 >> \o body
    IN  section \o Crc(section)

(* dvbpsi_pat_program_add and dvbpsi_pat_sections_generate: programs holds *)
(* the one program, or nothing when its node could not be allocated.       *)
PatSection(programs) ==
    BuildPSISection(0, 1, FlattenSeq(
        [k \in 1 .. Len(programs) |->
            << High(programs[k].number), Low(programs[k].number),
               224 + High(programs[k].pid), Low(programs[k].pid) >>]))

(* dvbpsi_pmt_sections_generate: no descriptors, hence both info lengths   *)
(* are 0 and there is one section.  The slip swaps the bytes of the PID.   *)
PmtSection_Mut(streams) ==
    BuildPSISection(2, Service,
        << 224 + High(PcrPid), Low(PcrPid), 240, 0 >> \o FlattenSeq(
            [k \in 1 .. Len(streams) |->
                << Type(streams[k]), Low(Pid(streams[k])),
                   224 + High(Pid(streams[k])), 240, 0 >>]))

PmtSection(streams) ==
    BuildPSISection(2, Service,
        << 224 + High(PcrPid), Low(PcrPid), 240, 0 >> \o FlattenSeq(
            [k \in 1 .. Len(streams) |->
                << Type(streams[k]), 224 + High(Pid(streams[k])),
                   Low(Pid(streams[k])), 240, 0 >>]))

(* WritePSISection: the pointer_field, then the section with its CRC.      *)
WritePSISection(section) == <<0>> \o section

(* The loop of getDvbPsi over the slots, in their order.                   *)
InOrderOf(slots) == SetToSortSeq(slots, <)

-----------------------------------------------------------------------------
(* One packet of PEStoTS.                                                  *)

Copied == IF Len(pes) < Payload THEN Len(pes) ELSE Payload

(* The adaptation field that fills the packet up: its length, its flags if *)
(* there is room for them, and stuffing.                                   *)
Stuffing(n) ==
    << n - 1 >> \o (IF n > 1 THEN <<0>> \o [k \in 1 .. n - 2 |-> 255] ELSE <<>>)

Packet ==
    << 71,
       (IF new_pes THEN 64 ELSE 0) + (High(i_pid) % 32),
       Low(i_pid),
       (IF Len(pes) < Payload THEN 48 ELSE 16) + cc >>
    \o (IF Len(pes) < Payload THEN Stuffing(Payload - Copied) ELSE <<>>)
    \o SubSeq(pes, 1, Copied)

(* buffer_chain_t, with its depth the length of the sequence.              *)
BufferChainAppend(b) == Append(chain, b)
BufferChainGet == Head(chain)

-----------------------------------------------------------------------------
Init ==
    /\ used \in SUBSET Streams
    /\ pc = "pat"
    /\ pes = <<>> /\ i_pid = 0 /\ new_pes = FALSE /\ cc = 0
    /\ chain = <<>> /\ file = <<>> /\ fails = 0

MayFail == fails < MaxFails /\ fails' = fails + 1

(* A call of PEStoTS begins with a block of one section.                   *)
Cut(section, pid) ==
    /\ pes' = WritePSISection(section)
    /\ i_pid' = pid
    /\ new_pes' = TRUE
    /\ cc' = 0

(* getDvbPsi has no memory for its PMT and returns: the segment begins     *)
(* without tables.                                                         *)
NoTables ==
    /\ pc = "pat" /\ MayFail
    /\ pc' = "write"
    /\ UNCHANGED <<used, pes, i_pid, new_pes, cc, chain, file>>

(* A section or its block cannot be allocated: WritePSISection returns     *)
(* NULL and PEStoTS reads through it.                                      *)
NullBlock ==
    /\ pc \in {"pat", "pmt"} /\ MayFail
    /\ pc' = "crashed"
    /\ UNCHANGED <<used, pes, i_pid, new_pes, cc, chain, file>>

GeneratePat ==
    /\ pc = "pat"
    /\ pc' = "cut pat"
    /\ \/ /\ Cut(PatSection(<<[number |-> Service, pid |-> PmtPid]>>), 0)
          /\ UNCHANGED fails
       \/ Cut(PatSection(<<>>), 0) /\ MayFail
    /\ UNCHANGED <<used, chain, file>>

(* dvbpsi_pmt_es_add returns NULL for the streams lost, which nobody looks  *)
(* at.                                                                     *)
GeneratePmt ==
    /\ pc = "pmt"
    /\ pc' = "cut pmt"
    /\ \E lost \in SUBSET used :
          /\ fails' = fails + Cardinality(lost)
          /\ Cut(PmtSection(InOrderOf(used \ lost)), PmtPid)
    /\ fails' <= MaxFails
    /\ UNCHANGED <<used, chain, file>>

AfterCut == IF pc = "cut pat" THEN "pmt" ELSE "write"

(* One pass of the loop: a packet goes to the end of the chain.            *)
PEStoTS ==
    /\ pc \in {"cut pat", "cut pmt"}
    /\ chain' = BufferChainAppend(Packet)
    /\ pes' = SubSeq(pes, Copied + 1, Len(pes))
    /\ new_pes' = FALSE
    /\ cc' = (cc + 1) % 16
    /\ pc' = IF Len(pes) <= Payload THEN AfterCut ELSE pc
    /\ UNCHANGED <<used, i_pid, file, fails>>

(* block_Alloc fails: the rest of the section is dropped.                  *)
PEStoTSFails ==
    /\ pc \in {"cut pat", "cut pmt"} /\ MayFail
    /\ pc' = AfterCut
    /\ UNCHANGED <<used, pes, i_pid, new_pes, cc, chain, file>>

(* The loop of Channel::stream over the chain.  i_depth was read before it *)
(* and BufferChainGet takes from the front; a write that fails is only     *)
(* reported.                                                               *)
WritePacket ==
    /\ pc = "write" /\ chain # <<>>
    /\ chain' = Tail(chain)
    /\ \/ file' = Append(file, BufferChainGet) /\ UNCHANGED fails
       \/ file' = file /\ MayFail
    /\ UNCHANGED <<used, pc, pes, i_pid, new_pes, cc>>

Next ==
    \/ NoTables \/ NullBlock \/ GeneratePat \/ GeneratePmt
    \/ PEStoTS \/ PEStoTSFails \/ WritePacket

Spec == Init /\ [][Next]_vars
-----------------------------------------------------------------------------
(* The receiver, from ISO 13818-1.                                         *)

PidOf(p) == (p[2] % 32) * 256 + p[3]
Starts(p) == (p[2] \div 64) % 2 = 1
Counter(p) == p[4] % 16
Adapted(p) == (p[4] \div 32) % 2 = 1
Body(p) == SubSeq(p, IF Adapted(p) THEN 6 + p[5] ELSE 5, Len(p))

(* The bytes that begin in packet k of the packets f of one PID: up to the *)
(* next start, and only as long as no packet is missing.                   *)
Unit(f, k) ==
    LET follows(n) == /\ ~Starts(f[n])
                      /\ Counter(f[n]) = (Counter(f[n - 1]) + 1) % 16
        last == CHOOSE n \in k .. Len(f) :
                    /\ \A m \in k + 1 .. n : follows(m)
                    /\ n < Len(f) => ~follows(n + 1)
    IN  FlattenSeq([n \in 1 .. last - k + 1 |-> Body(f[k + n - 1])])

Length(s) == 3 + (s[2] % 16) * 256 + s[3]

(* The complete sections with a valid CRC that a unit begins with.         *)
SectionsIn(unit) ==
    LET rest == SubSeq(unit, 2 + unit[1], Len(unit))
    IN  IF Len(rest) < 3 \/ Len(rest) < Length(rest) THEN {}
        ELSE {s \in {SubSeq(rest, 1, Length(rest))} :
                  SubSeq(s, Len(s) - 3, Len(s)) = Crc(SubSeq(s, 1, Len(s) - 4))}

Received(table_id, pid) ==
    LET f == SelectSeq(file, LAMBDA p : PidOf(p) = pid)
    IN  {s \in UNION {SectionsIn(Unit(f, k)) :
                         k \in {n \in 1 .. Len(f) : Starts(f[n])}} :
            s[1] = table_id}

Number16(s, o) == s[o] * 256 + s[o + 1]
Number13(s, o) == (s[o] % 32) * 256 + s[o + 1]
Number12(s, o) == (s[o] % 16) * 256 + s[o + 1]

Programs(s) ==
    [k \in 1 .. (Len(s) - 12) \div 4 |->
        <<Number16(s, 5 + 4 * k), Number13(s, 7 + 4 * k)>>]

(* The streams of a map section, from offset o on.                         *)
StreamsOf(s) ==
    LET from[o \in Nat] ==
            IF o + 4 > Len(s) - 4 THEN <<>>
            ELSE << <<s[o], Number13(s, o + 1)>> >>
                 \o from[o + 5 + Number12(s, o + 3)]
    IN  from[13 + Number12(s, 11)]

Map(slots) == [k \in 1 .. Len(slots) |-> <<Type(slots[k]), Pid(slots[k])>>]

-----------------------------------------------------------------------------
(* What getDvbPsi and the write have in hand has the form it should have;  *)
(* in particular every packet has 188 bytes, a sync byte, and a length of  *)
(* its adaptation field that stays inside it (channel.cpp:120-155).        *)
WholePacket(p) ==
    /\ Len(p) = 4 + Payload
    /\ p[1] = 71
    /\ \A k \in 1 .. Len(p) : p[k] \in 0 .. 255
    /\ Adapted(p) => p[5] < Payload

TypeOK ==
    /\ used \subseteq Streams
    /\ pc \in {"pat", "cut pat", "pmt", "cut pmt", "write", "crashed"}
    /\ \A k \in 1 .. Len(pes) : pes[k] \in 0 .. 255
    /\ Len(pes) <= Section + 1
    /\ i_pid \in Pids /\ new_pes \in BOOLEAN /\ cc \in 0 .. 15
    /\ \A k \in 1 .. Len(chain) : WholePacket(chain[k])
    /\ \A k \in 1 .. Len(file) : WholePacket(file[k])
    /\ fails \in 0 .. MaxFails

(* If nothing failed, a receiver that reads the head of the segment knows  *)
(* the program, its clock and all its streams before the first stream      *)
(* packet, whatever the sizes of the sections are relative to the payload  *)
(* of a packet (getDvbPsi, channel.cpp:365-413).                           *)
Decodable ==
    pc = "write" /\ chain = <<>> /\ fails = 0 =>
        /\ {Programs(s) : s \in Received(0, 0)} = {<< <<Service, PmtPid>> >>}
        /\ {StreamsOf(s) : s \in Received(2, PmtPid)} = {Map(InOrderOf(used))}
        /\ {Number13(s, 9) : s \in Received(2, PmtPid)} = {PcrPid}

(* Whatever fails, and however far the write has got, no section that a    *)
(* receiver accepts is wrong: it may lack the program or a stream whose    *)
(* node could not be allocated, but names no other, and a section cut      *)
(* short by a lost packet is not accepted (channel.cpp:110, 470).          *)
NeverMisleads ==
    /\ \A s \in Received(0, 0) :
          Programs(s) \in {<<>>, << <<Service, PmtPid>> >>}
    /\ \A s \in Received(2, PmtPid) :
          /\ Number13(s, 9) = PcrPid
          /\ \E slots \in SUBSET used : StreamsOf(s) = Map(InOrderOf(slots))

(* Whole packets, and no wrong section in them (channel.cpp:110-160).      *)
HeadSound == TypeOK /\ NeverMisleads
=============================================================================
