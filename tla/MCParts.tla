------------------------------ MODULE MCParts ------------------------------
(***************************************************************************)
(* The parts that share no state with the threads of the other modules,    *)
(* each on its own: the head of a segment, the disk in memory, a page, a   *)
(* connection, and the sessions. A behaviour is one of one part, which the *)
(* initial state chooses; the variables of the others keep a value of      *)
(* their initial states.                                                   *)
(***************************************************************************)
EXTENDS RamDisk, HttpExchange, Sessions

CONSTANT Parts

VARIABLE part

(* Around the sizes where the volume becomes FAT16 or FAT32, where its     *)
(* sectors no longer fit a word, and where it is too small. 24576 and 512  *)
(* are the program's. Every remainder of an address is there.              *)
MCDisks == {127, 128, 160, 224, 225, 4000, 4213, 4245, 4246, 4300, 24576, 65599,
            65700, 66135, 66136, 66137, 66200, 140000, 1000000}
MCUnits == {0, 1, 3} \cup {2 ^ k : k \in 9 .. 17}
MCObjectBases == 1000 .. 1003

(* Lines of every length around those of the two buffers.                  *)
Headers == {<<>>, <<1>>, <<3, 1>>} \cup {<<n>> : n \in 3 .. 8}
MCRequests == [what : Whats, size : {5}, headers : Headers]
              \cup [what : {"path", "login"}, size : 3 .. 10, headers : {<<>>, <<1>>}]

VARIABLES tPage, tPc, tPos, tEof, tCmd, tCond, tTemplates, tOut, tMessage

(* All sequences of up to five blocks and texts, and of up to three        *)
(* characters.                                                             *)
Blocks == {"if", "ifnot", "else", "loop", "end", "v"}
Escapes == {"{", "}", "$", "@", " ", "v", "if", "end"}
Template == INSTANCE Templates WITH
    Pages <- UNION {[1 .. n -> Blocks] : n \in 0 .. 5}
             \cup UNION {[1 .. n -> Escapes] : n \in 0 .. 3},
    page <- tPage, pc <- tPc, pos <- tPos, eof <- tEof, cmd <- tCmd, cond <- tCond,
    templates <- tTemplates, out <- tOut, message <- tMessage

VARIABLES pUsed, pPc, pPes, pPid, pNewPes, pCc, pChain, pFile, pFails

(* Pids from 0x18a7 on, as startStream has them. For the CRC stands a sum  *)
(* that depends on every byte and its place, in two bytes of the four.     *)
(* Payload 11 puts the end of a section at every distance from the end of  *)
(* a packet that the code treats apart: 0, 1, 2 and more bytes.            *)
MCPid(i) == 6311 + i
MCType(i) == 2 + i
MCCrc(s) ==
    LET sum[k \in 0 .. Len(s)] ==
            IF k = 0 THEN 65535 ELSE (sum[k - 1] * 33 + s[k]) % 65521
    IN  <<sum[Len(s)] % 256, sum[Len(s)] \div 256, 85, 170>>

Packets == INSTANCE TsPackets WITH
    Payload <- 11, Streams <- 0 .. 4, Pid <- MCPid, Type <- MCType, Crc <- MCCrc,
    Service <- 631, PmtPid <- 6320, PcrPid <- 6311, Section <- 41, MaxFails <- 2,
    used <- pUsed, pc <- pPc, pes <- pPes, i_pid <- pPid, new_pes <- pNewPes,
    cc <- pCc, chain <- pChain, file <- pFile, fails <- pFails

ASSUME PartsAssumption == Packets!PacketsAssumption

packetVars == <<pUsed, pPc, pPes, pPid, pNewPes, pCc, pChain, pFile, pFails>>
templateVars == <<tPage, tPc, tPos, tEof, tCmd, tCond, tTemplates, tOut, tMessage>>
partsVars == <<part, packetVars, vars, templateVars, httpVars, sessionVars>>

-----------------------------------------------------------------------------
PacketsParked == pUsed = {} /\ Packets!Init
DiskParked == disk = [sectors |-> 128, au |-> 0] /\ Init
TemplateParked == tPage = <<>> /\ Template!Init
HttpParked ==
    /\ request = [what |-> "path", size |-> 5, headers |-> <<>>]
    /\ allowed = TRUE
    /\ HttpInit

PartsInit ==
    /\ part \in Parts
    /\ IF part = "head" THEN Packets!Init ELSE PacketsParked
    /\ IF part = "disk" THEN Init ELSE DiskParked
    /\ IF part = "template" THEN Template!Init ELSE TemplateParked
    /\ IF part = "http" THEN HttpInit ELSE HttpParked
    /\ SessionInit

PartsNext ==
    \/ /\ part = "head" /\ Packets!Next
       /\ UNCHANGED <<part, vars, templateVars, httpVars, sessionVars>>
    \/ /\ part = "disk" /\ Next
       /\ UNCHANGED <<part, packetVars, templateVars, httpVars, sessionVars>>
    \/ /\ part = "template" /\ Template!Next
       /\ UNCHANGED <<part, packetVars, vars, httpVars, sessionVars>>
    \/ /\ part = "http" /\ HttpNext
       /\ UNCHANGED <<part, packetVars, vars, templateVars, sessionVars>>
    \/ /\ part = "session" /\ SessionNext
       /\ UNCHANGED <<part, packetVars, vars, templateVars, httpVars>>

(* The fairness of HttpExchange.                                           *)
PartsFairness ==
    /\ WF_partsVars(part = "http" /\ Server
          /\ UNCHANGED <<part, packetVars, vars, templateVars, sessionVars>>)
    /\ WF_partsVars(part = "http" /\ peer = "prompt" /\ Send
          /\ UNCHANGED <<part, packetVars, vars, templateVars, sessionVars>>)

PartsSpec == PartsInit /\ [][PartsNext]_partsVars /\ PartsFairness

-----------------------------------------------------------------------------
(* The other properties, as the modules of the parts state them: whole     *)
(* packets at the head of a segment, and no wrong section in them          *)
(* (channel.cpp:110-160).                                                  *)
HeadSound == Packets!HeadSound

(* A receiver of the head knows the program (channel.cpp:365-413).         *)
Decodable == Packets!Decodable

(* A page shows what it should (html.cpp:78-263).                          *)
Rendered == Template!Rendered

(* A peer that falls silent does not keep its servent                      *)
(* (usocket.cpp:166-243).                                                  *)
ConnectionEnds == part = "http" => ThreadEnds
=============================================================================
