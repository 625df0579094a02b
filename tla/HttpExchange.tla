---------------------------- MODULE HttpExchange ----------------------------
(***************************************************************************)
(* One connection to the web server, from Servent::incomingProc to the     *)
(* close of its socket: the request is read line by line (stream.cpp,      *)
(* usocket.cpp, http.cpp), the branch for it is taken (handshakeHTTP,      *)
(* handshakeCMD, handshakeLocalFile and handshakeStream of servent.cpp),   *)
(* and an answer is written (html.cpp). Exceptions end what is under way.  *)
(*                                                                         *)
(* Lines are their lengths. An answer is a sequence of status codes,       *)
(* fields, the blank line and pieces of a body, each of which is one or    *)
(* more writes to the socket. The sizes of the two buffers for a line are  *)
(* parameters.                                                             *)
(*                                                                         *)
(* The peer sends its lines, may fall silent for longer than a timeout,    *)
(* stop taking what it is sent, or close. The kernel is modelled by what   *)
(* recv, send, select and close do with that.                              *)
(***************************************************************************)
EXTENDS Integers, Sequences, FiniteSets, FiniteSetsExt

CONSTANTS
    Requests,    \* what the peer may ask: [what, size, headers]
    RequestMax,  \* what readLine takes at most of a request line: 1022
    HeaderMax,   \* and of a header: 8190
    WaitMax      \* passes of the loop of handshakeStream: 20

(* Kinds of requests, by the tests of incomingProc, handshakeHTTP, ...      *)
Pages == {"template", "raw"}        \* /html/ with .htm or another known suffix
Files == Pages \cup {"unknown"}     \* ... or with none of those
Commands == {"startservice", "stopservice", "login", "logout", "other"}
Whats == Files \cup Commands \cup {"stream", "path", "method", "rtsp"}

ASSUME HttpAssumption ==
    /\ \A r \in Requests : /\ r.what \in Whats /\ r.size \in Nat \ {0}
                            /\ r.headers \in Seq(Nat \ {0})
    /\ RequestMax \in Nat \ {0, 1} /\ HeaderMax \in Nat \ {0, 1} /\ WaitMax \in Nat

VARIABLES
    request, allowed,  \* what the peer asks and whether it may
    active,  \* thread.active of the servent
    peer,    \* "prompt", "slow", "closed"
    sent,    \* lines it has sent
    line,    \* the line the server is in
    left,    \* what it has not read of it; -1: only the LF
    pc,      \* where incomingProc is
    then,    \* where it goes on when todo is written
    todo,    \* what is to be written
    out,     \* what was written
    chan,    \* the channel of the stream, as the ChannelManager has it
    waits,   \* passes of the loop
    done,    \* commands carried out
    file,    \* the FileStream: "none", "open", "closed"
    failed,  \* writes that failed
    lost     \* the reset of the connection took the answer

reading == <<sent, line, left>>
writing == <<then, todo, out, failed>>
httpVars == <<request, allowed, active, peer, reading, pc, writing, chan, waits, done, file, lost>>

(* The lines of the request, with the blank one at its end.                *)
Lines == <<request.size>> \o request.headers \o <<0>>

HttpInit ==
    /\ request \in Requests
    /\ allowed \in BOOLEAN /\ active = TRUE
    /\ peer = "prompt" /\ sent = 0
    /\ line = 1 /\ left = Head(Lines)
    /\ pc = "request" /\ then = "closed" /\ todo = <<>> /\ out = <<>>
    /\ chan \in IF request.what = "stream" THEN {"none", "busy", "playing", "closing"}
               ELSE {"none"}
    /\ waits = 0 /\ done = 0 /\ file = "none" /\ failed = 0 /\ lost = FALSE

-----------------------------------------------------------------------------
(* The peer.                                                               *)

Send ==
    /\ peer # "closed" /\ sent < Len(Lines)
    /\ sent' = sent + 1
    /\ lost' \in IF pc = "closed" THEN {lost, TRUE} ELSE {lost}
    /\ UNCHANGED <<request, allowed, active, peer, line, left, pc, writing, chan, waits, done, file>>

Slow ==
    /\ peer = "prompt"
    /\ peer' = "slow"
    /\ UNCHANGED <<request, allowed, active, reading, pc, writing, chan, waits, done, file, lost>>

PeerCloses ==
    /\ peer # "closed"
    /\ peer' = "closed"
    /\ UNCHANGED <<request, allowed, active, reading, pc, writing, chan, waits, done, file, lost>>

(* Other servents start and stop the channel, or it gets its first packets.*)
ChannelChanges ==
    /\ request.what = "stream" /\ pc \in {"request", "headers", "stream", "wait"}
    /\ chan' = CASE chan = "busy"    -> "playing"
                 [] chan = "playing" -> "closing"
                 [] chan = "closing" -> "none"
                 [] chan = "none"    -> "none"
    /\ chan' # chan
    /\ UNCHANGED <<request, allowed, active, peer, reading, pc, writing, waits, done, file, lost>>

-----------------------------------------------------------------------------
(* ServMgr::quit shuts the thread down, which it notices where it looks.   *)
Shutdown ==
    /\ active /\ pc # "closed"
    /\ active' = FALSE
    /\ UNCHANGED <<request, allowed, peer, reading, pc, writing, chan, waits, done, file, lost>>

(* readLine: up to max characters, the CR and the LF among them. What it   *)
(* leaves of a line the next call takes for a line of its own.             *)
ReadLine(max) ==
    /\ line <= sent
    /\ LET rest == left + 2 - max
       IN  IF rest <= 0
             THEN /\ line' = line + 1
                  /\ left' = IF line < Len(Lines) THEN Lines[line + 1] ELSE -1
             ELSE left' = left - max /\ UNCHANGED line
    /\ UNCHANGED sent

Got(max) == Min({max, Max({left, 0})})

Write(tokens, next) ==
    /\ todo' = tokens /\ then' = next /\ pc' = "write"
    /\ UNCHANGED <<out, failed>>

(* The handlers of incomingProc, for an HTTPException ...                  *)
Catch(code) ==
    Write(<<code>> \o (IF code = "401" THEN <<"field">> ELSE <<>>) \o <<"blank">>, "kill")

(* ... and for the StreamException of a socket.                            *)
Aborted == pc' = "kill" /\ UNCHANGED writing

Found(fields) == <<"302">> \o [k \in 1 .. fields |-> "field"] \o <<"blank">>

(* The protocol stands at the end of the request line, and is found as     *)
(* long as its last but one character fits.                                *)
HasProtocol == request.size - 1 <= RequestMax

(* incomingProc and the tests of handshakeHTTP before it reads on.         *)
ReadRequest ==
    /\ pc = "request"
    /\ ReadLine(RequestMax)
    /\ CASE ~HasProtocol -> Aborted
         [] HasProtocol /\ request.what \in {"rtsp", "method"} -> Catch("400")
         [] HasProtocol /\ request.what \in Files \cup Commands \cup {"stream"} /\ ~allowed ->
                Catch("503")
         [] OTHER -> pc' = "headers" /\ UNCHANGED writing
    /\ UNCHANGED <<request, allowed, active, peer, chan, waits, done, file, lost>>

AfterHeaders ==
    CASE request.what = "path"     -> Write(Found(1), "kill")
      [] request.what \in Files    -> pc' = "file" /\ UNCHANGED writing
      [] request.what \in Commands -> pc' = "command" /\ UNCHANGED writing
      [] request.what = "stream"   -> pc' = "stream" /\ UNCHANGED writing

(* A pass of the loops over nextHeader, of handshakeAuth and handshakeHTTP.*)
NextHeader ==
    /\ pc = "headers"
    /\ ReadLine(HeaderMax)
    /\ IF Got(HeaderMax) > 0 THEN UNCHANGED <<pc, writing>> ELSE AfterHeaders
    /\ UNCHANGED <<request, allowed, active, peer, chan, waits, done, file, lost>>

(* checkTimeout: nothing arrives for readTimeout, and the wait ends as long *)
(* as that is a second or more.                                            *)
ReadTimeout_Mut == 0
ReadTimeout == 30000

Silent == line > sent

TimedOut ==
    /\ pc \in {"request", "headers"} /\ Silent /\ peer = "slow"
    /\ ReadTimeout \div 1000 > 0
    /\ Aborted
    /\ UNCHANGED <<request, allowed, active, peer, reading, chan, waits, done, file, lost>>

ClosedOnRead ==
    /\ pc \in {"request", "headers"} /\ Silent /\ peer = "closed"
    /\ Aborted
    /\ UNCHANGED <<request, allowed, active, peer, reading, chan, waits, done, file, lost>>

(* handshakeCMD. createChannel finds a free channel or does not.           *)
HandshakeCMD ==
    /\ pc = "command"
    /\ done' = done + (IF request.what = "other" THEN 0 ELSE 1)
    /\ CASE request.what = "startservice" ->
                \/ Write(Found(1), "kill")
                \/ Write(<<"404", "blank">>, "kill")
         [] request.what = "stopservice" -> Write(<<"200", "blank">>, "kill")
         [] request.what = "login"       -> Write(Found(2), "kill")
         [] OTHER                        -> Write(Found(1), "kill")
    /\ UNCHANGED <<request, allowed, active, peer, reading, chan, waits, file, lost>>

(* handshakeLocalFile, up to the body: nothing at all for other suffixes.   *)
HandshakeLocalFile ==
    /\ pc = "file"
    /\ IF request.what \in Pages
         THEN Write(<<"200", "field", "blank">>, "open")
         ELSE pc' = "kill" /\ UNCHANGED writing
    /\ UNCHANGED <<request, allowed, active, peer, reading, chan, waits, done, file, lost>>

(* writeTemplate says so when there is no such file, writeRawFile does not.*)
OpenFile ==
    /\ pc = "open"
    /\ \/ file' = "open" /\ Write(<<"body">>, "close file")
       \/ /\ UNCHANGED file
          /\ Write(IF request.what = "template" THEN <<"message">> ELSE <<>>, "close file")
    /\ UNCHANGED <<request, allowed, active, peer, reading, chan, waits, done, lost>>

CloseFile ==
    /\ pc = "close file"
    /\ file' = IF file = "open" THEN "closed" ELSE file
    /\ pc' = "kill"
    /\ UNCHANGED <<request, allowed, active, peer, reading, writing, chan, waits, done, lost>>

(* handshakeStream: canStream refuses a channel that is not active, and any *)
(* when directFull, but nothing to a private host. Then the channel must   *)
(* be playing before the loop ends.                                        *)
HandshakeStream ==
    /\ pc = "stream"
    /\ \/ chan # "none" /\ Catch("503")
       \/ pc' = "wait" /\ UNCHANGED writing
    /\ UNCHANGED <<request, allowed, active, peer, reading, chan, waits, done, file, lost>>

StreamHead == <<"200", "field", "blank">>

WaitReady_Mut ==
    /\ pc = "wait"
    /\ IF chan = "none" \/ waits = WaitMax
         THEN Catch(IF chan = "none" THEN "404" ELSE "503") /\ UNCHANGED waits
         ELSE Write(StreamHead, IF chan = "playing" THEN "send" ELSE "wait") /\ waits' = waits + 1
    /\ UNCHANGED <<request, allowed, active, peer, reading, chan, done, file, lost>>

(* A pass of the loop: refused, told to stop, ready, or another pass.       *)
WaitReady ==
    /\ pc = "wait"
    /\ \/ waits = WaitMax /\ Catch("503") /\ UNCHANGED waits
       \/ /\ waits < WaitMax
          /\ CASE chan = "none" -> Catch("404") /\ UNCHANGED waits
               [] chan # "none" /\ ~active -> Aborted /\ UNCHANGED waits
               [] chan = "playing" /\ active -> Write(StreamHead, "send") /\ UNCHANGED waits
               [] chan \in {"busy", "closing"} /\ active ->
                      waits' = waits + 1 /\ UNCHANGED <<pc, writing>>
    /\ UNCHANGED <<request, allowed, active, peer, reading, chan, done, file, lost>>

(* sendRawChannel, which SegmentWindow has in detail: pieces of the stream *)
(* until the channel or the connection ends, the first one for all.        *)
SendRawChannel ==
    /\ pc = "send"
    /\ \/ pc' = "kill" /\ UNCHANGED writing
       \/ active /\ "body" \notin {out[k] : k \in DOMAIN out} /\ Write(<<"body">>, "send")
    /\ UNCHANGED <<request, allowed, active, peer, reading, chan, waits, done, file, lost>>

(* One token more is sent ...                                              *)
Sent ==
    /\ pc = "write"
    /\ IF todo = <<>> THEN pc' = then /\ UNCHANGED <<todo, out>>
       ELSE todo' = Tail(todo) /\ out' = Append(out, Head(todo)) /\ UNCHANGED pc
    /\ UNCHANGED <<request, allowed, active, peer, reading, then, failed, chan, waits, done, file, lost>>

(* ... or not, as the peer has closed, or takes nothing for writeTimeout.  *)
(* writeTemplate catches that and writes why; writeRawFile just ends.      *)
NotSent ==
    /\ pc = "write" /\ todo # <<>>
    /\ peer = "closed" \/ peer = "slow"
    /\ failed' = failed + 1
    /\ CASE then = "close file" /\ request.what = "template" /\ Head(todo) = "body" ->
                todo' = <<"message">> /\ UNCHANGED pc
         [] then = "close file" /\ request.what = "raw" ->
                todo' = <<>> /\ UNCHANGED pc
         [] OTHER -> todo' = <<>> /\ pc' = "kill"
    /\ UNCHANGED <<request, allowed, active, peer, reading, then, out, chan, waits, done, file, lost>>

(* Servent::kill. A socket closed with unread lines resets its connection. *)
Kill ==
    /\ pc = "kill"
    /\ pc' = "closed"
    /\ lost' \in IF Silent THEN {lost} ELSE {lost, TRUE}
    /\ UNCHANGED <<request, allowed, active, peer, reading, writing, chan, waits, done, file>>

Server ==
    \/ ReadRequest \/ NextHeader \/ TimedOut \/ ClosedOnRead
    \/ HandshakeCMD \/ HandshakeLocalFile \/ OpenFile \/ CloseFile
    \/ HandshakeStream \/ WaitReady \/ SendRawChannel \/ Sent \/ NotSent \/ Kill

HttpNext == Server \/ Send \/ Slow \/ PeerCloses \/ ChannelChanges \/ Shutdown

(* The thread is scheduled and select returns; a prompt peer goes on.      *)
HttpFairness == WF_httpVars(Server) /\ WF_httpVars(peer = "prompt" /\ Send)

HttpSpec == HttpInit /\ [][HttpNext]_httpVars /\ HttpFairness

-----------------------------------------------------------------------------
Statuses == {"200", "302", "400", "401", "404", "503"}

(* The headers end where the peer ended them: no line fills the buffer up  *)
(* to its end or its CR, or leaves such a rest behind.                     *)
Fits(n, max) == n % max \notin {0, max - 1}
LinesFit ==
    /\ request.size + 2 <= RequestMax
    /\ \A k \in DOMAIN request.headers : Fits(request.headers[k], HeaderMax)

HasHead ==
    /\ out # <<>> /\ Head(out) \in Statuses
    /\ \E k \in DOMAIN out : out[k] = "blank" /\ \A j \in 2 .. k - 1 : out[j] = "field"

(* Who gets no answer at all: a line that hides its protocol, a file of an *)
(* unknown suffix, and whoever waits for a stream when the application     *)
(* quits (servent.cpp:622-653, 683).                                       *)
Unanswered ==
    \/ ~HasProtocol
    \/ request.what = "unknown" /\ allowed
    \/ request.what = "stream" /\ ~active /\ out = <<>>

(* Whatever is thrown at whatever point: the peer never gets two status    *)
(* lines, or a body before the head. Unless it falls silent or closes it   *)
(* gets a whole head, but for the three above, and no reset takes that     *)
(* away if the server read the headers before it answered. A command       *)
(* runs at most once, after the headers. The file stays open only when the *)
(* message of writeTemplate could not be sent either (html.cpp:245-263,    *)
(* http.cpp:71-86, stream.cpp:260-277).                                    *)
Replies ==
    /\ \A k \in 2 .. Len(out) : out[k] \notin Statuses
    /\ \A k \in DOMAIN out : out[k] \in {"body", "message"} => HasHead
    /\ done <= 1
    /\ done = 1 /\ LinesFit => line > Len(Lines)
    /\ pc = "closed" /\ peer = "prompt" /\ ~Unanswered =>
         /\ HasHead
         /\ LinesFit /\ Head(out) \notin {"400", "503"} => ~lost
    /\ pc = "closed" /\ file = "open" =>
         request.what = "template" /\ failed = 2

(* A connection whose peer falls silent, or closes, does not keep its      *)
(* servent: unless it gets to stream a channel, the thread comes to its    *)
(* end (usocket.cpp:166-243).                                              *)
ThreadEnds == <>(pc \in {"send", "closed"})
=============================================================================
