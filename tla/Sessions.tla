----------------------------- MODULE Sessions -----------------------------
(***************************************************************************)
(* The sessions of the web interface: CookieList and Cookie of http.cpp    *)
(* and http.h, as the servents use them when a browser logs in and out     *)
(* (handshakeAuth and handshakeCMD of servent.cpp).                        *)
(*                                                                         *)
(* There is one list, in the ServMgr, and no lock: every servent has its   *)
(* own thread and works on the list while others do. An access to one      *)
(* cookie is a step; identifiers are the numbers of the logins (the        *)
(* program draws them at random, and two may be equal).                    *)
(*                                                                         *)
(* getTime counts milliseconds in 32 bits and starts again after 49 days.  *)
(***************************************************************************)
EXTENDS Integers, FiniteSets, FiniteSetsExt

CONSTANTS
    Threads,      \* servents with a connection
    Browsers,     \* by their IP addresses, which are not 0
    MAX_COOKIES,
    Wrap,         \* 2^32: getTime is smaller
    MaxLogins,    \* bound
    MaxRequests,  \* bound: requests without a login
    MaxTime       \* bound: readings of the clock

ASSUME SessionsAssumption ==
    /\ MAX_COOKIES \in Nat \ {0} /\ Wrap \in Nat \ {0}
    /\ Browsers \subseteq Nat \ {0}

VARIABLES
    list,       \* the cookies
    thread,     \* for each thread where it is and what it has read
    cookie,     \* Servent::cookie, which stays from request to request
    jar,        \* the id each browser sends
    clock,      \* milliseconds since a start of getTime
    logins, requests

sessionVars == <<list, thread, cookie, jar, clock, logins, requests>>

Slots == 0 .. MAX_COOKIES - 1
None == 0
Clear == [id |-> None, ip |-> 0, time |-> 0]

GetTime == clock % Wrap

(* Cookie::compare.                                                        *)
Same(c, d) == c.id = d.id /\ c.ip = d.ip

Contains(c) == c.id # None /\ c.ip # 0 /\ \E i \in Slots : Same(list[i], c)

(* The slot that add takes: the last of those with the smallest time.      *)
Oldest(cookies) ==
    Max({i \in Slots : \A j \in Slots : cookies[i].time <= cookies[j].time})

(* seen is the list as the thread read it.                                 *)
Idle == [pc |-> "idle", browser |-> None, slot |-> 0, seen |-> [i \in Slots |-> Clear]]

SessionInit ==
    /\ list = [i \in Slots |-> Clear]
    /\ thread = [t \in Threads |-> Idle]
    /\ cookie = [t \in Threads |-> Clear]
    /\ jar = [b \in Browsers |-> None]
    /\ clock = 1 /\ logins = 0 /\ requests = 0

(* The cookie of the servent after handshakeAuth: the one of the browser   *)
(* if the list has it. What follows the id in the header becomes part of   *)
(* it, so that a browser with a second cookie is not recognised.           *)
Authorized_Mut(t, got) == IF Contains(got) THEN got ELSE cookie[t]

Authorized(t, got) == IF Contains(got) THEN got ELSE Clear

(* handshakeAuth, which lets everybody in, then the branch for the command.*)
Request(t, b, command) ==
    /\ thread[t].pc = "idle"
    /\ IF command = "login"
         THEN logins < MaxLogins /\ logins' = logins + 1 /\ UNCHANGED requests
         ELSE requests < MaxRequests /\ requests' = requests + 1 /\ UNCHANGED logins
    /\ \E id \in {jar[b], None} :
          LET found == Authorized(t, [id |-> id, ip |-> b, time |-> 0])
          IN  cookie' = [cookie EXCEPT ![t] =
                  IF command = "login" THEN [found EXCEPT !.id = logins', !.ip = b]
                  ELSE found]
    /\ thread' = [thread EXCEPT ![t] =
           [Idle EXCEPT !.pc = command, !.browser = b]]
    /\ UNCHANGED <<list, jar, clock>>

(* add finds its slot ...                                                  *)
Scan(t) ==
    /\ thread[t].pc = "login"
    /\ thread' = [thread EXCEPT ![t].slot = Oldest(list),
                                ![t].seen = list,
                                ![t].pc = IF Contains(cookie[t]) THEN "answer" ELSE "store"]
    /\ UNCHANGED <<list, cookie, jar, clock, logins, requests>>

(* ... and fills it.                                                       *)
Stamped(c) == [c EXCEPT !.time = GetTime]

Store(t) ==
    /\ thread[t].pc = "store"
    /\ list' = [list EXCEPT ![thread[t].slot] = Stamped(cookie[t])]
    /\ cookie' = [cookie EXCEPT ![t] = Stamped(@)]
    /\ thread' = [thread EXCEPT ![t] =
           [Idle EXCEPT !.pc = "answer", !.browser = thread[t].browser]]
    /\ UNCHANGED <<jar, clock, logins, requests>>

(* The Set-Cookie header arrives, or the connection is gone.               *)
Answer(t) ==
    /\ thread[t].pc = "answer"
    /\ \/ jar' = [jar EXCEPT ![thread[t].browser] = cookie[t].id]
       \/ UNCHANGED jar
    /\ thread' = [thread EXCEPT ![t] = Idle]
    /\ UNCHANGED <<list, cookie, clock, logins, requests>>

(* One pass of the loop of remove, which compares ...                      *)
Compare(t) ==
    /\ thread[t].pc = "logout"
    /\ thread' = [thread EXCEPT ![t] =
           IF @.slot = MAX_COOKIES THEN Idle
           ELSE IF Same(list[@.slot], cookie[t])
             THEN [@ EXCEPT !.pc = "clear", !.seen = list]
             ELSE [@ EXCEPT !.slot = thread[t].slot + 1]]
    /\ UNCHANGED <<list, cookie, jar, clock, logins, requests>>

(* ... and clears. A servent without a session clears the empty slots.     *)
ClearSlot(t) ==
    /\ thread[t].pc = "clear"
    /\ list' = [list EXCEPT ![thread[t].slot] = Clear]
    /\ thread' = [thread EXCEPT ![t] =
           [Idle EXCEPT !.pc = "logout", !.browser = thread[t].browser,
                        !.slot = thread[t].slot + 1]]
    /\ UNCHANGED <<cookie, jar, clock, logins, requests>>

Tick ==
    /\ clock < MaxTime
    /\ clock' = clock + 1
    /\ UNCHANGED <<list, thread, cookie, jar, logins, requests>>

SessionNext ==
    \/ \E t \in Threads :
          \/ \E b \in Browsers, c \in {"login", "logout"} : Request(t, b, c)
          \/ Scan(t) \/ Store(t) \/ Answer(t) \/ Compare(t) \/ ClearSlot(t)
    \/ Tick

SessionSpec == SessionInit /\ [][SessionNext]_sessionVars

-----------------------------------------------------------------------------
(* A session ends because its own browser logs out, or because the list is *)
(* full and it is the oldest. Otherwise another thread has touched the     *)
(* slot since this one read it, or the clock started again since (a later  *)
(* login then looks older): the two ways in which a browser loses its      *)
(* session to another one (http.cpp:139-176, usys.cpp:36-42).              *)
SessionKept ==
    [][\A i \in Slots : list[i].id # None /\ ~Same(list'[i], list[i]) =>
          \E t \in Threads :
             LET gone == list[i]
                 req  == thread[t]
             IN  /\ req.slot = i
                 /\ \/ req.seen[i] # gone
                    \/ req.pc = "clear" /\ gone.ip = req.browser
                    \/ /\ req.pc = "store"
                       /\ \/ clock >= Wrap
                          \/ \A j \in Slots : /\ req.seen[j].id # None
                                              /\ gone.time <= req.seen[j].time]_sessionVars
=============================================================================
