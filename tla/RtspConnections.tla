--------------------------- MODULE RtspConnections ---------------------------
(***************************************************************************)
(* The control connections of the RTSP server and the sessions they set    *)
(* up: the data, close and error listeners of serveRtsp in rtsp_server.ts. *)
(* What is streamed to the sessions is left to other modules.              *)
(*                                                                         *)
(* A session id is random, so the one Map is shown here as one function    *)
(* per connection: ids are numbers within a connection, and a client names *)
(* only ids it was given there.                                            *)
(***************************************************************************)
EXTENDS Naturals, Sequences

CONSTANTS
    Connection,      \* TCP connections, each used once
    MaxRequests      \* bound: requests of one connection

Nobody == "nobody"
NoSid == 0

ASSUME RequestAssumption == MaxRequests \in Nat
ASSUME ConnectionAssumption == Nobody \notin Connection

VARIABLES
    tcp,             \* "none", "open", "destroyed" (its close event is due), "closed"
    running,         \* the connection whose data listener holds the thread, or Nobody
    buf,             \* unread requests, each with its number
    processing,      \* the flag of the data listener
    awaiting,        \* SETUPs that wait for their UDP socket: number and session id
    activeSessId,    \* NoSid stands for null
    sessions,        \* every RtspSession object made, in order
    rtspSessions,    \* session id -> its object, a number of `sessions`
    arrived,         \* history: number of requests that arrived
    answers,         \* history: numbers of the requests answered, in order
    crashed          \* an exception ended the process

vars == <<tcp, running, buf, processing, awaiting, activeSessId, sessions,
          rtspSessions, arrived, answers, crashed>>

Given(c) == {sessions[c][k].sid : k \in DOMAIN sessions[c]}
Header(c) == {NoSid} \cup Given(c)

\* What a client may send.  GET_PARAMETER and the other requests without
\* effect are "OPTIONS".
Request(c) ==
         [method : {"SETUP"}, udp : BOOLEAN, sid : Header(c)]
    \cup [method : {"PLAY", "TEARDOWN"}, sid : Header(c)]
    \cup [method : {"OPTIONS"}]

Init ==
    /\ tcp = [c \in Connection |-> "none"]
    /\ running = Nobody
    /\ buf = [c \in Connection |-> <<>>]
    /\ processing = [c \in Connection |-> FALSE]
    /\ awaiting = [c \in Connection |-> {}]
    /\ activeSessId = [c \in Connection |-> NoSid]
    /\ sessions = [c \in Connection |-> <<>>]
    /\ rtspSessions = [c \in Connection |-> <<>>]
    /\ arrived = [c \in Connection |-> 0]
    /\ answers = [c \in Connection |-> <<>>]
    /\ crashed = FALSE

Connect(c) ==
    /\ running = Nobody
    /\ tcp[c] = "none"
    /\ tcp' = [tcp EXCEPT ![c] = "open"]
    /\ UNCHANGED <<running, buf, processing, awaiting, activeSessId, sessions,
                   rtspSessions, arrived, answers, crashed>>

\* The client goes away, or the connection breaks.
ClientLeaves(c) ==
    /\ running = Nobody
    /\ tcp[c] = "open"
    /\ tcp' = [tcp EXCEPT ![c] = "destroyed"]
    /\ UNCHANGED <<running, buf, processing, awaiting, activeSessId, sessions,
                   rtspSessions, arrived, answers, crashed>>

(***************************************************************************)
(* The data listener.  It runs on until it has to wait for a UDP socket;   *)
(* requests of the same segment are shown as arriving while it runs.       *)
(***************************************************************************)
DataEvent(c, starts) ==
    /\ running \in {Nobody, c}
    /\ tcp[c] = "open"
    /\ arrived[c] < MaxRequests
    /\ \E r \in Request(c) :
         buf' = [buf EXCEPT ![c] = Append(@, [no |-> arrived[c] + 1, req |-> r])]
    /\ arrived' = [arrived EXCEPT ![c] = @ + 1]
    /\ processing' = [processing EXCEPT ![c] = TRUE]
    /\ running' = IF starts THEN c ELSE running
    /\ UNCHANGED <<tcp, awaiting, activeSessId, sessions, rtspSessions, answers, crashed>>

DataAlwaysStarts(c) == DataEvent(c, TRUE)    \* Deviation: without the flag

Data(c) == DataEvent(c, ~processing[c])

\* The loop is left, and the flag reset, only when nothing is unread.
LoopEndsEarly(c) ==          \* Deviation: one request per event
    /\ running = c
    /\ answers[c] # <<>>
    /\ processing' = [processing EXCEPT ![c] = FALSE]
    /\ running' = Nobody
    /\ UNCHANGED <<tcp, buf, awaiting, activeSessId, sessions, rtspSessions,
                   arrived, answers, crashed>>

LoopEnds(c) ==
    /\ running = c
    /\ buf[c] = <<>>
    /\ processing' = [processing EXCEPT ![c] = FALSE]
    /\ running' = Nobody
    /\ UNCHANGED <<tcp, buf, awaiting, activeSessId, sessions, rtspSessions,
                   arrived, answers, crashed>>

-----------------------------------------------------------------------------
(***************************************************************************)
(* The requests.  A request is taken out of buf before it is handled.      *)
(***************************************************************************)
Take(c, method) ==
    /\ running = c
    /\ buf[c] # <<>>
    /\ Head(buf[c]).req.method = method
    /\ buf' = [buf EXCEPT ![c] = Tail(@)]

Answer(c, no) == answers' = [answers EXCEPT ![c] = Append(@, no)]

\* SETUP: the session named, if there is one, or a new one.
SetupSid(c, req) ==
    IF req.sid \in DOMAIN rtspSessions[c] THEN req.sid ELSE Len(sessions[c]) + 1

RegisterReuses(c, id, udp) ==       \* Deviation: the object of that id is reset
    LET n == IF id \in DOMAIN rtspSessions[c] THEN rtspSessions[c][id]
             ELSE Len(sessions[c]) + 1
    IN  /\ sessions' = [sessions EXCEPT ![c] =
             [k \in DOMAIN @ \cup {n} |-> IF k # n THEN @[k] ELSE
                [sid |-> id, udp |-> udp, bound |-> udp, playing |-> FALSE,
                 rtcpTimer |-> FALSE, intervals |-> 0, plays |-> 0,
                 late |-> tcp[c] # "open"]]]
        /\ rtspSessions' = [rtspSessions EXCEPT ![c] =
             [s \in DOMAIN @ \cup {id} |-> IF s = id THEN n ELSE @[s]]]

\* Either way a new object; it replaces one of the same id.
Register(c, id, udp) ==
    /\ sessions' = [sessions EXCEPT ![c] = Append(@,
         [sid |-> id, udp |-> udp, bound |-> udp, playing |-> FALSE,
          rtcpTimer |-> FALSE, intervals |-> 0, plays |-> 0,
          late |-> tcp[c] # "open"])]
    /\ rtspSessions' = [rtspSessions EXCEPT ![c] =
         [s \in DOMAIN @ \cup {id} |-> IF s = id THEN Len(sessions[c]) + 1 ELSE @[s]]]

HandleSetupTcp(c) ==
    /\ Take(c, "SETUP")
    /\ LET m == Head(buf[c])
           id == SetupSid(c, m.req)
       IN  /\ ~m.req.udp
           /\ activeSessId' = [activeSessId EXCEPT ![c] = id]
           /\ Register(c, id, FALSE)
           /\ Answer(c, m.no)
    /\ UNCHANGED <<tcp, running, processing, awaiting, arrived, crashed>>

\* Over UDP it waits for a socket, the id already chosen ...
HandleSetupUdp(c) ==
    /\ Take(c, "SETUP")
    /\ LET m == Head(buf[c])
           id == SetupSid(c, m.req)
       IN  /\ m.req.udp
           /\ activeSessId' = [activeSessId EXCEPT ![c] = id]
           /\ awaiting' = [awaiting EXCEPT ![c] = @ \cup {[no |-> m.no, sid |-> id]}]
    /\ running' = Nobody
    /\ UNCHANGED <<tcp, processing, sessions, rtspSessions, arrived, answers, crashed>>

UdpBoundStops(c) ==          \* Deviation: the loop is not resumed
    /\ running = Nobody
    /\ \E w \in awaiting[c] :
         /\ awaiting' = [awaiting EXCEPT ![c] = @ \ {w}]
         /\ Register(c, w.sid, TRUE)
         /\ Answer(c, w.no)
    /\ UNCHANGED <<tcp, running, buf, processing, activeSessId, arrived, crashed>>

\* ... and goes on when the socket is bound, whatever happened meanwhile.
UdpBound(c) ==
    /\ running = Nobody
    /\ \E w \in awaiting[c] :
         /\ awaiting' = [awaiting EXCEPT ![c] = @ \ {w}]
         /\ Register(c, w.sid, TRUE)
         /\ Answer(c, w.no)
    /\ running' = c
    /\ UNCHANGED <<tcp, buf, processing, activeSessId, arrived, crashed>>

\* No one listens to the errors of these sockets.
UdpError(c) ==
    /\ running = Nobody
    /\ \/ awaiting[c] # {}
       \/ \E k \in DOMAIN sessions[c] : sessions[c][k].bound
    /\ crashed' = TRUE
    /\ UNCHANGED <<tcp, running, buf, processing, awaiting, activeSessId, sessions,
                   rtspSessions, arrived, answers>>

Named(c, req) == IF req.sid # NoSid THEN req.sid ELSE activeSessId[c]

\* PLAY starts one more RTCP interval, and remembers the last.
HandlePlay(c) ==
    /\ Take(c, "PLAY")
    /\ LET m == Head(buf[c])
           sid == Named(c, m.req)
       IN  /\ \/ /\ sid \in DOMAIN rtspSessions[c]
                 /\ LET k == rtspSessions[c][sid]
                    IN  sessions' = [sessions EXCEPT
                          ![c][k].playing = TRUE,
                          ![c][k].rtcpTimer = TRUE,
                          ![c][k].intervals = @ + 1,
                          ![c][k].plays = @ + 1]
              \/ /\ sid \notin DOMAIN rtspSessions[c]
                 /\ UNCHANGED sessions
           /\ Answer(c, m.no)
    /\ UNCHANGED <<tcp, running, processing, awaiting, activeSessId, rtspSessions,
                   arrived, crashed>>

\* The end of session sid, if it exists, by TEARDOWN or by the close event:
\* the last interval is cleared, the UDP socket closed, the id forgotten.
Cleaned(o) == [o EXCEPT !.bound = FALSE,
                        !.intervals = IF o.rtcpTimer THEN @ - 1 ELSE @]

CleanUpKeepsTimer(c, sid) ==        \* Deviation: the interval is not cleared
    /\ rtspSessions' = [rtspSessions EXCEPT ![c] = [s \in DOMAIN @ \ {sid} |-> @[s]]]
    /\ sessions' = [sessions EXCEPT ![c] = [k \in DOMAIN @ |->
         IF sid \in DOMAIN rtspSessions[c] /\ k = rtspSessions[c][sid]
         THEN [@[k] EXCEPT !.bound = FALSE] ELSE @[k]]]

CleanUp(c, sid) ==
    /\ rtspSessions' = [rtspSessions EXCEPT ![c] = [s \in DOMAIN @ \ {sid} |-> @[s]]]
    /\ sessions' = [sessions EXCEPT ![c] = [k \in DOMAIN @ |->
         IF sid \in DOMAIN rtspSessions[c] /\ k = rtspSessions[c][sid]
         THEN Cleaned(@[k]) ELSE @[k]]]

HandleTeardownKeepsTcp(c) ==        \* Deviation: socket.destroy() is left out
    /\ Take(c, "TEARDOWN")
    /\ CleanUp(c, Named(c, Head(buf[c]).req))
    /\ Answer(c, Head(buf[c]).no)
    /\ UNCHANGED <<tcp, running, processing, awaiting, activeSessId, arrived, crashed>>

\* To destroy the socket of a closed connection changes nothing.
HandleTeardown(c) ==
    /\ Take(c, "TEARDOWN")
    /\ CleanUp(c, Named(c, Head(buf[c]).req))
    /\ Answer(c, Head(buf[c]).no)
    /\ tcp' = [tcp EXCEPT ![c] = IF @ = "closed" THEN "closed" ELSE "destroyed"]
    /\ UNCHANGED <<running, processing, awaiting, activeSessId, arrived, crashed>>

HandleOther(c) ==
    /\ Take(c, "OPTIONS")
    /\ Answer(c, Head(buf[c]).no)
    /\ UNCHANGED <<tcp, running, processing, awaiting, activeSessId, sessions,
                   rtspSessions, arrived, crashed>>

\* The close event: clean up after the session set up last.
CloseEvent(c) ==
    /\ running = Nobody
    /\ tcp[c] = "destroyed"
    /\ tcp' = [tcp EXCEPT ![c] = "closed"]
    /\ CleanUp(c, activeSessId[c])
    /\ UNCHANGED <<running, buf, processing, awaiting, activeSessId, arrived,
                   answers, crashed>>

\* What the data listener does once it runs, and after its await.
Listener(c) ==
    \/ HandleSetupTcp(c)
    \/ HandleSetupUdp(c)
    \/ UdpBound(c)
    \/ HandlePlay(c)
    \/ HandleTeardown(c)
    \/ HandleOther(c)
    \/ LoopEnds(c)

Next ==
    /\ ~crashed
    /\ \E c \in Connection :
         \/ Connect(c)
         \/ ClientLeaves(c)
         \/ Data(c)
         \/ Listener(c)
         \/ UdpError(c)
         \/ CloseEvent(c)

SafetySpec == Init /\ [][Next]_vars

\* A callback runs to its end, and binding to any free port is answered.
Spec == SafetySpec /\ \A c \in Connection : WF_vars(~crashed /\ Listener(c))

-----------------------------------------------------------------------------
Sess == [sid : Nat \ {NoSid}, udp : BOOLEAN, bound : BOOLEAN, playing : BOOLEAN,
         rtcpTimer : BOOLEAN, intervals : Nat, plays : Nat, late : BOOLEAN]

\* Every variable has its type.
TypeOK ==
    /\ tcp \in [Connection -> {"none", "open", "destroyed", "closed"}]
    /\ running \in Connection \cup {Nobody}
    /\ processing \in [Connection -> BOOLEAN]
    /\ activeSessId \in [Connection -> Nat]
    /\ arrived \in [Connection -> 0 .. MaxRequests]
    /\ crashed \in BOOLEAN
    /\ \A c \in Connection :
         /\ buf[c] \in Seq([no : 1 .. arrived[c], req : Request(c)])
         /\ awaiting[c] \subseteq [no : 1 .. arrived[c], sid : Nat \ {NoSid}]
         /\ sessions[c] \in Seq(Sess)
         /\ rtspSessions[c] \in [DOMAIN rtspSessions[c] -> DOMAIN sessions[c]]
         /\ DOMAIN rtspSessions[c] \subseteq Given(c)
         /\ answers[c] \in Seq(1 .. arrived[c])

\* Requests are answered one at a time and in the order they came, also those
\* that come while a SETUP awaits its socket: `processing` of the listener.
AnsweredInOrder ==
    \A c \in Connection : \A i \in DOMAIN answers[c] : answers[c][i] = i

\* Between two events nothing is left unread, except behind a SETUP that still
\* waits: else it would stay there until the client sends more.
NothingLeftUnread ==
    \A c \in Connection :
        running # c /\ awaiting[c] = {} => buf[c] = <<>> /\ ~processing[c]

\* A session is streamed to if it is in the map, its reports are sent by the
\* intervals it has: both unless it is not playing or its connection is
\* destroyed.  Neither ever finds its UDP socket closed.
Sends(c, k) ==
    /\ \/ sessions[c][k].intervals > 0
       \/ \E s \in DOMAIN rtspSessions[c] : rtspSessions[c][s] = k
    /\ sessions[c][k].playing
    /\ tcp[c] = "open"

SendsThroughOpenSocket ==
    \A c \in Connection : \A k \in DOMAIN sessions[c] :
        Sends(c, k) /\ sessions[c][k].udp => sessions[c][k].bound

\* When a connection is closed, nothing is left of the session set up last: not
\* in the map, no socket, no interval - but one interval for every PLAY after the
\* first, and everything if its socket was bound after the connection was gone.
\* (Of a session followed by another SETUP, nothing is promised.)
NothingLeftBehind ==
    \A c \in Connection :
        tcp[c] = "closed" /\ awaiting[c] = {} /\ sessions[c] # <<>> =>
            LET k == Len(sessions[c])
            IN  sessions[c][k].late \/
                /\ \A s \in DOMAIN rtspSessions[c] : rtspSessions[c][s] # k
                /\ ~sessions[c][k].bound
                /\ sessions[c][k].intervals < sessions[c][k].plays
                     \/ sessions[c][k].intervals = 0

\* Each session object gets pictures over one stretch of time: none before its
\* PLAY, and none ever again once it was torn down, its id was set up anew or its
\* connection was destroyed, in whatever order requests, sockets and the client
\* come and go.  One that is set up after its connection was gone gets none.
InUse(c, k) ==
    tcp[c] = "open" /\ \E s \in DOMAIN rtspSessions[c] : rtspSessions[c][s] = k

Stage(c, k) ==
    IF k \in DOMAIN sessions[c] => sessions[c][k].late THEN "none"
    ELSE IF ~InUse(c, k) THEN "destroyed"
    ELSE IF sessions[c][k].playing THEN "playing" ELSE "ready"

StreamOf(c, k) == INSTANCE StreamLife WITH state <- Stage(c, k)
SessionsStream ==
    [][\A c \in Connection : \A k \in 1 .. MaxRequests :
          StreamOf(c, k)!Next \/ UNCHANGED Stage(c, k)]_vars

\* Every request that arrives is answered, unless the process ends.
RequestsAnswered ==
    \A c \in Connection : \A n \in 1 .. MaxRequests :
        arrived[c] >= n ~> Len(answers[c]) >= n \/ crashed
=============================================================================
