------------------------------- MODULE Session -------------------------------
(***************************************************************************)
(* The life of one camera session against the clock: socket, P2pRdy, the   *)
(* dispatch of incoming packets, the 400 ms keepalive timer with its       *)
(* timeout, and the "disconnect" event (session.ts, handlers.ts).  The     *)
(* commands a session sends are in CommandChannel, the image it assembles  *)
(* in FrameAssembly.                                                       *)
(*                                                                         *)
(* Time is discrete.  An exception that no one catches ends the process:   *)
(* `crashed`.                                                              *)
(***************************************************************************)
EXTENDS Naturals

CONSTANTS
    KeepEvery,     \* period of sessTimer
    AliveAfter,    \* silence after which P2PAlive is sent
    Timeout,       \* timeoutMs of makeSession
    MaxLag,        \* bound: how late the event loop runs a timer
    CloseLengths   \* lengths, in bytes, of the camera's Close packets

ASSUME TimingAssumption ==
    /\ KeepEvery \in Nat \ {0}
    /\ AliveAfter \in Nat
    /\ Timeout \in Nat
    /\ MaxLag \in Nat
    /\ AliveAfter < Timeout
ASSUME CloseAssumption == CloseLengths \subseteq Nat

VARIABLES
    sock,        \* "binding", "open" or "closed"
    started,     \* session.started
    connected,   \* session.connected
    timers,      \* session.timers still holds its two intervals
    idle,        \* Date.now() - session.lastReceivedPacket
    phase,       \* time since sessTimer last fired, or was armed
    crashed,     \* an exception ended the process
    silence,     \* history: time since P2pRdy went out or the camera last spoke
    quiet,       \* history: time since the session last sent a packet
    cause        \* history: why the session or the process ended

vars == <<sock, started, connected, timers, idle, phase, crashed, silence, quiet, cause>>

\* Clocks stop here: no comparison tells longer times apart.
Ceiling == Timeout + AliveAfter + 2 * (KeepEvery + MaxLag) + 1
Later(t) == IF t < Ceiling THEN t + 1 ELSE Ceiling

\* lastReceivedPacket is 0, the year 1970.
Init ==
    /\ sock = "binding"
    /\ started = FALSE
    /\ connected = TRUE
    /\ timers = TRUE
    /\ idle = Ceiling
    /\ phase = 0
    /\ crashed = FALSE
    /\ silence = 0
    /\ quiet = 0
    /\ cause = "none"

Crash(why) ==
    /\ crashed' = TRUE
    /\ cause' = why
    /\ UNCHANGED <<sock, started, connected, timers, idle, phase, silence, quiet>>

(***************************************************************************)
(* The listener of "disconnect" in makeSession.  A second sock.close()     *)
(* would throw.                                                            *)
(***************************************************************************)
DisconnectLeavesTimers(why) ==      \* Deviation: the intervals keep running
    /\ connected' = FALSE
    /\ timers' = timers
    /\ sock' = "closed"
    /\ crashed' = (sock = "closed")
    /\ cause' = IF sock = "closed" THEN "close twice" ELSE why

Disconnect(why) ==
    /\ connected' = FALSE
    /\ timers' = FALSE
    /\ sock' = "closed"
    /\ crashed' = (sock = "closed")
    /\ cause' = IF sock = "closed" THEN "close twice" ELSE why

\* The socket is bound: send P2pRdy, never to be repeated.
Listening ==
    /\ sock = "binding"
    /\ sock' = "open"
    /\ started' = TRUE
    /\ silence' = 0
    /\ quiet' = 0
    /\ UNCHANGED <<connected, timers, idle, phase, crashed, cause>>

\* The "error" event closes the socket and leaves everything else as it is.
SocketError ==
    /\ sock # "closed"
    /\ sock' = "closed"
    /\ UNCHANGED <<started, connected, timers, idle, phase, crashed, silence, quiet, cause>>

-----------------------------------------------------------------------------
(***************************************************************************)
(* handleIncoming: the handler first, then lastReceivedPacket, except for  *)
(* the two keepalive packets.                                              *)
(***************************************************************************)
Spoken ==
    /\ idle' = 0
    /\ silence' = 0

HandleAlive ==
    /\ sock = "open"
    /\ quiet' = 0
    /\ UNCHANGED <<sock, started, connected, timers, idle, phase, crashed, silence, cause>>

HandleAliveAckCounts ==     \* Deviation: a keepalive counts as a sign of life
    /\ sock = "open"
    /\ idle' = 0
    /\ UNCHANGED <<sock, started, connected, timers, phase, crashed, silence, quiet, cause>>

HandleAliveAck ==
    /\ sock = "open"
    /\ UNCHANGED vars

\* Packets that are answered (P2pRdy with ConnectUser, Drw with DrwAck), and
\* packets that are not (DrwAck, the commands of notImpl).
HandleOther ==
    /\ sock = "open"
    /\ Spoken
    /\ quiet' \in {0, quiet}
    /\ UNCHANGED <<sock, started, connected, timers, phase, crashed, cause>>

\* A Drw that completes the picture capture_single.ts waits for: acked, then
\* s.close() from within the "frame" event.
HandleLastFrame ==
    /\ sock = "open"
    /\ Disconnect("app")
    /\ Spoken
    /\ quiet' = 0
    /\ UNCHANGED <<started, phase>>

\* A packet whose first two bytes are no listed command has no handler.
HandleUnlisted ==
    /\ sock = "open"
    /\ Crash("unlisted command")

\* A Drw with a picture or sound whose listener, in a front end, throws.
HandleListenerThrows ==
    /\ sock = "open"
    /\ Crash("listener threw")

(***************************************************************************)
(* Close is acknowledged as if it were a Drw: makeDrwAck reads the id at   *)
(* bytes 6 and 7.                                                          *)
(***************************************************************************)
HandleClose ==
    /\ sock = "open"
    /\ \E length \in CloseLengths :
         \/ /\ length < 8
            /\ Crash("short close")
         \/ /\ length >= 8
            /\ Disconnect("camera")
            /\ Spoken
            /\ quiet' = 0
            /\ UNCHANGED <<started, phase>>

-----------------------------------------------------------------------------
(***************************************************************************)
(* sessTimer.  Session.send on a closed socket throws.                     *)
(***************************************************************************)
Fires ==
    /\ timers
    /\ phase >= KeepEvery

NothingDue ==
    /\ phase' = 0
    /\ UNCHANGED <<sock, started, connected, timers, idle, crashed, silence, quiet, cause>>

SendAlive ==
    /\ phase' = 0
    /\ quiet' = 0
    /\ UNCHANGED <<started, idle, silence>>

SessTimerAliveLate ==       \* Deviation: both tests use the timeout
    /\ Fires
    /\ IF started /\ idle > Timeout
       THEN /\ SendAlive
            /\ Disconnect("timeout")
       ELSE NothingDue

SessTimerTimeoutFirst ==    \* Deviation: "disconnect" before the last P2PAlive
    /\ Fires
    /\ IF started /\ idle > Timeout
       THEN /\ connected' = FALSE
            /\ timers' = FALSE
            /\ sock' = "closed"
            /\ crashed' = TRUE
            /\ cause' = "send on closed socket"
            /\ UNCHANGED <<started, idle, phase, silence, quiet>>
       ELSE NothingDue

SessTimerOneLimit ==        \* Deviation: one limit for polling and giving up
    /\ Fires
    /\ \/ /\ ~started \/ idle <= AliveAfter
          /\ NothingDue
       \/ /\ started /\ idle > AliveAfter
          /\ SendAlive
          /\ Disconnect("timeout")

SessTimer ==
    /\ Fires
    /\ \/ /\ ~started \/ idle <= AliveAfter
          /\ NothingDue
       \/ /\ started /\ idle > AliveAfter /\ sock = "closed"
          /\ Crash("send on closed socket")
       \/ /\ started /\ idle > AliveAfter /\ sock # "closed"
          /\ SendAlive
          /\ IF idle > Timeout
             THEN Disconnect("timeout")
             ELSE UNCHANGED <<sock, connected, timers, crashed, cause>>

\* resendTimer, when some command is due (which ones: CommandChannel).
ResendTimer ==
    /\ timers
    /\ started
    /\ \/ /\ sock = "closed"
          /\ Crash("send on closed socket")
       \/ /\ sock # "closed"
          /\ quiet' = 0
          /\ UNCHANGED <<sock, started, connected, timers, idle, phase, crashed, silence, cause>>

\* Time passes, but a timer is never later than MaxLag.
Tick ==
    /\ timers => phase < KeepEvery + MaxLag
    /\ phase' = IF timers THEN phase + 1 ELSE phase
    /\ idle' = Later(idle)
    /\ silence' = Later(silence)
    /\ quiet' = Later(quiet)
    /\ UNCHANGED <<sock, started, connected, timers, crashed, cause>>

Next ==
    /\ ~crashed
    /\ \/ Listening
       \/ SocketError
       \/ HandleAlive
       \/ HandleAliveAck
       \/ HandleOther
       \/ HandleLastFrame
       \/ HandleUnlisted
       \/ HandleListenerThrows
       \/ HandleClose
       \/ SessTimer
       \/ ResendTimer
       \/ Tick

Spec == Init /\ [][Next]_vars

-----------------------------------------------------------------------------
\* Every variable has its type.
TypeOK ==
    /\ sock \in {"binding", "open", "closed"}
    /\ started \in BOOLEAN
    /\ connected \in BOOLEAN
    /\ timers \in BOOLEAN
    /\ idle \in 0 .. Ceiling
    /\ phase \in 0 .. KeepEvery + MaxLag
    /\ crashed \in BOOLEAN
    /\ silence \in 0 .. Ceiling
    /\ quiet \in 0 .. Ceiling
    /\ cause \in {"none", "app", "camera", "timeout", "short close",
                  "unlisted command", "listener threw", "send on closed socket",
                  "close twice"}

\* A camera that falls silent is dropped within the timeout and one period of
\* the keepalive timer, however its packets, the timers and the socket's
\* errors fall in time; an answered keepalive does not prolong the session.
SilenceIsNoticed ==
    started /\ connected /\ ~crashed => silence <= Timeout + KeepEvery + MaxLag

\* While nothing but keepalives arrives, the session never goes longer than
\* one period of the timer without sending something.
PolledWhileSilent ==
    /\ started /\ connected /\ ~crashed
    /\ idle > AliveAfter + KeepEvery + MaxLag
    => quiet <= KeepEvery + MaxLag

\* The session ends the process only on a packet that its handlers cannot read or
\* a listener of the front end throws at, or when the socket had failed before under
\* a session still in use: never by closing the socket twice, never by sending after
\* it disconnected itself.
CrashHasCause ==
    crashed => \/ cause \in {"short close", "unlisted command", "listener threw"}
               \/ cause = "send on closed socket" /\ connected

\* A session that disconnected stays so: no timer, packet or error makes it
\* send, reconnect or throw.
EndIsFinal ==
    [][~connected => UNCHANGED <<sock, started, connected, timers, crashed, cause>>]_vars

\* A camera is timed out only after it was silent for the timeout, however much
\* the other side's keepalives and its own sending went on meanwhile - or if it
\* has said nothing at all when sessTimer first looks at a started session:
\* lastReceivedPacket starts at 0, so that camera is given no timeout.
TimeoutHasCause == cause = "timeout" => silence > Timeout \/ idle = Ceiling

\* Whatever packets, timers and errors come in whatever order, the front ends see
\* the life that they rely on: it starts once, ends once and from a working socket,
\* and throws only at a packet that came or through a socket that failed.
Life == INSTANCE SessionLife
    WITH sock <- IF sock = "closed" /\ connected THEN "failed" ELSE sock,
         dead <- crashed
KeepsLife == Life!Spec

\* A Close from the camera ends the session and nothing else.  (It does not:
\* a Close of four bytes ends the process.)
CloseIsOrderly == cause \in {"camera", "short close"} => ~connected /\ ~crashed
=============================================================================
