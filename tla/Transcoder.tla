------------------------------ MODULE Transcoder ------------------------------
(***************************************************************************)
(* The GStreamer processes behind one camera of the RTSP server: what the  *)
(* listeners of "discover" and "disconnect" in rtsp_server.ts and          *)
(* createTranscoder of transcoder.ts do to them.                           *)
(*                                                                         *)
(* The camera's session and the operating system are the environment: the  *)
(* camera comes and goes, a process may die at any time and its end is     *)
(* noticed some time later.  The camera is a constant, devId.              *)
(***************************************************************************)
EXTENDS Naturals, Sequences

CONSTANT MaxTranscoders      \* bound: transcoders created

ASSUME TranscoderAssumption == MaxTranscoders \in Nat

VARIABLES
    present,         \* devId \in camSessions
    tcs,             \* every transcoder created, in order
    registered,      \* transcoders[devId], a number of `tcs`, or NoTc
    fed,             \* the transcoder that the session's frame listener writes to
    displaced,       \* history: transcoders dropped at the exit of another one
    crashed          \* an exception ended the process

vars == <<present, tcs, registered, fed, displaced, crashed>>

NoTc == 0

(***************************************************************************)
(* A transcoder.  `os` is the process as the operating system sees it:     *)
(* not spawned, alive, dead, or dead and reported.                         *)
(***************************************************************************)
Tc == [os : {"none", "alive", "dead", "reaped"},
       gstProcess : BOOLEAN,             \* the variable is not null
       stdinBackpressure : BOOLEAN,
       udpSocket : {"binding", "bound", "failed", "closed"},
       exitListener : BOOLEAN]           \* "exit" has the restarting listener

NewTc(listens) ==
    [os |-> "none", gstProcess |-> FALSE, stdinBackpressure |-> FALSE,
     udpSocket |-> "binding", exitListener |-> listens]

Init ==
    /\ present = FALSE
    /\ tcs = <<>>
    /\ registered = NoTc
    /\ fed = NoTc
    /\ displaced = {}
    /\ crashed = FALSE

Crash ==
    /\ crashed' = TRUE
    /\ UNCHANGED <<present, tcs, registered, fed, displaced>>

\* A PunchPkt of a camera that is not in camSessions.
Discover ==
    /\ ~present
    /\ Len(tcs) < MaxTranscoders
    /\ present' = TRUE
    /\ tcs' = Append(tcs, NewTc(TRUE))
    /\ registered' = Len(tcs) + 1
    /\ fed' = Len(tcs) + 1
    /\ UNCHANGED <<displaced, crashed>>

\* close() of a transcoder: the process is told to end, the socket closed.
Closed(tc) == [tc EXCEPT !.gstProcess = FALSE, !.udpSocket = "closed"]

DisconnectKeepsTc ==         \* Deviation: the transcoder is not closed
    /\ present
    /\ registered' = NoTc
    /\ present' = FALSE
    /\ fed' = NoTc
    /\ UNCHANGED <<tcs, displaced, crashed>>

\* The session's "disconnect".  It emits no frames from here on.
Disconnect ==
    /\ present
    /\ tcs' = IF registered = NoTc THEN tcs ELSE [tcs EXCEPT ![registered] = Closed(@)]
    /\ registered' = NoTc
    /\ present' = FALSE
    /\ fed' = NoTc
    /\ UNCHANGED <<displaced, crashed>>

-----------------------------------------------------------------------------
(***************************************************************************)
(* createTranscoder: the process is spawned once the socket is bound.  An  *)
(* error of the socket is only logged; one of spawn is emitted as "error", *)
(* to which nobody listens.                                                *)
(***************************************************************************)
Bound(t) ==
    /\ tcs[t].udpSocket = "binding"
    /\ tcs' = [tcs EXCEPT ![t].udpSocket = "bound", ![t].os = "alive",
                          ![t].gstProcess = TRUE]
    /\ UNCHANGED <<present, registered, fed, displaced, crashed>>

SpawnError(t) ==
    /\ tcs[t].udpSocket = "binding"
    /\ Crash

BindError(t) ==
    /\ tcs[t].udpSocket = "binding"
    /\ tcs' = [tcs EXCEPT ![t].udpSocket = "failed"]
    /\ UNCHANGED <<present, registered, fed, displaced, crashed>>

\* The process ends: by itself, or because it was told to.
GstDies(t) ==
    /\ tcs[t].os = "alive"
    /\ tcs' = [tcs EXCEPT ![t].os = "dead"]
    /\ UNCHANGED <<present, registered, fed, displaced, crashed>>

(***************************************************************************)
(* The process's "close" event, and in it the transcoder's "exit".  While  *)
(* the camera is there, whatever transcoder is registered is forgotten and *)
(* a new one takes its place.                                              *)
(***************************************************************************)
RestartsAlways(t) == tcs[t].exitListener    \* Deviation: also after a disconnect
Restarts(t) == tcs[t].exitListener /\ present

GstClosesForgets(t) ==      \* Deviation: no new transcoder is made
    /\ tcs[t].os = "dead"
    /\ tcs' = [tcs EXCEPT ![t].os = "reaped", ![t].gstProcess = FALSE]
    /\ UNCHANGED <<present, registered, fed, displaced, crashed>>

GstCloses(t) ==
    /\ tcs[t].os = "dead"
    /\ LET reaped == [tcs EXCEPT ![t].os = "reaped", ![t].gstProcess = FALSE]
       IN  \/ /\ ~Restarts(t)
              /\ tcs' = reaped
              /\ UNCHANGED <<registered, displaced>>
           \/ /\ Restarts(t)
              /\ Len(tcs) < MaxTranscoders
              /\ tcs' = Append(reaped, NewTc(FALSE))
              /\ registered' = Len(tcs) + 1
              /\ displaced' = displaced \cup ({registered} \ {t})
    /\ UNCHANGED <<present, fed, crashed>>

(***************************************************************************)
(* The session's "frame": writeJpeg of the transcoder made at discovery.   *)
(* A write to a process that is dead is an error of stdin, to which nobody *)
(* listens; unless stdin was destroyed already, shortly before "close".    *)
(***************************************************************************)
Frame ==
    /\ present
    /\ LET tc == tcs[fed]
       IN  \/ /\ ~tc.gstProcess \/ tc.stdinBackpressure
              /\ UNCHANGED vars
           \/ /\ tc.gstProcess /\ ~tc.stdinBackpressure /\ tc.os = "alive"
              /\ \E full \in BOOLEAN :
                   tcs' = [tcs EXCEPT ![fed].stdinBackpressure = full]
              /\ UNCHANGED <<present, registered, fed, displaced, crashed>>
           \/ /\ tc.gstProcess /\ ~tc.stdinBackpressure /\ tc.os = "dead"
              /\ Crash \/ UNCHANGED vars

\* The pipe has room again.
Drain(t) ==
    /\ tcs[t].os = "alive" /\ tcs[t].stdinBackpressure
    /\ tcs' = [tcs EXCEPT ![t].stdinBackpressure = FALSE]
    /\ UNCHANGED <<present, registered, fed, displaced, crashed>>

\* A write that was still pending fails, told to end or not.
PendingWriteFails(t) ==
    /\ tcs[t].os = "dead" /\ tcs[t].stdinBackpressure
    /\ Crash

Next ==
    /\ ~crashed
    /\ \/ Discover
       \/ Disconnect
       \/ Frame
       \/ \E t \in DOMAIN tcs :
            \/ Bound(t)
            \/ SpawnError(t)
            \/ BindError(t)
            \/ GstDies(t)
            \/ GstCloses(t)
            \/ Drain(t)
            \/ PendingWriteFails(t)

Spec == Init /\ [][Next]_vars

-----------------------------------------------------------------------------
\* Every variable has its type; transcoders has the camera just when camSessions has.
TypeOK ==
    /\ present \in BOOLEAN
    /\ tcs \in Seq(Tc)
    /\ registered \in IF present THEN DOMAIN tcs ELSE {NoTc}
    /\ fed \in IF present THEN DOMAIN tcs ELSE {NoTc}
    /\ displaced \subseteq DOMAIN tcs
    /\ crashed \in BOOLEAN

\* The server has at most one process for the camera that it did not tell to
\* end, and only while the camera is connected - but for transcoders that were
\* dropped, and not closed, when the exit of an old one came in after the camera was
\* found again and was taken for theirs.  One such exit leaves one behind, no more.
OneProcess ==
    \A t \in DOMAIN tcs \ displaced :
        tcs[t].gstProcess => present /\ t = registered

\* When the camera is gone, a transcoder's socket is open only if its process had
\* ended by itself, the "exit" listener does not close it, or was dropped so.
SocketsClosed ==
    ~present =>
        \A t \in DOMAIN tcs \ displaced :
            tcs[t].udpSocket = "closed" \/ tcs[t].os = "reaped"

\* A transcoder whose process crashed does not stay the camera's: a new one has
\* taken its place.  Only the first of a session is replaced: its successors are
\* made without the listener, and frames go on to the one made at discovery.
CrashedIsReplaced ==
    present => /\ tcs[registered].os = "reaped" => ~tcs[registered].exitListener
               /\ registered # fed => tcs[fed].os = "reaped" \/ fed \in displaced
=============================================================================
