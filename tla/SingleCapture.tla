----------------------------- MODULE SingleCapture -----------------------------
(***************************************************************************)
(* The capture command (capture_single.ts): look for cameras, open a       *)
(* session with each that answers, write the first picture to a file and   *)
(* end.  The process ends when nothing is open any more, or by an          *)
(* exception: nothing catches one.                                         *)
(*                                                                         *)
(* Covered failures: sockets that cannot be bound or break later, of the   *)
(* search and of the sessions; datagrams that cannot be read; cameras that *)
(* fall silent; a file that cannot be opened, or not be written to its     *)
(* end.                                                                    *)
(***************************************************************************)
EXTENDS Naturals, Sequences

CONSTANT Camera

Search == "search"      \* stands for the callbacks of the discovery socket

ASSUME CameraAssumption == Search \notin Camera

VARIABLES
    discovery,       \* its socket: "open" (or being bound), "failed" (closed by its
                     \* error), "closed"
    sessions,        \* of each camera: how far its session came; never deleted
    outFile,         \* history: what was written to the file, in order
    exception        \* what ended the process: one element at most

captureVars == <<discovery, sessions, outFile, exception>>

\* "unbound" and "failed": the error listener closed the socket, before or after
\* the session had started.  Only "closed" has no timers any more.
Stage == {"none", "binding", "open", "unbound", "failed", "closed"}

CaptureInit ==
    /\ discovery = "open"
    /\ sessions = [c \in Camera |-> "none"]
    /\ outFile = <<>>
    /\ exception = {}

Crashed == exception # {}
Throw(by, why) == exception' = {[by |-> by, why |-> why]}

Becomes(c, stage) == sessions' = [sessions EXCEPT ![c] = stage]

-----------------------------------------------------------------------------
DiscoverAgain(c) ==      \* Deviation: "already discovered" is left out
    /\ discovery = "open"
    /\ Becomes(c, "binding")
    /\ UNCHANGED <<discovery, outFile, exception>>

\* A PunchPkt of a camera without a session; a camera that was lost keeps its
\* entry, and is not found again.
DiscoverCamera(c) ==
    /\ discovery = "open"
    /\ sessions[c] = "none"
    /\ Becomes(c, "binding")
    /\ UNCHANGED <<discovery, outFile, exception>>

\* A datagram too short for what is read of it.
PunchThrows ==
    /\ discovery = "open"
    /\ Throw(Search, "packet")
    /\ UNCHANGED <<discovery, sessions, outFile>>

DiscoveryError ==
    /\ discovery = "open"
    /\ discovery' = "failed"
    /\ UNCHANGED <<sessions, outFile, exception>>

-----------------------------------------------------------------------------
(***************************************************************************)
(* The session, as SessionLife has it.                                     *)
(***************************************************************************)
SessionStarts(c) ==
    /\ sessions[c] = "binding"
    /\ Becomes(c, "open")
    /\ UNCHANGED <<discovery, outFile, exception>>

\* Nothing but the socket is closed.
SessionError(c) ==
    /\ \/ sessions[c] = "binding" /\ Becomes(c, "unbound")
       \/ sessions[c] = "open" /\ Becomes(c, "failed")
    /\ UNCHANGED <<discovery, outFile, exception>>

\* The timers of a session that started send, at the latest when the camera has
\* been silent for 600 ms.  Those of one that did not, never do.
SendThrows(c) ==
    /\ sessions[c] = "failed"
    /\ Throw(c, "send")
    /\ UNCHANGED <<discovery, sessions, outFile>>

\* A Close of four bytes, or a packet without a handler.
PacketThrows(c) ==
    /\ sessions[c] = "open"
    /\ Throw(c, "packet")
    /\ UNCHANGED <<discovery, sessions, outFile>>

\* The camera falls silent, or closes the connection.
DisconnectCamera(c) ==
    /\ sessions[c] = "open"
    /\ Becomes(c, "closed")
    /\ UNCHANGED <<discovery, outFile, exception>>

-----------------------------------------------------------------------------
(***************************************************************************)
(* The "frame" listener.  It writes the file, closes the discovery socket, *)
(* closes the session; where one of these throws, the next is not reached. *)
(***************************************************************************)
Write(c, extent) == outFile' = Append(outFile, [by |-> c, extent |-> extent])

\* The file cannot be opened, or is truncated and not written to its end.
WriteThrows(c) ==
    /\ Write(c, "cut") \/ UNCHANGED outFile
    /\ Throw(c, "write")
    /\ UNCHANGED <<discovery, sessions>>

\* A socket that is closed already, by a picture or by its error, throws.
CloseThrows(c) ==
    /\ discovery # "open"
    /\ Write(c, "whole")
    /\ Throw(c, "close")
    /\ UNCHANGED <<discovery, sessions>>

FirstPicture(c) ==
    /\ discovery = "open"
    /\ Write(c, "whole")
    /\ discovery' = "closed"
    /\ Becomes(c, "closed")
    /\ UNCHANGED exception

FrameKeepsSession(c) ==  \* Deviation: s.close() is left out
    /\ sessions[c] = "open"
    /\ \/ WriteThrows(c)
       \/ CloseThrows(c)
       \/ /\ discovery = "open"
          /\ Write(c, "whole")
          /\ discovery' = "closed"
          /\ UNCHANGED <<sessions, exception>>

FrameSearchesOn(c) ==    \* Deviation: the discovery socket stays open
    /\ sessions[c] = "open"
    /\ \/ WriteThrows(c)
       \/ /\ Write(c, "whole")
          /\ Becomes(c, "closed")
          /\ UNCHANGED <<discovery, exception>>

Frame(c) ==
    /\ sessions[c] = "open"
    /\ WriteThrows(c) \/ CloseThrows(c) \/ FirstPicture(c)

CaptureNext ==
    /\ ~Crashed
    /\ \/ PunchThrows
       \/ DiscoveryError
       \/ \E c \in Camera :
            \/ DiscoverCamera(c)
            \/ SessionStarts(c)
            \/ SessionError(c)
            \/ SendThrows(c)
            \/ PacketThrows(c)
            \/ DisconnectCamera(c)
            \/ Frame(c)

(***************************************************************************)
(* The operating system answers bind, and timers fire.  Assumed of a       *)
(* camera with an open session: it sends a picture in the end, or falls    *)
(* silent and is given up (Session!SilenceIsNoticed).                      *)
(***************************************************************************)
CaptureSpec ==
    /\ CaptureInit /\ [][CaptureNext]_captureVars
    /\ \A c \in Camera :
         /\ WF_captureVars(~Crashed /\ SessionStarts(c))
         /\ WF_captureVars(~Crashed /\ SendThrows(c))
         /\ WF_captureVars(~Crashed /\ (Frame(c) \/ DisconnectCamera(c)))

-----------------------------------------------------------------------------
\* The pictures in the file's history are whole up to number n, and no two are of
\* the same camera.
WholeUpTo(n) == \A i \in 1 .. n : outFile[i].extent = "whole"
TwoCameras == Len(outFile) = 2 /\ outFile[1].by # outFile[2].by

\* What the process has done when none of its writes and closes threw: the search
\* is closed if and only if the file is written, once and whole, and its session
\* is closed too.
Orderly ==
    \/ discovery # "closed" /\ Len(outFile) = 0
    \/ /\ discovery = "closed" /\ Len(outFile) = 1
       /\ WholeUpTo(1) /\ sessions[outFile[1].by] = "closed"

\* One picture is written, whole, and nothing of it left open - or the process ends
\* by an exception of the frame listener: over the file, of which only what it was
\* writing then is spoilt, be it in the place of the first picture; or over the
\* search closed before, by another camera's picture or by its error, and then with
\* a whole picture in the file.  The other exceptions find the file in order: a
\* packet that cannot be read, or a send through a socket that broke.
OnePicture ==
    /\ ~Crashed => Orderly
    /\ \A e \in exception :
         \/ e.why = "packet" /\ Orderly
         \/ e.why = "send" /\ Orderly /\ sessions[e.by] = "failed"
         \/ /\ e.why = "write"
            /\ \/ Orderly
               \/ Len(outFile) = 1 /\ discovery # "closed"
               \/ TwoCameras /\ discovery = "closed" /\ WholeUpTo(1)
         \/ /\ e.why = "close"
            /\ WholeUpTo(Len(outFile))
            /\ \/ discovery = "failed" /\ Len(outFile) = 1
               \/ discovery = "closed" /\ TwoCameras

\* Every session of a capture lives as SessionLife says, whatever its camera and the
\* others do: it is made once, and only its own callbacks end the process for it.
LifeOf(c) == INSTANCE SessionLife
    WITH sock <- IF sessions[c] = "unbound" THEN "failed" ELSE sessions[c],
         started <- sessions[c] \in {"open", "failed", "closed"},
         connected <- sessions[c] # "closed",
         dead <- \E e \in exception : e.by = c
CaptureKeepsLife ==
    [][\A c \in Camera :
         IF sessions[c] = "none"
         THEN sessions'[c] = "none" \/ LifeOf(c)!Init'
         ELSE [LifeOf(c)!Next]_(LifeOf(c)!vars)]_captureVars

\* Once a picture is written the process ends, by an exception or with nothing open,
\* but for sessions whose socket could not be bound: their timers never send, never
\* give the camera up, and keep the process alive for ever.
EndsAfterPicture ==
    outFile # <<>> ~>
        \/ Crashed
        \/ /\ discovery # "open"
           /\ \A c \in Camera : sessions[c] \in {"none", "closed", "unbound"}
=============================================================================
