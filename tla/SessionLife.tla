----------------------------- MODULE SessionLife -----------------------------
(***************************************************************************)
(* What the front ends rely on of a session made by makeSession            *)
(* (session.ts): it starts when its socket is bound, it ends once and from *)
(* a working socket only, and nothing comes after that.  An error of the   *)
(* socket is not the end: no event tells of it, and what the session sends *)
(* next ends the process.  Session shows that this is what a session does; *)
(* CameraRegistry takes no more of its sessions than this.                 *)
(***************************************************************************)

VARIABLES
    sock,        \* "binding", "open", "failed" (closed by an error), "closed"
    started,     \* session.started
    connected,   \* session.connected: "disconnect" was not emitted
    dead         \* an exception ended the process

vars == <<sock, started, connected, dead>>

Init ==
    /\ sock = "binding"
    /\ started = FALSE
    /\ connected = TRUE
    /\ dead = FALSE

Start ==
    /\ sock = "binding"
    /\ sock' = "open"
    /\ started' = TRUE
    /\ UNCHANGED <<connected, dead>>

Fail ==
    /\ sock \in {"binding", "open"}
    /\ sock' = "failed"
    /\ UNCHANGED <<started, connected, dead>>

\* "disconnect": to the front end, the camera is gone.
End ==
    /\ sock = "open"
    /\ sock' = "closed"
    /\ connected' = FALSE
    /\ UNCHANGED <<started, dead>>

\* A packet that cannot be read, or at which a listener of the front end throws; or
\* a send through the socket that failed.
Die ==
    /\ sock = "open" \/ (sock = "failed" /\ started)
    /\ dead' = TRUE
    /\ UNCHANGED <<sock, started, connected>>

Next == ~dead /\ (Start \/ Fail \/ End \/ Die)

Spec == Init /\ [][Next]_vars
=============================================================================
