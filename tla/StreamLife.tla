------------------------------ MODULE StreamLife ------------------------------
(***************************************************************************)
(* What the frame listener relies on of an RTSP session: it is set up once *)
(* and gets pictures over one stretch of time, from PLAY to its end, and   *)
(* never again.  RtspConnections shows that every session object it makes  *)
(* lives so; RtpSender takes no more of its sessions than this.            *)
(***************************************************************************)

VARIABLE state       \* "none", "ready", "playing", "destroyed"

Init == state = "none"

Setup == state = "none" /\ state' = "ready"
Play == state = "ready" /\ state' = "playing"
Destroy == state \in {"ready", "playing"} /\ state' = "destroyed"

Next == Setup \/ Play \/ Destroy

Spec == Init /\ [][Next]_state
=============================================================================
