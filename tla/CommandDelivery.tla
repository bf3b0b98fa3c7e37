--------------------------- MODULE CommandDelivery ---------------------------
(***************************************************************************)
(* What a session promises about the commands it sends to its camera: a    *)
(* command is kept until the camera has carried it out at least once, it   *)
(* may be carried out again later, and while the session is open it is     *)
(* carried out eventually.  Nothing is said of order.                      *)
(***************************************************************************)
EXTENDS Naturals

CONSTANT MaxCommands        \* bound on the commands of one session

VARIABLES count,            \* commands issued so far: 1 .. count
          waiting,          \* commands the session still answers for
          executed,         \* commands the camera carried out
          open              \* FALSE once the session is disconnected

vars == <<count, waiting, executed, open>>

Command == 1 .. MaxCommands

Init ==
    /\ count = 0
    /\ waiting = {}
    /\ executed = {}
    /\ open = TRUE

\* A handler issues the next k commands, k possibly 0.
Issue ==
    /\ open
    /\ \E c \in count .. MaxCommands :
         /\ count' = c
         /\ waiting' = waiting \cup (count + 1 .. c)
    /\ UNCHANGED <<executed, open>>

\* The camera carries out a command, for the first time or again.
Execute(n) ==
    /\ n \in 1 .. count
    /\ executed' = executed \cup {n}
    /\ UNCHANGED <<count, waiting, open>>

\* The session lets go of commands: only of ones the camera carried out.
Settle ==
    /\ open
    /\ \E done \in SUBSET (waiting \cap executed) : waiting' = waiting \ done
    /\ UNCHANGED <<count, executed, open>>

Close ==
    /\ open
    /\ open' = FALSE
    /\ UNCHANGED <<count, waiting, executed>>

Next ==
    \/ Issue
    \/ \E n \in Command : Execute(n)
    \/ Settle
    \/ Close

SafetySpec == Init /\ [][Next]_vars

\* While the session is open, a command it answers for is not ignored for ever.
Spec ==
    /\ SafetySpec
    /\ \A n \in Command : WF_vars(open /\ n \in waiting /\ Execute(n))
=============================================================================
