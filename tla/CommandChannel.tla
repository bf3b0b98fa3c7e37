---------------------------- MODULE CommandChannel ----------------------------
(***************************************************************************)
(* The reliable half of a camera session: commands are Drw packets tagged  *)
(* 0xd1, numbered by outgoingCommandId, tracked in unackedDrw by their     *)
(* 16-bit wire id, forgotten on DrwAck and sent again under a NEW id by a  *)
(* 500 ms timer (session.ts, impl.ts, handlers.ts).                        *)
(*                                                                         *)
(* The camera and UDP are the environment: packets are lost, duplicated    *)
(* and delivered in any order.  A packet stays in `toCamera` (an ack in    *)
(* `acks`) after it is delivered, so that it can be delivered again.       *)
(***************************************************************************)
EXTENDS Naturals, Sequences, FiniteSets

CONSTANTS
    IdSpace,          \* number of wire ids: 2^16, writeU16 keeps the low bits
    MaxCommands,      \* bound: commands issued in one session
    LoginCommands,    \* kinds that the onLogin callback of makeSession sends
    Lossy             \* packets may vanish, rather than only never arrive

Kind == {"ConnectUser", "VideoParamSet", "StartVideo", "ListWifi"}

ASSUME IdSpaceAssumption == IdSpace \in Nat \ {0}
ASSUME BoundAssumption == MaxCommands \in Nat
ASSUME LoginAssumption == LoginCommands \in Seq(Kind)
ASSUME LossyAssumption == Lossy \in BOOLEAN

VARIABLES
    connected,            \* session.connected: its timers run, its socket is open
    outgoingCommandId,    \* the counter, as the 16 bits that reach the wire
    ticket,               \* session.ticket: "zero" until ConnectUserAck
    unackedDrw,           \* wire id -> number of the command tracked under it
    issued,               \* history: command n is issued[n]
    lastTick,             \* commands issued when the resend timer last fired
    toCamera,             \* Drw packets on their way, [id, cmd]
    acks,                 \* ids of the DrwAck items on their way back
    executed              \* commands the camera has carried out

sessionVars == <<connected, outgoingCommandId, ticket, unackedDrw, issued, lastTick>>
vars == <<sessionVars, toCamera, acks, executed>>

Id == 0 .. IdSpace - 1
Command == 1 .. MaxCommands

\* The id that the k-th command after `base` carries: writeU16 wraps.
Wire(base, k) == IF base + k < IdSpace THEN base + k ELSE base + k - IdSpace

Tracked == {unackedDrw[i] : i \in DOMAIN unackedDrw}
Outstanding == Cardinality(DOMAIN unackedDrw)

\* The next m ids of the counter track nothing.
FreeAhead(m) ==
    /\ m <= IdSpace
    /\ \A k \in 0 .. m - 1 : Wire(outgoingCommandId, k) \notin DOMAIN unackedDrw

(***************************************************************************)
(* Bound on the rate: a command is sent only when the ids it takes, and    *)
(* those of the next two rounds of the resend timer, are free.  With 65536 *)
(* ids this excludes only a burst of tens of thousands of commands within  *)
(* one second.                                                             *)
(***************************************************************************)
RoomFor(n) == FreeAhead(n + 2 * (Outstanding + n))

-----------------------------------------------------------------------------
Init ==
    /\ connected = TRUE
    /\ outgoingCommandId = 0
    /\ ticket = "zero"
    /\ unackedDrw = <<>>
    /\ issued = <<>>
    /\ lastTick = 0
    /\ toCamera = {}
    /\ acks = {}
    /\ executed = {}

\* Session.send reads the key of unackedDrw back from the packet.
Key(id) == id

\* Deviations, here and below, are slips the properties must catch; no action
\* uses them.  Deviation: the counter moves once per round, not once per packet.
CounterOncePerRound(n) == Wire(outgoingCommandId, IF n = 0 THEN 0 ELSE 1)
\* The counter after n packets got an id.
CounterAfter(n) == Wire(outgoingCommandId, n)

\* unackedDrw after `delete` of some keys.
Without(keys) == [i \in DOMAIN unackedDrw \ keys |-> unackedDrw[i]]

(***************************************************************************)
(* The commands in DOMAIN slot get an id each, command n the slot[n]-th    *)
(* from the counter, and are sent and tracked by Session.send; the keys    *)
(* `old` are deleted.  A packet or an ack that still travels under a       *)
(* reused id is gone: no datagram outlives IdSpace ids.                    *)
(***************************************************************************)
Transmit(slot, old) ==
    LET id(n) == Wire(outgoingCommandId, slot[n])
        wire == {id(n) : n \in DOMAIN slot}
        keys == {Key(i) : i \in wire}
    IN  /\ unackedDrw' = [k \in DOMAIN Without(old) \cup keys |->
                             IF k \in keys
                             THEN CHOOSE n \in DOMAIN slot : Key(id(n)) = k
                             ELSE unackedDrw[k]]
        /\ toCamera' = {p \in toCamera : p.id \notin wire}
                         \cup {[id |-> id(n), cmd |-> n] : n \in DOMAIN slot}
        /\ acks' = acks \ wire
        /\ outgoingCommandId' = CounterAfter(Cardinality(DOMAIN slot))

\* makeDataReadWrite for each kind, with the ticket of the session, then send.
Issue(kinds, tkt) ==
    LET n == Len(issued)
    IN  /\ n + Len(kinds) <= MaxCommands
        /\ RoomFor(Len(kinds))
        /\ issued' = issued \o [k \in 1 .. Len(kinds) |->
                                  [kind |-> kinds[k], ticket |-> tkt]]
        /\ Transmit([c \in n + 1 .. n + Len(kinds) |-> c - n - 1], {})

\* The camera's P2pRdy, which may come any number of times: log in.
HandleP2PRdy ==
    /\ connected
    /\ Issue(<<"ConnectUser">>, ticket)
    /\ UNCHANGED <<connected, ticket, lastTick, executed>>

\* Deviation: "login" is emitted before the ticket is stored.
HandleConnectUserAckTicketLast ==
    /\ connected
    /\ \E n \in executed : issued[n].kind = "ConnectUser"
    /\ ticket' = "granted"
    /\ Issue(LoginCommands, ticket)
    /\ UNCHANGED <<connected, lastTick, executed>>

\* The camera's answer to a ConnectUser it carried out, not deduplicated:
\* take the ticket, then emit "login".
HandleConnectUserAck ==
    /\ connected
    /\ \E n \in executed : issued[n].kind = "ConnectUser"
    /\ ticket' = "granted"
    /\ Issue(LoginCommands, ticket')
    /\ UNCHANGED <<connected, lastTick, executed>>

\* Deviation: a DrwAck clears everything outstanding.
HandleDrwAckClearsAll ==
    /\ connected
    /\ acks # {}
    /\ unackedDrw' = <<>>
    /\ UNCHANGED <<connected, outgoingCommandId, ticket, issued, lastTick,
                   toCamera, acks, executed>>

\* A DrwAck with one or more items: ackDrw deletes each id that is tracked.
HandleDrwAck ==
    /\ connected
    /\ \E ids \in SUBSET (acks \cap DOMAIN unackedDrw) :
         unackedDrw' = Without(ids)
    /\ UNCHANGED <<connected, outgoingCommandId, ticket, issued, lastTick,
                   toCamera, acks, executed>>

\* Deviation: a command is retried once, not until it is acknowledged.
DueOnce(cutoff) ==
    {i \in DOMAIN unackedDrw : lastTick < unackedDrw[i] /\ unackedDrw[i] <= cutoff}

(***************************************************************************)
(* The resend timer.  Only commands issued in the last 100 ms are spared,  *)
(* so only ones issued since the timer last fired: those after `cutoff`.   *)
(* Object.entries lists the integer keys in ascending order; each due      *)
(* command moves to the next id.                                           *)
(***************************************************************************)
Due(cutoff) == {i \in DOMAIN unackedDrw : unackedDrw[i] <= cutoff}

\* Deviation: the counter does not move inside the loop.
ResendOrderSameId(due) == [n \in {unackedDrw[i] : i \in due} |-> 0]

ResendOrder(due) ==
    LET key(n) == CHOOSE i \in due : unackedDrw[i] = n
    IN  [n \in {unackedDrw[i] : i \in due} |-> Cardinality({j \in due : j < key(n)})]

ResendTimer ==
    /\ connected
    /\ \E cutoff \in lastTick .. Len(issued) :
         Transmit(ResendOrder(Due(cutoff)), Due(cutoff))
    /\ lastTick' = Len(issued)
    /\ UNCHANGED <<connected, ticket, issued, executed>>

\* The "disconnect" event, for whatever reason: no timer, no socket any more.
Disconnect ==
    /\ connected
    /\ connected' = FALSE
    /\ UNCHANGED <<outgoingCommandId, ticket, unackedDrw, issued, lastTick,
                   toCamera, acks, executed>>

\* Environment: the camera carries out a command and acknowledges its id.
CameraReceives(p) ==
    /\ executed' = executed \cup {p.cmd}
    /\ acks' = acks \cup {p.id}
    /\ UNCHANGED <<sessionVars, toCamera>>

\* Environment: no copy of a packet is left in the network.  For safety this is
\* no different from a packet that is never received.
Lose(p) ==
    /\ Lossy
    /\ toCamera' = toCamera \ {p}
    /\ UNCHANGED <<sessionVars, acks, executed>>

Next ==
    \/ HandleP2PRdy
    \/ HandleConnectUserAck
    \/ HandleDrwAck
    \/ ResendTimer
    \/ Disconnect
    \/ \E p \in toCamera : CameraReceives(p)
    \/ \E p \in toCamera : Lose(p)

SafetySpec == Init /\ [][Next]_vars

\* setInterval fires again and again; a command sent again and again gets through.
Fairness ==
    /\ WF_vars(ResendTimer)
    /\ \A n \in Command :
         SF_vars(\E p \in toCamera : p.cmd = n /\ CameraReceives(p))

Spec == SafetySpec /\ Fairness
-----------------------------------------------------------------------------
TypeOK ==
    /\ connected \in BOOLEAN
    /\ outgoingCommandId \in Id
    /\ ticket \in {"zero", "granted"}
    /\ issued \in Seq([kind : Kind, ticket : {"zero", "granted"}])
    /\ Len(issued) <= MaxCommands
    /\ DOMAIN unackedDrw \subseteq Id
    /\ unackedDrw \in [DOMAIN unackedDrw -> 1 .. Len(issued)]
    /\ lastTick \in 0 .. Len(issued)
    /\ toCamera \subseteq [id : Id, cmd : 1 .. Len(issued)]
    /\ acks \subseteq Id
    /\ executed \subseteq 1 .. Len(issued)

\* No command is forgotten: each one was carried out or is still tracked, however
\* acks, resends under new ids and late packets interleave (ackDrw, resendTimer).
NoCommandLost == \A n \in 1 .. Len(issued) : n \in executed \/ n \in Tracked

\* The resend timer moves a command to its new id and leaves no copy under the
\* old one: else every round would send it once more.
TrackedOnce ==
    \A i, j \in DOMAIN unackedDrw : unackedDrw[i] = unackedDrw[j] => i = j

\* A packet in flight under a tracked id is the command tracked there, and an ack
\* in flight for a tracked id acknowledges that very command: a late ack of an id
\* given up by a resend never frees another command.
AckUnambiguous ==
    /\ \A p \in toCamera : p.id \in DOMAIN unackedDrw => unackedDrw[p.id] = p.cmd
    /\ \A i \in acks \cap DOMAIN unackedDrw : unackedDrw[i] \in executed

\* The resend loop never overwrites an entry it has not reached, nor a young one:
\* the ids it is about to take are free, also across the wrap of the counter.
ResendFindsFreeIds == FreeAhead(Outstanding)

\* Why: since the timer last fired either nothing was issued, and every entry moves
\* on at the next round, or two rounds still find their ids free.
RoomForRounds ==
    /\ 2 * Outstanding <= IdSpace
    /\ lastTick < Len(issued) => FreeAhead(2 * Outstanding)

\* The inductive invariant of CommandChannel_proofs.
Inv ==
    /\ TypeOK
    /\ NoCommandLost
    /\ TrackedOnce
    /\ AckUnambiguous
    /\ ResendFindsFreeIds
    /\ RoomForRounds

\* Only the login itself may go out before the camera granted a ticket, a resent
\* packet included (its bytes, ticket and all, are those of the first time).
CommandsCarryTicket ==
    \A n \in 1 .. Len(issued) :
        issued[n].kind # "ConnectUser" => issued[n].ticket = "granted"

\* The channel implements CommandDelivery: whatever the session stops tracking, the
\* camera has carried out (ackDrw against resendTimer).
Delivery == INSTANCE CommandDelivery
              WITH count <- Len(issued), waiting <- Tracked, open <- connected
KeepsCommands == Delivery!SafetySpec

\* It implements its liveness too: every command of a session that stays open is
\* carried out, although every single packet may be lost (resendTimer).
DeliversCommands == Delivery!Spec
=============================================================================
