------------------------------- MODULE Pairing -------------------------------
(***************************************************************************)
(* The pair command (pair.ts) and one camera: log in, ask for the networks *)
(* it sees, tell it to join one of them; and all over again when the       *)
(* camera is found anew.  Of the commands of a session it is assumed that  *)
(* CommandDelivery is met, which CommandChannel does.  The listing is      *)
(* obfuscated by XqBytes and cut to fit a packet.                          *)
(*                                                                         *)
(* Lengths are in cells of four bytes, the distance XqBytes rotates by; an *)
(* SSID is two cells, and the bytes of an item that nothing looks at two   *)
(* more.                                                                   *)
(***************************************************************************)
EXTENDS CommandDelivery, XqBytes, Sequences, FiniteSets

CONSTANTS
    Home,            \* the ssid that the cameras shall join, two cells
    Scans,           \* what the camera may see: sequences of networks
    MaxItems,        \* items that fit in a packet (11)
    MaxSessions      \* bound: times the camera is discovered

HeaderLen == 4       \* 16 bytes
Rotate == 1
ItemLen == 5

Network == [ssid : Nat \X Nat, channel : 0 .. 255]

ASSUME PairAssumption ==
    /\ MaxItems \in Nat \ {0}
    /\ Scans \subseteq Seq(Network)
    /\ MaxSessions \in Nat
    /\ MaxCommands \in Nat

\* A name is text: its first four characters do not make the number of a channel.
ASSUME HomeAssumption ==
    \A scan \in Scans : \A k \in DOMAIN scan : scan[k].channel # Home[1]

VARIABLES
    lives,           \* sessions made so far
    kinds,           \* the kind of each command of the session
    configured,      \* configured[dev.devId] of the "discover" callback
    used             \* history: the scans and channels the session configured

pairVars == <<vars, lives, kinds, configured, used>>

-----------------------------------------------------------------------------
\* One answer to ListWifi: the items one after the other, obfuscated as a whole;
\* a packet holds the header, their number and as many cells as fit.
Cell(net, k) ==
    CASE k \in {0, 1} -> net.ssid[k + 1]
      [] k = ItemLen - 1 -> net.channel
      [] OTHER -> 0

ListWifiAck(scan) ==
    LET len == ItemLen * Len(scan)
        body == [i \in 0 .. len - 1 |-> Cell(scan[i \div ItemLen + 1], i % ItemLen)]
        fits == IF Len(scan) > MaxItems THEN ItemLen * MaxItems ELSE len
    IN  [payload_len |-> 1 + len,
         byteLength |-> HeaderLen + 1 + fits,
         msg_count |-> Len(scan),
         data |-> [i \in 0 .. fits - 1 |->
                     IF len = 0 THEN 0 ELSE XqBytesEnc(body, len, Rotate)[i]]]

\* createResponseForControlCommand decodes in place; of a cropped payload one cell
\* too few, as payload_len counts the cell that precedes the data.
Decoded(pkt) ==
    LET cropped == pkt.byteLength > HeaderLen + 1 /\ pkt.payload_len > pkt.byteLength
        payload_len == IF cropped THEN pkt.byteLength - (HeaderLen + 1) ELSE pkt.payload_len
    IN  IF payload_len > Rotate
        THEN XqBytesDec(pkt.data, payload_len - 1, Rotate)
        ELSE pkt.data

\* parseListWifi: the items that are there in full.
parseListWifi(pkt, data) ==
    LET whole == (pkt.byteLength - (HeaderLen + 1)) \div ItemLen
        at(k) == ItemLen * (k - 1)
    IN  [k \in 1 .. IF whole < pkt.msg_count THEN whole ELSE pkt.msg_count |->
            [ssid |-> <<data[at(k)], data[at(k) + 1]>>,
             channel |-> data[at(k) + ItemLen - 1]]]

\* What the "ListWifi" listener is given; nothing if the listing is empty.
Listed(scan) ==
    LET pkt == ListWifiAck(scan)
    IN  IF pkt.payload_len = 1 THEN <<>> ELSE parseListWifi(pkt, Decoded(pkt))

\* Where the listing names the network sought, and where it does so first.
Matches(scan) == {k \in DOMAIN Listed(scan) : Listed(scan)[k].ssid = Home}
FirstMatch(scan, k) == k \in Matches(scan) /\ \A j \in Matches(scan) : k <= j

-----------------------------------------------------------------------------
\* `open` is also dev.devId in sessions.
PairInit ==
    /\ count = 0 /\ waiting = {} /\ executed = {} /\ open = FALSE
    /\ lives = 0
    /\ kinds = <<>>
    /\ configured = FALSE
    /\ used = <<>>

\* A PunchPkt of a camera that is not in sessions.
Discover ==
    /\ ~open
    /\ lives < MaxSessions
    /\ count' = 0 /\ waiting' = {} /\ executed' = {} /\ open' = TRUE
    /\ lives' = lives + 1
    /\ kinds' = <<>>
    /\ configured' = FALSE
    /\ used' = <<>>

Disconnect ==
    /\ Close
    /\ configured' = FALSE
    /\ UNCHANGED <<lives, kinds, used>>

\* One command, through send.
SendCommand(kind) ==
    /\ count < MaxCommands
    /\ count' = count + 1
    /\ waiting' = waiting \cup {count'}
    /\ kinds' = Append(kinds, kind)
    /\ UNCHANGED <<executed, open, lives>>

\* The camera carried out a command of this kind, so it may answer, repeatedly.
Answered(kind) == open /\ \E n \in executed : kinds[n] = kind

HandleP2PRdy ==
    /\ open
    /\ SendCommand("ConnectUser")
    /\ UNCHANGED <<configured, used>>

\* "login", and in it onLogin.
HandleConnectUserAck ==
    /\ Answered("ConnectUser")
    /\ SendCommand("ListWifi")
    /\ UNCHANGED <<configured, used>>

\* SendWifiDetails: of the channel one byte is sent.
WifiDetails(scan, channel) == [scan |-> scan, channel |-> channel % 256]

ConfigureWifi(scan, channel) ==
    /\ SendCommand("WifiSettingsSet")
    /\ used' = Append(used, WifiDetails(scan, channel))

\* Deviation: the second answer is not ignored.
HandleListWifiAckAgain(scan) ==
    /\ Answered("ListWifi")
    /\ \E k \in Matches(scan) :
          FirstMatch(scan, k) /\ ConfigureWifi(scan, Listed(scan)[k].channel)
    /\ configured' = TRUE

\* An answer to ListWifi, with what the camera saw then.  Without the network
\* sought, or once configured, it is ignored.
HandleListWifiAck(scan) ==
    /\ Answered("ListWifi")
    /\ ~configured
    /\ \E k \in Matches(scan) :
          FirstMatch(scan, k) /\ ConfigureWifi(scan, Listed(scan)[k].channel)
    /\ configured' = TRUE

\* The camera carries out a command, or the session learns that it did.
Delivers ==
    /\ Settle \/ \E n \in Command : open /\ Execute(n)
    /\ UNCHANGED <<lives, kinds, configured, used>>

PairNext ==
    \/ Discover
    \/ Disconnect
    \/ HandleP2PRdy
    \/ HandleConnectUserAck
    \/ \E scan \in Scans : HandleListWifiAck(scan)
    \/ Delivers

PairSpec == PairInit /\ [][PairNext]_pairVars

-----------------------------------------------------------------------------
\* A session tells its camera at most once to join a network, though the camera may
\* list its networks again and again: every resend of ListWifi, every repeated login
\* and every repeated packet brings another answer (configured of pair.ts).
ConfiguredOnce ==
    Cardinality({n \in DOMAIN kinds : kinds[n] = "WifiSettingsSet"}) <= 1

\* The camera is told the channel of the first network it listed under the name
\* sought.  Of a listing that was cut, decoding spoils both ends (the crop in
\* createResponseForControlCommand): the name of the first item, which therefore is
\* not considered, and the channel of the last one.
ConfiguredAsScanned ==
    \A u \in {used[i] : i \in DOMAIN used} :
        LET cut == Len(u.scan) > MaxItems
            known == {k \in DOMAIN u.scan :
                         u.scan[k].ssid = Home /\ (cut => k \in 2 .. MaxItems)}
        IN  \E k \in known : /\ \A j \in known : k <= j
                             /\ u.channel = u.scan[k].channel \/ (cut /\ k = MaxItems)
=============================================================================
