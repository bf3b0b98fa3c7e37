------------------------------ MODULE RtpSender ------------------------------
(***************************************************************************)
(* What the RTSP server streams to its clients (rtsp_server.ts): pictures  *)
(* cut into RTP packets, or the packets of GStreamer passed on, and the    *)
(* sender reports about them; and a receiver that puts the pictures        *)
(* together again.  Connections and their requests are RtspConnections.    *)
(*                                                                         *)
(* A timestamp is counted in steps of TIMESTAMP_INCREMENT.                 *)
(***************************************************************************)
EXTENDS Integers, Sequences

CONSTANTS
    Client,          \* sessions: each is set up once and has one receiver
    Jpeg,            \* the pictures the cameras may deliver
    MaxPayload,      \* MAX_RTP_PAYLOAD
    SeqSpace,        \* 2^16
    TsSpace,         \* number of timestamps
    SeqStarts, TsStarts,     \* what the random numbers of SETUP may be
    MaxFrames,       \* bound: frames
    MaxRelayed       \* bound: packets of GStreamer

\* With a bound above TsSpace a receiver that lost all packets between two
\* pictures of one timestamp would take them for one.
Nobody == "nobody"

ASSUME ClientAssumption == Nobody \notin Client

ASSUME SpaceAssumption ==
    /\ MaxPayload \in Nat \ {0} /\ SeqSpace \in Nat \ {0, 1} /\ TsSpace \in Nat \ {0}
    /\ SeqStarts \subseteq 0 .. SeqSpace - 2 /\ TsStarts \subseteq 0 .. TsSpace - 1
    /\ MaxFrames \in 0 .. TsSpace /\ MaxRelayed \in Nat

(***************************************************************************)
(* A picture as its parsers see it: the length of the header, the number   *)
(* of quantization tables in it and of the segments that hold them,        *)
(* whether it has its SOF0, whether its SOS is there, missing, or cut off  *)
(* behind the marker, and the length of what follows.                      *)
(***************************************************************************)
ASSUME JpegAssumption ==
    Jpeg \subseteq [header : Nat \ {0}, tables : Nat, segments : Nat, sof0 : BOOLEAN,
                    sos : {"whole", "missing", "cut"}, scan : Nat]

VARIABLES
    useH264,
    state,           \* of a session: "none", "ready", "playing", "destroyed"
    udp,             \* transport
    goodPort,        \* clientRtpPort is a port: else sending to it throws
    seqNum, timestamp, packetCount, octetCount,      \* fields of a session
    frames,          \* number of frames, or packets of GStreamer, so far
    jpeg,            \* the frame the listener works on, or NoJpeg
    todo,            \* sessions it has not come to yet
    cur,             \* the session it is sending to, or Nobody
    fragmentOffset,
    pipeline,        \* GStreamer: which process, and its next sequence number
    sent,            \* history: RTP packets sent to each client, in order
    relayed,         \* history: packets of GStreamer sent to each client
    turn,            \* history: frames whose sending to a client was completed
    owed,            \* history: their total length
    due,             \* history: frames that came while the client was playing
    report,          \* the last sender report of each client
    read,            \* receiver: packets delivered or lost so far
    rx,              \* receiver: the picture being put together
    shown,           \* receiver: the pictures shown
    crashed

session == <<state, udp, goodPort>>
fields == <<seqNum, timestamp, packetCount, octetCount>>
listener == <<frames, due, jpeg, todo, cur, fragmentOffset>>
history == <<sent, turn, owed>>
receiver == <<read, rx, shown>>

vars == <<useH264, session, fields, listener, pipeline, history, relayed, report,
          receiver, crashed>>

NoJpeg == [sos |-> "none"]
NoReport == [packets |-> 0 - 1]
NoPicture == [upTo |-> 0]

Init ==
    /\ useH264 \in BOOLEAN
    /\ state = [c \in Client |-> "none"]
    /\ udp = [c \in Client |-> FALSE]
    /\ goodPort = [c \in Client |-> TRUE]
    /\ seqNum = [c \in Client |-> 0]
    /\ timestamp = [c \in Client |-> 0]
    /\ packetCount = [c \in Client |-> 0]
    /\ octetCount = [c \in Client |-> 0]
    /\ frames = 0
    /\ jpeg = NoJpeg
    /\ todo = {}
    /\ cur = Nobody
    /\ fragmentOffset = 0
    /\ pipeline = [no |-> 0, seq |-> 0]
    /\ sent = [c \in Client |-> <<>>]
    /\ relayed = [c \in Client |-> <<>>]
    /\ turn = [c \in Client |-> 0]
    /\ owed = [c \in Client |-> 0]
    /\ due = [c \in Client |-> 0]
    /\ report = [c \in Client |-> NoReport]
    /\ read = [c \in Client |-> 0]
    /\ rx = [c \in Client |-> NoPicture]
    /\ shown = [c \in Client |-> <<>>]
    /\ crashed = FALSE

\* A callback runs to its end: while a frame is being sent, nothing else runs.
Idle == jpeg = NoJpeg /\ ~crashed

-----------------------------------------------------------------------------
(***************************************************************************)
(* The life of a session, as far as it matters here.                       *)
(***************************************************************************)
Setup(c) ==
    /\ Idle
    /\ state[c] = "none"
    /\ state' = [state EXCEPT ![c] = "ready"]
    /\ \E overUdp \in BOOLEAN, port \in BOOLEAN :
         /\ overUdp \/ port
         /\ udp' = [udp EXCEPT ![c] = overUdp]
         /\ goodPort' = [goodPort EXCEPT ![c] = port]
    /\ \E n \in SeqStarts : seqNum' = [seqNum EXCEPT ![c] = n]
    /\ \E t \in TsStarts : timestamp' = [timestamp EXCEPT ![c] = t]
    /\ UNCHANGED <<useH264, packetCount, octetCount, listener, pipeline, history,
                   relayed, report, receiver, crashed>>

Play(c) ==
    /\ Idle
    /\ state[c] = "ready"
    /\ state' = [state EXCEPT ![c] = "playing"]
    /\ UNCHANGED <<useH264, udp, goodPort, fields, listener, pipeline, history,
                   relayed, report, receiver, crashed>>

\* The socket is destroyed: by TEARDOWN, or as the client went away.
Destroy(c) ==
    /\ Idle
    /\ state[c] \in {"ready", "playing"}
    /\ state' = [state EXCEPT ![c] = "destroyed"]
    /\ UNCHANGED <<useH264, udp, goodPort, fields, listener, pipeline, history,
                   relayed, report, receiver, crashed>>

Streams(c) == state[c] = "playing"

\* Fires every RTCP_SR_INTERVAL_MS; a report that cannot be sent is forgotten.
\* What had been sent by then is remembered beside it.
SendRtcpSr(c) ==
    /\ Idle
    /\ Streams(c)
    /\ report' = [report EXCEPT ![c] =
         [packets |-> packetCount[c], octets |-> octetCount[c], ts |-> timestamp[c],
          afterPackets |-> Len(sent[c]), afterOctets |-> owed[c], afterTurns |-> turn[c]]]
    /\ UNCHANGED <<useH264, session, fields, listener, pipeline, history, relayed,
                   receiver, crashed>>

-----------------------------------------------------------------------------
(***************************************************************************)
(* Without GStreamer: a frame of a camera, sent to one session after the   *)
(* other.                                                                  *)
(***************************************************************************)
FrameEvent ==
    /\ Idle
    /\ ~useH264
    /\ frames < MaxFrames
    /\ frames' = frames + 1
    /\ jpeg' \in Jpeg
    /\ todo' = {c \in Client : state[c] # "none"}
    /\ due' = [c \in Client |-> IF Streams(c) THEN due[c] + 1 ELSE due[c]]
    /\ UNCHANGED <<useH264, session, fields, cur, fragmentOffset, pipeline, history,
                   relayed, report, receiver, crashed>>

\* sendFrameOverTcp returns at once to a session that does not play.  With the
\* length behind the SOS marker cut off, the search for it throws.
SendFrame(c) ==
    /\ jpeg # NoJpeg /\ ~crashed
    /\ cur = Nobody
    /\ c \in todo
    /\ todo' = todo \ {c}
    /\ cur' = IF Streams(c) /\ jpeg.sos # "cut" THEN c ELSE Nobody
    /\ crashed' = (Streams(c) /\ jpeg.sos = "cut")
    /\ UNCHANGED <<useH264, session, fields, frames, due, jpeg, fragmentOffset, pipeline,
                   history, relayed, report, receiver>>

\* What follows the SOS, or all of it if there is none.
PayloadLength(j) == IF j.sos = "whole" THEN j.scan ELSE j.header

parseJpegDimensions(j) == IF j.sof0 THEN "own" ELSE "640x480"

\* The tables are copied without marker, length and first id of their segment:
\* a second table in one segment comes with its id.
extractQTables(j) == IF j.segments = 0 THEN 0 ELSE 65 * j.tables - j.segments

Smaller(a, b) == IF a < b THEN a ELSE b
ChunkSize == Smaller(MaxPayload, PayloadLength(jpeg) - fragmentOffset)

\* The tables go into the first packet, and only that one says so.
buildRtpPacketAnyLast(c) ==     \* Deviation: the marker looks at the full chunk
    [seq |-> seqNum[c], ts |-> timestamp[c], offset |-> fragmentOffset,
     length |-> ChunkSize, marker |-> ChunkSize < MaxPayload,
     q |-> IF fragmentOffset = 0 /\ jpeg.segments > 0 THEN 255 ELSE 10,
     qTables |-> IF fragmentOffset = 0 THEN extractQTables(jpeg) ELSE 0,
     size |-> parseJpegDimensions(jpeg),
     picture |-> [turn |-> turn[c], jpeg |-> jpeg]]

buildRtpPacket(c) ==
    [seq |-> seqNum[c], ts |-> timestamp[c], offset |-> fragmentOffset,
     length |-> ChunkSize, marker |-> fragmentOffset + ChunkSize >= PayloadLength(jpeg),
     q |-> IF fragmentOffset = 0 /\ jpeg.segments > 0 THEN 255 ELSE 10,
     qTables |-> IF fragmentOffset = 0 THEN extractQTables(jpeg) ELSE 0,
     size |-> parseJpegDimensions(jpeg),
     picture |-> [turn |-> turn[c], jpeg |-> jpeg]]       \* ghost

SendFragmentCountsPicture ==    \* Deviation: octets of the picture, not the chunk
    /\ cur # Nobody
    /\ fragmentOffset < PayloadLength(jpeg)
    /\ goodPort[cur]
    /\ sent' = [sent EXCEPT ![cur] = Append(@, buildRtpPacket(cur))]
    /\ seqNum' = [seqNum EXCEPT ![cur] = (@ + 1) % SeqSpace]
    /\ packetCount' = [packetCount EXCEPT ![cur] = @ + 1]
    /\ octetCount' = [octetCount EXCEPT ![cur] = @ + MaxPayload]
    /\ fragmentOffset' = fragmentOffset + ChunkSize
    /\ UNCHANGED <<useH264, session, timestamp, frames, due, jpeg, todo, cur, pipeline,
                   turn, owed, relayed, report, receiver, crashed>>

SendFragmentSkipsLast ==        \* Deviation: % 0xffff instead of & 0xffff
    /\ cur # Nobody
    /\ fragmentOffset < PayloadLength(jpeg)
    /\ goodPort[cur]
    /\ sent' = [sent EXCEPT ![cur] = Append(@, buildRtpPacket(cur))]
    /\ seqNum' = [seqNum EXCEPT ![cur] = (@ + 1) % (SeqSpace - 1)]
    /\ packetCount' = [packetCount EXCEPT ![cur] = @ + 1]
    /\ octetCount' = [octetCount EXCEPT ![cur] = @ + ChunkSize]
    /\ fragmentOffset' = fragmentOffset + ChunkSize
    /\ UNCHANGED <<useH264, session, timestamp, frames, due, jpeg, todo, cur, pipeline,
                   turn, owed, relayed, report, receiver, crashed>>

SendFragment ==
    /\ cur # Nobody
    /\ fragmentOffset < PayloadLength(jpeg)
    /\ goodPort[cur]
    /\ sent' = [sent EXCEPT ![cur] = Append(@, buildRtpPacket(cur))]
    /\ seqNum' = [seqNum EXCEPT ![cur] = (@ + 1) % SeqSpace]
    /\ packetCount' = [packetCount EXCEPT ![cur] = @ + 1]
    /\ octetCount' = [octetCount EXCEPT ![cur] = @ + ChunkSize]
    /\ fragmentOffset' = fragmentOffset + ChunkSize
    /\ UNCHANGED <<useH264, session, timestamp, frames, due, jpeg, todo, cur, pipeline,
                   turn, owed, relayed, report, receiver, crashed>>

SendThrowsForAll ==             \* Deviation: the catch clause is around the loop
    /\ cur # Nobody
    /\ fragmentOffset < PayloadLength(jpeg)
    /\ ~goodPort[cur]
    /\ cur' = Nobody
    /\ fragmentOffset' = 0
    /\ todo' = {}
    /\ UNCHANGED <<useH264, session, fields, frames, due, jpeg, pipeline, history,
                   relayed, report, receiver, crashed>>

\* The catch clause gives up this session's frame, and goes on to the next one.
SendThrows ==
    /\ cur # Nobody
    /\ fragmentOffset < PayloadLength(jpeg)
    /\ ~goodPort[cur]
    /\ cur' = Nobody
    /\ fragmentOffset' = 0
    /\ UNCHANGED <<useH264, session, fields, frames, due, jpeg, todo, pipeline, history,
                   relayed, report, receiver, crashed>>

FrameSentSameTime ==            \* Deviation: the timestamp stays
    /\ cur # Nobody
    /\ fragmentOffset >= PayloadLength(jpeg)
    /\ cur' = Nobody
    /\ fragmentOffset' = 0
    /\ turn' = [turn EXCEPT ![cur] = @ + 1]
    /\ owed' = [owed EXCEPT ![cur] = @ + PayloadLength(jpeg)]
    /\ UNCHANGED <<useH264, session, fields, frames, due, jpeg, todo, pipeline, sent,
                   relayed, report, receiver, crashed>>

FrameSent ==
    /\ cur # Nobody
    /\ fragmentOffset >= PayloadLength(jpeg)
    /\ timestamp' = [timestamp EXCEPT ![cur] = (@ + 1) % TsSpace]
    /\ cur' = Nobody
    /\ fragmentOffset' = 0
    /\ turn' = [turn EXCEPT ![cur] = @ + 1]
    /\ owed' = [owed EXCEPT ![cur] = @ + PayloadLength(jpeg)]
    /\ UNCHANGED <<useH264, session, seqNum, packetCount, octetCount, frames, due, jpeg,
                   todo, pipeline, sent, relayed, report, receiver, crashed>>

ListenerEnds ==
    /\ jpeg # NoJpeg /\ ~crashed
    /\ cur = Nobody
    /\ todo = {}
    /\ jpeg' = NoJpeg
    /\ UNCHANGED <<useH264, session, fields, frames, due, todo, cur, fragmentOffset,
                   pipeline, history, relayed, report, receiver, crashed>>

-----------------------------------------------------------------------------
(***************************************************************************)
(* With GStreamer: its packets are passed on, whatever their numbers.      *)
(***************************************************************************)
ForwardRtp ==
    /\ Idle
    /\ useH264
    /\ frames < MaxRelayed
    /\ frames' = frames + 1
    /\ relayed' = [c \in Client |->
         IF Streams(c) /\ goodPort[c] THEN Append(relayed[c], pipeline) ELSE relayed[c]]
    /\ pipeline' = [pipeline EXCEPT !.seq = (@ + 1) % SeqSpace]
    /\ UNCHANGED <<useH264, session, fields, due, jpeg, todo, cur, fragmentOffset,
                   history, report, receiver, crashed>>

\* A new process numbers its packets anew.
NewPipeline ==
    /\ Idle
    /\ useH264
    /\ pipeline.no < frames
    /\ \E n \in 0 .. SeqSpace - 1 : pipeline' = [no |-> pipeline.no + 1, seq |-> n]
    /\ UNCHANGED <<useH264, session, fields, listener, history, relayed, report,
                   receiver, crashed>>

-----------------------------------------------------------------------------
(***************************************************************************)
(* A receiver of RFC 2435 in the manner of the players in use: packets by  *)
(* sequence number, a picture from offset 0 on, given up at a gap or at a  *)
(* packet of another time, shown at the marker.                            *)
(***************************************************************************)
Gathered(c, p) ==
    IF p.offset = 0
    THEN [ts |-> p.ts, upTo |-> p.length, pictures |-> {p.picture},
          qTables |-> IF p.q = 255 THEN p.qTables ELSE 0]
    ELSE IF rx[c] # NoPicture /\ rx[c].ts = p.ts /\ rx[c].upTo = p.offset
         THEN [rx[c] EXCEPT !.upTo = @ + p.length, !.pictures = @ \cup {p.picture}]
         ELSE NoPicture

Receive(c) ==
    /\ read[c] < Len(sent[c])
    /\ LET p == sent[c][read[c] + 1]
           g == Gathered(c, p)
       IN  /\ rx' = [rx EXCEPT ![c] = IF p.marker THEN NoPicture ELSE g]
           /\ shown' = [shown EXCEPT ![c] =
                IF p.marker /\ g # NoPicture THEN Append(@, g) ELSE @]
    /\ read' = [read EXCEPT ![c] = @ + 1]
    /\ UNCHANGED <<useH264, session, fields, listener, pipeline, history, relayed,
                   report, crashed>>

\* Only datagrams get lost.
Lose(c) ==
    /\ udp[c]
    /\ read[c] < Len(sent[c])
    /\ read' = [read EXCEPT ![c] = @ + 1]
    /\ UNCHANGED <<useH264, session, fields, listener, pipeline, history, relayed,
                   report, rx, shown, crashed>>

Next ==
    \/ \E c \in Client :
         \/ Setup(c) \/ Play(c) \/ Destroy(c) \/ SendRtcpSr(c)
         \/ SendFrame(c)
         \/ Receive(c) \/ Lose(c)
    \/ FrameEvent
    \/ SendFragment \/ SendThrows \/ FrameSent
    \/ ListenerEnds
    \/ ForwardRtp
    \/ NewPipeline

Spec == Init /\ [][Next]_vars

-----------------------------------------------------------------------------
Picture == [turn : Nat, jpeg : Jpeg]
Packet == [seq : Int, ts : 0 .. TsSpace - 1, offset : Nat, length : Nat \ {0},
           marker : BOOLEAN, q : {10, 255}, qTables : Int,
           size : {"own", "640x480"}, picture : Picture]
Gathering == [ts : 0 .. TsSpace - 1, upTo : Nat, pictures : SUBSET Picture, qTables : Int]
Report == [packets : Nat, octets : Nat, ts : 0 .. TsSpace - 1,
           afterPackets : Nat, afterOctets : Nat, afterTurns : Nat]

\* Every variable has its type.
TypeOK ==
    /\ useH264 \in BOOLEAN /\ crashed \in BOOLEAN
    /\ state \in [Client -> {"none", "ready", "playing", "destroyed"}]
    /\ udp \in [Client -> BOOLEAN] /\ goodPort \in [Client -> BOOLEAN]
    /\ seqNum \in [Client -> Int]
    /\ timestamp \in [Client -> 0 .. TsSpace - 1]
    /\ packetCount \in [Client -> Nat] /\ octetCount \in [Client -> Nat]
    /\ frames \in Nat
    /\ jpeg \in Jpeg \cup {NoJpeg}
    /\ todo \subseteq Client
    /\ cur \in Client \cup {Nobody}
    /\ fragmentOffset \in Nat
    /\ pipeline \in [no : Nat, seq : Int]
    /\ sent \in [Client -> Seq(Packet)]
    /\ relayed \in [Client -> Seq([no : Nat, seq : Int])]
    /\ turn \in [Client -> Nat] /\ owed \in [Client -> Nat] /\ due \in [Client -> Nat]
    /\ report \in [Client -> Report \cup {NoReport}]
    /\ read \in [Client -> Nat]
    /\ rx \in [Client -> Gathering \cup {NoPicture}]
    /\ shown \in [Client -> Seq(Gathering)]

\* Every picture a receiver shows is one the server was given, from its first
\* octet to its last and with all that was extracted of its tables, and none
\* comes before an earlier one: whatever is lost, and although times wrap.
Whole(g) ==
    \E p \in g.pictures :
        /\ g.pictures = {p}
        /\ g.upTo = PayloadLength(p.jpeg)
        /\ g.qTables = extractQTables(p.jpeg)

PicturesWhole ==
    \A c \in Client : \A i \in DOMAIN shown[c] :
        /\ Whole(shown[c][i])
        /\ \A j \in 1 .. i - 1 : \A p \in shown[c][i].pictures, q \in shown[c][j].pictures :
             q.turn < p.turn

\* Consecutive packets have consecutive numbers, across pictures, wraps and
\* frames that send nothing; those of GStreamer as long as its process lives:
\* no client that is playing misses one because of another client.
Follow(p, q) == q.seq = (p.seq + 1) % SeqSpace

SequenceUnbroken ==
    \A c \in Client :
        /\ \A i \in 1 .. Len(sent[c]) - 1 : Follow(sent[c][i], sent[c][i + 1])
        /\ \A i \in 1 .. Len(relayed[c]) - 1 :
             relayed[c][i].no = relayed[c][i + 1].no => Follow(relayed[c][i], relayed[c][i + 1])

\* A sender report counts exactly the packets sent before it and the octets of
\* the pictures they make up, and its time is that of none of them.  With
\* GStreamer it says that nothing was sent, whatever was.
ReportsTrue ==
    \A c \in Client :
        LET r == report[c]
        IN  r # NoReport =>
              /\ r.packets = r.afterPackets /\ r.octets = r.afterOctets
              /\ \A i \in 1 .. r.afterPackets :
                   r.afterTurns - sent[c][i].picture.turn < TsSpace => sent[c][i].ts # r.ts
              /\ useH264 => r.packets = 0 /\ r.octets = 0

\* A client with a usable port was sent, whole, every frame that came while it was
\* playing: whoever else is in the list, and wherever a send to that one throws.
FramesReachAll ==
    Idle => \A c \in Client : goodPort[c] => turn[c] = due[c]

\* Over TCP a receiver that has read all there is has shown every picture of
\* which it got a packet: none is left without its end.
NothingLostOverTcp ==
    \A c \in Client :
        ~udp[c] /\ read[c] = Len(sent[c]) /\ cur # c =>
            \A i \in DOMAIN sent[c] : \E k \in DOMAIN shown[c] :
                sent[c][i].picture \in shown[c][k].pictures
=============================================================================
