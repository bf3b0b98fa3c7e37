--------------------------- MODULE RtpSender_proofs ---------------------------
(***************************************************************************)
(* Proofs about RtpSender, for all clients, pictures and sizes.            *)
(***************************************************************************)
EXTENDS RtpSender, TLAPS

\* The length of a payload is a natural number.
LEMMA PayloadType == ASSUME NEW j \in Jpeg PROVE PayloadLength(j) \in Nat
BY JpegAssumption DEF PayloadLength

\* What is extracted of the tables is a number of octets.
LEMMA TablesType == ASSUME NEW j \in Jpeg PROVE extractQTables(j) \in Int
BY JpegAssumption DEF extractQTables

\* No picture is NoJpeg.
LEMMA JpegIsPicture == NoJpeg \notin Jpeg
BY JpegAssumption DEF NoJpeg

\* Remainders of TsSpace are timestamps, and those of SeqSpace numbers.
LEMMA Remainders ==
  ASSUME NEW x \in Int
  PROVE  /\ x % TsSpace \in 0 .. TsSpace - 1
         /\ x % SeqSpace \in Int
BY SpaceAssumption

\* The next timestamp, without a remainder.
LEMMA NextTime ==
  ASSUME NEW x \in 0 .. TsSpace - 1
  PROVE  (x + 1) % TsSpace = IF x + 1 < TsSpace THEN x + 1 ELSE 0
<1>1. CASE x + 1 < TsSpace BY <1>1, SpaceAssumption
<1>2. CASE x + 1 = TsSpace BY <1>2, SpaceAssumption
<1>. QED BY <1>1, <1>2, SpaceAssumption

-----------------------------------------------------------------------------
(***************************************************************************)
(* The listener: while it sends, there is a picture, and a session that    *)
(* plays; between events it holds nothing.                                 *)
(***************************************************************************)
ListenerOK ==
    /\ jpeg = NoJpeg => cur = Nobody /\ todo = {}
    /\ jpeg # NoJpeg => ~useH264
    /\ cur = Nobody => fragmentOffset = 0
    /\ cur # Nobody =>
         /\ jpeg \in Jpeg
         /\ cur \notin todo
         /\ state[cur] = "playing"
         /\ fragmentOffset <= PayloadLength(jpeg)
         /\ fragmentOffset > 0 => goodPort[cur]

\* Sessions change only between events: this is what Setup, Play and Destroy
\* leave alone, and what the reports and the receiver do too.
LEMMA ListenerStart == Init => ListenerOK
BY DEF Init, ListenerOK

\* What a packet consists of.
LEMMA PacketType ==
  ASSUME TypeOK, ListenerOK, cur # Nobody, fragmentOffset < PayloadLength(jpeg)
  PROVE  /\ ChunkSize \in Nat \ {0}
         /\ fragmentOffset + ChunkSize <= PayloadLength(jpeg)
         /\ buildRtpPacket(cur) \in Packet
<1>1. jpeg \in Jpeg /\ cur \in Client BY DEF ListenerOK, TypeOK
<1>2. PayloadLength(jpeg) \in Nat /\ extractQTables(jpeg) \in Int
  BY <1>1, PayloadType, TablesType
<1>3. fragmentOffset \in Nat BY DEF TypeOK
<1>4. ChunkSize \in Nat \ {0} /\ fragmentOffset + ChunkSize <= PayloadLength(jpeg)
  BY <1>2, <1>3, SpaceAssumption DEF ChunkSize, Smaller
<1>5. seqNum[cur] \in Int /\ timestamp[cur] \in 0 .. TsSpace - 1 /\ turn[cur] \in Nat
  BY <1>1 DEF TypeOK
<1>6. parseJpegDimensions(jpeg) \in {"own", "640x480"} BY DEF parseJpegDimensions
<1>7. (fragmentOffset + ChunkSize >= PayloadLength(jpeg)) \in BOOLEAN
  BY <1>2, <1>3, <1>4
<1>. HIDE DEF ChunkSize, PayloadLength, extractQTables, parseJpegDimensions
<1>8. buildRtpPacket(cur) \in Packet
  BY <1>1, <1>2, <1>3, <1>4, <1>5, <1>6, <1>7 DEF buildRtpPacket, Packet, Picture
<1>. QED BY <1>4, <1>8

\* What the receiver makes of a packet.
LEMMA GatheredType ==
  ASSUME TypeOK, NEW c \in Client, NEW p \in Packet
  PROVE  Gathered(c, p) \in Gathering \cup {NoPicture}
<1>1. rx[c] \in Gathering \cup {NoPicture} BY DEF TypeOK
<1>2. CASE p.offset = 0 BY <1>2 DEF Gathered, Packet, Gathering
<1>3. CASE p.offset # 0 /\ rx[c] = NoPicture BY <1>3 DEF Gathered
<1>4. CASE p.offset # 0 /\ rx[c] \in Gathering
  <2>. DEFINE r == rx[c]
  <2>1. p.length \in Nat /\ p.picture \in Picture BY DEF Packet
  <2>2. r \in Gathering BY <1>4
  <2>3. [r EXCEPT !.upTo = @ + p.length, !.pictures = @ \cup {p.picture}] \in Gathering
    <3>1. r.upTo + p.length \in Nat BY <2>1, <2>2 DEF Gathering
    <3>2. r.pictures \cup {p.picture} \in SUBSET Picture BY <2>1, <2>2 DEF Gathering
    <3>. QED BY <2>2, <3>1, <3>2 DEF Gathering
  <2>. QED BY <1>4, <2>3 DEF Gathered
<1>. QED BY <1>1, <1>2, <1>3, <1>4

LEMMA TypeStart == Init => TypeOK
<1>. SUFFICES ASSUME Init PROVE TypeOK
  OBVIOUS
<1>. USE DEF Init
<1>1. /\ useH264 \in BOOLEAN /\ crashed \in BOOLEAN
      /\ state \in [Client -> {"none", "ready", "playing", "destroyed"}]
      /\ udp \in [Client -> BOOLEAN] /\ goodPort \in [Client -> BOOLEAN]
  OBVIOUS
<1>2. /\ seqNum \in [Client -> Int] /\ timestamp \in [Client -> 0 .. TsSpace - 1]
      /\ packetCount \in [Client -> Nat] /\ octetCount \in [Client -> Nat]
  BY SpaceAssumption
<1>3. /\ frames \in Nat /\ jpeg \in Jpeg \cup {NoJpeg} /\ todo \subseteq Client
      /\ cur \in Client \cup {Nobody} /\ fragmentOffset \in Nat
      /\ pipeline \in [no : Nat, seq : Int]
  OBVIOUS
<1>4. /\ turn \in [Client -> Nat] /\ owed \in [Client -> Nat] /\ due \in [Client -> Nat]
      /\ read \in [Client -> Nat]
  OBVIOUS
<1>5. /\ sent \in [Client -> Seq(Packet)] /\ shown \in [Client -> Seq(Gathering)]
      /\ relayed \in [Client -> Seq([no : Nat, seq : Int])]
  OBVIOUS
<1>6. /\ report \in [Client -> Report \cup {NoReport}]
      /\ rx \in [Client -> Gathering \cup {NoPicture}]
  OBVIOUS
<1>. QED BY <1>1, <1>2, <1>3, <1>4, <1>5, <1>6 DEF TypeOK

LEMMA TypeStep == TypeOK /\ ListenerOK /\ [Next]_vars => TypeOK'
<1>. SUFFICES ASSUME TypeOK, ListenerOK, [Next]_vars PROVE TypeOK'
  OBVIOUS
<1>. USE DEF session, fields, listener, history, receiver
<1>1. ASSUME NEW c \in Client, Setup(c) PROVE TypeOK'
  <2>1. seqNum' \in [Client -> Int] /\ timestamp' \in [Client -> 0 .. TsSpace - 1]
    <3>1. seqNum \in [Client -> Int] /\ timestamp \in [Client -> 0 .. TsSpace - 1]
      BY DEF TypeOK
    <3>2. SeqStarts \subseteq Int /\ TsStarts \subseteq 0 .. TsSpace - 1
      BY SpaceAssumption
    <3>. QED BY <1>1, <3>1, <3>2 DEF Setup
  <2>2. state' \in [Client -> {"none", "ready", "playing", "destroyed"}]
    BY <1>1 DEF Setup, TypeOK
  <2>3. udp' \in [Client -> BOOLEAN] /\ goodPort' \in [Client -> BOOLEAN]
    <3>1. udp \in [Client -> BOOLEAN] /\ goodPort \in [Client -> BOOLEAN]
      BY DEF TypeOK
    <3>. QED BY <1>1, <3>1 DEF Setup
  <2>. QED BY <1>1, <2>1, <2>2, <2>3 DEF Setup, TypeOK
<1>2. ASSUME NEW c \in Client, Play(c) PROVE TypeOK'
  BY <1>2 DEF Play, TypeOK
<1>3. ASSUME NEW c \in Client, Destroy(c) PROVE TypeOK'
  BY <1>3 DEF Destroy, TypeOK
<1>4. ASSUME NEW c \in Client, SendRtcpSr(c) PROVE TypeOK'
  <2>1. Len(sent[c]) \in Nat BY DEF TypeOK
  <2>2. report' \in [Client -> Report \cup {NoReport}]
    BY <1>4, <2>1 DEF SendRtcpSr, TypeOK, Report
  <2>. QED BY <1>4, <2>2 DEF SendRtcpSr, TypeOK
<1>5. ASSUME NEW c \in Client, SendFrame(c) PROVE TypeOK'
  <2>1. crashed' \in BOOLEAN BY <1>5 DEF SendFrame
  <2>2. cur' \in Client \cup {Nobody} /\ todo' \subseteq Client
    BY <1>5 DEF SendFrame, TypeOK
  <2>. QED BY <1>5, <2>1, <2>2 DEF SendFrame, TypeOK
<1>6. ASSUME NEW c \in Client, Receive(c) PROVE TypeOK'
  <2>. DEFINE p == sent[c][read[c] + 1]
              g == Gathered(c, p)
  <2>1. p \in Packet BY <1>6 DEF Receive, TypeOK
  <2>2. g \in Gathering \cup {NoPicture} BY <2>1, GatheredType
  <2>. /\ rx' = [rx EXCEPT ![c] = IF p.marker THEN NoPicture ELSE g]
       /\ shown' = [shown EXCEPT ![c] =
                IF p.marker /\ g # NoPicture THEN Append(@, g) ELSE @]
    BY <1>6 DEF Receive
  <2>. HIDE DEF g
  <2>3. rx' \in [Client -> Gathering \cup {NoPicture}] BY <2>2 DEF TypeOK
  <2>4. shown' \in [Client -> Seq(Gathering)]
    <3>. SUFFICES (IF p.marker /\ g # NoPicture THEN Append(shown[c], g) ELSE shown[c])
                    \in Seq(Gathering)
      BY DEF TypeOK
    <3>1. shown[c] \in Seq(Gathering) BY DEF TypeOK
    <3>. QED BY <3>1, <2>2
  <2>5. read' \in [Client -> Nat]
    <3>1. read \in [Client -> Nat] BY DEF TypeOK
    <3>. QED BY <1>6, <3>1 DEF Receive
  <2>. QED BY <1>6, <2>3, <2>4, <2>5 DEF Receive, TypeOK
<1>7. ASSUME NEW c \in Client, Lose(c) PROVE TypeOK'
  <2>1. read \in [Client -> Nat] BY DEF TypeOK
  <2>2. read' \in [Client -> Nat] BY <1>7, <2>1 DEF Lose
  <2>. QED BY <1>7, <2>2 DEF Lose, TypeOK
<1>8. ASSUME FrameEvent PROVE TypeOK'
  <2>1. due \in [Client -> Nat] /\ due' \in [Client -> Nat]
    BY <1>8 DEF FrameEvent, TypeOK
  <2>2. frames' \in Nat /\ jpeg' \in Jpeg /\ todo' \subseteq Client
    BY <1>8 DEF FrameEvent, TypeOK
  <2>3. UNCHANGED <<useH264, session, fields, cur, fragmentOffset, pipeline, history,
                    relayed, report, receiver, crashed>>
    BY <1>8 DEF FrameEvent
  <2>. QED BY <2>1, <2>2, <2>3 DEF TypeOK
<1>9. ASSUME SendFragment PROVE TypeOK'
  <2>. DEFINE p == buildRtpPacket(cur)
  <2>1. p \in Packet /\ ChunkSize \in Nat BY <1>9, PacketType DEF SendFragment
  <2>2. cur \in Client BY <1>9 DEF SendFragment, TypeOK
  <2>. HIDE DEF p
  <2>3. sent' \in [Client -> Seq(Packet)] BY <1>9, <2>1, <2>2 DEF SendFragment, TypeOK, p
  <2>4. seqNum' \in [Client -> Int]
    <3>1. seqNum \in [Client -> Int] BY DEF TypeOK
    <3>2. (seqNum[cur] + 1) % SeqSpace \in Int BY <2>2, <3>1, Remainders
    <3>. QED BY <1>9, <2>2, <3>1, <3>2 DEF SendFragment
  <2>5. packetCount' \in [Client -> Nat] /\ octetCount' \in [Client -> Nat]
        /\ fragmentOffset' \in Nat
    <3>. HIDE DEF ChunkSize
    <3>1. packetCount \in [Client -> Nat] /\ octetCount \in [Client -> Nat]
          /\ fragmentOffset \in Nat
      BY DEF TypeOK
    <3>. QED BY <1>9, <2>1, <2>2, <3>1 DEF SendFragment
  <2>. QED BY <1>9, <2>3, <2>4, <2>5 DEF SendFragment, TypeOK
<1>10. ASSUME SendThrows PROVE TypeOK'
  BY <1>10 DEF SendThrows, TypeOK
<1>11. ASSUME FrameSent PROVE TypeOK'
  <2>1. cur \in Client /\ jpeg \in Jpeg BY <1>11 DEF FrameSent, TypeOK, ListenerOK
  <2>2. PayloadLength(jpeg) \in Nat BY <2>1, PayloadType
  <2>3. timestamp' \in [Client -> 0 .. TsSpace - 1]
    <3>1. timestamp \in [Client -> 0 .. TsSpace - 1] BY DEF TypeOK
    <3>2. timestamp[cur] + 1 \in Int BY <2>1, <3>1
    <3>3. (timestamp[cur] + 1) % TsSpace \in 0 .. TsSpace - 1 BY <3>2, Remainders
    <3>. QED BY <1>11, <2>1, <3>1, <3>3 DEF FrameSent
  <2>. HIDE DEF PayloadLength
  <2>4. turn' \in [Client -> Nat] /\ owed' \in [Client -> Nat]
    <3>1. turn \in [Client -> Nat] /\ owed \in [Client -> Nat] BY DEF TypeOK
    <3>. QED BY <1>11, <2>1, <2>2, <3>1 DEF FrameSent
  <2>. QED BY <1>11, <2>3, <2>4 DEF FrameSent, TypeOK
<1>12. ASSUME ListenerEnds PROVE TypeOK'
  BY <1>12 DEF ListenerEnds, TypeOK
<1>13. ASSUME ForwardRtp PROVE TypeOK'
  <2>. DEFINE R == [no : Nat, seq : Int]
  <2>1. pipeline \in R /\ relayed \in [Client -> Seq(R)] BY DEF TypeOK
  <2>2. pipeline' \in R BY <1>13, <2>1, Remainders DEF ForwardRtp
  <2>3. relayed' \in [Client -> Seq(R)]
    <3>. HIDE DEF R
    <3>1. \A c \in Client : relayed[c] \in Seq(R) /\ Append(relayed[c], pipeline) \in Seq(R)
      BY <2>1
    <3>. QED BY <1>13, <3>1 DEF ForwardRtp
  <2>4. frames' \in Nat BY <1>13 DEF ForwardRtp, TypeOK
  <2>. QED BY <1>13, <2>2, <2>3, <2>4 DEF ForwardRtp, TypeOK
<1>14. ASSUME NewPipeline PROVE TypeOK'
  <2>1. pipeline' \in [no : Nat, seq : Int]
    BY <1>14, SpaceAssumption DEF NewPipeline, TypeOK
  <2>. QED BY <1>14, <2>1 DEF NewPipeline, TypeOK
<1>15. ASSUME UNCHANGED vars PROVE TypeOK'
  BY <1>15 DEF vars, TypeOK
<1>. QED BY <1>1, <1>2, <1>3, <1>4, <1>5, <1>6, <1>7, <1>8, <1>9, <1>10, <1>11, <1>12,
            <1>13, <1>14, <1>15 DEF Next

LEMMA ListenerStep == TypeOK /\ ListenerOK /\ [Next]_vars => ListenerOK'
<1>. SUFFICES ASSUME TypeOK, ListenerOK, [Next]_vars PROVE ListenerOK'
  OBVIOUS
<1>. USE DEF session, fields, listener, history, receiver
<1>1. ASSUME NEW c \in Client, Setup(c) \/ Play(c) \/ Destroy(c) PROVE ListenerOK'
  <2>1. cur = Nobody /\ jpeg = NoJpeg BY <1>1 DEF Setup, Play, Destroy, Idle, ListenerOK
  <2>. QED BY <1>1, <2>1 DEF Setup, Play, Destroy, ListenerOK
<1>2. ASSUME NEW c \in Client, SendRtcpSr(c) \/ Receive(c) \/ Lose(c) PROVE ListenerOK'
  BY <1>2 DEF SendRtcpSr, Receive, Lose, ListenerOK
<1>3. ASSUME NEW c \in Client, SendFrame(c) PROVE ListenerOK'
  <2>1. jpeg \in Jpeg /\ fragmentOffset = 0 BY <1>3 DEF SendFrame, ListenerOK, TypeOK
  <2>2. PayloadLength(jpeg) \in Nat BY <2>1, PayloadType
  <2>. HIDE DEF PayloadLength
  <2>. QED BY <1>3, <2>1, <2>2 DEF SendFrame, Streams, ListenerOK
<1>4. ASSUME FrameEvent PROVE ListenerOK'
  BY <1>4, JpegIsPicture DEF FrameEvent, Idle, ListenerOK
<1>5. ASSUME SendFragment PROVE ListenerOK'
  <2>1. fragmentOffset + ChunkSize <= PayloadLength(jpeg)
    BY <1>5, PacketType DEF SendFragment
  <2>. HIDE DEF ChunkSize, PayloadLength
  <2>. QED BY <1>5, <2>1 DEF SendFragment, ListenerOK
<1>6. ASSUME SendThrows \/ FrameSent \/ ListenerEnds PROVE ListenerOK'
  BY <1>6, JpegIsPicture DEF SendThrows, FrameSent, ListenerEnds, ListenerOK
<1>7. ASSUME ForwardRtp \/ NewPipeline PROVE ListenerOK'
  BY <1>7 DEF ForwardRtp, NewPipeline, Idle, ListenerOK
<1>8. ASSUME UNCHANGED vars PROVE ListenerOK'
  BY <1>8 DEF vars, ListenerOK
<1>. QED BY <1>1, <1>2, <1>3, <1>4, <1>5, <1>6, <1>7, <1>8 DEF Next

\* Every variable has its type, and the listener holds a picture and a session
\* that plays exactly while it sends.
THEOREM Types == Spec => [](TypeOK /\ ListenerOK)
<1>1. Init => TypeOK /\ ListenerOK BY TypeStart, ListenerStart
<1>2. TypeOK /\ ListenerOK /\ [Next]_vars => (TypeOK /\ ListenerOK)'
  BY TypeStep, ListenerStep
<1>. QED BY <1>1, <1>2, PTL DEF Spec

-----------------------------------------------------------------------------
(***************************************************************************)
(* A frame that came while a client was playing was sent to it, or is still *)
(* to be: the client is in the list, or its turn is now.                   *)
(***************************************************************************)
Awaits(c) == Streams(c) /\ (c \in todo \/ c = cur)

DueOK(c) ==
    goodPort[c] \/ state[c] = "none" =>
        due[c] = turn[c] + (IF Awaits(c) THEN 1 ELSE 0)

DueInv == ~crashed => \A c \in Client : DueOK(c)

LEMMA DueStart == Init => DueInv
BY DEF Init, DueInv, DueOK, Awaits, Streams

\* Steps that change nothing of what DueInv speaks of.
LEMMA DueKept ==
  ASSUME DueInv, crashed' = crashed,
         UNCHANGED <<state, goodPort, due, turn, todo, cur>>
  PROVE  DueInv'
BY DEF DueInv, DueOK, Awaits, Streams

LEMMA DueStep == TypeOK /\ ListenerOK /\ DueInv /\ [Next]_vars => DueInv'
<1>. SUFFICES ASSUME TypeOK, ListenerOK, DueInv, [Next]_vars, ~crashed' PROVE DueInv'
  BY DEF DueInv
<1>. USE DEF session, fields, listener, history, receiver
<1>0. /\ turn \in [Client -> Nat] /\ due \in [Client -> Nat]
      /\ state \in [Client -> {"none", "ready", "playing", "destroyed"}]
      /\ goodPort \in [Client -> BOOLEAN]
  BY DEF TypeOK
<1>1. ASSUME NEW c \in Client, Setup(c) \/ Play(c) \/ Destroy(c) PROVE DueInv'
  <2>1. /\ cur = Nobody /\ todo = {} /\ ~crashed
        /\ UNCHANGED <<cur, todo, turn, due>>
    BY <1>1 DEF Setup, Play, Destroy, Idle, ListenerOK
  <2>2. \A d \in Client : ~Awaits(d) /\ ~Awaits(d)'
    BY <2>1, ClientAssumption DEF Awaits
  <2>3. \A d \in Client : goodPort'[d] \/ state'[d] = "none" =>
                            goodPort[d] \/ state[d] = "none"
    BY <1>0, <1>1 DEF Setup, Play, Destroy
  <2>. QED BY <2>1, <2>2, <2>3 DEF DueInv, DueOK
<1>2. ASSUME NEW c \in Client, SendFrame(c) PROVE DueInv'
  <2>1. /\ ~crashed /\ todo' = todo \ {c}
        /\ cur = Nobody /\ cur' = IF Streams(c) THEN c ELSE Nobody
        /\ UNCHANGED <<state, goodPort, turn, due>>
    BY <1>2 DEF SendFrame
  <2>2. \A d \in Client : Awaits(d)' <=> Awaits(d)
    BY <1>2, <2>1, ClientAssumption DEF Awaits, Streams, SendFrame
  <2>. QED BY <2>1, <2>2 DEF DueInv, DueOK
<1>3. ASSUME FrameEvent PROVE DueInv'
  <2>1. /\ cur = Nobody /\ todo = {} /\ ~crashed
        /\ UNCHANGED <<cur, turn, state, goodPort>>
        /\ todo' = {c \in Client : state[c] # "none"}
        /\ due' = [c \in Client |-> IF Streams(c) THEN due[c] + 1 ELSE due[c]]
    BY <1>3 DEF FrameEvent, Idle, ListenerOK
  <2>2. \A d \in Client : ~Awaits(d) /\ (Awaits(d)' <=> Streams(d))
    BY <2>1, ClientAssumption DEF Awaits, Streams
  <2>. QED BY <1>0, <2>1, <2>2 DEF DueInv, DueOK
<1>4. ASSUME SendThrows PROVE DueInv'
  <2>1. /\ cur # Nobody /\ ~goodPort[cur] /\ cur' = Nobody /\ state[cur] = "playing"
        /\ UNCHANGED <<state, goodPort, turn, due, todo, crashed>>
    BY <1>4 DEF SendThrows, ListenerOK
  <2>2. \A d \in Client : d # cur => (Awaits(d)' <=> Awaits(d))
    BY <2>1, ClientAssumption DEF Awaits, Streams
  <2>. QED BY <2>1, <2>2 DEF DueInv, DueOK
<1>5. ASSUME FrameSent PROVE DueInv'
  <2>1. /\ cur \in Client /\ cur' = Nobody /\ cur \notin todo /\ state[cur] = "playing"
        /\ turn' = [turn EXCEPT ![cur] = @ + 1]
        /\ UNCHANGED <<state, goodPort, due, todo, crashed>>
    BY <1>5 DEF FrameSent, ListenerOK, TypeOK
  <2>2. \A d \in Client : d # cur => (Awaits(d)' <=> Awaits(d)) /\ turn'[d] = turn[d]
    BY <1>0, <2>1, ClientAssumption DEF Awaits, Streams
  <2>3. Awaits(cur) /\ ~(Streams(cur)' /\ (cur \in todo' \/ cur = cur'))
    BY <2>1, ClientAssumption DEF Awaits, Streams
  <2>4. turn'[cur] = turn[cur] + 1
    BY <1>0, <2>1
  <2>5. ASSUME NEW d \in Client PROVE DueOK(d)'
    <3>1. CASE d # cur
      BY <2>1, <2>2, <3>1 DEF DueInv, DueOK
    <3>2. CASE d = cur
      BY <1>0, <2>1, <2>3, <2>4, <3>2 DEF DueInv, DueOK, Awaits, Streams
    <3>. QED BY <3>1, <3>2
  <2>. QED BY <2>5 DEF DueInv
<1>6. ASSUME NEW c \in Client, SendRtcpSr(c) \/ Receive(c) \/ Lose(c) PROVE DueInv'
  BY <1>6, DueKept DEF SendRtcpSr, Receive, Lose
<1>7. ASSUME SendFragment \/ ListenerEnds \/ ForwardRtp \/ NewPipeline PROVE DueInv'
  BY <1>7, DueKept DEF SendFragment, ListenerEnds, ForwardRtp, NewPipeline
<1>8. ASSUME UNCHANGED vars PROVE DueInv'
  BY <1>8, DueKept DEF vars
<1>. QED BY <1>1, <1>2, <1>3, <1>4, <1>5, <1>6, <1>7, <1>8 DEF Next

\* However the sends to other clients fail, a client with a usable port was sent
\* every frame that came while it was playing, when the frame listener has ended.
THEOREM EveryFrameSent == Spec => []FramesReachAll
<1>1. Init => TypeOK /\ ListenerOK /\ DueInv
  BY TypeStart, ListenerStart, DueStart
<1>2. TypeOK /\ ListenerOK /\ DueInv /\ [Next]_vars => (TypeOK /\ ListenerOK /\ DueInv)'
  BY TypeStep, ListenerStep, DueStep
<1>3. TypeOK /\ ListenerOK /\ DueInv => FramesReachAll
  <2>. SUFFICES ASSUME TypeOK, ListenerOK, DueInv, Idle, NEW c \in Client, goodPort[c]
                PROVE  turn[c] = due[c]
    BY DEF FramesReachAll
  <2>1. ~Awaits(c) /\ ~crashed
    BY ClientAssumption DEF Idle, ListenerOK, Awaits
  <2>2. turn[c] \in Nat
    BY DEF TypeOK
  <2>. QED BY <2>1, <2>2 DEF DueInv, DueOK
<1>. QED BY <1>1, <1>2, <1>3, PTL DEF Spec

-----------------------------------------------------------------------------
(***************************************************************************)
(* What was sent to a client, and what the fields of its session say of it.*)
(***************************************************************************)
\* A session without a usable port, or without SETUP, was sent nothing.
ReachedOK(c) == state[c] = "none" \/ ~goodPort[c] => Len(sent[c]) = 0

CountsOK(c) ==
    /\ packetCount[c] = Len(sent[c])
    /\ octetCount[c] = owed[c] + (IF cur = c THEN fragmentOffset ELSE 0)
    /\ useH264 => Len(sent[c]) = 0 /\ owed[c] = 0

\* Fewer pictures than timestamps.
TurnsOK(c) ==
    /\ turn[c] <= frames
    /\ c \in todo \/ cur = c => turn[c] < frames

FramesOK == ~useH264 => frames <= MaxFrames

\* The timestamp d steps after x.
Later(x, d) == IF x + d < TsSpace THEN x + d ELSE x + d - TsSpace

PacketOK(c, p) ==
    /\ p.picture.turn <= turn[c]
    /\ p.picture.turn = turn[c] =>
         cur = c /\ p.picture.jpeg = jpeg /\ p.offset + p.length <= fragmentOffset
    /\ Later(p.ts, turn[c] - p.picture.turn) = timestamp[c]
    /\ p.marker <=> p.offset + p.length >= PayloadLength(p.picture.jpeg)
    /\ p.offset + p.length <= PayloadLength(p.picture.jpeg)
    /\ p.offset = 0 => (IF p.q = 255 THEN p.qTables ELSE 0) = extractQTables(p.picture.jpeg)

\* q follows p in what is sent to a client.
Linked(p, q) ==
    /\ Follow(p, q)
    /\ p.marker => q.offset = 0
    /\ ~p.marker => q.picture = p.picture /\ q.offset = p.offset + p.length

LastOK(c) ==
    /\ Len(sent[c]) > 0 => seqNum[c] = (sent[c][Len(sent[c])].seq + 1) % SeqSpace
    /\ cur = c /\ fragmentOffset > 0 =>
         /\ Len(sent[c]) > 0
         /\ sent[c][Len(sent[c])].picture = [turn |-> turn[c], jpeg |-> jpeg]
         /\ sent[c][Len(sent[c])].offset + sent[c][Len(sent[c])].length = fragmentOffset
    /\ ~(cur = c /\ fragmentOffset > 0) /\ Len(sent[c]) > 0 => sent[c][Len(sent[c])].marker

\* Pictures are sent one after the other.
Ordered(p, q) ==
    /\ p.picture.turn <= q.picture.turn
    /\ p.marker => p.picture.turn < q.picture.turn
    /\ p.picture.turn = q.picture.turn => p.picture = q.picture

SentOK(c) ==
    /\ ReachedOK(c) /\ CountsOK(c) /\ TurnsOK(c) /\ LastOK(c)
    /\ \A i \in 1 .. Len(sent[c]) : PacketOK(c, sent[c][i])
    /\ \A i \in 1 .. Len(sent[c]) - 1 : Linked(sent[c][i], sent[c][i + 1])
    /\ Len(sent[c]) > 0 => sent[c][1].offset = 0
    /\ \A i, j \in 1 .. Len(sent[c]) : i < j => Ordered(sent[c][i], sent[c][j])

SentInv == FramesOK /\ \A c \in Client : SentOK(c)

\* The packets of GStreamer passed on to a client.
RelayedOK(c) ==
    /\ state[c] \in {"none", "ready"} \/ ~goodPort[c] => Len(relayed[c]) = 0
    /\ \A i \in 1 .. Len(relayed[c]) : relayed[c][i].no <= pipeline.no
    /\ state[c] = "playing" /\ Len(relayed[c]) > 0
          /\ relayed[c][Len(relayed[c])].no = pipeline.no
         => Follow(relayed[c][Len(relayed[c])], pipeline)
    /\ \A i \in 1 .. Len(relayed[c]) - 1 :
         relayed[c][i].no = relayed[c][i + 1].no => Follow(relayed[c][i], relayed[c][i + 1])

RelayInv == \A c \in Client : RelayedOK(c)

ReportOK(c) ==
    report[c] # NoReport =>
        /\ report[c].packets = report[c].afterPackets
        /\ report[c].octets = report[c].afterOctets
        /\ report[c].afterPackets <= Len(sent[c])
        /\ \A i \in 1 .. report[c].afterPackets :
             /\ sent[c][i].picture.turn < report[c].afterTurns
             /\ Later(sent[c][i].ts, report[c].afterTurns - sent[c][i].picture.turn)
                  = report[c].ts
        /\ useH264 => report[c].packets = 0 /\ report[c].octets = 0

ReportInv == \A c \in Client : ReportOK(c)

\* The receiver has put together what p is the last part of.
UpTo(g, p) ==
    /\ g.ts = p.ts
    /\ g.pictures = {p.picture}
    /\ g.upTo = p.offset + p.length
    /\ g.qTables = extractQTables(p.picture.jpeg)

RxOK(c) ==
    /\ read[c] <= Len(sent[c])
    /\ rx[c] # NoPicture =>
         \E i \in 1 .. read[c] : ~sent[c][i].marker /\ UpTo(rx[c], sent[c][i])
    /\ \A k \in 1 .. Len(shown[c]) :
         \E i \in 1 .. read[c] : sent[c][i].marker /\ UpTo(shown[c][k], sent[c][i])
    /\ \A k, l \in 1 .. Len(shown[c]) : k < l =>
         \A p \in shown[c][k].pictures, q \in shown[c][l].pictures : p.turn < q.turn

RxInv == \A c \in Client : RxOK(c)

\* Without loss the receiver is where the last packet it read is.
TcpOK(c) ==
    ~udp[c] =>
        /\ read[c] > 0 /\ ~sent[c][read[c]].marker =>
             rx[c] # NoPicture /\ UpTo(rx[c], sent[c][read[c]])
        /\ \A i \in 1 .. read[c] :
             \/ \E k \in 1 .. Len(shown[c]) : sent[c][i].picture \in shown[c][k].pictures
             \/ ~sent[c][read[c]].marker /\ sent[c][i].picture = sent[c][read[c]].picture

TcpInv == \A c \in Client : TcpOK(c)

-----------------------------------------------------------------------------
(***************************************************************************)
(* SentInv is inductive.                                                   *)
(***************************************************************************)
LEMMA SentStart == Init => SentInv
<1>. SUFFICES ASSUME Init PROVE SentInv
  OBVIOUS
<1>1. FramesOK BY SpaceAssumption DEF Init, FramesOK
<1>2. ASSUME NEW c \in Client PROVE SentOK(c)
  <2>1. Len(sent[c]) = 0 /\ packetCount[c] = 0 /\ octetCount[c] = 0 /\ owed[c] = 0
        /\ turn[c] = 0 /\ frames = 0 /\ todo = {} /\ cur = Nobody /\ fragmentOffset = 0
    BY DEF Init
  <2>2. cur # c BY <2>1, ClientAssumption
  <2>. QED BY <2>1, <2>2 DEF SentOK, ReachedOK, CountsOK, TurnsOK, LastOK
<1>. QED BY <1>1, <1>2 DEF SentInv

\* Nothing about a client changes while nothing is sent to it.
LEMMA SentOfOthers ==
  ASSUME TypeOK, NEW d \in Client, SentOK(d), cur # d, cur' # d,
         useH264' = useH264, sent'[d] = sent[d], packetCount'[d] = packetCount[d],
         octetCount'[d] = octetCount[d], turn'[d] = turn[d], owed'[d] = owed[d],
         Len(sent[d]) > 0 => seqNum'[d] = seqNum[d] /\ timestamp'[d] = timestamp[d],
         ReachedOK(d)', TurnsOK(d)'
  PROVE  SentOK(d)'
<1>1. CountsOK(d)' BY DEF SentOK, CountsOK
<1>2. LastOK(d)' BY DEF SentOK, LastOK
<1>3. ASSUME NEW i \in 1 .. Len(sent[d]) PROVE PacketOK(d, sent[d][i])'
  <2>1. PacketOK(d, sent[d][i]) BY DEF SentOK
  <2>2. Len(sent[d]) > 0 /\ timestamp'[d] = timestamp[d] BY DEF TypeOK
  <2>. HIDE DEF PayloadLength, extractQTables, Later
  <2>. QED BY <2>1, <2>2 DEF PacketOK
<1>. HIDE DEF PacketOK, Linked, Ordered, CountsOK, LastOK, ReachedOK, TurnsOK
<1>4. \A i \in 1 .. Len(sent'[d]) : PacketOK(d, sent[d][i])'
  BY <1>3
<1>5. /\ \A i \in 1 .. Len(sent'[d]) - 1 : Linked(sent'[d][i], sent'[d][i + 1])
      /\ Len(sent'[d]) > 0 => sent'[d][1].offset = 0
      /\ \A i, j \in 1 .. Len(sent'[d]) : i < j => Ordered(sent'[d][i], sent'[d][j])
  BY DEF SentOK
<1>. QED BY <1>1, <1>2, <1>4, <1>5 DEF SentOK

\* One more packet.
LEMMA SentFragment ==
  ASSUME TypeOK, ListenerOK, SentInv, SendFragment, NEW c \in Client, c = cur
  PROVE  SentOK(c)'
<1>. DEFINE s == sent[c]
            n == Len(s)
            p == buildRtpPacket(c)
<1>1. c \in Client /\ jpeg \in Jpeg BY DEF SendFragment, TypeOK, ListenerOK
<1>2. p \in Packet /\ ChunkSize \in Nat \ {0}
      /\ fragmentOffset + ChunkSize <= PayloadLength(jpeg)
  BY PacketType DEF SendFragment
<1>3. s \in Seq(Packet) /\ n \in Nat BY <1>1 DEF TypeOK
<1>4. sent'[c] = Append(s, p) BY <1>1 DEF SendFragment, TypeOK
<1>5. /\ Len(sent'[c]) = n + 1
      /\ \A i \in 1 .. n : sent'[c][i] = s[i]
      /\ sent'[c][n + 1] = p
  <2>. HIDE DEF p, s
  <2>. QED BY <1>2, <1>3, <1>4
<1>6. SentOK(c) BY <1>1 DEF SentInv
<1>7. PayloadLength(jpeg) \in Nat /\ extractQTables(jpeg) \in Int
  BY <1>1, PayloadType, TablesType
<1>8. timestamp[c] \in 0 .. TsSpace - 1 /\ turn[c] \in Nat /\ fragmentOffset \in Nat
      /\ seqNum[c] \in Int /\ octetCount[c] \in Nat /\ owed[c] \in Nat
  BY <1>1 DEF TypeOK
<1>9. /\ p.picture = [turn |-> turn[c], jpeg |-> jpeg]
      /\ p.offset = fragmentOffset /\ p.length = ChunkSize
      /\ p.seq = seqNum[c] /\ p.ts = timestamp[c]
      /\ p.marker <=> fragmentOffset + ChunkSize >= PayloadLength(jpeg)
      /\ p.qTables = IF fragmentOffset = 0 THEN extractQTables(jpeg) ELSE 0
      /\ p.q = IF fragmentOffset = 0 /\ jpeg.segments > 0 THEN 255 ELSE 10
  <2>. HIDE DEF ChunkSize, PayloadLength, extractQTables
  <2>. QED BY DEF buildRtpPacket
<1>10. p.picture.turn = turn[c] /\ p.picture.jpeg = jpeg BY <1>9
<1>11. /\ seqNum'[c] = (seqNum[c] + 1) % SeqSpace
       /\ packetCount'[c] = packetCount[c] + 1
       /\ octetCount'[c] = octetCount[c] + ChunkSize
       /\ fragmentOffset' = fragmentOffset + ChunkSize
  <2>. HIDE DEF ChunkSize
  <2>. QED BY <1>1 DEF SendFragment, TypeOK
<1>12. /\ fragmentOffset < PayloadLength(jpeg) /\ goodPort[c] /\ cur # Nobody
       /\ UNCHANGED <<useH264, state, udp, goodPort, timestamp, frames, jpeg, todo, cur,
                      turn, owed>>
  BY DEF SendFragment, session
<1>13. (IF p.q = 255 THEN p.qTables ELSE 0) = extractQTables(jpeg) \/ p.offset # 0
  <2>1. jpeg.segments \in Nat BY <1>1, JpegAssumption
  <2>2. jpeg.segments = 0 => extractQTables(jpeg) = 0 BY DEF extractQTables
  <2>. HIDE DEF p, extractQTables
  <2>. QED BY <1>9, <2>1, <2>2
<1>. HIDE DEF p, s, n, ChunkSize, PayloadLength, extractQTables
<1>14. CASE n = 0 => fragmentOffset = 0
  <2>1. ReachedOK(c)'
    <3>1. state[c] = "playing" BY <1>12 DEF ListenerOK
    <3>. QED BY <1>12, <3>1 DEF ReachedOK
  <2>2. CountsOK(c)'
    <3>1. ~useH264 BY <1>1, JpegIsPicture DEF ListenerOK
    <3>2. /\ packetCount[c] = n
          /\ octetCount[c] = owed[c] + fragmentOffset
      BY <1>6 DEF SentOK, CountsOK, n, s
    <3>3. useH264' = useH264 /\ owed' = owed /\ cur' = c BY <1>12
    <3>4. packetCount'[c] = Len(sent'[c]) BY <3>2, <1>5, <1>11
    <3>5. octetCount'[c] = owed'[c] + fragmentOffset' BY <3>2, <3>3, <1>2, <1>8, <1>11
    <3>. QED BY <3>1, <3>3, <3>4, <3>5 DEF CountsOK
  <2>3. TurnsOK(c)' BY <1>6, <1>12 DEF SentOK, TurnsOK
  <2>4. LastOK(c)'
    <3>1. seqNum'[c] = (p.seq + 1) % SeqSpace BY <1>9, <1>11
    <3>2. p.offset + p.length = fragmentOffset' /\ fragmentOffset' > 0
      BY <1>2, <1>8, <1>9, <1>11
    <3>3. p.picture = [turn |-> turn'[c], jpeg |-> jpeg'] BY <1>9, <1>12
    <3>4. sent'[c][Len(sent'[c])] = p /\ Len(sent'[c]) > 0 BY <1>5, <1>3
    <3>. QED BY <3>1, <3>2, <3>3, <3>4, <1>12 DEF LastOK
  <2>5. ASSUME NEW i \in 1 .. n PROVE s[i] \in Packet /\ PacketOK(c, s[i])
    BY <1>6, <1>3 DEF SentOK, s, n
  <2>6. ASSUME NEW i \in 1 .. n PROVE PacketOK(c, sent[c][i])'
    <3>1. PacketOK(c, s[i]) /\ s[i] \in Packet BY <2>5
    <3>2. sent'[c][i] = s[i] BY <1>5
    <3>3. s[i].offset \in Nat /\ s[i].length \in Nat BY <3>1 DEF Packet
    <3>. HIDE DEF Later
    <3>. QED BY <3>1, <3>2, <3>3, <1>2, <1>8, <1>11, <1>12 DEF PacketOK
  <2>7. ASSUME NEW i \in 1 .. n + 1, i = n + 1 PROVE PacketOK(c, sent[c][i])'
    <3>1. Later(p.ts, turn[c] - p.picture.turn) = timestamp[c]
      BY <1>8, <1>9, <1>10, SpaceAssumption DEF Later
    <3>2. sent'[c][i] = p BY <1>5, <2>7
    <3>. HIDE DEF Later
    <3>3. p.offset + p.length = fragmentOffset' BY <1>9, <1>11
    <3>. QED BY <3>1, <3>2, <3>3, <1>2, <1>8, <1>9, <1>10, <1>11, <1>12, <1>13 DEF PacketOK
  <2>8. n > 0 => Linked(s[n], p)
    <3>. SUFFICES ASSUME n > 0 PROVE Linked(s[n], p)
      OBVIOUS
    <3>1. LastOK(c) BY <1>6 DEF SentOK
    <3>2. n \in 1 .. n BY <1>3
    <3>3. PacketOK(c, s[n]) /\ s[n] \in Packet BY <2>5, <3>2
    <3>4. Follow(s[n], p) BY <3>1, <1>9 DEF LastOK, Follow, s, n
    <3>5. CASE fragmentOffset = 0
      <4>1. s[n].marker BY <3>1, <3>5 DEF LastOK, s, n
      <4>. QED BY <3>4, <3>5, <4>1, <1>9 DEF Linked
    <3>6. CASE fragmentOffset > 0
      <4>1. s[n].picture = p.picture /\ s[n].offset + s[n].length = fragmentOffset
        BY <3>1, <3>6, <1>9 DEF LastOK, s, n
      <4>2. ~s[n].marker BY <3>3, <4>1, <1>7, <1>8, <1>10, <1>12 DEF PacketOK
      <4>. QED BY <3>4, <4>1, <4>2, <1>9 DEF Linked
    <3>. QED BY <3>5, <3>6, <1>8
  <2>9. ASSUME NEW i \in 1 .. n PROVE Ordered(s[i], p)
    <3>1. PacketOK(c, s[i]) /\ s[i] \in Packet BY <2>5
    <3>2. s[i].picture.turn \in Nat /\ s[i].picture = [turn |-> s[i].picture.turn, jpeg |-> s[i].picture.jpeg]
      BY <3>1 DEF Packet, Picture
    <3>3. s[i].picture.turn = turn[c] => ~s[i].marker
      <4>1. s[i].offset \in Nat /\ s[i].length \in Nat BY <3>1 DEF Packet
      <4>. QED BY <3>1, <4>1, <1>7, <1>8, <1>12 DEF PacketOK
    <3>4. s[i].picture.turn <= turn[c] BY <3>1 DEF PacketOK
    <3>5. s[i].picture.turn = turn[c] => s[i].picture = p.picture
      BY <3>1, <3>2, <1>9 DEF PacketOK
    <3>. QED BY <3>2, <3>3, <3>4, <3>5, <1>8, <1>10 DEF Ordered
  <2>. HIDE DEF PacketOK, Linked, Ordered, CountsOK, LastOK, ReachedOK, TurnsOK
  <2>10. \A i \in 1 .. Len(sent'[c]) : PacketOK(c, sent[c][i])'
    <3>. SUFFICES ASSUME NEW i \in 1 .. n + 1 PROVE PacketOK(c, sent[c][i])'
      BY <1>5
    <3>1. CASE i \in 1 .. n BY <3>1, <2>6
    <3>2. CASE i = n + 1 BY <3>2, <2>7
    <3>. QED BY <3>1, <3>2, <1>3
  <2>11. \A i \in 1 .. Len(sent'[c]) - 1 : Linked(sent'[c][i], sent'[c][i + 1])
    <3>. SUFFICES ASSUME NEW i \in 1 .. n PROVE Linked(sent'[c][i], sent'[c][i + 1])
      BY <1>3, <1>5
    <3>1. CASE i = n BY <3>1, <2>8, <1>3, <1>5
    <3>2. CASE i # n
      <4>1. i \in 1 .. n - 1 /\ i + 1 \in 1 .. n BY <3>2, <1>3
      <4>2. Linked(s[i], s[i + 1]) BY <4>1, <1>6 DEF SentOK, s, n
      <4>. QED BY <4>1, <4>2, <1>5
    <3>. QED BY <3>1, <3>2
  <2>12. sent'[c][1].offset = 0
    <3>1. CASE n = 0 BY <3>1, <1>14, <1>5, <1>9
    <3>2. CASE n > 0
      <4>1. s[1].offset = 0 /\ 1 \in 1 .. n BY <3>2, <1>3, <1>6 DEF SentOK, s, n
      <4>. QED BY <4>1, <1>5
    <3>. QED BY <3>1, <3>2, <1>3
  <2>13. \A i, j \in 1 .. Len(sent'[c]) : i < j => Ordered(sent'[c][i], sent'[c][j])
    <3>. SUFFICES ASSUME NEW i \in 1 .. n + 1, NEW j \in 1 .. n + 1, i < j
                  PROVE Ordered(sent'[c][i], sent'[c][j])
      BY <1>5
    <3>1. i \in 1 .. n BY <1>3
    <3>2. CASE j = n + 1 BY <3>1, <3>2, <2>9, <1>5
    <3>3. CASE j # n + 1
      <4>1. j \in 1 .. n BY <3>3, <1>3
      <4>2. Ordered(s[i], s[j]) BY <3>1, <4>1, <1>6 DEF SentOK, s, n
      <4>. QED BY <3>1, <4>1, <4>2, <1>5
    <3>. QED BY <3>2, <3>3
  <2>. QED BY <2>1, <2>2, <2>3, <2>4, <2>10, <2>11, <2>12, <2>13 DEF SentOK
<1>15. n = 0 => fragmentOffset = 0
  <2>1. LastOK(c) BY <1>6 DEF SentOK
  <2>. QED BY <2>1, <1>3, <1>8 DEF LastOK, n, s
<1>. QED BY <1>14, <1>15

\* The end of a picture: the time moves on.
LEMMA SentPicture ==
  ASSUME TypeOK, ListenerOK, SentInv, FrameSent, NEW c \in Client, c = cur
  PROVE  SentOK(c)'
<1>. DEFINE s == sent[c]
            n == Len(s)
<1>1. jpeg \in Jpeg /\ cur # Nobody BY DEF FrameSent, ListenerOK
<1>2. s \in Seq(Packet) /\ n \in Nat BY DEF TypeOK
<1>3. SentOK(c) BY DEF SentInv
<1>4. PayloadLength(jpeg) \in Nat BY <1>1, PayloadType
<1>5. timestamp[c] \in 0 .. TsSpace - 1 /\ turn[c] \in Nat /\ fragmentOffset \in Nat
      /\ owed[c] \in Nat /\ frames \in Nat
  BY DEF TypeOK
<1>6. fragmentOffset = PayloadLength(jpeg) BY <1>1, <1>4, <1>5 DEF FrameSent, ListenerOK
<1>7. /\ timestamp'[c] = (timestamp[c] + 1) % TsSpace
      /\ turn'[c] = turn[c] + 1
      /\ owed'[c] = owed[c] + fragmentOffset
      /\ cur' = Nobody /\ fragmentOffset' = 0
      /\ UNCHANGED <<useH264, state, goodPort, seqNum, packetCount, octetCount, frames,
                     todo, sent>>
  <2>. HIDE DEF PayloadLength
  <2>. QED BY <1>6 DEF FrameSent, TypeOK, session
<1>8. ~useH264 BY <1>1, JpegIsPicture DEF ListenerOK
<1>9. turn[c] < frames /\ frames <= TsSpace
  BY <1>3, <1>8, <1>5, SpaceAssumption DEF SentOK, TurnsOK, SentInv, FramesOK
<1>10. c # Nobody BY <1>1
<1>. HIDE DEF s, n, PayloadLength, extractQTables
<1>11. ASSUME NEW i \in 1 .. n PROVE s[i] \in Packet /\ PacketOK(c, s[i])
  BY <1>3, <1>2 DEF SentOK, s, n
<1>12. ReachedOK(c)' BY <1>3, <1>7 DEF SentOK, ReachedOK
<1>13. CountsOK(c)' BY <1>3, <1>5, <1>7, <1>8, <1>10 DEF SentOK, CountsOK
<1>14. TurnsOK(c)'
  <2>1. turn'[c] <= frames' BY <1>5, <1>7, <1>9
  <2>2. c \notin todo' BY <1>1, <1>7 DEF ListenerOK
  <2>. QED BY <2>1, <2>2, <1>7, <1>10 DEF TurnsOK
<1>15. LastOK(c)'
  <2>1. LastOK(c) BY <1>3 DEF SentOK
  <2>2. n > 0 => s[n].marker
    <3>. SUFFICES ASSUME n > 0, fragmentOffset > 0 PROVE s[n].marker
      BY <2>1, <1>5 DEF LastOK, s, n
    <3>1. n \in 1 .. n BY <1>2
    <3>2. PacketOK(c, s[n]) /\ s[n] \in Packet BY <3>1, <1>11
    <3>3. s[n].picture.jpeg = jpeg /\ s[n].offset + s[n].length = fragmentOffset
      BY <2>1 DEF LastOK, s, n
    <3>. QED BY <3>2, <3>3, <1>4, <1>6 DEF PacketOK
  <2>. QED BY <2>1, <2>2, <1>7, <1>10 DEF LastOK, s, n
<1>16. ASSUME NEW i \in 1 .. n PROVE PacketOK(c, sent[c][i])'
  <2>1. PacketOK(c, s[i]) /\ s[i] \in Packet BY <1>11
  <2>2. s[i].picture.turn \in Nat /\ s[i].ts \in 0 .. TsSpace - 1
    BY <2>1 DEF Packet, Picture
  <2>3. s[i].picture.turn <= turn[c] /\ Later(s[i].ts, turn[c] - s[i].picture.turn) = timestamp[c]
    BY <2>1 DEF PacketOK
  <2>4. turn'[c] - s[i].picture.turn = (turn[c] - s[i].picture.turn) + 1
    BY <1>5, <1>7, <2>2
  <2>5. timestamp'[c] = IF timestamp[c] + 1 < TsSpace THEN timestamp[c] + 1 ELSE 0
    BY <1>5, <1>7, NextTime
  <2>6. Later(s[i].ts, turn'[c] - s[i].picture.turn) = timestamp'[c]
    <3>. DEFINE d == turn[c] - s[i].picture.turn
    <3>1. d \in Int /\ d >= 0 /\ d + 1 <= TsSpace BY <1>5, <1>9, <2>2, <2>3, SpaceAssumption
    <3>2. Later(s[i].ts, d) = timestamp[c] BY <2>3
    <3>. HIDE DEF d
    <3>3. Later(s[i].ts, d + 1) = timestamp'[c]
      BY <3>1, <3>2, <2>2, <2>5, <1>5, SpaceAssumption DEF Later
    <3>. QED BY <3>3, <2>4 DEF d
  <2>7. s[i].picture.turn < turn'[c] BY <1>5, <1>7, <2>2, <2>3
  <2>8. sent'[c][i] = s[i] BY <1>7 DEF s
  <2>. HIDE DEF Later
  <2>. QED BY <2>1, <2>2, <2>6, <2>7, <2>8, <1>5, <1>7 DEF PacketOK
<1>. HIDE DEF PacketOK, Linked, Ordered, CountsOK, LastOK, ReachedOK, TurnsOK
<1>17. /\ \A i \in 1 .. Len(sent'[c]) - 1 : Linked(sent'[c][i], sent'[c][i + 1])
       /\ Len(sent'[c]) > 0 => sent'[c][1].offset = 0
       /\ \A i, j \in 1 .. Len(sent'[c]) : i < j => Ordered(sent'[c][i], sent'[c][j])
  BY <1>3, <1>7 DEF SentOK
<1>18. \A i \in 1 .. Len(sent'[c]) : PacketOK(c, sent[c][i])'
  BY <1>16, <1>7 DEF s, n
<1>. QED BY <1>12, <1>13, <1>14, <1>15, <1>17, <1>18 DEF SentOK

\* Nothing of it changes at all.
LEMMA SentUnchanged ==
  ASSUME SentInv,
         UNCHANGED <<useH264, state, goodPort, fields, frames, jpeg, todo, cur,
                     fragmentOffset, history>>
  PROVE  SentInv'
<1>. USE DEF fields, history
<1>1. FramesOK' BY DEF SentInv, FramesOK
<1>2. ASSUME NEW c \in Client PROVE SentOK(c)'
  <2>1. SentOK(c) BY DEF SentInv
  <2>2. ReachedOK(c)' /\ CountsOK(c)' /\ TurnsOK(c)' /\ LastOK(c)'
    BY <2>1 DEF SentOK, ReachedOK, CountsOK, TurnsOK, LastOK
  <2>3. \A i \in 1 .. Len(sent'[c]) : PacketOK(c, sent[c][i])'
    BY <2>1 DEF SentOK, PacketOK
  <2>. HIDE DEF PacketOK, Linked, Ordered, CountsOK, LastOK, ReachedOK, TurnsOK
  <2>4. /\ \A i \in 1 .. Len(sent'[c]) - 1 : Linked(sent'[c][i], sent'[c][i + 1])
        /\ Len(sent'[c]) > 0 => sent'[c][1].offset = 0
        /\ \A i, j \in 1 .. Len(sent'[c]) : i < j => Ordered(sent'[c][i], sent'[c][j])
    BY <2>1 DEF SentOK
  <2>. QED BY <2>2, <2>3, <2>4 DEF SentOK
<1>. QED BY <1>1, <1>2 DEF SentInv

LEMMA SentStep == TypeOK /\ ListenerOK /\ SentInv /\ [Next]_vars => SentInv'
<1>. SUFFICES ASSUME TypeOK, ListenerOK, SentInv, [Next]_vars PROVE SentInv'
  OBVIOUS
<1>. USE DEF session, fields, listener, history, receiver
<1>0. \A d \in Client : SentOK(d) /\ ReachedOK(d) /\ TurnsOK(d)
  BY DEF SentInv, SentOK
<1>1. ASSUME NEW c \in Client, Setup(c) \/ Play(c) \/ Destroy(c) PROVE SentInv'
  <2>1. cur = Nobody /\ cur' = cur BY <1>1 DEF Setup, Play, Destroy, Idle, ListenerOK
  <2>2. FramesOK' BY <1>1 DEF SentInv, FramesOK, Setup, Play, Destroy
  <2>3. ASSUME NEW d \in Client PROVE SentOK(d)'
    <3>1. cur # d /\ cur' # d BY <2>1, ClientAssumption
    <3>2. TurnsOK(d)' BY <1>0, <1>1 DEF TurnsOK, Setup, Play, Destroy
    <3>3. ReachedOK(d)'
      BY <1>0, <1>1 DEF ReachedOK, Setup, Play, Destroy, TypeOK
    <3>4. /\ UNCHANGED <<useH264, packetCount, octetCount, turn, owed, sent>>
          /\ Len(sent[d]) > 0 => seqNum'[d] = seqNum[d] /\ timestamp'[d] = timestamp[d]
      <4>1. CASE Setup(c)
        <5>1. Len(sent[c]) = 0 BY <4>1, <1>0 DEF ReachedOK, Setup
        <5>2. CASE c = d BY <5>1, <5>2, <4>1 DEF Setup
        <5>3. CASE c # d BY <5>3, <4>1 DEF Setup, TypeOK
        <5>. QED BY <5>2, <5>3
      <4>2. CASE Play(c) \/ Destroy(c) BY <4>2 DEF Play, Destroy
      <4>. QED BY <1>1, <4>1, <4>2
    <3>. QED BY <1>0, <3>1, <3>2, <3>3, <3>4, SentOfOthers
  <2>. QED BY <2>2, <2>3 DEF SentInv
<1>2. ASSUME NEW c \in Client, SendRtcpSr(c) \/ Receive(c) \/ Lose(c) PROVE SentInv'
  BY <1>2, SentUnchanged DEF SendRtcpSr, Receive, Lose
<1>3. ASSUME NEW c \in Client, SendFrame(c) PROVE SentInv'
  <2>1. FramesOK' BY <1>3 DEF SentInv, FramesOK, SendFrame
  <2>2. cur = Nobody /\ fragmentOffset = 0 BY <1>3 DEF SendFrame, ListenerOK
  <2>3. ASSUME NEW d \in Client PROVE SentOK(d)'
    <3>1. cur # d BY <2>2, ClientAssumption
    <3>2. TurnsOK(d)' BY <1>0, <1>3, <2>2, ClientAssumption DEF TurnsOK, SendFrame
    <3>3. ReachedOK(d)' BY <1>0, <1>3 DEF ReachedOK, SendFrame
    <3>4. CASE cur' # d
      BY <1>0, <1>3, <3>1, <3>2, <3>3, <3>4, SentOfOthers DEF SendFrame
    <3>5. CASE cur' = d
      <4>1. CountsOK(d)' BY <1>0, <1>3, <2>2 DEF SentOK, CountsOK, SendFrame, TypeOK
      <4>2. LastOK(d)' BY <1>0, <1>3, <2>2 DEF SentOK, LastOK, SendFrame
      <4>3. ASSUME NEW i \in 1 .. Len(sent[d]) PROVE PacketOK(d, sent[d][i])'
        <5>1. PacketOK(d, sent[d][i]) BY <1>0 DEF SentOK
        <5>. HIDE DEF PayloadLength, extractQTables, Later
        <5>. QED BY <5>1, <3>1, <1>3 DEF PacketOK, SendFrame
      <4>. HIDE DEF PacketOK, Linked, Ordered, CountsOK, LastOK, ReachedOK, TurnsOK
      <4>4. sent' = sent BY <1>3 DEF SendFrame
      <4>5. \A i \in 1 .. Len(sent'[d]) : PacketOK(d, sent[d][i])' BY <4>3, <4>4
      <4>6. /\ \A i \in 1 .. Len(sent'[d]) - 1 : Linked(sent'[d][i], sent'[d][i + 1])
            /\ Len(sent'[d]) > 0 => sent'[d][1].offset = 0
            /\ \A i, j \in 1 .. Len(sent'[d]) : i < j => Ordered(sent'[d][i], sent'[d][j])
        BY <1>0, <4>4 DEF SentOK
      <4>. QED BY <3>2, <3>3, <4>1, <4>2, <4>5, <4>6 DEF SentOK
    <3>. QED BY <3>4, <3>5
  <2>. QED BY <2>1, <2>3 DEF SentInv
<1>4. ASSUME FrameEvent PROVE SentInv'
  <2>1. FramesOK' BY <1>4, SpaceAssumption DEF FrameEvent, FramesOK, TypeOK
  <2>2. cur = Nobody /\ cur' = cur BY <1>4 DEF FrameEvent, Idle, ListenerOK
  <2>3. ASSUME NEW d \in Client PROVE SentOK(d)'
    <3>1. cur # d /\ cur' # d BY <2>2, ClientAssumption
    <3>2. TurnsOK(d)'
      <4>1. turn[d] \in Nat /\ frames \in Nat BY DEF TypeOK
      <4>. QED BY <4>1, <1>0, <1>4 DEF TurnsOK, FrameEvent
    <3>3. ReachedOK(d)' BY <1>0, <1>4 DEF ReachedOK, FrameEvent
    <3>. QED BY <1>0, <1>4, <3>1, <3>2, <3>3, SentOfOthers DEF FrameEvent
  <2>. QED BY <2>1, <2>3 DEF SentInv
<1>5. ASSUME SendFragment PROVE SentInv'
  <2>1. FramesOK' BY <1>5 DEF SentInv, FramesOK, SendFragment
  <2>2. ASSUME NEW d \in Client PROVE SentOK(d)'
    <3>1. CASE d = cur BY <3>1, <1>5, SentFragment
    <3>2. CASE d # cur
      <4>1. TurnsOK(d)' BY <1>0, <1>5 DEF TurnsOK, SendFragment
      <4>2. ReachedOK(d)' BY <1>0, <1>5, <3>2 DEF ReachedOK, SendFragment, TypeOK
      <4>3. /\ cur' # d
            /\ useH264' = useH264 /\ sent'[d] = sent[d] /\ packetCount'[d] = packetCount[d]
            /\ octetCount'[d] = octetCount[d] /\ turn'[d] = turn[d] /\ owed'[d] = owed[d]
            /\ seqNum'[d] = seqNum[d] /\ timestamp'[d] = timestamp[d]
        BY <1>5, <3>2 DEF SendFragment, TypeOK
      <4>. QED BY <1>0, <3>2, <4>1, <4>2, <4>3, SentOfOthers
    <3>. QED BY <3>1, <3>2
  <2>. QED BY <2>1, <2>2 DEF SentInv
<1>6. ASSUME FrameSent PROVE SentInv'
  <2>1. FramesOK' BY <1>6 DEF SentInv, FramesOK, FrameSent
  <2>2. ASSUME NEW d \in Client PROVE SentOK(d)'
    <3>1. CASE d = cur BY <3>1, <1>6, SentPicture
    <3>2. CASE d # cur
      <4>1. TurnsOK(d)' BY <1>0, <1>6, <3>2, ClientAssumption DEF TurnsOK, FrameSent, TypeOK
      <4>2. ReachedOK(d)' BY <1>0, <1>6 DEF ReachedOK, FrameSent
      <4>3. /\ cur' # d
            /\ useH264' = useH264 /\ sent'[d] = sent[d] /\ packetCount'[d] = packetCount[d]
            /\ octetCount'[d] = octetCount[d] /\ turn'[d] = turn[d] /\ owed'[d] = owed[d]
            /\ seqNum'[d] = seqNum[d] /\ timestamp'[d] = timestamp[d]
        BY <1>6, <3>2, ClientAssumption DEF FrameSent, TypeOK
      <4>. QED BY <1>0, <3>2, <4>1, <4>2, <4>3, SentOfOthers
    <3>. QED BY <3>1, <3>2
  <2>. QED BY <2>1, <2>2 DEF SentInv
<1>7. ASSUME SendThrows PROVE SentInv'
  <2>1. FramesOK' BY <1>7 DEF SentInv, FramesOK, SendThrows
  <2>2. fragmentOffset = 0 BY <1>7 DEF SendThrows, ListenerOK, TypeOK
  <2>3. ASSUME NEW d \in Client PROVE SentOK(d)'
    <3>1. TurnsOK(d)' BY <1>0, <1>7, ClientAssumption DEF TurnsOK, SendThrows
    <3>2. ReachedOK(d)' BY <1>0, <1>7 DEF ReachedOK, SendThrows
    <3>3. cur' # d BY <1>7, ClientAssumption DEF SendThrows
    <3>4. CASE d # cur BY <1>0, <1>7, <3>1, <3>2, <3>3, <3>4, SentOfOthers DEF SendThrows
    <3>5. CASE d = cur
      <4>1. Len(sent[d]) = 0 BY <1>0, <1>7, <3>5 DEF ReachedOK, SendThrows
      <4>2. CountsOK(d)' BY <1>0, <1>7, <2>2, <3>3 DEF SentOK, CountsOK, SendThrows
      <4>3. LastOK(d)' /\ sent' = sent BY <4>1, <1>7, <3>3 DEF LastOK, SendThrows
      <4>. HIDE DEF PacketOK, Linked, Ordered, CountsOK, LastOK, ReachedOK, TurnsOK
      <4>4. \A i \in 1 .. Len(sent'[d]) : PacketOK(d, sent[d][i])' BY <4>1, <4>3
      <4>5. /\ \A i \in 1 .. Len(sent'[d]) - 1 : Linked(sent'[d][i], sent'[d][i + 1])
            /\ Len(sent'[d]) > 0 => sent'[d][1].offset = 0
            /\ \A i, j \in 1 .. Len(sent'[d]) : i < j => Ordered(sent'[d][i], sent'[d][j])
        BY <4>1, <4>3
      <4>. QED BY <3>1, <3>2, <4>2, <4>3, <4>4, <4>5 DEF SentOK
    <3>. QED BY <3>4, <3>5
  <2>. QED BY <2>1, <2>3 DEF SentInv
<1>8. ASSUME ListenerEnds \/ ForwardRtp PROVE SentInv'
  <2>1. FramesOK' BY <1>8 DEF SentInv, FramesOK, ListenerEnds, ForwardRtp
  <2>2. cur = Nobody /\ cur' = cur BY <1>8 DEF ListenerEnds, ForwardRtp, Idle, ListenerOK
  <2>3. ASSUME NEW d \in Client PROVE SentOK(d)'
    <3>1. cur # d /\ cur' # d BY <2>2, ClientAssumption
    <3>2. TurnsOK(d)'
      <4>1. turn[d] \in Nat /\ frames \in Nat BY DEF TypeOK
      <4>2. frames' = frames \/ frames' = frames + 1 BY <1>8 DEF ListenerEnds, ForwardRtp
      <4>3. todo' = todo /\ turn' = turn BY <1>8 DEF ListenerEnds, ForwardRtp
      <4>. QED BY <4>1, <4>2, <4>3, <3>1, <1>0 DEF TurnsOK
    <3>3. ReachedOK(d)' BY <1>0, <1>8 DEF ReachedOK, ListenerEnds, ForwardRtp
    <3>. QED BY <1>0, <1>8, <3>1, <3>2, <3>3, SentOfOthers DEF ListenerEnds, ForwardRtp
  <2>. QED BY <2>1, <2>3 DEF SentInv
<1>9. ASSUME NewPipeline \/ UNCHANGED vars PROVE SentInv'
  BY <1>9, SentUnchanged DEF NewPipeline, vars
<1>. QED BY <1>1, <1>2, <1>3, <1>4, <1>5, <1>6, <1>7, <1>8, <1>9 DEF Next

\* What was sent is an unbroken chain of whole pictures, and the fields of each
\* session count it.
THEOREM Sending == Spec => []SentInv
<1>1. Init => SentInv BY SentStart
<1>2. TypeOK /\ ListenerOK /\ SentInv /\ [Next]_vars => SentInv' BY SentStep
<1>. QED BY <1>1, <1>2, Types, PTL DEF Spec

-----------------------------------------------------------------------------
(***************************************************************************)
(* The packets of GStreamer.                                               *)
(***************************************************************************)
LEMMA RelayStart == Init => RelayInv
<1>. SUFFICES ASSUME Init, NEW c \in Client PROVE RelayedOK(c)
  BY DEF RelayInv
<1>1. relayed[c] = <<>> BY DEF Init
<1>2. Len(relayed[c]) = 0 BY <1>1
<1>. QED BY <1>2 DEF RelayedOK

LEMMA RelayStep == TypeOK /\ RelayInv /\ [Next]_vars => RelayInv'
<1>. SUFFICES ASSUME TypeOK, RelayInv, [Next]_vars, NEW d \in Client PROVE RelayedOK(d)'
  BY DEF RelayInv
<1>. USE DEF session, fields, listener, history, receiver
<1>. DEFINE R == [no : Nat, seq : Int]
            s == relayed[d]
            n == Len(s)
<1>1. RelayedOK(d) BY DEF RelayInv
<1>2. pipeline \in R /\ s \in Seq(R) /\ n \in Nat BY DEF TypeOK
<1>3. ASSUME UNCHANGED <<state, goodPort, relayed, pipeline>> PROVE RelayedOK(d)'
  BY <1>1, <1>3 DEF RelayedOK
<1>4. ASSUME NEW c \in Client, Setup(c) \/ Play(c) \/ Destroy(c) PROVE RelayedOK(d)'
  <2>1. CASE c # d
    <3>1. state'[d] = state[d] /\ goodPort'[d] = goodPort[d]
          /\ relayed' = relayed /\ pipeline' = pipeline
      BY <1>4, <2>1 DEF Setup, Play, Destroy, TypeOK
    <3>. QED BY <1>1, <3>1 DEF RelayedOK
  <2>2. CASE c = d
    <3>1. relayed' = relayed /\ pipeline' = pipeline
          /\ (state'[d] # "destroyed" => n = 0)
          /\ (state'[d] = "destroyed" => goodPort' = goodPort /\ (state[d] = "playing" \/ n = 0))
      BY <1>1, <1>4, <2>2 DEF Setup, Play, Destroy, TypeOK, RelayedOK
    <3>2. state'[d] # "destroyed" => state'[d] \in {"ready", "playing"}
      BY <1>4, <2>2 DEF Setup, Play, Destroy, TypeOK
    <3>. QED BY <1>1, <3>1, <3>2, <1>2 DEF RelayedOK
  <2>. QED BY <2>1, <2>2
<1>5. ASSUME ForwardRtp PROVE RelayedOK(d)'
  <2>1. pipeline'.no = pipeline.no /\ Follow(pipeline, pipeline') BY <1>5, <1>2 DEF ForwardRtp, Follow
  <2>2. state' = state /\ goodPort' = goodPort BY <1>5 DEF ForwardRtp
  <2>3. relayed'[d] = IF state[d] = "playing" /\ goodPort[d] THEN Append(s, pipeline) ELSE s
    BY <1>5 DEF ForwardRtp, Streams
  <2>4. CASE ~(state[d] = "playing" /\ goodPort[d])
    BY <2>1, <2>2, <2>3, <2>4, <1>1 DEF RelayedOK
  <2>5. CASE state[d] = "playing" /\ goodPort[d]
    <3>. HIDE DEF s, R
    <3>1. /\ Len(relayed'[d]) = n + 1
          /\ \A i \in 1 .. n : relayed'[d][i] = s[i]
          /\ relayed'[d][n + 1] = pipeline
      BY <2>3, <2>5, <1>2
    <3>. HIDE DEF n
    <3>2. ASSUME NEW i \in 1 .. n + 1 PROVE relayed'[d][i].no <= pipeline'.no
      <4>1. i \in 1 .. n \/ i = n + 1 BY <1>2
      <4>2. pipeline.no \in Nat BY <1>2 DEF R
      <4>. QED BY <4>1, <4>2, <3>1, <2>1, <1>1 DEF RelayedOK, s, n
    <3>3. ASSUME NEW i \in 1 .. n, relayed'[d][i].no = relayed'[d][i + 1].no
          PROVE Follow(relayed'[d][i], relayed'[d][i + 1])
      <4>1. CASE i = n
        <5>1. relayed'[d][i] = s[n] /\ relayed'[d][i + 1] = pipeline /\ n > 0
          BY <4>1, <3>1, <1>2
        <5>. QED BY <5>1, <3>3, <2>5, <1>1 DEF RelayedOK, s, n
      <4>2. CASE i # n
        <5>1. i \in 1 .. n - 1 /\ i + 1 \in 1 .. n BY <4>2, <1>2
        <5>2. relayed'[d][i] = s[i] /\ relayed'[d][i + 1] = s[i + 1] BY <5>1, <3>1
        <5>. QED BY <5>1, <5>2, <3>3, <1>1 DEF RelayedOK, s, n
      <4>. QED BY <4>1, <4>2
    <3>4. Len(relayed'[d]) - 1 = n BY <3>1, <1>2
    <3>5. relayed'[d][Len(relayed'[d])] = pipeline BY <3>1
    <3>. HIDE DEF Follow
    <3>. QED BY <3>1, <3>2, <3>3, <3>4, <3>5, <2>1, <2>2, <2>5 DEF RelayedOK
  <2>. QED BY <2>4, <2>5
<1>6. ASSUME NewPipeline PROVE RelayedOK(d)'
  <2>1. pipeline'.no = pipeline.no + 1 /\ relayed' = relayed /\ state' = state /\ goodPort' = goodPort
    BY <1>6 DEF NewPipeline
  <2>2. ASSUME NEW i \in 1 .. n PROVE s[i].no \in Nat
    <3>. HIDE DEF s, R
    <3>1. s[i] \in R BY <1>2
    <3>. QED BY <3>1 DEF R
  <2>3. pipeline.no \in Nat BY <1>2
  <2>4. \A i \in 1 .. n : s[i].no <= pipeline.no BY <1>1 DEF RelayedOK
  <2>5. \A i \in 1 .. n : s[i].no <= pipeline'.no /\ s[i].no # pipeline'.no
    <3>. HIDE DEF s
    <3>. QED BY <2>1, <2>2, <2>3, <2>4
  <2>6. n > 0 => relayed'[d][n].no # pipeline'.no
    <3>1. n > 0 => n \in 1 .. n BY <1>2
    <3>. QED BY <3>1, <2>1, <2>5
  <2>. HIDE DEF Follow
  <2>. QED BY <2>1, <2>5, <2>6, <1>1 DEF RelayedOK
<1>. QED
  BY <1>3, <1>4, <1>5, <1>6 DEF Next, vars, SendRtcpSr, SendFrame, Receive, Lose, FrameEvent,
     SendFragment, SendThrows, FrameSent, ListenerEnds

\* Nothing in what was sent ever changes.
LEMMA SentGrows ==
  ASSUME TypeOK, ListenerOK, [Next]_vars, NEW c \in Client
  PROVE  /\ Len(sent[c]) \in Nat /\ Len(sent'[c]) \in Nat
         /\ Len(sent'[c]) >= Len(sent[c])
         /\ \A i \in 1 .. Len(sent[c]) : sent'[c][i] = sent[c][i]
<1>. USE DEF session, fields, listener, history, receiver
<1>1. sent[c] \in Seq(Packet) /\ Len(sent[c]) \in Nat BY DEF TypeOK
<1>2. CASE SendFragment
  <2>1. buildRtpPacket(cur) \in Packet BY <1>2, PacketType DEF SendFragment
  <2>2. sent'[c] = sent[c] \/ sent'[c] = Append(sent[c], buildRtpPacket(cur))
    BY <1>2 DEF SendFragment, TypeOK
  <2>. HIDE DEF buildRtpPacket
  <2>. QED BY <1>1, <2>1, <2>2
<1>3. CASE sent' = sent BY <1>1, <1>3
<1>. QED
  BY <1>2, <1>3 DEF Next, vars, Setup, Play, Destroy, SendRtcpSr, SendFrame, Receive, Lose,
     FrameEvent, SendThrows, FrameSent, ListenerEnds, ForwardRtp, NewPipeline

-----------------------------------------------------------------------------
(***************************************************************************)
(* The sender reports.                                                     *)
(***************************************************************************)
LEMMA ReportStart == Init => ReportInv
BY DEF Init, ReportInv, ReportOK

LEMMA ReportStep ==
  TypeOK /\ ListenerOK /\ SentInv /\ ReportInv /\ [Next]_vars => ReportInv'
<1>. SUFFICES ASSUME TypeOK, ListenerOK, SentInv, ReportInv, [Next]_vars, NEW d \in Client
              PROVE ReportOK(d)'
  BY DEF ReportInv
<1>. USE DEF session, fields, listener, history, receiver
<1>1. ReportOK(d) BY DEF ReportInv
<1>2. /\ Len(sent[d]) \in Nat /\ Len(sent'[d]) \in Nat
      /\ Len(sent'[d]) >= Len(sent[d])
      /\ \A i \in 1 .. Len(sent[d]) : sent'[d][i] = sent[d][i]
  BY SentGrows
<1>3. useH264' = useH264
  BY DEF Next, vars, Setup, Play, Destroy, SendRtcpSr, SendFrame, Receive, Lose,
     FrameEvent, SendFragment, SendThrows, FrameSent, ListenerEnds, ForwardRtp, NewPipeline
<1>4. ASSUME report'[d] = report[d] PROVE ReportOK(d)'
  <2>. SUFFICES ASSUME report[d] # NoReport PROVE ReportOK(d)'
    BY <1>4 DEF ReportOK
  <2>1. report[d].afterPackets <= Len(sent[d]) BY <1>1 DEF ReportOK
  <2>2. report[d].afterPackets \in Nat BY DEF TypeOK, Report
  <2>3. \A i \in 1 .. report[d].afterPackets : i \in 1 .. Len(sent[d])
    BY <2>1, <2>2, <1>2
  <2>. HIDE DEF Later
  <2>. QED BY <1>1, <1>2, <1>3, <1>4, <2>1, <2>2, <2>3 DEF ReportOK
<1>5. ASSUME NEW c \in Client, SendRtcpSr(c) PROVE ReportOK(d)'
  <2>1. CASE c # d
    <3>1. report'[d] = report[d] BY <1>5, <2>1 DEF SendRtcpSr, TypeOK
    <3>. QED BY <3>1, <1>4
  <2>2. CASE c = d
    <3>1. report'[d] = [packets |-> packetCount[d], octets |-> octetCount[d],
                        ts |-> timestamp[d], afterPackets |-> Len(sent[d]),
                        afterOctets |-> owed[d], afterTurns |-> turn[d]]
      BY <1>5, <2>2 DEF SendRtcpSr, TypeOK
    <3>2. sent' = sent /\ cur = Nobody BY <1>5 DEF SendRtcpSr, Idle, ListenerOK
    <3>3. cur # d BY <3>2, ClientAssumption
    <3>4. SentOK(d) BY DEF SentInv
    <3>5. /\ packetCount[d] = Len(sent[d]) /\ octetCount[d] = owed[d]
          /\ useH264 => Len(sent[d]) = 0 /\ owed[d] = 0
      <4>1. owed[d] \in Nat BY DEF TypeOK
      <4>. QED BY <3>3, <3>4, <4>1 DEF SentOK, CountsOK
    <3>6. ASSUME NEW i \in 1 .. Len(sent[d])
          PROVE /\ sent[d][i].picture.turn < turn[d]
                /\ Later(sent[d][i].ts, turn[d] - sent[d][i].picture.turn) = timestamp[d]
      <4>1. PacketOK(d, sent[d][i]) BY <3>4 DEF SentOK
      <4>2. sent[d] \in Seq(Packet) /\ turn[d] \in Nat BY DEF TypeOK
      <4>3. sent[d][i] \in Packet BY <4>2
      <4>4. sent[d][i].picture.turn \in Nat BY <4>3 DEF Packet, Picture
      <4>. HIDE DEF Later, PayloadLength, extractQTables
      <4>. QED BY <3>3, <4>1, <4>2, <4>4 DEF PacketOK
    <3>. HIDE DEF Later
    <3>. QED BY <3>1, <3>2, <3>5, <3>6, <1>2, <1>3 DEF ReportOK
  <2>. QED BY <2>1, <2>2
<1>. QED
  BY <1>4, <1>5 DEF Next, vars, Setup, Play, Destroy, SendFrame, Receive, Lose,
     FrameEvent, SendFragment, SendThrows, FrameSent, ListenerEnds, ForwardRtp, NewPipeline

LEMMA LaterIsOther ==
  ASSUME NEW x \in 0 .. TsSpace - 1, NEW k \in Nat, 0 < k, k < TsSpace
  PROVE  Later(x, k) # x
BY SpaceAssumption DEF Later

LEMMA ReportsFollow == TypeOK /\ ReportInv => ReportsTrue
<1>. SUFFICES ASSUME TypeOK, ReportInv, NEW c \in Client, report[c] # NoReport
              PROVE /\ report[c].packets = report[c].afterPackets
                    /\ report[c].octets = report[c].afterOctets
                    /\ \A i \in 1 .. report[c].afterPackets :
                         report[c].afterTurns - sent[c][i].picture.turn < TsSpace
                           => sent[c][i].ts # report[c].ts
                    /\ useH264 => report[c].packets = 0 /\ report[c].octets = 0
  BY DEF ReportsTrue
<1>1. ReportOK(c) BY DEF ReportInv
<1>2. report[c] \in Report /\ sent[c] \in Seq(Packet) BY DEF TypeOK
<1>3. ASSUME NEW i \in 1 .. report[c].afterPackets,
             report[c].afterTurns - sent[c][i].picture.turn < TsSpace
      PROVE sent[c][i].ts # report[c].ts
  <2>1. i \in 1 .. Len(sent[c]) BY <1>1, <1>2 DEF ReportOK, Report
  <2>2. sent[c][i] \in Packet BY <2>1, <1>2
  <2>3. sent[c][i].ts \in 0 .. TsSpace - 1 /\ sent[c][i].picture.turn \in Nat
    BY <2>2 DEF Packet, Picture
  <2>4. report[c].afterTurns \in Nat BY <1>2 DEF Report
  <2>5. /\ sent[c][i].picture.turn < report[c].afterTurns
        /\ Later(sent[c][i].ts, report[c].afterTurns - sent[c][i].picture.turn) = report[c].ts
    BY <1>1 DEF ReportOK
  <2>6. report[c].afterTurns - sent[c][i].picture.turn \in Nat
        /\ 0 < report[c].afterTurns - sent[c][i].picture.turn
    BY <2>3, <2>4, <2>5
  <2>. QED BY <1>3, <2>3, <2>5, <2>6, LaterIsOther
<1>. QED BY <1>1, <1>3 DEF ReportOK

\* A sender report counts exactly what was sent before it, and names a time no
\* recent packet has; with GStreamer it counts nothing.
THEOREM ReportsCountWhatWasSent == Spec => []ReportsTrue
<1>1. Init => ReportInv BY ReportStart
<1>2. TypeOK /\ ListenerOK /\ SentInv /\ ReportInv /\ [Next]_vars => ReportInv'
  BY ReportStep
<1>3. TypeOK /\ ReportInv => ReportsTrue BY ReportsFollow
<1>. QED BY <1>1, <1>2, <1>3, Types, Sending, PTL DEF Spec

LEMMA NumbersFollow == SentInv /\ RelayInv => SequenceUnbroken
<1>. SUFFICES ASSUME SentInv, RelayInv, NEW c \in Client
              PROVE /\ \A i \in 1 .. Len(sent[c]) - 1 : Follow(sent[c][i], sent[c][i + 1])
                    /\ \A i \in 1 .. Len(relayed[c]) - 1 :
                         relayed[c][i].no = relayed[c][i + 1].no =>
                           Follow(relayed[c][i], relayed[c][i + 1])
  BY DEF SequenceUnbroken
<1>1. SentOK(c) /\ RelayedOK(c) BY DEF SentInv, RelayInv
<1>. QED BY <1>1 DEF SentOK, RelayedOK, Linked

\* The sequence numbers of every client are unbroken: of pictures always, of
\* GStreamer as long as its process lives.
THEOREM NumbersUnbroken == Spec => []SequenceUnbroken
<1>1. Init => RelayInv BY RelayStart
<1>2. TypeOK /\ RelayInv /\ [Next]_vars => RelayInv' BY RelayStep
<1>3. SentInv /\ RelayInv => SequenceUnbroken BY NumbersFollow
<1>. QED BY <1>1, <1>2, <1>3, Types, Sending, PTL DEF Spec

-----------------------------------------------------------------------------
(***************************************************************************)
(* The receiver.                                                           *)
(***************************************************************************)
\* Of the packets sent to a client, those of one time are of one picture, and
\* those of one picture of one time.
LEMMA TimeTellsPicture ==
  ASSUME TypeOK, SentInv, NEW c \in Client,
         NEW i \in 1 .. Len(sent[c]), NEW j \in 1 .. Len(sent[c])
  PROVE  sent[c][i].ts = sent[c][j].ts <=> sent[c][i].picture = sent[c][j].picture
<1>. DEFINE p == sent[c][i]
            q == sent[c][j]
<1>1. SentOK(c) BY DEF SentInv
<1>2. sent[c] \in Seq(Packet) BY DEF TypeOK
<1>3. p \in Packet /\ q \in Packet BY <1>2
<1>4. PacketOK(c, p) /\ PacketOK(c, q) BY <1>1 DEF SentOK
<1>5. turn[c] \in Nat /\ timestamp[c] \in 0 .. TsSpace - 1 /\ frames \in Nat BY DEF TypeOK
<1>6. Len(sent[c]) \in Nat /\ Len(sent[c]) > 0 BY <1>2
<1>7. ~useH264 BY <1>1, <1>6 DEF SentOK, CountsOK
<1>8. turn[c] <= TsSpace /\ (cur = c => turn[c] < TsSpace)
  BY <1>1, <1>5, <1>7, SpaceAssumption DEF SentOK, TurnsOK, SentInv, FramesOK
<1>. HIDE DEF p, q
<1>9. /\ p.ts \in 0 .. TsSpace - 1 /\ q.ts \in 0 .. TsSpace - 1
      /\ p.picture.turn \in Nat /\ q.picture.turn \in Nat
  BY <1>3 DEF Packet, Picture
<1>. DEFINE k == turn[c] - p.picture.turn
            l == turn[c] - q.picture.turn
<1>10. /\ p.picture.turn <= turn[c] /\ q.picture.turn <= turn[c]
       /\ Later(p.ts, k) = timestamp[c] /\ Later(q.ts, l) = timestamp[c]
       /\ k = 0 \/ l = 0 => cur = c
  <2>. HIDE DEF Later, PayloadLength, extractQTables
  <2>. QED BY <1>4, <1>5, <1>9 DEF PacketOK
<1>11. k \in Nat /\ l \in Nat /\ k <= turn[c] /\ l <= turn[c] BY <1>5, <1>9, <1>10
<1>12. (k = l <=> p.picture.turn = q.picture.turn) BY <1>5, <1>9
<1>13. ASSUME p.ts = q.ts PROVE p.picture = q.picture
  <2>1. k = l
    <3>. HIDE DEF k, l
    <3>. QED BY <1>5, <1>8, <1>9, <1>10, <1>11, <1>13, SpaceAssumption DEF Later
  <2>2. p.picture.turn = q.picture.turn BY <2>1, <1>12
  <2>3. \A a, b \in 1 .. Len(sent[c]) : a < b => Ordered(sent[c][a], sent[c][b])
    BY <1>1 DEF SentOK
  <2>4. CASE i < j BY <2>2, <2>3, <2>4 DEF Ordered, p, q
  <2>5. CASE j < i BY <2>2, <2>3, <2>5 DEF Ordered, p, q
  <2>6. CASE i = j BY <2>6 DEF p, q
  <2>. QED BY <2>4, <2>5, <2>6
<1>14. ASSUME p.picture = q.picture PROVE p.ts = q.ts
  <2>1. k = l BY <1>14, <1>12
  <2>. HIDE DEF k, l
  <2>. QED BY <2>1, <1>5, <1>8, <1>9, <1>10, <1>11, SpaceAssumption DEF Later
<1>. QED BY <1>13, <1>14 DEF p, q

\* A picture is put together out of packets of its own.
LEMMA GatheredFits ==
  ASSUME TypeOK, SentInv, RxInv, NEW c \in Client, read[c] < Len(sent[c]),
         Gathered(c, sent[c][read[c] + 1]) # NoPicture
  PROVE  UpTo(Gathered(c, sent[c][read[c] + 1]), sent[c][read[c] + 1])
<1>. DEFINE n == read[c] + 1
            p == sent[c][n]
            g == Gathered(c, p)
<1>1. sent[c] \in Seq(Packet) /\ Len(sent[c]) \in Nat /\ read[c] \in Nat BY DEF TypeOK
<1>2. n \in 1 .. Len(sent[c]) BY <1>1
<1>3. p \in Packet BY <1>1, <1>2
<1>4. PacketOK(c, p) BY <1>2 DEF SentInv, SentOK
<1>5. RxOK(c) BY DEF RxInv
<1>6. p.length \in Nat /\ p.offset \in Nat BY <1>3 DEF Packet
<1>. HIDE DEF extractQTables, PayloadLength, Later
<1>7. CASE p.offset = 0
  <2>1. g = [ts |-> p.ts, upTo |-> p.length, pictures |-> {p.picture},
             qTables |-> IF p.q = 255 THEN p.qTables ELSE 0]
    BY <1>7 DEF Gathered
  <2>. HIDE DEF p, g
  <2>. QED BY <2>1, <1>4, <1>6, <1>7 DEF UpTo, PacketOK, p, g, n
<1>8. CASE p.offset # 0
  <2>1. /\ rx[c] # NoPicture /\ rx[c].ts = p.ts /\ rx[c].upTo = p.offset
        /\ g = [rx[c] EXCEPT !.upTo = @ + p.length, !.pictures = @ \cup {p.picture}]
    BY <1>8 DEF Gathered
  <2>2. PICK i \in 1 .. read[c] : ~sent[c][i].marker /\ UpTo(rx[c], sent[c][i])
    BY <2>1, <1>5 DEF RxOK
  <2>3. i \in 1 .. Len(sent[c]) BY <1>1
  <2>4. sent[c][i].ts = p.ts BY <2>1, <2>2 DEF UpTo
  <2>5. sent[c][i].picture = p.picture BY <2>3, <2>4, <1>2, TimeTellsPicture
  <2>6. rx[c] \in Gathering BY <2>1 DEF TypeOK
  <2>. HIDE DEF p, g
  <2>7. /\ g.ts = rx[c].ts /\ g.qTables = rx[c].qTables
        /\ g.upTo = rx[c].upTo + p.length /\ g.pictures = rx[c].pictures \cup {p.picture}
    BY <2>1, <2>6 DEF Gathering
  <2>8. rx[c].pictures = {p.picture} /\ rx[c].qTables = extractQTables(p.picture.jpeg)
    BY <2>2, <2>5 DEF UpTo
  <2>. QED BY <2>1, <2>7, <2>8 DEF UpTo, p, g, n
<1>. QED BY <1>7, <1>8

LEMMA RxStart == Init => RxInv /\ TcpInv
<1>. SUFFICES ASSUME Init, NEW c \in Client PROVE RxOK(c) /\ TcpOK(c)
  BY DEF RxInv, TcpInv
<1>1. sent[c] = <<>> /\ read[c] = 0 /\ rx[c] = NoPicture /\ shown[c] = <<>> BY DEF Init
<1>. QED BY <1>1 DEF RxOK, TcpOK

LEMMA RxStep ==
  TypeOK /\ ListenerOK /\ SentInv /\ RxInv /\ [Next]_vars => RxInv'
<1>. SUFFICES ASSUME TypeOK, ListenerOK, SentInv, RxInv, [Next]_vars, NEW d \in Client
              PROVE RxOK(d)'
  BY DEF RxInv
<1>. USE DEF session, fields, listener, history, receiver
<1>1. RxOK(d) /\ SentOK(d) BY DEF RxInv, SentInv
<1>2. /\ Len(sent[d]) \in Nat /\ Len(sent'[d]) \in Nat
      /\ Len(sent'[d]) >= Len(sent[d])
      /\ \A i \in 1 .. Len(sent[d]) : sent'[d][i] = sent[d][i]
  BY SentGrows
<1>3. read[d] \in Nat /\ shown[d] \in Seq(Gathering) /\ Len(shown[d]) \in Nat BY DEF TypeOK
<1>4. ASSUME rx'[d] = rx[d], shown'[d] = shown[d],
             read'[d] = read[d] \/ (read'[d] = read[d] + 1 /\ read[d] < Len(sent[d]))
      PROVE RxOK(d)'
  <2>1. read'[d] <= Len(sent'[d]) BY <1>1, <1>2, <1>3, <1>4 DEF RxOK
  <2>2. \A i \in 1 .. read[d] : i \in 1 .. read'[d] /\ sent'[d][i] = sent[d][i]
    BY <1>1, <1>2, <1>3, <1>4 DEF RxOK
  <2>. HIDE DEF UpTo
  <2>. QED BY <2>1, <2>2, <1>1, <1>4 DEF RxOK
<1>5. ASSUME NEW c \in Client, Receive(c) PROVE RxOK(d)'
  <2>1. CASE c # d
    <3>1. rx'[d] = rx[d] /\ shown'[d] = shown[d] /\ read'[d] = read[d]
      BY <1>5, <2>1 DEF Receive, TypeOK
    <3>. QED BY <3>1, <1>4
  <2>2. CASE c = d
    <3>. DEFINE n == read[d] + 1
                p == sent[d][n]
                g == Gathered(d, p)
    <3>1. /\ rx'[d] = IF p.marker THEN NoPicture ELSE g
          /\ shown'[d] = IF p.marker /\ g # NoPicture THEN Append(shown[d], g) ELSE shown[d]
          /\ read'[d] = n /\ sent' = sent /\ read[d] < Len(sent[d])
      BY <1>5, <2>2 DEF Receive, TypeOK
    <3>2. n \in 1 .. Len(sent[d]) /\ n \in 1 .. n BY <3>1, <1>2, <1>3
    <3>3. g # NoPicture => UpTo(g, p) BY <3>1, GatheredFits
    <3>4. p \in Packet
      <4>1. sent[d] \in Seq(Packet) BY DEF TypeOK
      <4>. QED BY <3>2, <4>1
    <3>5. g \in Gathering \cup {NoPicture} BY <3>4, GatheredType
    <3>6. \A i \in 1 .. read[d] : i \in 1 .. n /\ i \in 1 .. Len(sent[d]) /\ i < n
      BY <3>2, <1>2, <1>3
    <3>. HIDE DEF UpTo, g, Gathered
    <3>7. rx'[d] # NoPicture => \E i \in 1 .. n : ~sent[d][i].marker /\ UpTo(rx'[d], sent[d][i])
      BY <3>1, <3>2, <3>3
    <3>. HIDE DEF n, p
    <3>8. CASE ~(p.marker /\ g # NoPicture)
      <4>1. shown'[d] = shown[d] BY <3>1, <3>8
      <4>2. read'[d] <= Len(sent'[d]) BY <3>1, <3>2
      <4>3. ASSUME NEW k \in 1 .. Len(shown[d])
            PROVE \E i \in 1 .. n : sent[d][i].marker /\ UpTo(shown[d][k], sent[d][i])
        <5>1. PICK i \in 1 .. read[d] : sent[d][i].marker /\ UpTo(shown[d][k], sent[d][i])
          BY <1>1 DEF RxOK
        <5>. QED BY <5>1, <3>6
      <4>4. \A k, l \in 1 .. Len(shown[d]) : k < l =>
              \A a \in shown[d][k].pictures, b \in shown[d][l].pictures : a.turn < b.turn
        BY <1>1 DEF RxOK
      <4>. QED BY <4>1, <4>2, <4>3, <4>4, <3>1, <3>7 DEF RxOK
    <3>9. CASE p.marker /\ g # NoPicture
      <4>. DEFINE m == Len(shown[d])
      <4>1. /\ Len(shown'[d]) = m + 1
            /\ \A k \in 1 .. m : shown'[d][k] = shown[d][k]
            /\ shown'[d][m + 1] = g
        BY <3>1, <3>5, <3>9, <1>3
      <4>2. \A k \in 1 .. m + 1 : k \in 1 .. m \/ k = m + 1 BY <1>3
      <4>3. ASSUME NEW k \in 1 .. m + 1
            PROVE \E i \in 1 .. n : sent[d][i].marker /\ UpTo(shown'[d][k], sent[d][i])
        <5>1. CASE k = m + 1
          <6>1. sent[d][n].marker /\ UpTo(g, sent[d][n]) BY <3>3, <3>9 DEF p
          <6>. QED BY <5>1, <6>1, <4>1, <3>2
        <5>2. CASE k \in 1 .. m
          <6>1. PICK i \in 1 .. read[d] : sent[d][i].marker /\ UpTo(shown[d][k], sent[d][i])
            BY <5>2, <1>1 DEF RxOK
          <6>. QED BY <6>1, <5>2, <4>1, <3>6
        <5>. QED BY <5>1, <5>2, <4>2
      <4>4. ASSUME NEW k \in 1 .. m + 1, NEW l \in 1 .. m + 1, k < l,
                   NEW a \in shown'[d][k].pictures, NEW b \in shown'[d][l].pictures
            PROVE a.turn < b.turn
        <5>1. k \in 1 .. m
          <6>1. m \in Nat BY <1>3
          <6>. HIDE DEF m
          <6>. QED BY <6>1, <4>4
        <5>2. CASE l \in 1 .. m BY <5>1, <5>2, <4>1, <4>4, <1>1 DEF RxOK
        <5>3. CASE l = m + 1
          <6>1. b = p.picture BY <5>3, <4>1, <3>3, <3>9 DEF UpTo
          <6>2. PICK i \in 1 .. read[d] : sent[d][i].marker /\ UpTo(shown[d][k], sent[d][i])
            BY <5>1, <1>1 DEF RxOK
          <6>3. a = sent[d][i].picture BY <5>1, <6>2, <4>1 DEF UpTo
          <6>4. Ordered(sent[d][i], p) BY <3>2, <3>6, <1>1 DEF SentOK, p
          <6>. QED BY <6>1, <6>2, <6>3, <6>4 DEF Ordered
        <5>. QED BY <5>2, <5>3, <4>2
      <4>. HIDE DEF m
      <4>5. read'[d] <= Len(sent'[d]) BY <3>1, <3>2
      <4>. QED BY <4>1, <4>3, <4>4, <4>5, <3>1, <3>7 DEF RxOK
    <3>. QED BY <3>8, <3>9
  <2>. QED BY <2>1, <2>2
<1>6. ASSUME NEW c \in Client, Lose(c) PROVE RxOK(d)'
  <2>1. /\ rx'[d] = rx[d] /\ shown'[d] = shown[d]
        /\ read'[d] = read[d] \/ (read'[d] = read[d] + 1 /\ read[d] < Len(sent[d]))
    BY <1>6 DEF Lose, TypeOK
  <2>. QED BY <2>1, <1>4
<1>. QED
  BY <1>4, <1>5, <1>6 DEF Next, vars, Setup, Play, Destroy, SendRtcpSr, SendFrame, FrameEvent,
     SendFragment, SendThrows, FrameSent, ListenerEnds, ForwardRtp, NewPipeline

LEMMA TcpStep ==
  TypeOK /\ ListenerOK /\ SentInv /\ RxInv /\ TcpInv /\ [Next]_vars => TcpInv'
<1>. SUFFICES ASSUME TypeOK, ListenerOK, SentInv, RxInv, TcpInv, [Next]_vars,
                     NEW d \in Client
              PROVE TcpOK(d)'
  BY DEF TcpInv
<1>. USE DEF session, fields, listener, history, receiver
<1>1. TcpOK(d) /\ RxOK(d) /\ SentOK(d) BY DEF TcpInv, RxInv, SentInv
<1>2. /\ Len(sent[d]) \in Nat
      /\ \A i \in 1 .. Len(sent[d]) : sent'[d][i] = sent[d][i]
  BY SentGrows
<1>3. read[d] \in Nat /\ shown[d] \in Seq(Gathering) /\ Len(shown[d]) \in Nat BY DEF TypeOK
<1>4. read[d] <= Len(sent[d]) BY <1>1 DEF RxOK
<1>5. ASSUME udp'[d] = udp[d], rx'[d] = rx[d], shown'[d] = shown[d], read'[d] = read[d]
      PROVE TcpOK(d)'
  <2>1. \A i \in 1 .. read[d] : sent'[d][i] = sent[d][i] BY <1>2, <1>3, <1>4
  <2>2. read[d] > 0 => sent'[d][read[d]] = sent[d][read[d]] BY <2>1, <1>3
  <2>3. \A i \in 1 .. read[d] : read[d] > 0 BY <1>3
  <2>. HIDE DEF UpTo
  <2>. QED BY <1>1, <1>5, <2>1, <2>2, <2>3 DEF TcpOK
<1>6. ASSUME NEW c \in Client, Setup(c) PROVE TcpOK(d)'
  <2>1. CASE c # d
    <3>1. udp'[d] = udp[d] /\ rx' = rx /\ shown' = shown /\ read' = read
      BY <1>6, <2>1 DEF Setup, TypeOK
    <3>. QED BY <3>1, <1>5
  <2>2. CASE c = d
    <3>1. Len(sent[d]) = 0 /\ read' = read
      BY <1>1, <1>6, <2>2 DEF Setup, SentOK, ReachedOK
    <3>2. read'[d] = 0 BY <3>1, <1>3, <1>4
    <3>. QED BY <3>2 DEF TcpOK
  <2>. QED BY <2>1, <2>2
<1>7. ASSUME NEW c \in Client, Lose(c) PROVE TcpOK(d)'
  <2>1. CASE c # d
    <3>1. udp' = udp /\ rx' = rx /\ shown' = shown /\ read'[d] = read[d]
      BY <1>7, <2>1 DEF Lose, TypeOK
    <3>. QED BY <3>1, <1>5
  <2>2. CASE c = d BY <2>2, <1>7 DEF Lose, TcpOK
  <2>. QED BY <2>1, <2>2
<1>8. ASSUME NEW c \in Client, Receive(c) PROVE TcpOK(d)'
  <2>1. CASE c # d
    <3>1. udp' = udp /\ rx'[d] = rx[d] /\ shown'[d] = shown[d] /\ read'[d] = read[d]
      BY <1>8, <2>1 DEF Receive, TypeOK
    <3>. QED BY <3>1, <1>5
  <2>2. CASE c = d /\ udp[d] BY <2>2, <1>8 DEF Receive, TcpOK
  <2>3. CASE c = d /\ ~udp[d]
    <3>. DEFINE m == read[d]
                n == m + 1
                p == sent[d][n]
                g == Gathered(d, p)
    <3>1. /\ rx'[d] = IF p.marker THEN NoPicture ELSE g
          /\ shown'[d] = IF p.marker /\ g # NoPicture THEN Append(shown[d], g) ELSE shown[d]
          /\ read'[d] = n /\ sent' = sent /\ m < Len(sent[d])
      BY <1>8, <2>3 DEF Receive, TypeOK
    <3>2. n \in 1 .. Len(sent[d]) /\ n \in 1 .. n /\ (m > 0 => m \in 1 .. Len(sent[d]))
      BY <3>1, <1>2, <1>3
    <3>3. sent[d] \in Seq(Packet) BY DEF TypeOK
    <3>4. p \in Packet /\ (m > 0 => sent[d][m] \in Packet) BY <3>2, <3>3
    <3>5. p.offset \in Nat /\ p.length \in Nat \ {0} BY <3>4 DEF Packet
    <3>6. m > 0 => Linked(sent[d][m], p)
      <4>1. m > 0 => m \in 1 .. Len(sent[d]) - 1 BY <3>1, <1>2, <1>3
      <4>. QED BY <4>1, <1>1 DEF SentOK
    <3>7. p.offset # 0 => m > 0 /\ ~sent[d][m].marker
      <4>1. m = 0 => p.offset = 0 BY <3>2, <1>1, <1>2 DEF SentOK
      <4>. QED BY <4>1, <3>6, <1>3 DEF Linked
    <3>8. m > 0 /\ ~sent[d][m].marker =>
            /\ rx[d] # NoPicture /\ UpTo(rx[d], sent[d][m])
            /\ p.picture = sent[d][m].picture /\ p.offset = sent[d][m].offset + sent[d][m].length
      BY <1>1, <2>3, <3>6 DEF TcpOK, Linked
    <3>9. g # NoPicture
      <4>. HIDE DEF p, m
      <4>1. CASE p.offset = 0 BY <4>1, <3>5 DEF Gathered, NoPicture
      <4>2. CASE p.offset # 0
        <5>1. rx[d] # NoPicture /\ UpTo(rx[d], sent[d][m])
              /\ p.picture = sent[d][m].picture /\ p.offset = sent[d][m].offset + sent[d][m].length
          BY <4>2, <3>7, <3>8
        <5>2. p.ts = sent[d][m].ts
          BY <4>2, <5>1, <3>2, <3>7, TimeTellsPicture DEF p
        <5>3. rx[d].ts = p.ts /\ rx[d].upTo = p.offset BY <5>1, <5>2 DEF UpTo
        <5>4. g = [rx[d] EXCEPT !.upTo = @ + p.length, !.pictures = @ \cup {p.picture}]
          BY <4>2, <5>1, <5>3 DEF Gathered
        <5>5. rx[d] \in Gathering BY <5>1 DEF TypeOK
        <5>6. g.upTo = p.offset + p.length BY <5>3, <5>4, <5>5 DEF Gathering
        <5>7. g.upTo # 0 BY <5>6, <3>5
        <5>. QED BY <5>7 DEF NoPicture
      <4>. QED BY <4>1, <4>2
    <3>10. UpTo(g, p) BY <3>1, <3>9, GatheredFits
    <3>11. g \in Gathering BY <3>4, <3>9, GatheredType
    <3>12. \A i \in 1 .. m : i \in 1 .. n /\ m > 0 BY <1>3
    <3>13. \A i \in 1 .. n : i \in 1 .. m \/ i = n BY <1>3
    <3>. HIDE DEF g, Gathered
    <3>14. ASSUME NEW i \in 1 .. m
           PROVE \/ \E k \in 1 .. Len(shown[d]) : sent[d][i].picture \in shown[d][k].pictures
                 \/ sent[d][i].picture = p.picture
      <4>1. CASE \E k \in 1 .. Len(shown[d]) : sent[d][i].picture \in shown[d][k].pictures
        BY <4>1
      <4>2. CASE ~sent[d][m].marker /\ sent[d][i].picture = sent[d][m].picture
        BY <4>2, <3>8, <3>12
      <4>. QED BY <4>1, <4>2, <1>1, <2>3 DEF TcpOK
    <3>15. CASE ~p.marker
      <4>1. rx'[d] = g /\ shown'[d] = shown[d] BY <3>1, <3>15
      <4>2. \A i \in 1 .. n :
              \/ \E k \in 1 .. Len(shown[d]) : sent[d][i].picture \in shown[d][k].pictures
              \/ sent[d][i].picture = p.picture
        BY <3>13, <3>14
      <4>. HIDE DEF UpTo
      <4>. QED BY <4>1, <4>2, <3>1, <3>9, <3>10, <3>15 DEF TcpOK
    <3>16. CASE p.marker
      <4>1. shown'[d] = Append(shown[d], g) BY <3>1, <3>9, <3>16
      <4>. DEFINE q == Len(shown[d])
      <4>2. /\ Len(shown'[d]) = q + 1
            /\ \A k \in 1 .. q : shown'[d][k] = shown[d][k]
            /\ shown'[d][q + 1] = g
        BY <4>1, <3>11, <1>3
      <4>3. \A k \in 1 .. q : k \in 1 .. q + 1 BY <1>3
      <4>4. q + 1 \in 1 .. q + 1 BY <1>3
      <4>5. p.picture \in shown'[d][q + 1].pictures BY <4>2, <3>10 DEF UpTo
      <4>. HIDE DEF q
      <4>6. ASSUME NEW i \in 1 .. n
            PROVE \E k \in 1 .. q + 1 : sent[d][i].picture \in shown'[d][k].pictures
        <5>1. CASE sent[d][i].picture = p.picture BY <5>1, <4>4, <4>5
        <5>2. CASE \E k \in 1 .. Len(shown[d]) : sent[d][i].picture \in shown[d][k].pictures
          BY <5>2, <4>2, <4>3 DEF q
        <5>. QED BY <5>1, <5>2, <3>13, <3>14
      <4>7. sent[d][n].marker BY <3>16
      <4>. HIDE DEF UpTo, n, p
      <4>. QED BY <4>2, <4>6, <4>7, <3>1 DEF TcpOK
    <3>. QED BY <3>15, <3>16, <3>4 DEF Packet
  <2>. QED BY <2>1, <2>2, <2>3
<1>. QED
  BY <1>5, <1>6, <1>7, <1>8 DEF Next, vars, Play, Destroy, SendRtcpSr, SendFrame, FrameEvent,
     SendFragment, SendThrows, FrameSent, ListenerEnds, ForwardRtp, NewPipeline

LEMMA Received == Spec => [](RxInv /\ TcpInv)
<1>1. Init => RxInv /\ TcpInv BY RxStart
<1>2. TypeOK /\ ListenerOK /\ SentInv /\ (RxInv /\ TcpInv) /\ [Next]_vars => (RxInv /\ TcpInv)'
  BY RxStep, TcpStep
<1>. QED BY <1>1, <1>2, Types, Sending, PTL DEF Spec

LEMMA ShownIsWhole == TypeOK /\ SentInv /\ RxInv => PicturesWhole
<1>. SUFFICES ASSUME TypeOK, SentInv, RxInv, NEW c \in Client, NEW k \in DOMAIN shown[c]
              PROVE /\ Whole(shown[c][k])
                    /\ \A j \in 1 .. k - 1 :
                         \A p \in shown[c][k].pictures, q \in shown[c][j].pictures :
                             q.turn < p.turn
  BY DEF PicturesWhole
<1>1. RxOK(c) /\ SentOK(c) BY DEF RxInv, SentInv
<1>2. shown[c] \in Seq(Gathering) /\ sent[c] \in Seq(Packet) /\ Len(shown[c]) \in Nat
      /\ Len(sent[c]) \in Nat /\ read[c] \in Nat
  <2>1. sent \in [Client -> Seq(Packet)] /\ shown \in [Client -> Seq(Gathering)]
        /\ read \in [Client -> Nat]
    BY DEF TypeOK
  <2>2. sent[c] \in Seq(Packet) /\ shown[c] \in Seq(Gathering) /\ read[c] \in Nat BY <2>1
  <2>. QED BY <2>2
<1>3. k \in 1 .. Len(shown[c]) BY <1>2
<1>4. PICK i \in 1 .. read[c] : sent[c][i].marker /\ UpTo(shown[c][k], sent[c][i])
  BY <1>1, <1>3 DEF RxOK
<1>5. i \in 1 .. Len(sent[c]) BY <1>1, <1>2 DEF RxOK
<1>6. PacketOK(c, sent[c][i]) /\ sent[c][i] \in Packet BY <1>1, <1>2, <1>5 DEF SentOK
<1>. DEFINE p == sent[c][i]
<1>7. p.offset + p.length = PayloadLength(p.picture.jpeg)
  <2>1. p.picture.jpeg \in Jpeg /\ p.offset \in Nat /\ p.length \in Nat
    BY <1>6 DEF Packet, Picture
  <2>2. PayloadLength(p.picture.jpeg) \in Nat BY <2>1, PayloadType
  <2>. HIDE DEF PayloadLength, extractQTables, Later
  <2>. QED BY <1>4, <1>6, <2>1, <2>2 DEF PacketOK
<1>8. Whole(shown[c][k])
  <2>. HIDE DEF PayloadLength, extractQTables
  <2>1. shown[c][k].pictures = {p.picture} /\ shown[c][k].upTo = p.offset + p.length
        /\ shown[c][k].qTables = extractQTables(p.picture.jpeg)
    BY <1>4 DEF UpTo
  <2>. QED BY <2>1, <1>7 DEF Whole
<1>9. \A j \in 1 .. k - 1 : j \in 1 .. Len(shown[c]) /\ j < k BY <1>2, <1>3
<1>10. \A j \in 1 .. k - 1 : \A a \in shown[c][k].pictures, b \in shown[c][j].pictures :
         b.turn < a.turn
  BY <1>1, <1>3, <1>9 DEF RxOK
<1>. QED BY <1>8, <1>10

\* Every picture shown is a whole one, with what was extracted of its tables,
\* and they are shown in order, whatever datagrams are lost.
THEOREM OnlyWholePictures == Spec => []PicturesWhole
<1>1. TypeOK /\ SentInv /\ RxInv => PicturesWhole BY ShownIsWhole
<1>. QED BY <1>1, Types, Sending, Received, PTL

LEMMA NoneLost == TypeOK /\ SentInv /\ TcpInv => NothingLostOverTcp
<1>. SUFFICES ASSUME TypeOK, SentInv, TcpInv, NEW c \in Client, ~udp[c],
                     read[c] = Len(sent[c]), cur # c, NEW i \in DOMAIN sent[c]
              PROVE \E k \in DOMAIN shown[c] : sent[c][i].picture \in shown[c][k].pictures
  BY DEF NothingLostOverTcp
<1>1. TcpOK(c) /\ SentOK(c) BY DEF TcpInv, SentInv
<1>2. sent[c] \in Seq(Packet) /\ Len(sent[c]) \in Nat /\ DOMAIN shown[c] = 1 .. Len(shown[c])
  <2>1. sent \in [Client -> Seq(Packet)] /\ shown \in [Client -> Seq(Gathering)] BY DEF TypeOK
  <2>2. sent[c] \in Seq(Packet) /\ shown[c] \in Seq(Gathering) BY <2>1
  <2>. QED BY <2>2
<1>3. i \in 1 .. read[c] BY <1>2
<1>4. sent[c][read[c]].marker BY <1>1, <1>2, <1>3 DEF SentOK, LastOK
<1>. QED BY <1>1, <1>2, <1>3, <1>4 DEF TcpOK

\* Over TCP every picture is shown of which a packet was sent.
THEOREM AllShownOverTcp == Spec => []NothingLostOverTcp
<1>1. TypeOK /\ SentInv /\ TcpInv => NothingLostOverTcp BY NoneLost
<1>. QED BY <1>1, Types, Sending, Received, PTL
\* The life of a session in StreamLife, which the control connections keep to:
\* the frame listener is only ever concerned with one such life for each.
StreamOf(c) == INSTANCE StreamLife WITH state <- state[c]

LEMMA SessionsAsPromised == ASSUME NEW c \in Client PROVE Spec => StreamOf(c)!Spec
<1>1. Init => StreamOf(c)!Init
  BY DEF Init, StreamOf!Init
<1>2. TypeOK /\ [Next]_vars => [StreamOf(c)!Next]_(state[c])
  <2> SUFFICES ASSUME TypeOK, [Next]_vars
               PROVE  StreamOf(c)!Next \/ state'[c] = state[c]
    OBVIOUS
  <2>1. state \in [Client -> {"none", "ready", "playing", "destroyed"}]
    BY DEF TypeOK
  <2>2. CASE \E d \in Client : Setup(d) \/ Play(d) \/ Destroy(d)
    BY <2>1, <2>2 DEF Setup, Play, Destroy,
       StreamOf!Next, StreamOf!Setup, StreamOf!Play, StreamOf!Destroy
  <2>3. CASE \E d \in Client : SendRtcpSr(d) \/ SendFrame(d) \/ Receive(d) \/ Lose(d)
    BY <2>3 DEF SendRtcpSr, SendFrame, Receive, Lose, session
  <2>4. CASE FrameEvent \/ SendFragment \/ SendThrows \/ FrameSent \/ ListenerEnds
    BY <2>4 DEF FrameEvent, SendFragment, SendThrows, FrameSent, ListenerEnds, session
  <2>5. CASE ForwardRtp \/ NewPipeline
    BY <2>5 DEF ForwardRtp, NewPipeline, session
  <2>6. CASE UNCHANGED vars
    BY <2>6 DEF vars, session
  <2> QED
    BY <2>2, <2>3, <2>4, <2>5, <2>6 DEF Next
<1> QED
  BY <1>1, <1>2, Types, PTL DEF Spec, StreamOf!Spec
=============================================================================
