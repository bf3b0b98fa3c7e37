------------------------- MODULE CameraRegistry_proofs -------------------------
(***************************************************************************)
(* Proofs about CameraRegistry, for any number of clients, sessions and    *)
(* departures of the camera and any configuration.                         *)
(***************************************************************************)
EXTENDS CameraRegistry, TLAPS

(***************************************************************************)
(* The inductive invariant.  Only the session made last may be registered; *)
(* it is the one that is connected, and a session is connected until its   *)
(* socket is closed on purpose.  No client asked a session yet to come.    *)
(***************************************************************************)
LastIsRegistered == sessions \in {NoLife, Len(lives)}
Ended == \A k \in DOMAIN lives : lives[k].connected <=> lives[k].sock # "closed"
AskedInTime == \A c \in Client : client[c].life \in 0 .. Len(lives)

Registry == LastIsRegistered /\ Ended /\ OneSession
Lists == AskedInTime /\ ListsAreOfLastSession

IInv == TypeOK /\ Registry /\ Lists

\* What appending a session does, one by one.
LEMMA AppendFacts ==
  \A s \in Seq(Life), e \in Life : \A r :
    r = Append(s, e) =>
      /\ r \in Seq(Life)
      /\ Len(r) = Len(s) + 1
      /\ DOMAIN r = DOMAIN s \cup {Len(s) + 1}
      /\ r[Len(s) + 1] = e
      /\ \A k \in DOMAIN s : k # Len(s) + 1 /\ r[k] = s[k]
OBVIOUS

\* What a new session is.
LEMMA NewLifeFacts ==
  ASSUME NEW audio \in BOOLEAN
  PROVE  /\ NewLife(audio) \in Life
         /\ NewLife(audio).connected
         /\ NewLife(audio).sock = "binding"
BY DEF NewLife, Life

\* The settings a camera starts with.
LEMMA ConfigFacts == Default \in Config /\ Undefined \in Config
<1>1. Default \in Config
  BY DEF Default, Config
<1>2. Undefined \in Config
  BY DEF Undefined, Config
<1> QED BY <1>1, <1>2

\* A step of session k that neither ends it nor concerns the lists.
LEMMA SetLifeInv ==
  ASSUME IInv, NEW k \in DOMAIN lives, NEW life \in Life, SetLife(k, life),
         life.connected <=> lives[k].connected,
         life.sock # "closed" <=> lives[k].sock # "closed"
  PROVE  IInv'
<1>1. /\ lives' \in Seq(Life)
      /\ DOMAIN lives' = DOMAIN lives
      /\ Len(lives') = Len(lives)
      /\ \A j \in DOMAIN lives : lives'[j] = IF j = k THEN life ELSE lives[j]
  BY DEF IInv, TypeOK, SetLife
<1>2. UNCHANGED <<network, sessions, cameras, lists, crashed>>
  BY DEF SetLife
<1>3. TypeOK'
  BY <1>1, <1>2 DEF IInv, TypeOK, network, lists
<1>4. Registry'
  BY <1>1, <1>2 DEF IInv, Registry, LastIsRegistered, Ended, OneSession
<1>5. Lists'
  BY <1>1, <1>2 DEF IInv, Lists, AskedInTime, ListsAreOfLastSession, lists
<1> QED BY <1>3, <1>4, <1>5 DEF IInv

LEMMA InitInv == Init => IInv
<1> SUFFICES ASSUME Init PROVE IInv
  OBVIOUS
<1>1. lives = <<>> /\ lives \in Seq(Life) /\ DOMAIN lives = {} /\ Len(lives) = 0
  BY DEF Init
<1>2. cameras \in Config
  BY ConfiguredAssumption, ConfigFacts DEF Init
<1>3. TypeOK
  <2>1. client \in [Client -> Response \cup {Unused}]
    BY DEF Init
  <2>2. departures \in 0 .. MaxDepartures /\ Len(lives) <= MaxLives
        /\ sessions \in 0 .. Len(lives)
    BY <1>1, LivesAssumption, DeparturesAssumption DEF Init, NoLife
  <2>3. here \in BOOLEAN /\ crashed \in BOOLEAN
    BY DEF Init
  <2> QED BY <1>1, <1>2, <2>1, <2>2, <2>3 DEF Init, TypeOK
<1>4. Registry
  BY <1>1 DEF Init, Registry, LastIsRegistered, Ended, OneSession
<1>5. Lists
  <2>1. \A c \in Client : client[c].life = 0 /\ client[c].stream = "none"
    BY DEF Init, Unused, NoLife
  <2> QED BY <1>1, <2>1 DEF Init, Lists, AskedInTime, ListsAreOfLastSession
<1> QED BY <1>3, <1>4, <1>5 DEF IInv

\* Discovery: no session is connected, and no client asked the new one yet.
LEMMA DiscoverInv == ASSUME IInv, Discover PROVE IInv'
<1> DEFINE life == NewLife(Known.audio)
<1>1. Known \in Config /\ Known.audio \in BOOLEAN
  <2>1. Known \in Config
    BY ConfigFacts DEF IInv, TypeOK, Known
  <2> QED BY <2>1 DEF Config
<1>2. life \in Life /\ life.connected /\ life.sock = "binding"
  BY <1>1, NewLifeFacts
<1>3. lives \in Seq(Life) /\ lives' = Append(lives, life)
  BY DEF IInv, TypeOK, Discover, DiscoverAt
<1> HIDE DEF life
<1>4. /\ lives' \in Seq(Life)
      /\ Len(lives') = Len(lives) + 1
      /\ DOMAIN lives' = DOMAIN lives \cup {Len(lives) + 1}
      /\ lives'[Len(lives) + 1] = life
      /\ \A k \in DOMAIN lives : k # Len(lives) + 1 /\ lives'[k] = lives[k]
  BY <1>2, <1>3, AppendFacts
<1>5. /\ sessions = NoLife /\ sessions' = Len(lives) + 1
      /\ Len(lives) < MaxLives /\ Len(lives) \in Nat
      /\ cameras' = Known /\ responses' = {} /\ audioResponses' = {}
      /\ UNCHANGED <<network, client, seen, crashed>>
  BY <1>3 DEF Discover, DiscoverAt
<1>6. TypeOK'
  BY <1>1, <1>4, <1>5, LivesAssumption DEF IInv, TypeOK, network
<1>7. Registry'
  <2>1. \A k \in DOMAIN lives : ~lives[k].connected
    BY <1>3, <1>5 DEF IInv, Registry, OneSession, NoLife
  <2> QED BY <1>2, <1>4, <1>5, <2>1
        DEF IInv, Registry, LastIsRegistered, Ended, OneSession
<1>8. Lists'
  <2>1. \A c \in Client : client'[c].life \in 0 .. Len(lives)
    BY <1>5 DEF IInv, Lists, AskedInTime
  <2>2. \A c \in Client : client'[c].life # Len(lives')
    BY <1>4, <1>5, <2>1
  <2>3. AskedInTime'
    BY <1>4, <1>5, <2>1 DEF AskedInTime
  <2> QED BY <1>5, <2>2, <2>3 DEF Lists, ListsAreOfLastSession
<1> QED BY <1>6, <1>7, <1>8 DEF IInv

\* The end of a session: it is the connected one, hence the registered one.
LEMMA DisconnectInv ==
  ASSUME IInv, NEW k \in DOMAIN lives, Disconnect(k)
  PROVE  IInv'
<1> DEFINE life == [lives[k] EXCEPT !.sock = "closed", !.connected = FALSE]
<1>1. lives \in Seq(Life) /\ lives[k] \in Life /\ lives[k].sock = "open"
  BY DEF IInv, TypeOK, Disconnect
<1>2. life \in Life /\ ~life.connected /\ life.sock = "closed"
  BY <1>1 DEF Life
<1>3. lives' = [lives EXCEPT ![k] = life]
  BY <1>1 DEF Disconnect
<1> HIDE DEF life
<1>4. /\ lives' \in Seq(Life)
      /\ DOMAIN lives' = DOMAIN lives
      /\ Len(lives') = Len(lives) /\ Len(lives) \in Nat
      /\ \A j \in DOMAIN lives : lives'[j] = IF j = k THEN life ELSE lives[j]
  BY <1>1, <1>2, <1>3
<1>5. sessions' = NoLife /\ UNCHANGED <<network, cameras, lists, crashed>>
  BY DEF Disconnect
<1>6. k = sessions
  BY <1>1 DEF IInv, Registry, Ended, OneSession
<1>7. TypeOK'
  BY <1>4, <1>5 DEF IInv, TypeOK, network, lists, NoLife
<1>8. Registry'
  <2>1. \A j \in DOMAIN lives : j # NoLife
    BY <1>1 DEF NoLife
  <2>2. \A j \in DOMAIN lives : lives'[j].connected <=> lives'[j].sock # "closed"
    BY <1>2, <1>4 DEF IInv, Registry, Ended
  <2>3. \A j \in DOMAIN lives : ~lives'[j].connected
    BY <1>2, <1>4, <1>6 DEF IInv, Registry, OneSession
  <2> QED BY <1>4, <1>5, <2>1, <2>2, <2>3
        DEF Registry, LastIsRegistered, Ended, OneSession
<1>9. Lists'
  BY <1>4, <1>5 DEF IInv, Lists, AskedInTime, ListsAreOfLastSession, lists
<1> QED BY <1>7, <1>8, <1>9 DEF IInv

\* A request: the session it is told to wait for is the last one.
LEMMA AskInv ==
  ASSUME IInv, NEW c \in Client, AskVideo(c) \/ AskAudio(c)
  PROVE  IInv'
<1> DEFINE asked(stream) == [stream |-> stream, open |-> TRUE, life |-> sessions]
<1>1. PICK stream \in {"video", "audio"} :
        /\ Admit(c, stream)
        /\ responses' = IF stream = "video" THEN responses \cup {c} ELSE responses
        /\ audioResponses' = IF stream = "audio" THEN audioResponses \cup {c}
                                                 ELSE audioResponses
  BY DEF AskVideo, AskAudio
<1>2. sessions = Len(lives) /\ Len(lives) \in Nat \ {NoLife}
  BY <1>1 DEF IInv, TypeOK, Registry, LastIsRegistered, Admit, Online, NoLife
<1>3. /\ client' = [client EXCEPT ![c] = asked(stream)]
      /\ client[c] = Unused
      /\ UNCHANGED <<network, lives, sessions, cameras, seen, crashed>>
  BY <1>1 DEF Admit
<1>4. client \in [Client -> Response \cup {Unused}]
  BY DEF IInv, TypeOK
<1>5. asked(stream) \in Response
  BY <1>2 DEF Response
<1>6. \A d \in Client : client'[d] = IF d = c THEN asked(stream) ELSE client[d]
  BY <1>3, <1>4
<1>7. client' \in [Client -> Response \cup {Unused}]
  BY <1>3, <1>4, <1>5
<1>8. responses' \subseteq Client /\ audioResponses' \subseteq Client
  BY <1>1 DEF IInv, TypeOK
<1>9. TypeOK'
  BY <1>3, <1>7, <1>8 DEF IInv, TypeOK, network
<1>10. Registry'
  BY <1>3 DEF IInv, Registry, LastIsRegistered, Ended, OneSession
<1>11. AskedInTime'
  BY <1>2, <1>3, <1>6 DEF IInv, Lists, AskedInTime
<1>12. client[c].stream = "none"
  BY <1>3 DEF Unused
<1>13. ListsAreOfLastSession'
  BY <1>1, <1>2, <1>3, <1>6, <1>12 DEF IInv, Lists, ListsAreOfLastSession
<1> QED BY <1>9, <1>10, <1>11, <1>13 DEF IInv, Lists

LEMMA ClientLeavesInv ==
  ASSUME IInv, NEW c \in Client, ClientLeaves(c)
  PROVE  IInv'
<1> DEFINE left == [client[c] EXCEPT !.open = FALSE]
<1>1. /\ client \in [Client -> Response \cup {Unused}]
      /\ client[c] \in Response
  BY DEF IInv, TypeOK, ClientLeaves, Leave
<1>2. /\ left \in Response /\ ~left.open
      /\ left.stream = client[c].stream /\ left.life = client[c].life
  BY <1>1 DEF Response
<1>3. /\ client' = [client EXCEPT ![c] = left]
      /\ UNCHANGED <<network, lives, sessions, cameras, audioResponses, seen, crashed>>
      /\ responses' = IF client[c].stream = "video" THEN responses \ {c} ELSE responses
  BY <1>1 DEF ClientLeaves, Leave
<1> HIDE DEF left
<1>4. /\ client' \in [Client -> Response \cup {Unused}]
      /\ \A d \in Client : client'[d] = IF d = c THEN left ELSE client[d]
  BY <1>1, <1>2, <1>3
<1>5. TypeOK'
  BY <1>3, <1>4 DEF IInv, TypeOK, network
<1>6. Registry'
  BY <1>3 DEF IInv, Registry, LastIsRegistered, Ended, OneSession
<1>7. AskedInTime'
  BY <1>2, <1>3, <1>4 DEF IInv, Lists, AskedInTime
<1>8. ListsAreOfLastSession'
  BY <1>2, <1>3, <1>4 DEF IInv, Lists, ListsAreOfLastSession
<1> QED BY <1>5, <1>6, <1>7, <1>8 DEF IInv, Lists

\* Steps that touch neither the sessions nor the lists.
LEMMA AsideInv ==
  ASSUME IInv,
         UNCHANGED <<lives, sessions, responses, audioResponses, client>>,
         here' \in BOOLEAN,
         departures' \in 0 .. MaxDepartures,
         search' \in {"binding", "open", "closed"},
         cameras' \in Config,
         seen' \subseteq Client,
         crashed' \in BOOLEAN
  PROVE  IInv'
<1>1. TypeOK'
  BY DEF IInv, TypeOK
<1>2. Registry'
  BY DEF IInv, Registry, LastIsRegistered, Ended, OneSession
<1>3. Lists'
  BY DEF IInv, Lists, AskedInTime, ListsAreOfLastSession
<1> QED BY <1>1, <1>2, <1>3 DEF IInv

LEMMA NetworkInv ==
  ASSUME IInv, CameraLeaves \/ CameraComes \/ SearchStarts \/ SearchFails
  PROVE  IInv'
<1>1. UNCHANGED <<lives, sessions, cameras, responses, audioResponses, client, seen, crashed>>
  BY DEF CameraLeaves, CameraComes, SearchStarts, SearchFails, lists
<1>2. here' \in BOOLEAN /\ search' \in {"binding", "open", "closed"}
  BY DEF IInv, TypeOK, CameraLeaves, CameraComes, SearchStarts, SearchFails
<1>3. departures' \in 0 .. MaxDepartures
  BY DeparturesAssumption
     DEF IInv, TypeOK, CameraLeaves, CameraComes, SearchStarts, SearchFails
<1>4. cameras' \in Config /\ seen' \subseteq Client /\ crashed' \in BOOLEAN
  BY <1>1 DEF IInv, TypeOK
<1> QED BY <1>1, <1>2, <1>3, <1>4, AsideInv

LEMMA SettingsInv ==
  ASSUME IInv, Rotate \/ Mirror
  PROVE  IInv'
<1>1. UNCHANGED <<lives, sessions, responses, audioResponses, client,
                  here, departures, search, seen>>
  BY DEF Rotate, Mirror, lists, network
<1>2. cameras \in Config
  BY DEF IInv, TypeOK
<1>3. crashed' \in BOOLEAN
  BY DEF IInv, TypeOK, Rotate, Mirror
<1>4. cameras' \in Config
  <2>1. CASE cameras' = cameras
    BY <1>2, <2>1
  <2>2. CASE cameras' = [cameras EXCEPT !.rotate = (@ + 1) % 4]
    <3>1. (cameras.rotate + 1) % 4 \in 0 .. 3
      BY <1>2 DEF Config
    <3> QED BY <1>2, <2>2, <3>1 DEF Config
  <2>3. CASE cameras' = [cameras EXCEPT !.mirror = ~@]
    BY <1>2, <2>3 DEF Config
  <2> QED BY <2>1, <2>2, <2>3 DEF Rotate, Mirror
<1>5. here' \in BOOLEAN /\ departures' \in 0 .. MaxDepartures
      /\ search' \in {"binding", "open", "closed"} /\ seen' \subseteq Client
  BY <1>1 DEF IInv, TypeOK
<1> QED BY <1>1, <1>3, <1>4, <1>5, AsideInv

LEMMA WriteInv ==
  ASSUME IInv, NEW k \in DOMAIN lives, Frame(k) \/ Audio(k) \/ SendThrows(k)
  PROVE  IInv'
<1>1. UNCHANGED <<lives, sessions, responses, audioResponses, client,
                  here, departures, search, cameras>>
  BY DEF Frame, Audio, SendThrows, lists, network
<1>2. seen' \subseteq Client /\ crashed' \in BOOLEAN
  BY DEF IInv, TypeOK, Frame, Audio, SendThrows, lists
<1>3. here' \in BOOLEAN /\ departures' \in 0 .. MaxDepartures
      /\ search' \in {"binding", "open", "closed"} /\ cameras' \in Config
  BY <1>1 DEF IInv, TypeOK
<1> QED BY <1>1, <1>2, <1>3, AsideInv

LEMMA SessionInv ==
  ASSUME IInv, NEW k \in DOMAIN lives,
         Listening(k) \/ SocketError(k) \/ StartSession(k)
  PROVE  IInv'
<1>1. lives[k] \in Life
  BY DEF IInv, TypeOK
<1>2. CASE Listening(k)
  <2> DEFINE life == [lives[k] EXCEPT !.sock = "open", !.started = TRUE]
  <2>1. life \in Life /\ life.connected = lives[k].connected /\ life.sock = "open"
    BY <1>1 DEF Life
  <2>2. SetLife(k, life) /\ lives[k].sock = "binding"
    BY <1>2 DEF Listening
  <2> HIDE DEF life
  <2> QED BY <2>1, <2>2, SetLifeInv
<1>3. CASE SocketError(k)
  <2> DEFINE life == [lives[k] EXCEPT !.sock = "failed"]
  <2>1. life \in Life /\ life.connected = lives[k].connected /\ life.sock = "failed"
    BY <1>1 DEF Life
  <2>2. SetLife(k, life) /\ lives[k].sock \in {"binding", "open"}
    BY <1>3 DEF SocketError
  <2> HIDE DEF life
  <2> QED BY <2>1, <2>2, SetLifeInv
<1>4. CASE StartSession(k)
  <2> DEFINE life == [lives[k] EXCEPT !.streaming = TRUE]
  <2>1. life \in Life /\ life.connected = lives[k].connected /\ life.sock = lives[k].sock
    BY <1>1 DEF Life
  <2>2. SetLife(k, life)
    BY <1>4 DEF StartSession
  <2> HIDE DEF life
  <2> QED BY <2>1, <2>2, SetLifeInv
<1> QED BY <1>2, <1>3, <1>4

LEMMA NextInv == IInv /\ [Next]_vars => IInv'
<1> SUFFICES ASSUME IInv, [Next]_vars PROVE IInv'
  OBVIOUS
<1>1. CASE CameraLeaves \/ CameraComes \/ SearchStarts \/ SearchFails
  BY <1>1, NetworkInv
<1>2. CASE Discover
  BY <1>2, DiscoverInv
<1>3. ASSUME NEW k \in DOMAIN lives,
             Listening(k) \/ SocketError(k) \/ StartSession(k)
      PROVE  IInv'
  BY <1>3, SessionInv
<1>4. ASSUME NEW k \in DOMAIN lives, Disconnect(k) PROVE IInv'
  BY <1>4, DisconnectInv
<1>5. ASSUME NEW k \in DOMAIN lives, Frame(k) \/ Audio(k) \/ SendThrows(k)
      PROVE  IInv'
  BY <1>5, WriteInv
<1>6. ASSUME NEW c \in Client, AskVideo(c) \/ AskAudio(c) PROVE IInv'
  BY <1>6, AskInv
<1>7. ASSUME NEW c \in Client, ClientLeaves(c) PROVE IInv'
  BY <1>7, ClientLeavesInv
<1>8. CASE Rotate \/ Mirror
  BY <1>8, SettingsInv
<1>9. CASE UNCHANGED vars
  <2>1. UNCHANGED <<lives, sessions, responses, audioResponses, client, here,
                    departures, search, cameras, seen, crashed>>
    BY <1>9 DEF vars, network, lists
  <2>2. here' \in BOOLEAN /\ departures' \in 0 .. MaxDepartures
        /\ search' \in {"binding", "open", "closed"} /\ cameras' \in Config
        /\ seen' \subseteq Client /\ crashed' \in BOOLEAN
    BY <2>1 DEF IInv, TypeOK
  <2> QED BY <2>1, <2>2, AsideInv
<1> QED BY <1>1, <1>2, <1>3, <1>4, <1>5, <1>6, <1>7, <1>8, <1>9 DEF Next

\* The invariant of the registry: requests, sessions and their ends interleave in
\* any order.
THEOREM RegistryInvariant == SafetySpec => []IInv
BY InitInv, NextInv, PTL DEF SafetySpec

\* Types; the rotation never leaves the four that oMap has.
THEOREM RegistryTypeOK == SafetySpec => []TypeOK
<1>1. IInv => TypeOK
  BY DEF IInv
<1> QED BY <1>1, RegistryInvariant, PTL

\* discover and disconnect listeners: sessions[devId] is the one connected session.
THEOREM OnlyOneSession == SafetySpec => []OneSession
<1>1. IInv => OneSession
  BY DEF IInv, Registry
<1> QED BY <1>1, RegistryInvariant, PTL

\* The lists that frames and sound are written to, exactly.
THEOREM ListsAreExact == SafetySpec => []ListsAreOfLastSession
<1>1. IInv => ListsAreOfLastSession
  BY DEF IInv, Lists
<1> QED BY <1>1, RegistryInvariant, PTL

\* Sessions come and go without touching the settings of a known camera.
THEOREM SettingsAreKept == SafetySpec => SettingsKept
<1>1. ASSUME [Next]_vars PROVE lives' # lives /\ cameras.known => cameras' = cameras
  <2> SUFFICES ASSUME lives' # lives, cameras.known PROVE cameras' = cameras
    OBVIOUS
  <2>1. CASE Discover
    BY <2>1 DEF Discover, DiscoverAt, Known
  <2>2. ASSUME NEW k \in DOMAIN lives,
               Listening(k) \/ SocketError(k) \/ StartSession(k) \/ Disconnect(k)
        PROVE  cameras' = cameras
    BY <2>2 DEF Listening, SocketError, StartSession, Disconnect, SetLife
  <2>3. Discover \/ \E k \in DOMAIN lives :
          Listening(k) \/ SocketError(k) \/ StartSession(k) \/ Disconnect(k)
    BY <1>1 DEF Next, vars, CameraLeaves, CameraComes, SearchStarts, SearchFails,
                SendThrows, Frame, Audio, AskVideo, AskAudio, Admit, ClientLeaves,
                Leave, Rotate, Mirror
  <2> QED BY <2>1, <2>2, <2>3
<1> QED BY <1>1, PTL DEF SafetySpec, SettingsKept

(***************************************************************************)
(* The registry takes of a session only what SessionLife allows.           *)
(***************************************************************************)
\* A camera with a session has its settings: /rotate cannot throw under it.
SetUp == sessions # NoLife => cameras.known

LEMMA SetUpInit == Init => SetUp
BY DEF Init, SetUp

LEMMA SetUpNext ==
  ASSUME IInv, SetUp, [Next]_vars
  PROVE  SetUp'
<1>1. CASE UNCHANGED <<sessions, cameras>>
  BY <1>1 DEF SetUp
<1>2. CASE Discover
  <2>1. cameras' = Known
    BY <1>2 DEF Discover, DiscoverAt
  <2> QED BY <2>1 DEF Known, Default, SetUp
<1>3. ASSUME NEW k \in DOMAIN lives, Disconnect(k) PROVE SetUp'
  BY <1>3 DEF Disconnect, SetUp
<1>4. CASE Rotate \/ Mirror
  <2>1. cameras \in Config /\ UNCHANGED sessions
    BY <1>4 DEF IInv, TypeOK, Rotate, Mirror
  <2>2. cameras'.known = cameras.known
    BY <1>4, <2>1 DEF Config, Rotate, Mirror
  <2> QED BY <2>1, <2>2 DEF SetUp
<1> QED
  BY <1>1, <1>2, <1>3, <1>4
     DEF Next, vars, CameraLeaves, CameraComes, SearchStarts, SearchFails,
         Listening, SocketError, StartSession, SetLife, SendThrows, Frame, Audio,
         AskVideo, AskAudio, Admit, ClientLeaves, Leave

\* What SessionLife sees of a session, before and after a step.
LEMMA LifeStands ==
  ASSUME NEW k, lives'[k] = lives[k],
         (crashed /\ k = sessions)' = (crashed /\ k = sessions)
  PROVE  UNCHANGED LifeOf(k)!vars
BY DEF LifeOf!vars

LEMMA LifeMoves ==
  ASSUME IInv, NEW k \in DOMAIN lives, ~crashed, ~crashed',
         \/ Listening(k) \/ SocketError(k) \/ StartSession(k) \/ Disconnect(k)
  PROVE  [LifeOf(k)!Next]_(LifeOf(k)!vars)
<1>1. lives \in Seq(Life) /\ lives[k] \in Life
  BY DEF IInv, TypeOK
<1>2. CASE Listening(k)
  <2>1. lives'[k] = [lives[k] EXCEPT !.sock = "open", !.started = TRUE]
    BY <1>1, <1>2 DEF Listening, SetLife
  <2> QED BY <1>1, <1>2, <2>1 DEF Listening, Life, LifeOf!Next, LifeOf!Start
<1>3. CASE SocketError(k)
  <2>1. lives'[k] = [lives[k] EXCEPT !.sock = "failed"]
    BY <1>1, <1>3 DEF SocketError, SetLife
  <2> QED BY <1>1, <1>3, <2>1 DEF SocketError, Life, LifeOf!Next, LifeOf!Fail
<1>4. CASE StartSession(k)
  <2>1. lives'[k] = [lives[k] EXCEPT !.streaming = TRUE]
    BY <1>1, <1>4 DEF StartSession, SetLife
  <2> QED BY <1>1, <2>1 DEF Life, LifeOf!vars
<1>5. CASE Disconnect(k)
  <2>1. lives'[k] = [lives[k] EXCEPT !.sock = "closed", !.connected = FALSE]
    BY <1>1, <1>5 DEF Disconnect
  <2> QED BY <1>1, <1>5, <2>1 DEF Disconnect, Life, LifeOf!Next, LifeOf!End
<1> QED BY <1>2, <1>3, <1>4, <1>5

\* The session that throws is the one in use.
LEMMA LifeDies ==
  ASSUME IInv, NEW k \in DOMAIN lives, ~crashed, SendThrows(k)
  PROVE  /\ k = sessions
         /\ [LifeOf(k)!Next]_(LifeOf(k)!vars)
<1>1. k = sessions
  BY DEF IInv, Registry, Ended, OneSession, SendThrows
<1>2. crashed \in BOOLEAN
  BY DEF IInv, TypeOK
<1> QED BY <1>1, <1>2 DEF SendThrows, LifeOf!Next, LifeOf!Die

LEMMA LifeBegins ==
  ASSUME IInv, ~crashed, Discover
  PROVE  /\ \A k \in DOMAIN lives : k \in DOMAIN lives' /\ lives'[k] = lives[k]
         /\ \A k \in DOMAIN lives' \ DOMAIN lives : LifeOf(k)!Init'
<1>1. lives \in Seq(Life) /\ Known \in Config
  BY ConfigFacts DEF IInv, TypeOK, Known
<1>2. Known.audio \in BOOLEAN
  BY <1>1 DEF Config
<1>3. lives' = Append(lives, NewLife(Known.audio)) /\ UNCHANGED crashed
  BY DEF Discover, DiscoverAt
<1>4. NewLife(Known.audio) \in Life
  BY <1>2, NewLifeFacts
<1>5. lives'[Len(lives) + 1] = NewLife(Known.audio)
  BY <1>1, <1>3, <1>4, AppendFacts
<1>6. crashed' = FALSE
  BY <1>3 DEF IInv, TypeOK
<1>7. /\ DOMAIN lives' = DOMAIN lives \cup {Len(lives) + 1}
      /\ \A k \in DOMAIN lives : lives'[k] = lives[k]
  BY <1>1, <1>3, <1>4, AppendFacts
<1>8. ASSUME NEW k, k = Len(lives) + 1 PROVE LifeOf(k)!Init'
  BY <1>5, <1>6, <1>8 DEF LifeOf!Init, NewLife
<1> QED BY <1>7, <1>8

\* A step of one session, or of none, is a step of SessionLife for each of them.
LEMMA StepKeepsLife ==
  ASSUME IInv, SetUp, [Next]_vars
  PROVE  /\ \A k \in DOMAIN lives : k \in DOMAIN lives' /\ [LifeOf(k)!Next]_(LifeOf(k)!vars)
         /\ \A k \in DOMAIN lives' \ DOMAIN lives : LifeOf(k)!Init'
<1> DEFINE Goal == /\ \A k \in DOMAIN lives : /\ k \in DOMAIN lives'
                                              /\ [LifeOf(k)!Next]_(LifeOf(k)!vars)
                   /\ \A k \in DOMAIN lives' \ DOMAIN lives : LifeOf(k)!Init'
<1>0. crashed \in BOOLEAN
  BY DEF IInv, TypeOK
<1>1. CASE UNCHANGED <<lives, sessions, crashed>>
  BY <1>1, LifeStands
<1>2. CASE ~crashed /\ Discover
  <2>1. crashed' = FALSE
    BY <1>0, <1>2 DEF Discover, DiscoverAt
  <2>2. \A k \in DOMAIN lives : UNCHANGED LifeOf(k)!vars
    BY <1>0, <1>2, <2>1, LifeBegins, LifeStands
  <2> QED BY <1>2, <2>2, LifeBegins
<1>3. ASSUME ~crashed, NEW k \in DOMAIN lives,
             Listening(k) \/ SocketError(k) \/ StartSession(k) \/ Disconnect(k)
      PROVE  Goal
  <2>1. UNCHANGED crashed
    BY <1>3 DEF Listening, SocketError, StartSession, Disconnect, SetLife
  <2>2. lives \in Seq(Life)
    BY DEF IInv, TypeOK
  <2>3. DOMAIN lives' = DOMAIN lives /\ \A j \in DOMAIN lives : j # k => lives'[j] = lives[j]
    BY <1>3, <2>2 DEF Listening, SocketError, StartSession, Disconnect, SetLife
  <2>4. \A j \in DOMAIN lives : j # k => UNCHANGED LifeOf(j)!vars
    BY <1>0, <1>3, <2>1, <2>3, LifeStands
  <2>5. [LifeOf(k)!Next]_(LifeOf(k)!vars)
    BY <1>3, <2>1, LifeMoves
  <2> QED BY <2>3, <2>4, <2>5
<1>4. ASSUME ~crashed, NEW k \in DOMAIN lives, SendThrows(k) PROVE Goal
  <2>1. UNCHANGED <<lives, sessions>>
    BY <1>4 DEF SendThrows
  <2>2. \A j \in DOMAIN lives : j # k => UNCHANGED LifeOf(j)!vars
    BY <1>0, <1>4, <2>1, LifeDies, LifeStands
  <2> QED BY <1>4, <2>1, <2>2, LifeDies
<1>5. CASE ~crashed /\ (Rotate \/ Mirror)
  <2>1. UNCHANGED <<lives, sessions>>
    BY <1>5 DEF Rotate, Mirror
  <2>2. UNCHANGED crashed \/ ~cameras.known
    BY <1>5 DEF Rotate, Mirror
  <2>3. CASE ~cameras.known
    <3>1. \A k \in DOMAIN lives : k # sessions
      BY <2>3 DEF SetUp, IInv, TypeOK, NoLife
    <3> QED BY <2>1, <3>1, LifeStands
  <2> QED BY <1>1, <2>1, <2>2, <2>3
<1> QED
  BY <1>1, <1>2, <1>3, <1>4, <1>5
     DEF Next, vars, CameraLeaves, CameraComes, SearchStarts, SearchFails, Frame, Audio,
         AskVideo, AskAudio, Admit, ClientLeaves, Leave

\* However often the camera is lost and found, each of its sessions lives as
\* SessionLife says, and only the one in use ends the process.
THEOREM RegistryKeepsLives == SafetySpec => SessionsKeepLife
<1>1. SafetySpec => []SetUp
  BY SetUpInit, SetUpNext, RegistryInvariant, PTL DEF SafetySpec
<1> QED BY <1>1, StepKeepsLife, RegistryInvariant, PTL DEF SafetySpec, SessionsKeepLife
=============================================================================
