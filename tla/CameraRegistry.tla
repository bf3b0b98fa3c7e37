---------------------------- MODULE CameraRegistry ----------------------------
(***************************************************************************)
(* What the HTTP server keeps of one camera while it is lost and found     *)
(* again and browsers come and go: discovery.ts and the listeners and      *)
(* request handlers of http_server.ts.  The camera is a constant, devId;   *)
(* others have entries of their own.                                       *)
(*                                                                         *)
(* A session is shown by what the registry can tell of it.  Its inner      *)
(* working is module Session, what may be relied on of it SessionLife: it  *)
(* ends once, by "disconnect", and does nothing afterwards; after an error *)
(* of its socket the next send throws.                                     *)
(***************************************************************************)
EXTENDS Naturals, Sequences

CONSTANTS
    Client,          \* responses of the HTTP server, each to one request
    Configured,      \* settings that a configuration file may give the camera
    MaxLives,        \* bound: sessions made for the camera
    MaxDepartures    \* bound: how often the camera leaves the network

ASSUME LivesAssumption == MaxLives \in Nat
ASSUME DeparturesAssumption == MaxDepartures \in Nat

VARIABLES
    here,            \* the camera is on the network
    departures,      \* how often it left
    search,          \* the socket of discoverDevices
    lives,           \* every session made, in order
    sessions,        \* sessions[devId], a number of `lives`, or NoLife
    cameras,         \* config.cameras[devId]
    responses,       \* responses[devId]
    audioResponses,  \* audioResponses[devId]
    client,          \* what became of each response
    seen,            \* history: clients that got a picture, or sound
    crashed          \* an exception ended the process

lists == <<responses, audioResponses, client, seen>>
network == <<here, departures, search>>
vars == <<network, lives, sessions, cameras, lists, crashed>>

NoLife == 0

Life == [sock : {"binding", "open", "failed", "closed"},
         started : BOOLEAN,
         connected : BOOLEAN,
         streaming : BOOLEAN,       \* logged in, the video started
         audio : BOOLEAN]           \* the front end listens to "audio"

NewLife(audio) ==
    [sock |-> "binding", started |-> FALSE, connected |-> TRUE,
     streaming |-> FALSE, audio |-> audio]

\* config.cameras[devId]; a setting that the configuration file leaves out has its
\* default.  An entry that is not `known` is undefined.
Config == [known : BOOLEAN, rotate : 0 .. 3, mirror : BOOLEAN, audio : BOOLEAN]
Default == [known |-> TRUE, rotate |-> 0, mirror |-> FALSE, audio |-> TRUE]
Undefined == [known |-> FALSE, rotate |-> 0, mirror |-> FALSE, audio |-> TRUE]

ASSUME ConfiguredAssumption == Configured \subseteq Config

\* `life` is the session at the time of the request.
Response == [stream : {"video", "audio"}, open : BOOLEAN, life : Nat \ {NoLife}]
Unused == [stream |-> "none", open |-> FALSE, life |-> NoLife]

Init ==
    /\ here \in BOOLEAN
    /\ departures = 0
    /\ search = "binding"
    /\ lives = <<>>
    /\ sessions = NoLife
    /\ cameras \in Configured \cup {Undefined}
    /\ responses = {}
    /\ audioResponses = {}
    /\ client = [c \in Client |-> Unused]
    /\ seen = {}
    /\ crashed = FALSE

-----------------------------------------------------------------------------
\* The camera.
CameraLeaves ==
    /\ here
    /\ departures < MaxDepartures
    /\ here' = FALSE
    /\ departures' = departures + 1
    /\ UNCHANGED <<search, lives, sessions, cameras, lists, crashed>>

CameraComes ==
    /\ ~here
    /\ here' = TRUE
    /\ UNCHANGED <<departures, search, lives, sessions, cameras, lists, crashed>>

-----------------------------------------------------------------------------
\* discoverDevices: LanSearch is sent every 3 s from "listening" on, until an
\* error closes the socket.
SearchStarts ==
    /\ search = "binding"
    /\ search' = "open"
    /\ UNCHANGED <<here, departures, lives, sessions, cameras, lists, crashed>>

SearchFails ==
    /\ search # "closed"
    /\ search' = "closed"
    /\ UNCHANGED <<here, departures, lives, sessions, cameras, lists, crashed>>

\* config.cameras[devId] after discovery: the defaults, overridden.
Known == IF cameras.known THEN cameras ELSE Default

DiscoverAt(config) ==
    /\ search = "open"
    /\ Len(lives) < MaxLives
    /\ lives' = Append(lives, NewLife(config.audio))
    /\ sessions' = Len(lives) + 1
    /\ cameras' = config
    /\ responses' = {}
    /\ audioResponses' = {}
    /\ UNCHANGED <<network, client, seen, crashed>>

DiscoverAgain == DiscoverAt(Known)      \* Deviation: "already discovered" is left out

\* A PunchPkt: the camera's answer, which may be late.  Ignored while the camera
\* is in sessions.
Discover == sessions = NoLife /\ DiscoverAt(Known)

-----------------------------------------------------------------------------
\* The session, as far as the registry goes.
SetLife(k, life) ==
    /\ lives' = [lives EXCEPT ![k] = life]
    /\ UNCHANGED <<network, sessions, cameras, lists, crashed>>

Listening(k) ==
    /\ lives[k].sock = "binding"
    /\ SetLife(k, [lives[k] EXCEPT !.sock = "open", !.started = TRUE])

\* Only the socket is closed.  A session that has not started has no timer that
\* would find out.
SocketError(k) ==
    /\ lives[k].sock \in {"binding", "open"}
    /\ SetLife(k, [lives[k] EXCEPT !.sock = "failed"])

SendThrows(k) ==
    /\ lives[k].sock = "failed" /\ lives[k].started
    /\ crashed' = TRUE
    /\ UNCHANGED <<network, lives, sessions, cameras, lists>>

\* The login exchange, then startVideoStream.
StartSession(k) ==
    /\ lives[k].sock = "open" /\ ~lives[k].streaming
    /\ SetLife(k, [lives[k] EXCEPT !.streaming = TRUE])

DisconnectKeepsEntry(k) ==              \* Deviation: delete sessions[devId] is left out
    /\ lives[k].sock = "open"
    /\ SetLife(k, [lives[k] EXCEPT !.sock = "closed", !.connected = FALSE])

DisconnectStaysConnected(k) ==          \* Deviation: session.connected is left as it is
    /\ lives[k].sock = "open"
    /\ SetLife(k, [lives[k] EXCEPT !.sock = "closed"])

\* "disconnect": the timeout, or the camera's Close.
Disconnect(k) ==
    /\ lives[k].sock = "open"
    /\ lives' = [lives EXCEPT ![k].sock = "closed", ![k].connected = FALSE]
    /\ sessions' = NoLife
    /\ UNCHANGED <<network, cameras, lists, crashed>>

\* The "frame" and "audio" listeners write to all in the camera's list.
Frame(k) ==
    /\ lives[k].sock = "open" /\ lives[k].streaming
    /\ seen' = seen \cup responses
    /\ UNCHANGED <<network, lives, sessions, cameras, responses, audioResponses,
                   client, crashed>>

Audio(k) ==
    /\ lives[k].sock = "open" /\ lives[k].streaming /\ lives[k].audio
    /\ seen' = seen \cup audioResponses
    /\ UNCHANGED <<network, lives, sessions, cameras, responses, audioResponses,
                   client, crashed>>

-----------------------------------------------------------------------------
(***************************************************************************)
(* Requests.  One for a camera that is not in sessions, or not connected,  *)
(* is refused and changes nothing.                                         *)
(***************************************************************************)
Online == sessions # NoLife /\ lives[sessions].connected

Admit(c, stream) ==
    /\ client[c] = Unused
    /\ Online
    /\ client' = [client EXCEPT ![c] = [stream |-> stream, open |-> TRUE, life |-> sessions]]
    /\ UNCHANGED <<network, lives, sessions, cameras, seen, crashed>>

AskVideoReplaces(c) ==          \* Deviation: the last viewer replaces the others
    /\ Admit(c, "video")
    /\ responses' = {c}
    /\ UNCHANGED audioResponses

AskVideo(c) ==
    /\ Admit(c, "video")
    /\ responses' = responses \cup {c}
    /\ UNCHANGED audioResponses

AskAudio(c) ==
    /\ Admit(c, "audio")
    /\ audioResponses' = audioResponses \cup {c}
    /\ UNCHANGED responses

Leave(c) ==
    /\ client[c] # Unused /\ client[c].open
    /\ client' = [client EXCEPT ![c].open = FALSE]
    /\ UNCHANGED <<network, lives, sessions, cameras, audioResponses, seen, crashed>>

ClientLeavesInverted(c) ==      \* Deviation: the filter keeps the one that left
    /\ Leave(c)
    /\ responses' = IF client[c].stream = "video" THEN responses \cap {c} ELSE responses

\* The response of a video stream takes itself out of whatever list is the camera's
\* by now; that of an audio stream has no close listener.
ClientLeaves(c) ==
    /\ Leave(c)
    /\ responses' = IF client[c].stream = "video" THEN responses \ {c} ELSE responses

\* /rotate and /mirror ask neither for a session nor for the entry they change.
Rotate ==
    /\ \/ /\ cameras.known
          /\ cameras' = [cameras EXCEPT !.rotate = (@ + 1) % 4]
          /\ UNCHANGED crashed
       \/ /\ ~cameras.known
          /\ crashed' = TRUE
          /\ UNCHANGED cameras
    /\ UNCHANGED <<network, lives, sessions, lists>>

Mirror ==
    /\ \/ /\ cameras.known
          /\ cameras' = [cameras EXCEPT !.mirror = ~@]
          /\ UNCHANGED crashed
       \/ /\ ~cameras.known
          /\ crashed' = TRUE
          /\ UNCHANGED cameras
    /\ UNCHANGED <<network, lives, sessions, lists>>

Next ==
    /\ ~crashed
    /\ \/ CameraLeaves
       \/ CameraComes
       \/ SearchStarts
       \/ SearchFails
       \/ Discover
       \/ \E k \in DOMAIN lives :
            \/ Listening(k)
            \/ SocketError(k)
            \/ SendThrows(k)
            \/ StartSession(k)
            \/ Disconnect(k)
            \/ Frame(k)
            \/ Audio(k)
       \/ \E c \in Client :
            \/ AskVideo(c)
            \/ AskAudio(c)
            \/ ClientLeaves(c)
       \/ Rotate
       \/ Mirror

SafetySpec == Init /\ [][Next]_vars

(***************************************************************************)
(* The operating system answers bind; while the camera is there it answers *)
(* LanSearch, logs in and sends pictures; when it is silent the session's  *)
(* timer ends the session, as Session!SilenceIsNoticed says.               *)
(***************************************************************************)
Fairness ==
    /\ WF_vars(~crashed /\ SearchStarts)
    /\ WF_vars(~crashed /\ here /\ Discover)
    /\ \A k \in 1 .. MaxLives :
         /\ WF_vars(~crashed /\ k \in DOMAIN lives /\ Listening(k))
         /\ WF_vars(~crashed /\ k \in DOMAIN lives /\ here /\ StartSession(k))
         /\ WF_vars(~crashed /\ k \in DOMAIN lives /\ here /\ Frame(k))
         /\ WF_vars(~crashed /\ k \in DOMAIN lives /\ ~here /\ Disconnect(k))

Spec == SafetySpec /\ Fairness

-----------------------------------------------------------------------------
\* Every variable has its type; a rotation is one of the four that oMap knows.
TypeOK ==
    /\ here \in BOOLEAN
    /\ departures \in 0 .. MaxDepartures
    /\ search \in {"binding", "open", "closed"}
    /\ lives \in Seq(Life)
    /\ Len(lives) <= MaxLives
    /\ sessions \in 0 .. Len(lives)
    /\ cameras \in Config
    /\ responses \subseteq Client
    /\ audioResponses \subseteq Client
    /\ client \in [Client -> Response \cup {Unused}]
    /\ seen \subseteq Client
    /\ crashed \in BOOLEAN

\* The camera has at most one session at work, and sessions[devId] is it: the late
\* end of a session never takes the entry of the next one, and none works on unseen.
OneSession == \A k \in DOMAIN lives : lives[k].connected <=> k = sessions

\* Who is in the lists of the camera: the viewers of its last session that did not
\* leave, and every listener of that session, also those that left.  Who watched an
\* earlier session is in no list any more, its response still open: discovery
\* replaces the lists, and nothing ends the responses in them.
ListsAreOfLastSession ==
    /\ responses = {c \in Client : /\ client[c].stream = "video"
                                   /\ client[c].open
                                   /\ client[c].life = Len(lives)}
    /\ audioResponses = {c \in Client : /\ client[c].stream = "audio"
                                        /\ client[c].life = Len(lives)}

\* A camera that is found or lost keeps the rotation and the mirroring it was given.
SettingsKept == [][lives' # lives /\ cameras.known => cameras' = cameras]_vars

\* Every session made starts its life anew, and those that are left behind by a
\* rediscovery keep what they came to: only the session in use can end the process.
\* What the registry takes a session to do is what module Session shows it does.
LifeOf(k) == INSTANCE SessionLife
    WITH sock <- lives[k].sock, started <- lives[k].started,
         connected <- lives[k].connected, dead <- crashed /\ k = sessions
SessionsKeepLife ==
    [][/\ \A k \in DOMAIN lives : k \in DOMAIN lives' /\ [LifeOf(k)!Next]_(LifeOf(k)!vars)
       /\ \A k \in DOMAIN lives' \ DOMAIN lives : LifeOf(k)!Init']_vars

Broken == sessions # NoLife /\ lives[sessions].sock = "failed"

\* Whoever asks for video gets a picture, unless the viewer leaves or the session
\* ends first - whatever other viewers come and go.
Viewing(c) == client[c].open /\ client[c].stream = "video" /\ client[c].life = sessions
ViewersServed ==
    \A c \in Client : Viewing(c) ~> c \in seen \/ ~Viewing(c) \/ Broken \/ crashed

\* A camera that stays on the network is streamed (again), if need be by a new
\* session: unless the discovery socket or that of a session failed, which nothing
\* repairs.
CameraComesBack ==
    here ~> \/ sessions # NoLife /\ lives[sessions].sock = "open" /\ lives[sessions].streaming
            \/ ~here
            \/ Broken \/ search = "closed" \/ crashed
            \/ sessions = NoLife /\ Len(lives) = MaxLives
=============================================================================
