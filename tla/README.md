# Specification of cam-reverse-rtsp

TLA+ modules for the part of cam-reverse-rtsp that talks to the cameras, the
TLC configurations that check them on small instances, and TLAPS proofs of
their safety properties for all values of the parameters.  Everything is
translated from the TypeScript sources in `src/`; `PROJECT.json` maps every
definition to the lines it stands for.

## 1. The system

The program finds cheap cameras on the local network, logs in to each one over
a UDP protocol (iLnkP2P), collects the JPEG pictures and the sound they send
and passes them on to browsers (HTTP) or to video recorders (RTSP).  It is a
single Node.js process: one thread and an event loop.  A callback runs to its
end before another starts, so every callback is one action; what interleaves
are callbacks - packets, timers, socket events, requests - and, in one place
only, the two halves of a handler around an `await` (SETUP over UDP in
`rtsp_server.ts`).

| Component | Source | State | Operations |
|---|---|---|---|
| Command channel | `session.ts`, `impl.ts`, `handlers.ts` | `outgoingCommandId`, `ticket`, `unackedDrw` | build and send a command, acknowledge, resend timer, login |
| Session life | `session.ts`, `handlers.ts` | socket, `started`, `connected`, `timers`, `lastReceivedPacket` | listening, socket error, dispatch of packets, `sessTimer`, `disconnect` |
| Frame assembly | `handlers.ts` | `curImage`, `rcvSeqId`, `frame_is_bad`, `frame_was_fixed` | `deal_with_data`, "frame" event |
| Discovery | `discovery.ts` | one socket, one interval per address | broadcast `LanSearch`, `PunchPkt` to "discover" |
| HTTP server | `http_server.ts` | `sessions`, `responses`, `audioResponses`, `config.cameras` | discover, disconnect, frame, audio, requests, close of a client |
| RTSP server | `rtsp_server.ts` | per connection `buf`, `processing`, `activeSessId`; `rtspSessions`; `camSessions` | requests, close, RTCP timer, discover, disconnect |
| RTP packetizer | `rtsp_server.ts` | `seqNum`, `timestamp`, `packetCount`, `octetCount` | `sendFrameOverTcp`, `buildRtpPacket` |
| Transcoder | `transcoder.ts`, `rtsp_server.ts` | GStreamer process, UDP socket, `transcoders` | start, write, exit and restart, close |
| Pairing | `pair.ts` | `sessions`, `configured` | discover, login, ListWifi, disconnect |
| Single capture | `capture_single.ts` | `sessions` | discover, first frame, close |
| Obfuscation | `func_replacements.js` | none | `XqBytesEnc`, `XqBytesDec` |
| The rest | `cmd/bin.ts`, `settings.ts`, `logger.ts`, `exif.ts`, ... | none that matters | options, configuration file, logging, EXIF bytes |

How they interact: discovery emits "discover"; the front end in use (HTTP,
RTSP, pair or capture) then calls `makeSession`, which opens a socket and two
timers.  `handleIncoming` dispatches each packet to its handler; the handlers
send through the session and emit "login", "frame", "audio", "ListWifi" on its
event emitter; the front end listens.  "disconnect" is emitted by the timeout,
by the handler of `Close` and by `close()`; first the listener of `makeSession`
runs, then that of the front end, which forgets the camera, so that the next
`PunchPkt` starts a new session.

What is hard:

- **An unreliable network.**  Commands and their acks are lost, late and
  repeated; a command is resent *under a new id*, so an ack may name an id that
  was given up, or given to another command.  Ids have 16 bits.
- **Packets out of order or missing inside a picture**, with only a
  16-bit id to tell and an optional repair at JPEG reset markers.
- **Timers against answers**: the 400 ms keepalive timer, the 500 ms resend
  timer, both possibly late, against the camera's packets and its `Close`.
- **Use after the end**: sending on, or closing, a closed socket throws, and an
  uncaught exception ends the process and with it every other camera.
- **A camera that comes back**: registries keyed by camera id outlive sessions.
- **The `await` in SETUP**: the connection may close, or send more, meanwhile.

`PROJECT.json` lists these, line by line, as hazards.

## 2. What is modelled

### CommandChannel (and CommandDelivery, its abstraction)

Numbering, tracking and resending of commands, the acks, the login exchange.

| Model | Code |
|---|---|
| `outgoingCommandId`, `Wire` | the counter, as the 16 bits `writeU16` leaves of it |
| `unackedDrw` | `session.unackedDrw`: wire id to command; the packet's bytes are the command's number |
| `issued[n]` | what command `n` is: its kind and the ticket in its bytes, for ever the same |
| `Issue` | `makeDataReadWrite` then `Session.send`, for each command of a handler |
| `HandleP2PRdy`, `HandleConnectUserAck`, `HandleDrwAck` | the handlers of those packets; "login" and the `onLogin` callback run inside the second |
| `ResendTimer` | the 500 ms timer: every command older than 100 ms, in the order of `Object.entries`, moves to the next id |
| `Disconnect` | the "disconnect" event |
| `toCamera`, `acks`, `executed`, `CameraReceives`, `Lose` | the camera and UDP (environment) |

`MCCommandChannel` gives the two login sequences the program has:
`StreamLogin` (`startVideoStream`) and `PairLogin` (`onLogin` of `pair.ts`).

`CommandDelivery` says what the channel is for: a command is kept until the
camera has carried it out at least once; while the session is open it is
carried out eventually.  It promises neither order nor "at most once", and the
code provides neither: resends are new packets to the camera.

Bounds: `MaxCommands` commands in one session, and `RoomFor`: a command is sent
only when the ids it takes and those of the next two resend rounds are free.
With 65,536 ids that only excludes tens of thousands of unacknowledged
commands within a second; with the 5 or 6 ids of the runs it lets the counter
wrap again and again.  That a packet or ack under an id that is reused is gone is
an assumption about the network: no datagram is delayed for the 65,536 commands
and resends of a turn of the counter.  An ack that came a whole turn late would
settle another command, and the code could not tell.

Properties: `NoCommandLost`, `ResendFindsFreeIds`,
`CommandsCarryTicket`, the refinement `KeepsCommands` and the liveness
refinement `DeliversCommands`.  `TypeOK`, `TrackedOnce`, `RoomForRounds` and
`AckUnambiguous` (what is in flight under a tracked id is of the command tracked
there, acks of ids given up included) are parts of the inductive invariant and are
proved with it.

### Session (and SessionLife, its abstraction)

The life of a session against a discrete clock (unit 100 ms): binding,
`P2pRdy`, the dispatch of packets, the keepalive timer with its timeout,
errors of the socket, the end.  The commands themselves are abstracted:
`ResendTimer` may or may not have something to send.

| Model | Code |
|---|---|
| `sock`, `started`, `connected`, `timers` | the socket; fields of the session |
| `idle` | `Date.now() - lastReceivedPacket`; initially the largest value, as `lastReceivedPacket` is 0 |
| `phase`, `Tick` | age of the interval `sessTimer`; it may run up to `MaxLag` late |
| `HandleAlive`, `HandleAliveAck` | the two keepalive packets, which do *not* stamp `lastReceivedPacket` |
| `HandleOther`, `HandleLastFrame`, `HandleClose`, `HandleUnlisted` | all other packets, by what they do to the session's life |
| `HandleListenerThrows` | a listener of a front end throws inside a handler (a file that cannot be written, for one) |
| `SessTimer`, `ResendTimer`, `Listening`, `SocketError`, `Disconnect` | the callbacks of those names |
| `crashed`, `cause` | an uncaught exception; history of why the session ended |
| `silence`, `quiet` | history clocks: since the camera last spoke, since the session last sent |

Clocks saturate at `Ceiling`, above every value the code compares with.

Properties: `SilenceIsNoticed`, `PolledWhileSilent`, `TimeoutHasCause`,
`CrashHasCause`, `EndIsFinal`, `KeepsLife`.  `SilenceIsNoticed` says that a silent camera is
given up in time, `TimeoutHasCause` that no other is - save one that has not
answered when `sessTimer` first fires, as `lastReceivedPacket` starts at 0.

`SessionLife` is what the front ends see of a session: it starts once, ends once
and from a working socket, and throws only on a packet (one it cannot read, or one
whose listener throws) or through a socket that failed.  It knows no clock and no packet.  `KeepsLife` shows that a
session implements it (a socket closed while the session is connected was closed
by an error), and `CameraRegistry!SessionsKeepLife` and
`SingleCapture!CaptureKeepsLife` that the HTTP server's registry and the capture
take no more of each of their sessions: what one module assumes, the other shows.

### FrameAssembly

`deal_with_data`: how packets become pictures.  The camera numbers its packets
1, 2, 3, ...; the session sees numbers modulo `IdSpace`.  A slice of a picture
is the number of the packet it came from and the ends it was cut at; whether it
has JPEG reset markers is a property of the packet ("marked", "bare").  Sound
and other packets that take an id and have no part in a picture are "aside".
Every stream is tried over three networks: one that keeps every packet, one
that loses some, one that delivers in any order and repeatedly.

Bounds: `Window` (how late a packet arrives) and `Fresh` (some start packet
arrives within `IdSpace` packets - a picture is some dozens of packets).

Properties: `HolesAreSpliced`, `OnlyFirstIsHeadless`, `LossInsideNoticed`,
`NothingSkippedUntilWrap`, `ShownInOrder`.

### RtspConnections (and StreamLife, its abstraction)

The control connections of the RTSP server: `data`, `close`, and the sessions
that SETUP makes and TEARDOWN or the close event ends.

| Model | Code |
|---|---|
| `buf`, `processing`, `activeSessId` | the variables of the connection listener; `buf` holds whole requests, each with its number |
| `running` | the connection whose listener holds the thread; requests of the same segment arrive while it does |
| `awaiting`, `HandleSetupUdp`, `UdpBound` | the two halves of SETUP around its `await`; any other callback may run between them |
| `sessions`, `rtspSessions` | every `RtspSession` object made, and the `Map` from ids to them |
| `intervals` of a session | how many report intervals run for it, of which `rtcpTimer` is the last one |
| `tcp`, `ClientLeaves`, `CloseEvent` | a destroyed socket has its close event pending |
| `Cleaned`, `CleanUp` | `clearInterval`, `udpSocket.close()` and `rtspSessions.delete`, in TEARDOWN and in the close listener |
| `UdpError` | an error event of a session's UDP socket: nobody listens, the process ends |

OPTIONS, DESCRIBE, GET_PARAMETER and unknown methods answer and change
nothing; they are one request, "OPTIONS".  Session ids are random in the code
and numbers per connection here; a client names only ids it was given on this
connection (one that names another's could end that session: the code does not
check, and this model does not cover it).

Properties: `AnsweredInOrder`, `NothingLeftUnread`, `SendsThroughOpenSocket`,
`NothingLeftBehind`, the refinement `SessionsStream` and the liveness property
`RequestsAnswered`.  `TypeOK` is part of the invariant and proved with it.
`NothingLeftBehind` says what the code achieves and where it stops: a session
bound after its connection was closed, one forgotten by a second SETUP, and the
interval of an earlier PLAY are not released.

`StreamLife` is what the frame listener relies on of a session: set up, played,
destroyed, each once and in this order.  A session of the code is not that
simple: SETUP under an id that is in use replaces the object in the Map, PLAY may
name any id, TEARDOWN and the close event work on an id and not on an object, and
the socket of a SETUP may be bound after its connection is gone.  `SessionsStream`
shows that every *object* lives like that all the same: what is in the Map, plays
and has an open connection does so over one stretch of time.  On the other side
`RtpSender` shows of each of its sessions that it follows `StreamLife` too, so
what it takes to be a session is what the connections provide.

### RtpSender

What those sessions are sent, and what a client can make of it: the frame
listener of the RTSP server with `sendFrameOverTcp`, `buildRtpPacket` and the
sender reports, or the packets of GStreamer passed on by `forwardRtp`; on the
other side a receiver of RFC 2435 (environment).

| Model | Code |
|---|---|
| `state`, `udp`, `goodPort` | `playing` and `socket.destroyed` of a session, its transport, and whether `client_port` was a port number |
| `seqNum`, `timestamp`, `packetCount`, `octetCount` | the fields of a session; a timestamp is counted in `TIMESTAMP_INCREMENT`s |
| `jpeg`, `todo` | the frame the listener works on and the sessions its loop has not come to: a frame is sent fragment by fragment, so that a failing `send` stops in the middle |
| `SendFragment`, `FrameSent`, `SendThrows` | the loop of `sendFrameOverTcp`, its end, its `catch` |
| a picture `[header, tables, segments, sof0, sos, scan]` | what `parseJpegDimensions`, `extractQTables` and the search for the SOS find in the octets; the octets themselves are left out |
| `pipeline`, `NewPipeline` | GStreamer: packets numbered by its own process |
| `Receive`, `Lose`, `rx`, `shown` | a player: a picture from offset 0 on, given up at a gap, shown at the marker |
| `sent`, `relayed`, `turn`, `owed`, `due` | histories |

Properties: `PicturesWhole`, `SequenceUnbroken`, `ReportsTrue`, `FramesReachAll`,
`NothingLostOverTcp`.  `FramesReachAll` is about sends that throw: whether
`client_port` is a port is settled at SETUP, every send to a session where it is
not throws in the middle of the listener's loop, and the sessions behind it get
the frame all the same.  `ReportsTrue` is exact and so also says that with
GStreamer every report counts nothing: `forwardRtp` does not touch the
counters.  `extractQTables` keeps one octet too many of a segment with two
tables, and of the tables only the first fragment speaks (`q`).

Bound: `MaxFrames` is at most the number of timestamps, named in
`SpaceAssumption`.  Timestamps advance by 6000 modulo 2^32 and so repeat after
2^32 / 16 = 2^28 pictures (16 is what 6000 and 2^32 have in common): a client that
got the first fragment of one picture and then, with everything between lost, the
second fragment of the 2^28th picture after it would take them for one.

### Transcoder

The GStreamer processes behind one camera: `createTranscoder`, and what the
"discover", "disconnect" and "exit" listeners of the RTSP server do to them.

| Model | Code |
|---|---|
| `present`, `registered` | `devId in camSessions`, `transcoders[devId]` |
| `tcs[t]` | every transcoder created, with its variables `gstProcess`, `stdinBackpressure`, its UDP socket, and `os`, its process as the operating system sees it |
| `fed` | the transcoder in the closure of the session's frame listener |
| `Bound`, `BindError`, `SpawnError` | the outcomes of `bind` and `spawn` |
| `GstDies`, `GstCloses` | the end of the process, and the "close" event that reports it later |
| `Frame`, `Drain`, `PendingWriteFails` | `writeJpeg`, the pipe's "drain" event, and the error of a write that the process died on |
| `displaced` | history: transcoders dropped at the exit of another one |

The exit listener asks whether the camera is in `camSessions`, not whether
`transcoders[devId]` is the transcoder that exited.  If a camera is lost and
found again before the old process is reported dead, the report replaces the
new transcoder, whose process nobody will close.  That is a fault of the code, and
`OneProcess` and `SocketsClosed` say how far it goes: each such exit drops the one
transcoder registered then, which `displaced` remembers, and of all others they
hold before and after.

`CrashedIsReplaced` is the promise of the exit listener, with its limits: only
the transcoder made at discovery has that listener, and frames go on to that
one.

### CameraRegistry

What the HTTP server keeps of one camera while it is lost and found again and
browsers come and go.  Other cameras have entries of their own.

| Model | Code |
|---|---|
| `search`, `SearchStarts`, `SearchFails` | the socket of `discoverDevices`; an error closes it for good |
| `lives`, `sessions` | every session made, and `sessions[devId]` |
| `cameras` | `config.cameras[devId]`: rotation, mirroring, sound |
| `responses`, `audioResponses` | the lists of responses that pictures and sound are written to |
| `client` | what became of each response: its stream, whether it is open, the session it was asked of |
| `Discover` | the "discover" event; ignored while the camera is in `sessions` |
| `Listening`, `StartSession`, `Disconnect`, `SocketError`, `SendThrows` | a session as the registry sees it; its inner working is `Session` |
| `Frame`, `Audio` | the listeners of those events |
| `AskVideo`, `AskAudio`, `ClientLeaves`, `Rotate`, `Mirror` | the requests, and the close event of a video response |
| `here`, `departures` | the camera on the network (environment) |

A session may also end the process for the reasons module `Session` has (a
short `Close`); only the one that follows from a failed socket is repeated here.

Properties: `OneSession`, `ListsAreOfLastSession`, the refinement
`SessionsKeepLife` (each session by itself), and the liveness properties
`ViewersServed` and `CameraComesBack`.  That discovery keeps the settings of a
known camera (`SettingsKept`) follows from one line of the code and is proved only.
`ListsAreOfLastSession` is exact, and so also says what the code does not do:
viewers of a session that ended are in no list after the next discovery though
their responses stay open, and listeners who left stay in theirs.
`CameraComesBack` names the two failures that nothing repairs: the discovery
socket, and a session whose socket could not be bound.

### Pairing (with XqBytes)

The `pair` command and one camera, over the sessions it has with it.  The
commands of a session are those of `CommandDelivery`: `Pairing` extends it, and
so assumes of the channel just what `CommandChannel` is shown to implement.

| Model | Code |
|---|---|
| `open` | `sessions[dev.devId]` of `pair.ts`, and the session's own life |
| `kinds` | the kind of each command of the session |
| `configured` | the flag of the "discover" callback |
| `ListWifiAck` | the camera's listing (environment): items one after the other, obfuscated as a whole, cut at what a packet holds |
| `Decoded` | the arithmetic on `payload_len` in `createResponseForControlCommand` |
| `parseListWifi`, `Matches`, `FirstMatch` | the items that are there in full; the places of the network sought, the first of them |
| `HandleListWifiAck`, `ConfigureWifi` | the "ListWifi" listener |
| `XqBytesEnc`, `XqBytesDec` | `func_replacements.js`, as functions of buffers |

A listing that fits is read as it was written.  One that was cut is decoded as
if it ended four octets early, and since the obfuscation rotates, both its ends
come out wrong: the first name and the last channel.  `ConfiguredAsScanned` says
exactly that.  Properties: `ConfiguredOnce`, `ConfiguredAsScanned`.  Its one
assumption about listings is `HomeAssumption`: the first four octets of the name
sought, which is text, are not the number of a channel of the listing.  In a cut
listing the name of the first item begins with octets that come from elsewhere, a
channel among them, and must not be the name sought by chance.

Lengths are counted in cells of four octets, the distance of the rotation; a
name is two cells, an item five, which keeps what the ends of a listing are
made of.

### SingleCapture

The `capture` command: the discovery socket, one session per camera that
answers, the file, and how the process ends.

| Model | Code |
|---|---|
| `discovery`, `DiscoveryError`, `PunchThrows` | the socket of `discoverDevices`; its error closes it; a datagram too short for its parser throws |
| `sessions` | `sessions` of `capture_single.ts`, never deleted, and how far each session came |
| `DiscoverCamera` | the "discover" listener, which ignores a camera that has a session, one that is over included |
| `SessionStarts`, `SessionError`, `DisconnectCamera` | the session as `SessionLife` has it; an error before it started leaves it "unbound", one after it "failed" |
| `SendThrows`, `PacketThrows` | a timer of a failed session sends; a packet cannot be read (the short `Close`, a packet without handler) |
| `Frame` | the "frame" listener: `WriteThrows`, `CloseThrows` or `FirstPicture` |
| `outFile` | history: the pictures written to the file, whole or cut |
| `exception` | what ended the process: by whose callback, and of which kind |

The listener writes, closes the discovery socket, closes the session, and what
throws keeps it from the rest.  The write fails before or after the file was
truncated, and perhaps in the middle; closing the discovery socket fails if an
earlier picture or its own error closed it.

`OnePicture` says for the process as long as it lives that the search is closed if
and only if one whole picture is written, whose session is then closed too; and of
each kind of exception in which order it finds the file.  Two of them are worse
than others: a second picture overwrites the first, and if its write fails, what
was a picture is one no more.  `CaptureKeepsLife` shows each session to live as
`SessionLife` says.  The liveness property `EndsAfterPicture` says that after a
picture the process ends, by an exception or as nothing is left open, and names
the one case in which it does not: a session whose socket could not be bound has
timers that never send and never give the camera up.

## 3. What is checked

| Run | Configuration | Kind | Question |
|---|---|---|---|
| `channel` | ids of 6, 4 commands, login of the streaming front ends, network late and repeating | safety | is a command ever lost, mixed up, sent too early? |
| `pair_channel` | ids of 5, 2 commands, login of `pair`, network that also loses | liveness | is every command carried out eventually? |
| `session` | the code's own times: period 400 ms, alive after 600 ms, timeout 5 s, timers up to 200 ms late | safety | timeouts, crashes, the end |
| `frames` | every stream of 6 packets of 4 kinds, ids of 5 starting at 0 and 2, window 2, with and without repair, three networks | safety | what pictures are made of |
| `rtsp` | one connection, any 4 requests | safety, liveness | answers, order, release of what a session holds, the life of each session object |
| `transcoder` | 5 transcoders | safety | processes and sockets |
| `pairing` | 2 sessions, 5 commands each, listings of up to 4 networks of which 3 fit | safety | how often, and with what, a camera is configured |
| `rtp` | 2 clients, 2 pictures of 6 kinds, packets of up to 2 octets, 3 sequence numbers, 2 timestamps, 3 packets of GStreamer | safety | what clients can show, numbers, reports, one client's failing sends |
| `capture` | 4 cameras; search, sessions, packets and the file may fail | safety, liveness | one picture, the life of each session, and the end |
| `registry` | 2 clients, 2 sessions, 1 departure, a camera without configuration and one that is turned, mirrored and silent | safety, liveness | sessions, lists, service |

and two runs that end in a counterexample (section 6).

**Why these bounds are enough.**  In the channel a resend takes new ids, so the
counter goes round the id space again and again however few commands there are,
with packets and acks of earlier ids still under way.  With 6 ids `RoomFor` admits
two tracked commands at once, of the four a session may issue, and with 5 ids one:
what the properties relate is two commands, or a command and an id.  A third one
tracked takes 9 ids and too many states; 8 ids were checked as well (7,156,546
states), and the proofs hold for any number.  In the frames, 5 ids against 6 packets of which the first
may be any make an id wrap at every place of a frame; losses, repeats and
overtaking of two packets and two successive losses in one frame fit into 6.
In the session nothing but clocks is bounded, by values above every comparison.
With 4 requests all orders of SETUP, PLAY and TEARDOWN with one repeated fit,
also around an `await`.  Connections share nothing but the Map, whose keys
differ, so one is enough; two with two requests each were checked as well (52,664
states).  Five transcoders are a first one, its
replacement, that of a rediscovered camera, its replacement, and one more.
In the registry two sessions are a loss and a rediscovery, and two clients are
one that asked before and one that asked after it, or two that meet in a list.
In the pairing run 3 items fit because the two ends of a cut listing then differ
from its middle; the network sought is in every place.  For the RTP packets a
picture has up to two fragments, of which the last is full, or is not, or there
is none; both number spaces wrap within two pictures; the second client is the
one that must not suffer from the first.  Four cameras of a capture are one
whose picture comes first, one whose picture comes second, one whose session fails
or falls silent and one that is not found.

Deadlock is not checked: a session, a channel and a connection do end, the
bounded histories are used up, and a crashed process does nothing.

**Fairness.**

- `CommandChannel`: weak fairness of the resend timer (an interval fires as
  long as it is not cleared) and, of the environment, strong fairness of the
  camera carrying out a command that is sent again and again: a network that
  loses every copy of one command for ever delivers nothing, and no code could
  help.  `DeliversCommands` speaks of sessions that stay open.
- `RtspConnections`: weak fairness of what a listener does once it is
  running, which is that JavaScript callbacks run to their end, and that
  binding a socket to any free port is answered by the operating system.
  Nothing is assumed of the client.
- `CameraRegistry`: weak fairness of the operating system's answer to `bind`,
  of a camera that stays on the network (it answers `LanSearch`, which is sent
  every 3 s, logs in and sends pictures), and of the timeout of a session whose
  camera is gone, which is `Session!SilenceIsNoticed`.
- `SingleCapture`: of the operating system, that it answers `bind`; of timers,
  that a session that failed sends in the end, and so throws; of a camera with an
  open session, that it sends a picture in the end or falls silent and is given up
  (`Session!SilenceIsNoticed`).  Nothing is assumed of a session that could not be
  bound, of the search, or of a camera that was not found.
- `Session`, `FrameAssembly`, `Transcoder`, `Pairing` and `RtpSender` are checked for safety only.
  That a silent camera is noticed is a bound on a clock (`SilenceIsNoticed`),
  which is stronger than "eventually".

Every property of a run that passes has a mutant in `PROJECT.json`: a plausible slip in one
definition with which the property fails.

## 4. What is proved

TLAPS checks the theorems below for every value of the constants, from the
named assumptions in the modules: bounds and periods are natural numbers, ids
and the keepalive period are not zero, a camera is polled before it is given up
(`AliveAfter < Timeout`), a packet is less late than the ids last (`Window + 1 <
IdSpace`), the name of the network sought is not made of a channel number
(`HomeAssumption`), and login sequences, streams, listings and settings have their
types.  The bounds of the runs
(`MaxCommands`, `MaxTranscoders`, `MaxLives`, the streams)
are arbitrary there.

| Module | Theorems | The inductive invariant |
|---|---|---|
| `CommandChannel_proofs` | `ChannelInvariant`, `CommandsNotLost`, `AcksNotMistaken`, `ChannelTypeOK`, `ResendsOverwriteNothing`, `TicketCarried`, `ChannelImplementsDelivery` | types; every command issued was carried out or is tracked, none twice; whatever is in flight under a tracked id is of that command |
| `Session_proofs` | `SessionInvariant`, `SessionTypeOK`, `SilentCameraDropped`, `SilentCameraPolled`, `TimeoutsAreDue`, `OnlyErrorsCrash`, `DisconnectIsFinal`, `LongClosesAreOrderly`, `SessionKeepsLife` | the clocks `idle`, `silence`, `quiet` and `phase` related: how long the session has been idle is bounded by what the last firing of the timer saw plus the age of the interval |
| `FrameAssembly_proofs` | `AssemblyInvariant`, `AssemblyTypeOK`, `PicturesHaveNoHoles`, `HeadlessOnlyOnce`, `PicturesShownInOrder`, `LossIsNoticed`, `NothingIsSkipped` | `rcvSeqId` is the id of the last slice; a picture's slices ascend and adjacent ones are consecutive or cut; then, per network, how the slices relate to what was sent |
| `Transcoder_proofs` | `TranscoderInvariant`, `TranscoderTypeOK`, `AtMostOneProcess`, `SocketsAreClosed`, `FirstCrashIsMended` | only the registered transcoder is live, and those that a stale exit dropped; whoever holds a process is live; one that is still binding has no process |
| `CameraRegistry_proofs` | `RegistryInvariant`, `RegistryTypeOK`, `OnlyOneSession`, `ListsAreExact`, `SettingsAreKept`, `RegistryKeepsLives` | only the session made last may be registered; a session is connected until its socket is closed on purpose; no client asked a session yet to come; a camera with a session has its settings |
| `RtspConnections_proofs` | `Invariant`, `Types`, `Ordered`, `AllRead`, `SocketsOpen`, `ReleasedAtClose`, `SessionsLiveOnce`, `ListenersFinish` | of each connection: the flag is set while the listener runs or waits, for one socket at most; the answered, the waiting and the unread requests are `1 .. arrived` in order; the id of an object leads to it or to a later one, and an object in the map has the interval its clean-up will clear |
| `RtpSender_proofs` | `Types`, `Sending`, `ReportsCountWhatWasSent`, `NumbersUnbroken`, `OnlyWholePictures`, `AllShownOverTcp`, `EveryFrameSent` | of each session: its packets are consecutive, cover each completed picture from offset 0 to its marker, and the counters are those of the packets; a frame due to it was sent or it is still in the list; of each receiver: what it has gathered is the beginning of one picture |
| `PairAndCapture_proofs` | `CameraConfiguredOnce`, `ChannelAsScanned`, `PairGoesInOrder`, `PairUsesDelivery`, `CaptureWritesOnce`, `CaptureKeepsLives`, `DecUndoesEnc`, `CutSpoilsBothEnds` | of pairing: a session that is not `configured` has not sent `WifiSettingsSet`, and none sent it twice; a command is preceded by one the camera carried out that it answers. Of a capture: the property itself, with types: that the search is closed by a picture or by an error, and the file written by a session closed for good, is what a second picture finds |

Hardly a property is inductive by itself.  `OneProcess`, for one, says
nothing of a transcoder whose socket is being bound, which gets its process
with the camera long gone if it was not closed; the invariant speaks of all
live transcoders, those that may still get a process included.  Likewise
`AckUnambiguous` needs to know of packets in flight, not only of acks.

Each invariant is shown for the initial states, for each action in a lemma
or step of its own, and the theorems follow with one temporal step.
`ChannelImplementsDelivery` maps each step to a step of `CommandDelivery` or to
a stutter; so do `SessionKeepsLife` and, for every session at once,
`RegistryKeepsLives` and `CaptureKeepsLives` with `SessionLife`, and `SessionsLiveOnce`, for every session
object, with `StreamLife`.  `PairUsesDelivery` is the other direction: every step
of pairing is one of `CommandDelivery` or begins a session, so nothing is assumed
of the channel that `CommandChannel` does not implement.

`ChannelAsScanned` goes through the bytes of a listing: what is decoded of a cut
listing is right but for the octets at its two ends (`CutSpoilsBothEnds`), the
place of every item is inside or at one of the ends, and so the first place with
the right name is the first one in the listing that is read whole.

`LongClosesAreOrderly` belongs to the run that finds `CloseIsOrderly` violated: of
eight octets and more, a `Close` ends the session and nothing else, so the length
is the only thing wrong.

`SessionsLiveOnce` needs one fact more than the invariant of the connections:
before a connection is made nothing is set up on it.

In `RtspConnections_proofs` the parts of the invariant are stated of values,
not of variables, so that the lemmas about them mention one connection; `Combine`
puts them back together, and `Answered` does what all requests have in common.

Only model-checked are the liveness properties (`DeliversCommands`,
`RequestsAnswered`, `ViewersServed`, `CameraComesBack`, `EndsAfterPicture`), which
are outside what the provers handle, as are fairness and ENABLED.  Of
`RequestsAnswered` the part without fairness is proved: by `ListenersFinish` a
request not yet answered has a listener that runs or waits for its socket, every
step of that listener lowers a natural number, and only a request that arrives on
its own connection raises it.  Fairness adds that the listener takes these steps.

## 5. What is not modelled

- *The blacklist and the list of addresses searched*: configuration.
- *Pictures that have an EXIF segment already*, for which the HTTP server's frame
  listener throws: nothing in the repository shows such a picture.
- *Packet layouts and parsing*: byte offsets without state.  What decides
  anything (ids, lengths, tickets, kinds) is in the modules.
- *Several cameras behind one RTSP server*: the frames of all of them go to every
  session, which `RtpSender` has; that their timestamps advance together is not
  looked at.
- *Session ids of other connections*: see `RtspConnections`.
- *Options, settings, logging, EXIF, hexdump, mock server, Frida hooks, Wireshark
  dissector*: straight-line code or not part of the running program.
- *Time of day, host names, HTML, SDP*: no state depends on them.

Malformed packets that make a parser throw are modelled in `Session` (the short
Close, a packet without handler) and in `SingleCapture`, whose properties say how
the process may end; elsewhere inputs are what cameras, browsers and recorders
send.

## 6. Where the code and its documents disagree

Two are shown as counterexamples of runs.

| Run | What happens | What is said |
|---|---|---|
| `short_close` | a `Close` of four bytes, the length the code itself builds, throws in the handler and ends the process | docs/protocol.md: `Close` closes the connection |
| `wrap` | after packet id 65535 the rest of the frame is taken for repeats and dropped, and the frame shown as good | docs/protocol.md: segments are appended until the next start or a loss |

Others are described by the properties that hold instead:

- A camera that needs longer than the first 400 ms to answer is timed out then,
  since `lastReceivedPacket` starts at 0 (`session.ts:113`; docs/architecture.md:19
  has 5 s): the second disjunct of `TimeoutHasCause`.
- A second PLAY starts a second report interval, of which only the last is ever
  cleared (`rtsp_server.ts:424`; docs/rtsp.md:156, every 5 seconds): `intervals`
  and `plays` in `NothingLeftBehind`.
- The replacement of a crashed GStreamer is not replaced in turn
  (`rtsp_server.ts:549`; docs/gstreamer.md:33): `CrashedIsReplaced`.
- With GStreamer the sender reports say that nothing was sent
  (docs/rtsp.md:158 describes their counts): `ReportsTrue`.
- Only the first fragment of a picture has Q = 255, the others 10
  (docs/rtsp.md:184): `buildRtpPacket`.
- Of a segment with two quantization tables the second comes with its id byte
  (`rtsp_server.ts:81`): `extractQTables`.
- A picture that ends right behind its SOS marker makes the frame listener throw
  (`rtsp_server.ts:196`): `SendFrame`.
- A listing that was cut is decoded four octets short (`handlers.ts:79`):
  `ConfiguredAsScanned`.
- The second picture of a capture closes the discovery socket again, which throws
  (`capture_single.ts:35`): `OnePicture`.
- A capture that cannot write its file ends by an exception with everything open
  (`capture_single.ts:33`), and one that has its picture does not end as long as
  there is a session that could not be bound (`capture_single.ts:36` closes one
  session only): `OnePicture`, `EndsAfterPicture`.
- The late exit of an old GStreamer drops the transcoder of a camera found again
  (`rtsp_server.ts:541`): `displaced` in `OneProcess` and `SocketsClosed`.

## 7. What is left

1. **The life of a session in `Transcoder`**: it keeps of it only whether it is
   there, and could be shown to follow `SessionLife` as those of `CameraRegistry`
   and `SingleCapture` are.
2. **The channel inside the session's life**: commands that are tracked when the
   session ends, and the timers cleared then.  Today `Session!ResendTimer` may or
   may not have something to send, which covers every state of the channel.
