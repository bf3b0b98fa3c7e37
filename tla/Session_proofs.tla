---------------------------- MODULE Session_proofs ----------------------------
(***************************************************************************)
(* For every period, timeout, lag and length of Close: a silent camera is  *)
(* noticed and polled, the end of a session is final, and a session        *)
(* implements SessionLife.  One inductive invariant relates the clocks to  *)
(* the phase of the keepalive timer, and the socket to the flags of the    *)
(* session.                                                                *)
(***************************************************************************)
EXTENDS Session, TLAPS

\* The two halves of TypeOK: numbers for the arithmetic, flags for the rest.
ClockTypes ==
    /\ idle \in 0 .. Ceiling
    /\ phase \in 0 .. KeepEvery + MaxLag
    /\ silence \in 0 .. Ceiling
    /\ quiet \in 0 .. Ceiling

FlagTypes ==
    /\ sock \in {"binding", "open", "closed"}
    /\ started \in BOOLEAN
    /\ connected \in BOOLEAN
    /\ timers \in BOOLEAN
    /\ crashed \in BOOLEAN
    /\ cause \in {"none", "app", "camera", "timeout", "short close",
                  "unlisted command", "listener threw", "send on closed socket",
                  "close twice"}

\* The timers run exactly while the session is connected, the socket is
\* released with them, and packets arrive only once P2pRdy is out.
Flags ==
    /\ timers <=> connected
    /\ ~connected => sock = "closed"
    /\ sock = "open" => started
    /\ sock = "binding" => ~started

\* Between two firings of sessTimer the clocks gain on its phase nothing that
\* the last firing did not see.
Clocks ==
    started /\ connected /\ ~crashed =>
        /\ silence <= idle
        /\ silence <= Timeout + phase
        /\ idle <= AliveAfter + phase \/ quiet <= phase

Ends ==
    /\ cause # "close twice"
    /\ CrashHasCause

FlagInv == FlagTypes /\ Flags /\ Ends
IInv == ClockTypes /\ Clocks /\ FlagInv

LEMMA LaterType ==
  ASSUME NEW t \in 0 .. Ceiling
  PROVE  Later(t) \in 0 .. Ceiling /\ Later(t) <= t + 1
BY TimingAssumption DEF Later, Ceiling

LEMMA LaterMonotonic ==
  ASSUME NEW t \in 0 .. Ceiling, NEW u \in 0 .. Ceiling, t <= u
  PROVE  Later(t) <= Later(u)
BY TimingAssumption DEF Later, Ceiling

LEMMA InitInv == Init => IInv
<1> SUFFICES ASSUME Init PROVE IInv
  OBVIOUS
<1>1. ClockTypes /\ Clocks
  BY TimingAssumption DEF Init, ClockTypes, Clocks, Ceiling
<1>2. FlagTypes
  BY DEF Init, FlagTypes
<1>3. Flags /\ Ends
  BY DEF Init, Flags, Ends, CrashHasCause
<1> QED BY <1>1, <1>2, <1>3 DEF IInv, FlagInv

(***************************************************************************)
(* The flags.                                                              *)
(***************************************************************************)
\* An open socket belongs to a session in use: it may be closed, once.
LEMMA DisconnectFlags ==
  ASSUME FlagInv, sock # "closed",
         NEW why \in {"app", "camera", "timeout"}, Disconnect(why), started' = started
  PROVE  FlagInv' /\ ~connected'
<1>1. sock' = "closed" /\ cause' = why /\ connected' = FALSE /\ timers' = FALSE
      /\ crashed' = FALSE
  BY DEF Disconnect
<1>2. FlagTypes'
  BY <1>1 DEF FlagInv, FlagTypes
<1>3. Flags' /\ Ends'
  BY <1>1 DEF Flags, Ends, CrashHasCause
<1> QED BY <1>1, <1>2, <1>3 DEF FlagInv

LEMMA CrashInv ==
  ASSUME IInv, NEW why, Crash(why),
         \/ why \in {"short close", "unlisted command", "listener threw"}
         \/ why = "send on closed socket" /\ timers
  PROVE  IInv'
<1>1. FlagTypes' /\ Flags' /\ Ends'
  BY DEF IInv, FlagInv, Crash, FlagTypes, Flags, Ends, CrashHasCause
<1>2. ClockTypes' /\ Clocks'
  BY DEF IInv, Crash, ClockTypes, Clocks, Ceiling
<1> QED BY <1>1, <1>2 DEF IInv, FlagInv

\* Steps that leave the flags alone.
LEMMA SameFlags ==
  ASSUME FlagInv, UNCHANGED <<sock, started, connected, timers, crashed, cause>>
  PROVE  FlagInv'
<1>1. FlagTypes'
  BY DEF FlagInv, FlagTypes
<1>2. Flags' /\ Ends'
  BY DEF FlagInv, Flags, Ends, CrashHasCause
<1> QED BY <1>1, <1>2 DEF FlagInv

(***************************************************************************)
(* The clocks.                                                             *)
(***************************************************************************)
\* Once disconnected, clocks need only keep their types.
LEMMA ClosedClocks ==
  ASSUME ~connected'
  PROVE  Clocks'
BY DEF Clocks

LEMMA TickClocks ==
  ASSUME ClockTypes, Clocks, timers <=> connected, Tick
  PROVE  ClockTypes' /\ Clocks'
<1>1. phase' \in 0 .. KeepEvery + MaxLag
  BY TimingAssumption DEF Tick, ClockTypes
<1>2. ClockTypes'
  BY <1>1, LaterType DEF Tick, ClockTypes
<1>3. ASSUME started, connected, ~crashed
      PROVE  /\ silence' <= idle'
             /\ silence' <= Timeout + phase'
             /\ idle' <= AliveAfter + phase' \/ quiet' <= phase'
  <2>1. phase' = phase + 1
    BY <1>3 DEF Tick
  <2>2. /\ silence' <= silence + 1 /\ idle' <= idle + 1 /\ quiet' <= quiet + 1
    BY LaterType DEF Tick, ClockTypes
  <2>3. silence' <= idle'
    BY <1>3, LaterMonotonic DEF Tick, ClockTypes, Clocks
  <2>4. silence <= Timeout + phase /\ (idle <= AliveAfter + phase \/ quiet <= phase)
    BY <1>3 DEF Clocks
  <2> QED
    BY <1>2, <2>1, <2>2, <2>3, <2>4, TimingAssumption DEF ClockTypes, Ceiling
<1> QED BY <1>2, <1>3 DEF Clocks, Tick

LEMMA NextInv == IInv /\ [Next]_vars => IInv'
<1> SUFFICES ASSUME IInv, [Next]_vars PROVE IInv'
  OBVIOUS
<1>0. ClockTypes /\ Clocks /\ FlagInv
  BY DEF IInv
<1>1. CASE Listening
  <2>1. ClockTypes' /\ Clocks'
    BY <1>0, <1>1, TimingAssumption DEF Listening, ClockTypes, Clocks, Ceiling
  <2>2. FlagTypes' /\ Flags' /\ Ends'
    BY <1>0, <1>1 DEF Listening, FlagInv, FlagTypes, Flags, Ends, CrashHasCause
  <2> QED BY <2>1, <2>2 DEF IInv, FlagInv
<1>2. CASE SocketError
  <2>1. ClockTypes' /\ Clocks'
    BY <1>0, <1>2 DEF SocketError, ClockTypes, Clocks, Ceiling
  <2>2. FlagTypes' /\ Flags' /\ Ends'
    BY <1>0, <1>2 DEF SocketError, FlagInv, FlagTypes, Flags, Ends, CrashHasCause
  <2> QED BY <2>1, <2>2 DEF IInv, FlagInv
<1>3. CASE HandleAlive
  <2>1. ClockTypes' /\ Clocks'
    BY <1>0, <1>3, TimingAssumption DEF HandleAlive, ClockTypes, Clocks, Ceiling
  <2> QED BY <1>0, <1>3, <2>1, SameFlags DEF HandleAlive, IInv
<1>4. CASE HandleOther
  <2>1. ClockTypes' /\ Clocks'
    BY <1>0, <1>4, TimingAssumption DEF HandleOther, Spoken, ClockTypes, Clocks, Ceiling
  <2> QED BY <1>0, <1>4, <2>1, SameFlags DEF HandleOther, IInv
<1>5. CASE HandleLastFrame
  <2>1. FlagInv' /\ ~connected'
    BY <1>0, <1>5, DisconnectFlags DEF HandleLastFrame
  <2>2. ClockTypes'
    BY <1>0, <1>5, TimingAssumption DEF HandleLastFrame, Spoken, ClockTypes, Ceiling
  <2> QED BY <2>1, <2>2, ClosedClocks DEF IInv
<1>6. CASE HandleUnlisted \/ HandleListenerThrows
  BY <1>6, CrashInv DEF HandleUnlisted, HandleListenerThrows
<1>7. CASE HandleClose
  <2>1. CASE Crash("short close")
    BY <2>1, CrashInv
  <2>2. CASE Disconnect("camera") /\ Spoken /\ quiet' = 0 /\ UNCHANGED <<started, phase>>
    <3>1. FlagInv' /\ ~connected'
      BY <1>0, <1>7, <2>2, DisconnectFlags DEF HandleClose
    <3>2. ClockTypes'
      BY <1>0, <2>2, TimingAssumption DEF Spoken, ClockTypes, Ceiling
    <3> QED BY <3>1, <3>2, ClosedClocks DEF IInv
  <2> QED BY <1>7, <2>1, <2>2 DEF HandleClose
<1>8. CASE SessTimer
  <2>1. CASE (~started \/ idle <= AliveAfter) /\ NothingDue
    <3>1. ClockTypes' /\ Clocks'
      BY <1>0, <2>1, TimingAssumption DEF NothingDue, ClockTypes, Clocks, Ceiling
    <3> QED BY <1>0, <2>1, <3>1, SameFlags DEF NothingDue, IInv
  <2>2. CASE Crash("send on closed socket")
    BY <1>8, <2>2, CrashInv DEF SessTimer, Fires
  <2>3. CASE SendAlive /\ Disconnect("timeout") /\ sock # "closed"
    <3>1. FlagInv' /\ ~connected'
      BY <1>0, <2>3, DisconnectFlags DEF SendAlive
    <3>2. ClockTypes'
      BY <1>0, <2>3, TimingAssumption DEF SendAlive, ClockTypes, Ceiling
    <3> QED BY <3>1, <3>2, ClosedClocks DEF IInv
  <2>4. CASE SendAlive /\ idle <= Timeout /\ UNCHANGED <<sock, connected, timers, crashed, cause>>
    <3>1. ClockTypes' /\ Clocks'
      BY <1>0, <2>4, TimingAssumption DEF SendAlive, ClockTypes, Clocks, Ceiling
    <3> QED BY <1>0, <2>4, <3>1, SameFlags DEF SendAlive, IInv
  <2>5. idle > Timeout \/ idle <= Timeout
    BY <1>0, TimingAssumption DEF ClockTypes, Ceiling
  <2> QED BY <1>8, <2>1, <2>2, <2>3, <2>4, <2>5 DEF SessTimer
<1>9. CASE ResendTimer
  <2>1. CASE Crash("send on closed socket")
    BY <1>9, <2>1, CrashInv DEF ResendTimer
  <2>2. CASE quiet' = 0
             /\ UNCHANGED <<sock, started, connected, timers, idle, phase, crashed, silence, cause>>
    <3>1. ClockTypes' /\ Clocks'
      BY <1>0, <2>2, TimingAssumption DEF ClockTypes, Clocks, Ceiling
    <3> QED BY <1>0, <2>2, <3>1, SameFlags DEF IInv
  <2> QED BY <1>9, <2>1, <2>2 DEF ResendTimer
<1>10. CASE Tick
  <2>1. ClockTypes' /\ Clocks'
    BY <1>0, <1>10, TickClocks DEF FlagInv, Flags
  <2> QED BY <1>0, <1>10, <2>1, SameFlags DEF Tick, IInv
<1>11. CASE UNCHANGED vars
  <2>1. ClockTypes' /\ Clocks'
    BY <1>0, <1>11 DEF vars, ClockTypes, Clocks, Ceiling
  <2> QED BY <1>0, <1>11, <2>1, SameFlags DEF vars, IInv
<1>12. CASE HandleAliveAck
  BY <1>11, <1>12 DEF HandleAliveAck
<1> QED
  BY <1>1, <1>2, <1>3, <1>4, <1>5, <1>6, <1>7, <1>8, <1>9, <1>10, <1>11, <1>12 DEF Next

\* The invariant holds in every reachable state: the clocks and the flags of
\* makeSession are in step with its timers.
THEOREM SessionInvariant == Spec => []IInv
BY InitInv, NextInv, PTL DEF Spec

\* Every variable keeps its type.
THEOREM SessionTypeOK == Spec => []TypeOK
<1>1. IInv => TypeOK
  BY DEF IInv, FlagInv, ClockTypes, FlagTypes, TypeOK
<1> QED BY <1>1, SessionInvariant, PTL

\* A silent camera is dropped within the timeout and one period of
\* sessTimer, whatever periods and timeout are chosen.
THEOREM SilentCameraDropped == Spec => []SilenceIsNoticed
<1>1. IInv => SilenceIsNoticed
  BY TimingAssumption DEF IInv, ClockTypes, Clocks, SilenceIsNoticed, Ceiling
<1> QED BY <1>1, SessionInvariant, PTL

\* sessTimer keeps polling a camera that sends nothing but keepalives.
THEOREM SilentCameraPolled == Spec => []PolledWhileSilent
<1>1. IInv => PolledWhileSilent
  BY TimingAssumption DEF IInv, ClockTypes, Clocks, PolledWhileSilent, Ceiling
<1> QED BY <1>1, SessionInvariant, PTL

\* Only an unreadable packet or an earlier socket error makes a session end
\* the process.
THEOREM OnlyErrorsCrash == Spec => []CrashHasCause
<1>1. IInv => CrashHasCause
  BY DEF IInv, FlagInv, Ends
<1> QED BY <1>1, SessionInvariant, PTL

(***************************************************************************)
(* Timeouts.  idle runs with silence as soon as the camera spoke; until    *)
(* then it stands at its ceiling.                                          *)
(***************************************************************************)
Heard ==
    /\ sock = "binding" => idle = Ceiling
    /\ idle = Ceiling \/ silence = idle
    /\ cause = "timeout" => idle > Timeout /\ sock = "closed"

LEMMA HeardInit == Init => Heard
BY TimingAssumption DEF Init, Heard

\* Timing out is the only cause that looks at the clock.
LEMMA HeardNext ==
  ASSUME IInv, Heard, [Next]_vars
  PROVE  Heard'
<1>1. /\ ClockTypes /\ FlagTypes
      /\ sock = "open" => started
  BY DEF IInv, FlagInv, Flags
<1>2. CASE UNCHANGED <<sock, idle, silence, cause>>
  BY <1>2 DEF Heard, Ceiling
<1>3. ASSUME NEW why, Crash(why), why # "timeout" PROVE Heard'
  BY <1>3 DEF Crash, Heard, Ceiling
<1>4. CASE Listening
  <2>1. sock' = "open" /\ idle' = idle /\ cause' = cause /\ sock = "binding" /\ idle = Ceiling
    BY <1>4 DEF Listening, Heard
  <2>2. cause' # "timeout"
    BY <2>1 DEF Heard
  <2> QED BY <2>1, <2>2 DEF Heard, Ceiling
<1>5. CASE SocketError
  BY <1>5 DEF SocketError, Heard, Ceiling
<1>6. CASE sock = "open" /\ Spoken /\ UNCHANGED <<sock, cause>>
  BY <1>6 DEF Spoken, Heard
<1>7. ASSUME NEW why, Disconnect(why), sock # "closed", Spoken, why # "timeout"
      PROVE  Heard'
  <2>1. cause' # "timeout" /\ sock' = "closed"
    BY <1>7 DEF Disconnect
  <2> QED BY <1>7, <2>1 DEF Spoken, Heard
<1>8. CASE SessTimer
  <2>1. CASE NothingDue
    BY <1>2, <2>1 DEF NothingDue
  <2>2. CASE SendAlive /\ Disconnect("timeout") /\ sock # "closed" /\ idle > Timeout
    <3>1. sock' = "closed" /\ idle' = idle /\ silence' = silence
      BY <2>2 DEF SendAlive, Disconnect
    <3>2. idle' > Timeout
      BY <2>2, <3>1
    <3> QED BY <3>1, <3>2 DEF Heard, Ceiling
  <2>3. CASE SendAlive /\ UNCHANGED <<sock, cause>>
    BY <1>2, <2>3 DEF SendAlive
  <2> QED BY <1>3, <1>8, <2>1, <2>2, <2>3 DEF SessTimer
<1>9. CASE ResendTimer
  BY <1>2, <1>3, <1>9 DEF ResendTimer
<1>10. CASE Tick
  <2>1. UNCHANGED <<sock, cause>> /\ idle' = Later(idle) /\ silence' = Later(silence)
    BY <1>10 DEF Tick
  <2>2. idle = Ceiling => idle' = Ceiling
    BY <2>1, TimingAssumption DEF Later, Ceiling
  <2>3. idle' = Ceiling \/ silence' = idle'
    BY <2>1, <2>2 DEF Heard
  <2>4. idle > Timeout => idle' > Timeout
    BY <1>1, <2>1, TimingAssumption DEF Later, Ceiling, ClockTypes
  <2> QED BY <2>1, <2>2, <2>3, <2>4 DEF Heard, Ceiling
<1> QED
  BY <1>2, <1>3, <1>4, <1>5, <1>6, <1>7, <1>8, <1>9, <1>10
     DEF Next, vars, HandleAlive, HandleAliveAck, HandleOther, HandleLastFrame,
         HandleUnlisted, HandleListenerThrows, HandleClose

\* Only a camera that was silent for the timeout, or never heard, is timed out.
THEOREM TimeoutsAreDue == Spec => []TimeoutHasCause
<1>1. IInv /\ Heard => TimeoutHasCause
  BY DEF Heard, TimeoutHasCause
<1>2. Spec => []Heard
  BY HeardInit, HeardNext, SessionInvariant, PTL DEF Spec
<1> QED BY <1>1, <1>2, SessionInvariant, PTL

\* No callback of a disconnected session does anything.
LEMMA NothingAfterEnd ==
  ASSUME IInv, [Next]_vars, ~connected
  PROVE  UNCHANGED <<sock, started, connected, timers, crashed, cause>>
<1>1. sock = "closed" /\ ~timers
  BY DEF IInv, FlagInv, Flags
<1> QED
  BY <1>1 DEF Next, Listening, SocketError, HandleAlive, HandleAliveAck, HandleOther,
              HandleLastFrame, HandleUnlisted, HandleListenerThrows, HandleClose,
              SessTimer, Fires, ResendTimer, Tick, vars

\* The end of a session is its end.
THEOREM DisconnectIsFinal == Spec => EndIsFinal
<1>1. IInv /\ [Next]_vars =>
        [~connected => UNCHANGED <<sock, started, connected, timers, crashed, cause>>]_vars
  BY NothingAfterEnd
<1> QED BY <1>1, SessionInvariant, PTL DEF Spec, EndIsFinal

(***************************************************************************)
(* A Close that has the two bytes of an id to acknowledge ends the session *)
(* as it should: it is only the length that is wrong in the run that finds *)
(* CloseIsOrderly violated.                                                *)
(***************************************************************************)
LEMMA LongCloseNext ==
  ASSUME \A n \in CloseLengths : n >= 8, IInv, CloseIsOrderly, [Next]_vars
  PROVE  CloseIsOrderly'
<1>0. FlagTypes /\ (timers <=> connected)
  BY DEF IInv, FlagInv, Flags
<1>1. CASE ~connected
  BY <1>1, NothingAfterEnd DEF CloseIsOrderly
<1>2. CASE connected
  <2>1. cause \notin {"camera", "short close"}
    BY <1>2 DEF CloseIsOrderly
  <2>2. CASE cause' = cause
    BY <2>1, <2>2 DEF CloseIsOrderly
  <2>3. ASSUME NEW why \in {"unlisted command", "listener threw", "send on closed socket"},
               Crash(why)
        PROVE  CloseIsOrderly'
    BY <2>3 DEF Crash, CloseIsOrderly
  <2>4. ASSUME NEW why \in {"app", "timeout", "camera"}, Disconnect(why), sock # "closed"
        PROVE  CloseIsOrderly'
    BY <2>4 DEF Disconnect, CloseIsOrderly
  <2>5. CASE HandleClose
    <3>1. PICK length \in CloseLengths :
             \/ length < 8
             \/ Disconnect("camera")
      BY <2>5 DEF HandleClose
    <3>2. length \in Nat /\ length >= 8
      BY CloseAssumption
    <3>3. ~(length < 8)
      BY <3>2
    <3>4. sock # "closed"
      BY <2>5 DEF HandleClose
    <3> QED BY <2>4, <3>1, <3>3, <3>4
  <2>6. CASE HandleLastFrame
    BY <2>4, <2>6 DEF HandleLastFrame
  <2>7. CASE HandleUnlisted \/ HandleListenerThrows
    BY <2>3, <2>7 DEF HandleUnlisted, HandleListenerThrows
  <2>8. CASE SessTimer
    BY <2>2, <2>3, <2>4, <2>8 DEF SessTimer, NothingDue
  <2>9. CASE ResendTimer
    BY <2>2, <2>3, <2>9 DEF ResendTimer
  <2> QED
    BY <2>2, <2>5, <2>6, <2>7, <2>8, <2>9
       DEF Next, vars, Listening, SocketError, HandleAlive, HandleAliveAck,
           HandleOther, Tick
<1> QED BY <1>1, <1>2

\* Of eight bytes and more, a Close ends the session and nothing else.
THEOREM LongClosesAreOrderly ==
  ASSUME \A n \in CloseLengths : n >= 8
  PROVE  Spec => []CloseIsOrderly
<1>1. Init => CloseIsOrderly
  BY DEF Init, CloseIsOrderly
<1>2. IInv /\ CloseIsOrderly /\ [Next]_vars => CloseIsOrderly'
  BY LongCloseNext
<1> QED BY <1>1, <1>2, SessionInvariant, PTL DEF Spec

(***************************************************************************)
(* The life that the front ends see.  Every step is one of SessionLife, or *)
(* changes nothing of it.                                                  *)
(***************************************************************************)
LEMMA CrashIsDeath ==
  ASSUME IInv, ~crashed, NEW why, Crash(why), sock = "open" \/ (timers /\ started)
  PROVE  Life!Next
<1>1. sock = "open" \/ (sock = "closed" /\ connected /\ started)
  BY DEF IInv, FlagInv, FlagTypes, Flags
<1> QED BY <1>1 DEF Crash, Life!Next, Life!Die

LEMMA DisconnectIsEnd ==
  ASSUME crashed = FALSE, sock = "open", NEW why, Disconnect(why), started' = started
  PROVE  Life!Next
BY DEF Disconnect, Life!Next, Life!End

\* Whatever comes, the front ends see a session start once, end once and throw
\* only where SessionLife lets it.
THEOREM SessionKeepsLife == Spec => KeepsLife
<1>1. Init => Life!Init
  BY DEF Init, Life!Init
<1>2. IInv /\ [Next]_vars => [Life!Next]_(Life!vars)
  <2> SUFFICES ASSUME IInv, [Next]_vars
               PROVE  Life!Next \/ UNCHANGED Life!vars
    OBVIOUS
  <2>0. FlagTypes /\ Flags
    BY DEF IInv, FlagInv
  <2>1. CASE UNCHANGED <<sock, started, connected, crashed>>
    BY <2>1 DEF Life!vars
  <2>2. CASE ~crashed /\ Listening
    BY <2>0, <2>2 DEF Listening, Life!Next, Life!Start
  <2>3. CASE ~crashed /\ SocketError
    <3>1. connected /\ sock \in {"binding", "open"}
      BY <2>0, <2>3 DEF SocketError, Flags, FlagTypes
    <3> QED BY <2>3, <3>1 DEF SocketError, Life!Next, Life!Fail
  <2>4. CASE ~crashed /\ HandleLastFrame
    BY <2>0, <2>4, DisconnectIsEnd DEF HandleLastFrame, FlagTypes
  <2>5. CASE ~crashed /\ (HandleUnlisted \/ HandleListenerThrows)
    BY <2>5, CrashIsDeath DEF HandleUnlisted, HandleListenerThrows
  <2>6. CASE ~crashed /\ HandleClose
    BY <2>0, <2>6, CrashIsDeath, DisconnectIsEnd DEF HandleClose, FlagTypes
  <2>7. CASE ~crashed /\ SessTimer
    <3>1. CASE started /\ timers /\ Crash("send on closed socket")
      BY <2>7, <3>1, CrashIsDeath
    <3>2. CASE started /\ sock # "closed" /\ SendAlive /\ Disconnect("timeout")
      <4>1. sock = "open"
        BY <2>0, <3>2 DEF Flags, FlagTypes
      <4> QED BY <2>0, <2>7, <3>2, <4>1, DisconnectIsEnd DEF SendAlive, FlagTypes
    <3>3. CASE UNCHANGED <<sock, started, connected, crashed>>
      BY <2>1, <3>3
    <3> QED
      BY <2>7, <3>1, <3>2, <3>3 DEF SessTimer, Fires, NothingDue, SendAlive
  <2>8. CASE ~crashed /\ ResendTimer
    BY <2>1, <2>8, CrashIsDeath DEF ResendTimer
  <2> QED
    BY <2>1, <2>2, <2>3, <2>4, <2>5, <2>6, <2>7, <2>8
       DEF Next, vars, HandleAlive, HandleAliveAck, HandleOther, Tick
<1> QED BY <1>1, <1>2, SessionInvariant, PTL DEF Spec, KeepsLife, Life!Spec
=============================================================================
