--------------------------- MODULE Transcoder_proofs ---------------------------
(***************************************************************************)
(* Proofs about Transcoder, for any number of transcoders.                 *)
(***************************************************************************)
EXTENDS Transcoder, TLAPS

\* A transcoder that may still have, or get, a process and a socket.
Live(t) == tcs[t].udpSocket # "closed" /\ tcs[t].os # "reaped"

(***************************************************************************)
(* The inductive invariant.  Only the registered transcoder is live, and   *)
(* those dropped when the exit of another was taken for theirs; a process  *)
(* that was not told to end, or that is yet to be spawned, belongs to a    *)
(* live one.                                                               *)
(***************************************************************************)
Stages ==
    \A t \in DOMAIN tcs :
        /\ tcs[t].gstProcess => Live(t)
        /\ tcs[t].udpSocket = "binding" => tcs[t].os = "none"

OnlyRegistered ==
    \A t \in DOMAIN tcs \ displaced : Live(t) => present /\ t = registered

IInv == TypeOK /\ Stages /\ OnlyRegistered

\* What appending a transcoder does, element by element.
LEMMA AppendFacts ==
  \A s \in Seq(Tc), e \in Tc : \A r :
    r = Append(s, e) =>
      /\ r \in Seq(Tc)
      /\ DOMAIN r = DOMAIN s \cup {Len(s) + 1}
      /\ r[Len(s) + 1] = e
      /\ \A k \in DOMAIN s : k # Len(s) + 1 /\ r[k] = s[k]
OBVIOUS

LEMMA NewTcType ==
  ASSUME NEW listens \in BOOLEAN
  PROVE  /\ NewTc(listens) \in Tc
         /\ ~NewTc(listens).gstProcess
         /\ NewTc(listens).os = "none"
BY DEF NewTc, Tc

\* What becomes of one transcoder and leaves the rest of the state alone.
LEMMA UpdateInv ==
  ASSUME IInv, NEW t \in DOMAIN tcs, NEW tc \in Tc,
         tcs' = [tcs EXCEPT ![t] = tc],
         UNCHANGED <<present, registered, fed, displaced, crashed>>,
         tc.udpSocket # "closed" /\ tc.os # "reaped" => Live(t),
         tc.gstProcess => tc.udpSocket # "closed" /\ tc.os # "reaped",
         tc.udpSocket = "binding" => tc.os = "none"
  PROVE  IInv'
<1>1. DOMAIN tcs' = DOMAIN tcs /\ tcs' \in Seq(Tc)
  BY DEF IInv, TypeOK
<1>2. \A u \in DOMAIN tcs : tcs'[u] = IF u = t THEN tc ELSE tcs[u]
  BY DEF IInv, TypeOK
<1>3. TypeOK'
  BY <1>1 DEF IInv, TypeOK
<1>4. Stages'
  BY <1>1, <1>2 DEF IInv, Stages, Live
<1>5. OnlyRegistered'
  BY <1>1, <1>2 DEF IInv, OnlyRegistered, Live
<1> QED BY <1>3, <1>4, <1>5 DEF IInv

LEMMA InitInv == Init => IInv
<1> SUFFICES ASSUME Init PROVE IInv
  OBVIOUS
<1>1. tcs = <<>> /\ DOMAIN tcs = {} /\ tcs \in Seq(Tc)
  BY DEF Init
<1>2. TypeOK
  BY <1>1 DEF Init, TypeOK
<1>3. Stages /\ OnlyRegistered
  BY <1>1 DEF Stages, OnlyRegistered
<1> QED BY <1>2, <1>3 DEF IInv

LEMMA DiscoverInv == ASSUME IInv, Discover PROVE IInv'
<1>1. NewTc(TRUE) \in Tc /\ ~NewTc(TRUE).gstProcess /\ NewTc(TRUE).os = "none"
  BY NewTcType
<1>2. /\ tcs' \in Seq(Tc)
      /\ DOMAIN tcs' = DOMAIN tcs \cup {Len(tcs) + 1}
      /\ tcs'[Len(tcs) + 1] = NewTc(TRUE)
      /\ \A u \in DOMAIN tcs : tcs'[u] = tcs[u] /\ u # Len(tcs) + 1
  <2>1. tcs \in Seq(Tc)
    BY DEF IInv, TypeOK
  <2>2. tcs' = Append(tcs, NewTc(TRUE))
    BY DEF Discover
  <2>3. NewTc(TRUE) \in Tc
    BY <1>1
  <2> DEFINE tc == NewTc(TRUE)
  <2> HIDE DEF tc
  <2>4. /\ tcs' \in Seq(Tc)
        /\ DOMAIN tcs' = DOMAIN tcs \cup {Len(tcs) + 1}
        /\ tcs'[Len(tcs) + 1] = tc
        /\ \A u \in DOMAIN tcs : u # Len(tcs) + 1 /\ tcs'[u] = tcs[u]
    <3>1. tc \in Tc /\ tcs' = Append(tcs, tc)
      BY <2>2, <2>3 DEF tc
    <3> QED BY <2>1, <3>1, AppendFacts
  <2> QED BY <2>4 DEF tc
<1>3. TypeOK'
  BY <1>2 DEF IInv, TypeOK, Discover
<1>4. Stages'
  BY <1>1, <1>2 DEF IInv, Stages, Live
<1>5. OnlyRegistered'
  BY <1>2 DEF IInv, OnlyRegistered, Live, Discover
<1> QED BY <1>3, <1>4, <1>5 DEF IInv

LEMMA DisconnectInv == ASSUME IInv, Disconnect PROVE IInv'
<1>1. registered \in DOMAIN tcs /\ tcs \in Seq(Tc) /\ registered # NoTc
  BY DEF IInv, TypeOK, Disconnect, NoTc
<1>2. Closed(tcs[registered]) \in Tc
  <2>1. tcs[registered] \in Tc
    BY <1>1
  <2> QED BY <2>1 DEF Closed, Tc
<1>3. /\ tcs' \in Seq(Tc)
      /\ DOMAIN tcs' = DOMAIN tcs
      /\ \A u \in DOMAIN tcs :
           tcs'[u] = IF u = registered THEN Closed(tcs[u]) ELSE tcs[u]
  BY <1>1, <1>2 DEF Disconnect
<1>4. TypeOK'
  BY <1>3 DEF IInv, TypeOK, Disconnect
<1>5. /\ ~Closed(tcs[registered]).gstProcess
      /\ Closed(tcs[registered]).udpSocket = "closed"
  <2>1. tcs[registered] \in Tc
    BY <1>1
  <2> QED BY <2>1 DEF Closed, Tc
<1>6. Stages'
  BY <1>3, <1>5 DEF IInv, Stages, Live
<1>7. OnlyRegistered'
  BY <1>3, <1>5 DEF IInv, OnlyRegistered, Live, Disconnect
<1> QED BY <1>4, <1>6, <1>7 DEF IInv

\* The exit of a process: either the registered transcoder is replaced, or the
\* exit is stale.
LEMMA GstClosesInv ==
  ASSUME IInv, NEW t \in DOMAIN tcs, GstCloses(t)
  PROVE  IInv'
<1> DEFINE gone == [tcs[t] EXCEPT !.os = "reaped", !.gstProcess = FALSE]
           reaped == [tcs EXCEPT ![t] = gone]
<1>1. tcs \in Seq(Tc) /\ tcs[t] \in Tc /\ tcs[t].os = "dead"
  BY DEF IInv, TypeOK, GstCloses
<1>2. gone \in Tc /\ ~gone.gstProcess /\ gone.os = "reaped"
      /\ gone.udpSocket = tcs[t].udpSocket
  BY <1>1 DEF Tc
<1>3. tcs[t].udpSocket # "binding"
  BY <1>1 DEF IInv, Stages
<1>4. /\ reaped \in Seq(Tc)
      /\ DOMAIN reaped = DOMAIN tcs
      /\ Len(reaped) = Len(tcs)
      /\ \A u \in DOMAIN tcs : reaped[u] = IF u = t THEN gone ELSE tcs[u]
  BY <1>1, <1>2
<1>5. reaped = [tcs EXCEPT ![t].os = "reaped", ![t].gstProcess = FALSE]
  BY <1>1
<1>6. CASE ~Restarts(t)
  <2>1. tcs' = reaped /\ UNCHANGED <<present, registered, fed, displaced, crashed>>
    BY <1>5, <1>6 DEF GstCloses
  <2> QED BY <1>2, <1>3, <2>1, UpdateInv
<1>7. CASE Restarts(t)
  <2>1. /\ tcs' = Append(reaped, NewTc(FALSE))
        /\ registered' = Len(tcs) + 1
        /\ displaced' = displaced \cup ({registered} \ {t})
        /\ UNCHANGED <<present, fed, crashed>>
        /\ present
    BY <1>5, <1>7 DEF GstCloses, Restarts
  <2>2. NewTc(FALSE) \in Tc /\ ~NewTc(FALSE).gstProcess /\ NewTc(FALSE).os = "none"
    BY NewTcType
  <2>3. /\ tcs' \in Seq(Tc)
        /\ DOMAIN tcs' = DOMAIN tcs \cup {Len(tcs) + 1}
        /\ tcs'[Len(tcs) + 1] = NewTc(FALSE)
        /\ \A u \in DOMAIN tcs :
             u # Len(tcs) + 1 /\ tcs'[u] = IF u = t THEN gone ELSE tcs[u]
    <3> DEFINE tc == NewTc(FALSE)
    <3>1. tc \in Tc /\ tcs' = Append(reaped, tc)
      BY <2>1, <2>2
    <3> HIDE DEF reaped, gone, tc
    <3>2. /\ tcs' \in Seq(Tc)
          /\ DOMAIN tcs' = DOMAIN reaped \cup {Len(reaped) + 1}
          /\ tcs'[Len(reaped) + 1] = tc
          /\ \A u \in DOMAIN reaped : u # Len(reaped) + 1 /\ tcs'[u] = reaped[u]
      BY <1>4, <3>1, AppendFacts
    <3>3. /\ tcs' \in Seq(Tc)
          /\ DOMAIN tcs' = DOMAIN tcs \cup {Len(tcs) + 1}
          /\ tcs'[Len(tcs) + 1] = tc
          /\ \A u \in DOMAIN tcs :
               u # Len(tcs) + 1 /\ tcs'[u] = IF u = t THEN gone ELSE tcs[u]
      BY <1>4, <3>2
    <3> QED BY <3>3 DEF tc
  <2>4. present = TRUE /\ registered \in DOMAIN tcs /\ displaced \subseteq DOMAIN tcs
    BY <2>1 DEF IInv, TypeOK
  <2>5. TypeOK'
    BY <2>1, <2>3, <2>4 DEF IInv, TypeOK
  <2>6. Stages'
    BY <1>2, <1>3, <2>2, <2>3 DEF IInv, Stages, Live
  <2>7. OnlyRegistered'
    BY <1>2, <2>1, <2>3 DEF IInv, OnlyRegistered, Live
  <2> QED BY <2>5, <2>6, <2>7 DEF IInv
<1> QED BY <1>6, <1>7

LEMMA NextInv == IInv /\ [Next]_vars => IInv'
<1> SUFFICES ASSUME IInv, [Next]_vars PROVE IInv'
  OBVIOUS
<1>0. \A t \in DOMAIN tcs : tcs[t] \in Tc
  BY DEF IInv, TypeOK
<1>1. CASE Discover
  BY <1>1, DiscoverInv
<1>2. CASE Disconnect
  BY <1>2, DisconnectInv
<1>3. ASSUME NEW t \in DOMAIN tcs, Bound(t) PROVE IInv'
  <2> DEFINE tc == [tcs[t] EXCEPT !.udpSocket = "bound", !.os = "alive", !.gstProcess = TRUE]
  <2>1. tc \in Tc /\ tc.udpSocket = "bound" /\ tc.os = "alive"
    BY <1>0 DEF Tc
  <2>2. Live(t)
    BY <1>3 DEF IInv, Stages, Bound, Live
  <2>3. tcs' = [tcs EXCEPT ![t] = tc]
        /\ UNCHANGED <<present, registered, fed, displaced, crashed>>
    BY <1>0, <1>3 DEF Bound, IInv, TypeOK
  <2> QED BY <2>1, <2>2, <2>3, UpdateInv
<1>4. ASSUME NEW t \in DOMAIN tcs, BindError(t) PROVE IInv'
  <2> DEFINE tc == [tcs[t] EXCEPT !.udpSocket = "failed"]
  <2>1. tc \in Tc /\ tc.udpSocket = "failed" /\ tc.os = tcs[t].os
        /\ tc.gstProcess = tcs[t].gstProcess
    BY <1>0 DEF Tc
  <2>2. Live(t)
    BY <1>4 DEF IInv, Stages, BindError, Live
  <2>3. tcs' = [tcs EXCEPT ![t] = tc]
        /\ UNCHANGED <<present, registered, fed, displaced, crashed>>
    BY <1>0, <1>4 DEF BindError, IInv, TypeOK
  <2>4. tc.os = "none"
    BY <2>1, <1>4 DEF IInv, Stages, BindError
  <2> QED BY <2>1, <2>2, <2>3, <2>4, UpdateInv
<1>5. ASSUME NEW t \in DOMAIN tcs, GstDies(t) PROVE IInv'
  <2> DEFINE tc == [tcs[t] EXCEPT !.os = "dead"]
  <2>1. tc \in Tc /\ tc.udpSocket = tcs[t].udpSocket /\ tc.os = "dead"
        /\ tc.gstProcess = tcs[t].gstProcess
    BY <1>0 DEF Tc
  <2>2. tcs[t].os = "alive"
    BY <1>5 DEF GstDies
  <2>3. tcs' = [tcs EXCEPT ![t] = tc]
        /\ UNCHANGED <<present, registered, fed, displaced, crashed>>
    BY <1>0, <1>5 DEF GstDies, IInv, TypeOK
  <2>4. tc.udpSocket # "binding" /\ (tc.gstProcess => Live(t))
    BY <2>1, <2>2 DEF IInv, Stages
  <2> QED BY <2>1, <2>2, <2>3, <2>4, UpdateInv DEF Live
<1>6. ASSUME NEW t \in DOMAIN tcs, GstCloses(t) PROVE IInv'
  BY <1>6, GstClosesInv
<1>7. ASSUME NEW t \in DOMAIN tcs, NEW full \in BOOLEAN,
             tcs' = [tcs EXCEPT ![t].stdinBackpressure = full],
             UNCHANGED <<present, registered, fed, displaced, crashed>>
      PROVE  IInv'
  <2> DEFINE tc == [tcs[t] EXCEPT !.stdinBackpressure = full]
  <2>1. tc \in Tc /\ tc.udpSocket = tcs[t].udpSocket /\ tc.os = tcs[t].os
        /\ tc.gstProcess = tcs[t].gstProcess
    BY <1>0 DEF Tc
  <2>2. tcs' = [tcs EXCEPT ![t] = tc]
    BY <1>0, <1>7 DEF IInv, TypeOK
  <2>3. /\ tcs[t].gstProcess => Live(t)
        /\ tcs[t].udpSocket = "binding" => tcs[t].os = "none"
    BY DEF IInv, Stages
  <2> HIDE DEF tc
  <2> QED BY <2>1, <2>2, <2>3, <1>7, UpdateInv DEF Live
<1>8. CASE Crash \/ UNCHANGED vars
  <2>1. UNCHANGED <<present, tcs, registered, fed, displaced>> /\ crashed' \in BOOLEAN
    BY <1>8 DEF Crash, vars, IInv, TypeOK
  <2>2. TypeOK'
    BY <2>1 DEF IInv, TypeOK
  <2>3. Stages' /\ OnlyRegistered'
    BY <2>1 DEF IInv, Stages, OnlyRegistered, Live
  <2> QED BY <2>2, <2>3 DEF IInv
<1>9. CASE Frame
  <2>1. fed \in DOMAIN tcs
    BY <1>9 DEF IInv, TypeOK, Frame
  <2> QED BY <1>7, <1>8, <1>9, <2>1 DEF Frame
<1>10. ASSUME NEW t \in DOMAIN tcs, Drain(t) PROVE IInv'
  BY <1>7, <1>10 DEF Drain
<1>11. ASSUME NEW t \in DOMAIN tcs, SpawnError(t) PROVE IInv'
  BY <1>8, <1>11 DEF SpawnError
<1>12. ASSUME NEW t \in DOMAIN tcs, PendingWriteFails(t) PROVE IInv'
  BY <1>8, <1>12 DEF PendingWriteFails
<1> QED
  BY <1>1, <1>2, <1>3, <1>4, <1>5, <1>6, <1>8, <1>9, <1>10, <1>11, <1>12 DEF Next

\* The invariant holds in every reachable state of the listeners of
\* rtsp_server.ts and transcoder.ts.
THEOREM TranscoderInvariant == Spec => []IInv
BY InitInv, NextInv, PTL DEF Spec

\* transcoders and camSessions have the camera at the same times.
THEOREM TranscoderTypeOK == Spec => []TypeOK
<1>1. IInv => TypeOK
  BY DEF IInv
<1> QED BY <1>1, TranscoderInvariant, PTL

\* One process for the camera, and only while it is connected, but for those that a
\* stale exit dropped.
THEOREM AtMostOneProcess == Spec => []OneProcess
<1>1. IInv => OneProcess
  BY DEF IInv, Stages, OnlyRegistered, OneProcess
<1> QED BY <1>1, TranscoderInvariant, PTL

\* A disconnect closes the socket of the transcoder, unless its process had ended
\* or a stale exit dropped it.
THEOREM SocketsAreClosed == Spec => []SocketsClosed
<1>1. IInv => SocketsClosed
  BY DEF IInv, OnlyRegistered, Live, SocketsClosed
<1> QED BY <1>1, TranscoderInvariant, PTL

(***************************************************************************)
(* Replacement.  A transcoder that took another's place has no listener.   *)
(***************************************************************************)
Replaced ==
    present =>
        /\ tcs[registered].os = "reaped" => ~tcs[registered].exitListener
        /\ registered # fed => /\ ~tcs[registered].exitListener
                               /\ tcs[fed].os = "reaped" \/ fed \in displaced

\* Steps that neither reap a transcoder nor revive one.
LEMMA ReplacedKept ==
  ASSUME IInv, Replaced, UNCHANGED <<present, registered, fed, displaced>>,
         NEW t \in DOMAIN tcs, NEW tc \in Tc, tcs' = [tcs EXCEPT ![t] = tc],
         tc.exitListener = tcs[t].exitListener,
         tc.os = "reaped" <=> tcs[t].os = "reaped"
  PROVE  Replaced'
<1>1. \A u \in DOMAIN tcs : /\ tcs'[u].exitListener = tcs[u].exitListener
                            /\ tcs'[u].os = "reaped" <=> tcs[u].os = "reaped"
  BY DEF IInv, TypeOK
<1>2. present => registered \in DOMAIN tcs /\ fed \in DOMAIN tcs
  BY DEF IInv, TypeOK
<1> QED BY <1>1, <1>2 DEF Replaced

LEMMA ReplacedByExit ==
  ASSUME IInv, Replaced, NEW t \in DOMAIN tcs, GstCloses(t)
  PROVE  Replaced'
<1> SUFFICES ASSUME present' PROVE Replaced'
  BY DEF Replaced
<1>1. /\ tcs \in Seq(Tc) /\ present = TRUE /\ fed' = fed
      /\ registered \in DOMAIN tcs /\ fed \in DOMAIN tcs
  BY DEF IInv, TypeOK, GstCloses
<1> DEFINE gone == [tcs[t] EXCEPT !.os = "reaped", !.gstProcess = FALSE]
           reaped == [tcs EXCEPT ![t].os = "reaped", ![t].gstProcess = FALSE]
<1>2. gone \in Tc /\ gone.os = "reaped" /\ gone.exitListener = tcs[t].exitListener
  <2>1. tcs[t] \in Tc
    BY <1>1
  <2> QED BY <2>1 DEF Tc
<1>3. /\ reaped \in Seq(Tc) /\ DOMAIN reaped = DOMAIN tcs /\ Len(reaped) = Len(tcs)
      /\ \A u \in DOMAIN tcs : reaped[u] = IF u = t THEN gone ELSE tcs[u]
  <2>1. reaped = [tcs EXCEPT ![t] = gone]
    BY <1>1
  <2> HIDE DEF gone
  <2> QED BY <1>1, <1>2, <2>1
<1>4. CASE ~Restarts(t)
  <2>1. tcs' = reaped /\ registered' = registered /\ displaced' = displaced
    BY <1>4 DEF GstCloses
  <2>2. ~tcs[t].exitListener
    BY <1>1, <1>4 DEF Restarts
  <2> QED BY <1>1, <1>2, <1>3, <2>1, <2>2 DEF Replaced
<1>5. CASE Restarts(t)
  <2>1. /\ tcs' = Append(reaped, NewTc(FALSE))
        /\ registered' = Len(tcs) + 1
        /\ displaced' = displaced \cup ({registered} \ {t})
        /\ tcs[t].exitListener
    BY <1>5 DEF GstCloses, Restarts
  <2>2. NewTc(FALSE).os = "none" /\ NewTc(FALSE).exitListener = FALSE /\ NewTc(FALSE) \in Tc
    BY NewTcType DEF NewTc
  <2>3. /\ tcs'[Len(tcs) + 1] = NewTc(FALSE)
        /\ \A u \in DOMAIN tcs : tcs'[u] = IF u = t THEN gone ELSE tcs[u]
    <3> DEFINE tc == NewTc(FALSE)
    <3>1. tc \in Tc /\ tcs' = Append(reaped, tc)
      BY <2>1, <2>2
    <3> HIDE DEF reaped, gone, tc
    <3>2. /\ tcs'[Len(reaped) + 1] = tc
          /\ \A u \in DOMAIN reaped : tcs'[u] = reaped[u]
      BY <1>3, <3>1, AppendFacts
    <3>3. /\ tcs'[Len(tcs) + 1] = tc
          /\ \A u \in DOMAIN tcs : tcs'[u] = IF u = t THEN gone ELSE tcs[u]
      BY <1>3, <3>2
    <3> QED BY <3>3 DEF tc
  <2>4. registered = t => fed = t
    BY <1>1, <2>1 DEF Replaced
  <2>5. tcs'[fed].os = "reaped" \/ fed \in displaced'
    <3>1. CASE fed = t
      BY <1>1, <1>2, <2>3, <3>1
    <3>2. CASE fed # t /\ fed = registered
      BY <2>1, <3>2
    <3>3. CASE fed # t /\ fed # registered
      <4>1. tcs[fed].os = "reaped" \/ fed \in displaced
        BY <1>1, <3>3 DEF Replaced
      <4>2. tcs'[fed] = tcs[fed]
        BY <1>1, <2>3, <3>3
      <4> QED BY <2>1, <4>1, <4>2
    <3> QED BY <3>1, <3>2, <3>3
  <2> QED BY <1>1, <2>1, <2>2, <2>3, <2>5 DEF Replaced
<1> QED BY <1>4, <1>5

LEMMA ReplacedNext ==
  ASSUME IInv, Replaced, [Next]_vars
  PROVE  Replaced'
<1>0. tcs \in Seq(Tc) /\ \A t \in DOMAIN tcs : tcs[t] \in Tc
  BY DEF IInv, TypeOK
<1>1. CASE Discover
  <2>1. tcs' = Append(tcs, NewTc(TRUE)) /\ registered' = Len(tcs) + 1 /\ fed' = registered'
    BY <1>1 DEF Discover
  <2>2. NewTc(TRUE).os = "none" /\ NewTc(TRUE) \in Tc
    BY NewTcType DEF NewTc
  <2>3. tcs'[Len(tcs) + 1] = NewTc(TRUE)
    <3> DEFINE tc == NewTc(TRUE)
    <3>1. tc \in Tc /\ tcs' = Append(tcs, tc)
      BY <2>1, <2>2
    <3> HIDE DEF tc
    <3>2. tcs'[Len(tcs) + 1] = tc
      BY <1>0, <3>1, AppendFacts
    <3> QED BY <3>2 DEF tc
  <2> QED BY <2>1, <2>2, <2>3 DEF Replaced
<1>2. CASE Disconnect
  BY <1>2 DEF Disconnect, Replaced
<1>3. CASE UNCHANGED <<present, tcs, registered, fed, displaced>>
  BY <1>3 DEF Replaced
<1>4. ASSUME NEW t \in DOMAIN tcs, Bound(t) PROVE Replaced'
  <2> DEFINE tc == [tcs[t] EXCEPT !.udpSocket = "bound", !.os = "alive", !.gstProcess = TRUE]
  <2>1. tc \in Tc /\ tc.os = "alive" /\ tc.exitListener = tcs[t].exitListener
    BY <1>0 DEF Tc
  <2>2. tcs[t].os = "none"
    BY <1>4 DEF IInv, Stages, Bound
  <2>3. tcs' = [tcs EXCEPT ![t] = tc] /\ UNCHANGED <<present, registered, fed, displaced>>
    BY <1>0, <1>4 DEF Bound
  <2> QED BY <2>1, <2>2, <2>3, ReplacedKept
<1>5. ASSUME NEW t \in DOMAIN tcs, BindError(t) PROVE Replaced'
  <2> DEFINE tc == [tcs[t] EXCEPT !.udpSocket = "failed"]
  <2>1. tc \in Tc /\ tc.os = tcs[t].os /\ tc.exitListener = tcs[t].exitListener
    BY <1>0 DEF Tc
  <2>2. tcs' = [tcs EXCEPT ![t] = tc] /\ UNCHANGED <<present, registered, fed, displaced>>
    BY <1>0, <1>5 DEF BindError
  <2> QED BY <2>1, <2>2, ReplacedKept
<1>6. ASSUME NEW t \in DOMAIN tcs, GstDies(t) PROVE Replaced'
  <2> DEFINE tc == [tcs[t] EXCEPT !.os = "dead"]
  <2>1. tc \in Tc /\ tc.os = "dead" /\ tc.exitListener = tcs[t].exitListener
    BY <1>0 DEF Tc
  <2>2. tcs[t].os = "alive"
    BY <1>6 DEF GstDies
  <2>3. tcs' = [tcs EXCEPT ![t] = tc] /\ UNCHANGED <<present, registered, fed, displaced>>
    BY <1>0, <1>6 DEF GstDies
  <2> QED BY <2>1, <2>2, <2>3, ReplacedKept
<1>7. ASSUME NEW t \in DOMAIN tcs, NEW full \in BOOLEAN,
             tcs' = [tcs EXCEPT ![t].stdinBackpressure = full],
             UNCHANGED <<present, registered, fed, displaced>>
      PROVE  Replaced'
  <2> DEFINE tc == [tcs[t] EXCEPT !.stdinBackpressure = full]
  <2>1. tc \in Tc /\ tc.os = tcs[t].os /\ tc.exitListener = tcs[t].exitListener
    BY <1>0 DEF Tc
  <2>2. tcs' = [tcs EXCEPT ![t] = tc]
    BY <1>0, <1>7
  <2> HIDE DEF tc
  <2> QED BY <1>7, <2>1, <2>2, ReplacedKept
<1>8. CASE Frame
  <2>1. fed \in DOMAIN tcs
    BY <1>8 DEF IInv, TypeOK, Frame
  <2> QED BY <1>3, <1>7, <1>8, <2>1 DEF Frame, Crash, vars
<1>9. ASSUME NEW t \in DOMAIN tcs, GstCloses(t) PROVE Replaced'
  BY <1>9, ReplacedByExit
<1> QED
  BY <1>1, <1>2, <1>3, <1>4, <1>5, <1>6, <1>7, <1>8, <1>9
     DEF Next, vars, SpawnError, PendingWriteFails, Crash, Drain

\* While the camera is there, the first transcoder of its session that crashes is
\* replaced.
THEOREM FirstCrashIsMended == Spec => []CrashedIsReplaced
<1>1. Init => Replaced
  BY DEF Init, Replaced
<1>2. Replaced => CrashedIsReplaced
  BY DEF Replaced, CrashedIsReplaced
<1> QED BY <1>1, <1>2, ReplacedNext, TranscoderInvariant, PTL DEF Spec
=============================================================================
