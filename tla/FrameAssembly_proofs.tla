------------------------- MODULE FrameAssembly_proofs -------------------------
(***************************************************************************)
(* For every id space, every stream of packets and every network: what a   *)
(* picture is made of.  The proofs rest on one fact about packet ids: two  *)
(* packets less than IdSpace apart are neighbours when their ids are.      *)
(***************************************************************************)
EXTENDS FrameAssembly, Integers, TLAPS

(***************************************************************************)
(* Packet ids.                                                             *)
(***************************************************************************)
LEMMA Division ==
  ASSUME NEW a \in Nat, NEW W \in Nat, W > 0
  PROVE  a % W \in 0 .. W - 1 /\ \E k \in Int : a = W * k + (a % W)
<1>1. a % W \in 0 .. W - 1 /\ a \div W \in Int /\ a = W * (a \div W) + (a % W)
  OBVIOUS
<1> QED BY <1>1

\* Two multiples of W less than W apart are equal.
LEMMA SameLap ==
  ASSUME NEW k \in Int, NEW l \in Int, NEW W \in Nat, NEW e \in Int,
         W * k = W * l + e, -W < e, e < W
  PROVE  e = 0
<1>1. ASSUME NEW d \in Int, -W < W * d, W * d < W
      PROVE  d = 0
  BY <1>1
<1>2. W * (k - l) = e
  OBVIOUS
<1>3. k - l = 0
  BY <1>1, <1>2
<1> QED BY <1>2, <1>3

Number == Nat \ {0}

LEMMA IdLap ==
  ASSUME first \in FirstIds, NEW q \in Number
  PROVE  /\ Id(q) \in 0 .. IdSpace - 1
         /\ \E k \in Int : first + q - 1 = IdSpace * k + Id(q)
<1>1. first \in Nat /\ IdSpace \in Nat /\ IdSpace > 0 /\ first + q - 1 \in Nat
  BY IdAssumption DEF Number
<1> QED BY <1>1, Division DEF Id

LEMMA IdNat ==
  ASSUME first \in FirstIds, NEW q \in Number
  PROVE  Id(q) \in Nat
<1>1. Id(q) \in 0 .. IdSpace - 1
  BY IdLap
<1> QED BY <1>1

LEMMA NextInSequence ==
  ASSUME first \in FirstIds, NEW p \in Number, NEW q \in Number,
         Id(q) = Id(p) + 1, q < p + IdSpace, p <= q + Window
  PROVE  q = p + 1
<1>1. PICK k \in Int : first + p - 1 = IdSpace * k + Id(p)
  BY IdLap
<1>2. PICK l \in Int : first + q - 1 = IdSpace * l + Id(q)
  BY IdLap
<1> DEFINE e == q - p - 1
<1>3. first \in Int /\ IdSpace \in Nat /\ Id(p) \in Int /\ Id(q) \in Int /\ IdSpace * k \in Int /\ IdSpace * l \in Int
  BY IdAssumption, IdLap
<1>4. IdSpace * l = IdSpace * k + e /\ e \in Int
  BY <1>1, <1>2, <1>3 DEF Number
<1>5. -IdSpace < e /\ e < IdSpace
  BY IdAssumption DEF Number
<1>6. e = 0
  BY <1>3, <1>4, <1>5, SameLap
<1> QED BY <1>6 DEF Number

\* Ids that do not wrap from p to q do not wrap up to any packet between.
LEMMA NoWrapBetween ==
  ASSUME first \in FirstIds, NEW p \in Number, NEW m \in Number, NEW q \in Number,
         p <= m, m <= q, NoWrap(p, q)
  PROVE  NoWrap(p, m)
<1>1. PICK k \in Int : first + p - 1 = IdSpace * k + Id(p)
  BY IdLap
<1>2. PICK l \in Int : first + m - 1 = IdSpace * l + Id(m)
  BY IdLap
<1> DEFINE e == Id(p) + (m - p) - Id(m)
<1>3. first \in Int /\ IdSpace \in Nat /\ IdSpace * k \in Int /\ IdSpace * l \in Int
      /\ Id(p) \in Int /\ Id(m) \in Int
  BY IdAssumption, IdLap
<1>4. IdSpace * l = IdSpace * k + e /\ e \in Int
  BY <1>1, <1>2, <1>3 DEF Number
<1>5. -IdSpace < e /\ e < IdSpace
  <2>1. Id(q) = Id(p) + (q - p)
    BY DEF NoWrap
  <2>2. Id(p) \in 0 .. IdSpace - 1 /\ Id(m) \in 0 .. IdSpace - 1 /\ Id(q) \in 0 .. IdSpace - 1
    BY IdLap
  <2>3. IdSpace \in Nat
    BY IdAssumption
  <2> QED BY <2>1, <2>2, <2>3 DEF Number
<1>6. e = 0
  BY <1>3, <1>4, <1>5, SameLap
<1> QED BY <1>3, <1>6 DEF Number, NoWrap

-----------------------------------------------------------------------------
(***************************************************************************)
(* What a packet does to the picture.                                      *)
(***************************************************************************)
\* rcvSeqId is the id of the last slice, and no slice is ahead of the stream.
Tracks ==
    /\ curImage = <<>> => rcvSeqId = 0 /\ shown = <<>>
    /\ curImage # <<>> => rcvSeqId = Id(Last(curImage).at)
    /\ \A i \in 1 .. Len(curImage) : curImage[i].at <= high

Base == TypeOK /\ Tracks

\* One slice more, the packet q; the others are where they were.
Grows(q) ==
    /\ Len(curImage') = Len(curImage) + 1
    /\ curImage'[Len(curImage')].at = q
    /\ \A i \in 1 .. Len(curImage) :
         /\ curImage'[i].at = curImage[i].at
         /\ curImage[i].cut \subseteq curImage'[i].cut

LEMMA ImageType ==
  ASSUME TypeOK, NEW i \in 1 .. Len(curImage)
  PROVE  curImage[i] \in Slice /\ curImage[i].at \in Number
<1>1. curImage[i] \in Slice
  BY DEF TypeOK
<1>2. Len(stream) \in Nat
  BY StreamAssumption DEF TypeOK
<1> QED BY <1>1, <1>2 DEF Slice, Number

LEMMA LastType ==
  ASSUME TypeOK, curImage # <<>>
  PROVE  /\ Len(curImage) \in Nat /\ Len(curImage) > 0
         /\ Last(curImage) = curImage[Len(curImage)]
         /\ Last(curImage).at \in Number
<1>1. Len(curImage) \in Nat /\ Len(curImage) > 0
  BY DEF TypeOK
<1> QED BY <1>1, ImageType DEF Last

LEMMA PacketType ==
  ASSUME TypeOK, NEW q \in 1 .. Len(stream)
  PROVE  /\ q \in Number
         /\ stream[q] \in Kind
         /\ Id(q) \in 0 .. IdSpace - 1
         /\ [at |-> q, cut |-> {}] \in Slice
         /\ [at |-> q, cut |-> {"head"}] \in Slice
<1>1. stream \in Seq(Kind) /\ first \in FirstIds
  BY StreamAssumption DEF TypeOK
<1>2. q \in Number /\ stream[q] \in Kind
  BY <1>1 DEF Number
<1> QED BY <1>1, <1>2, IdLap DEF Slice

LEMMA AppendGrows ==
  ASSUME TypeOK, NEW q \in 1 .. Len(stream), AppendSegment(q), stream' = stream
  PROVE  Grows(q) /\ curImage' \in Seq(Slice') /\ curImage' # <<>>
<1>1. curImage' = Append(curImage, Whole(q)) /\ curImage \in Seq(Slice) /\ Whole(q) \in Slice
  BY PacketType DEF AppendSegment, TypeOK, Whole
<1>2. Slice' = Slice
  BY DEF Slice
<1> QED BY <1>1, <1>2 DEF Grows, Whole

LEMMA SpliceGrows ==
  ASSUME TypeOK, NEW q \in 1 .. Len(stream), Splice(q), Len(curImage) > 1,
         stream' = stream
  PROVE  /\ Grows(q) /\ curImage' \in Seq(Slice') /\ curImage' # <<>>
         /\ "tail" \in curImage'[Len(curImage)].cut
         /\ "head" \in curImage'[Len(curImage')].cut
<1> DEFINE n == Len(curImage)
           cutLast == [curImage[n] EXCEPT !.cut = @ \cup {"tail"}]
           trimmed == [curImage EXCEPT ![n] = cutLast]
           new == [at |-> q, cut |-> {"head"}]
<1>1. curImage \in Seq(Slice) /\ n \in Nat /\ n > 1 /\ curImage[n] \in Slice
  BY ImageType DEF TypeOK
<1>2. cutLast \in Slice /\ cutLast.at = curImage[n].at
      /\ cutLast.cut = curImage[n].cut \cup {"tail"}
  BY <1>1 DEF Slice
<1>3. /\ trimmed \in Seq(Slice) /\ Len(trimmed) = n
      /\ \A i \in 1 .. n : trimmed[i] = IF i = n THEN cutLast ELSE curImage[i]
  BY <1>1, <1>2
<1>4. curImage' = Append(trimmed, new)
  BY DEF Splice
<1>5. new \in Slice /\ new.at = q /\ new.cut = {"head"} /\ Slice' = Slice
  BY PacketType DEF Slice
<1> HIDE DEF cutLast, trimmed, new
<1>6. /\ Len(curImage') = n + 1 /\ curImage'[n + 1] = new
      /\ \A i \in 1 .. n : curImage'[i] = trimmed[i]
      /\ curImage' \in Seq(Slice)
  BY <1>1, <1>3, <1>4, <1>5
<1> QED BY <1>1, <1>2, <1>3, <1>5, <1>6 DEF Grows

\* The cases of deal_with_data.
Begins(q) == stream[q] = "start" /\ StartNewFrame(q)
Follows(q) == stream[q] \in Segment /\ Id(q) = rcvSeqId + 1 /\ AppendSegment(q)
Joins(q) == stream[q] = "marked" /\ Id(q) > rcvSeqId + 1 /\ Joinable(q) /\ Splice(q)
Misses(q) ==
    /\ stream[q] \in Segment /\ Id(q) > rcvSeqId + 1
    /\ frame_is_bad' = TRUE
    /\ UNCHANGED <<curImage, rcvSeqId, frame_was_fixed, shown>>
Ignored(q) ==
    /\ stream[q] \in Segment => Id(q) <= rcvSeqId
    /\ stream[q] # "start"
    /\ UNCHANGED <<picture, shown>>

LEMMA Cases ==
  ASSUME NEW q \in 1 .. Len(stream), Arrives(q)
  PROVE  Begins(q) \/ Follows(q) \/ Joins(q) \/ Misses(q) \/ Ignored(q)
BY DEF Arrives, HandleData, AfterGap, Joinable, Begins, Follows, Joins, Misses, Ignored, Segment

LEMMA NextCases ==
  ASSUME [Next]_vars
  PROVE  UNCHANGED vars \/ \E q \in 1 .. Len(stream) : Arrives(q)
BY DEF Next

LEMMA HighMoves ==
  ASSUME TypeOK, NEW q \in 1 .. Len(stream), Arrives(q)
  PROVE  /\ high' \in 0 .. Len(stream) /\ high' >= high /\ high' >= q
         /\ InOrder => high' = q /\ q > high
         /\ UNCHANGED setting /\ Slice' = Slice /\ Id(q)' = Id(q)
<1>1. Len(stream) \in Nat
  BY StreamAssumption DEF TypeOK
<1>2. UNCHANGED setting /\ Slice' = Slice /\ Id(q)' = Id(q)
  BY DEF Arrives, setting, Slice, Id
<1>3. high' = IF q > high THEN q ELSE high
  BY DEF Arrives
<1>4. high' \in 0 .. Len(stream) /\ high' >= high /\ high' >= q
  BY <1>1, <1>3 DEF TypeOK
<1>5. InOrder => q > high
  BY DEF TypeOK, Arrives, InOrder, Network
<1>6. InOrder => high' = q /\ q > high
  BY <1>3, <1>5
<1> QED BY <1>2, <1>4, <1>6

(***************************************************************************)
(* The type invariant, and the session's idea of where it is.              *)
(***************************************************************************)
LEMMA BaseInit == Init => Base
<1> SUFFICES ASSUME Init PROVE Base
  OBVIOUS
<1>1. stream \in Seq(Kind) /\ Len(stream) \in Nat
  BY StreamAssumption DEF Init
<1>2. curImage \in Seq(Slice) /\ shown \in Seq(Slice) /\ Len(curImage) = 0
  BY DEF Init
<1>3. high \in 0 .. Len(stream) /\ rcvSeqId \in 0 .. IdSpace - 1
  BY <1>1, IdAssumption DEF Init
<1>4. TypeOK
  BY <1>2, <1>3 DEF Init, TypeOK
<1>5. Tracks
  BY <1>2 DEF Init, Tracks
<1> QED BY <1>4, <1>5 DEF Base

\* A picture that grows keeps track.
LEMMA GrowsTracks ==
  ASSUME Base, NEW q \in 1 .. Len(stream), Arrives(q), Grows(q),
         curImage' \in Seq(Slice'), rcvSeqId' = Id(q)
  PROVE  Tracks'
<1>1. Len(curImage) \in Nat /\ Len(curImage') = Len(curImage) + 1
  BY DEF Base, TypeOK, Grows
<1>2. curImage' # <<>>
  BY <1>1
<1>3. ASSUME NEW i \in 1 .. Len(curImage') PROVE curImage'[i].at <= high'
  <2>1. CASE i = Len(curImage')
    BY <2>1, HighMoves DEF Base, Grows
  <2>2. CASE i # Len(curImage')
    <3>1. i \in 1 .. Len(curImage)
      BY <1>1, <2>2
    <3>2. curImage'[i].at = curImage[i].at /\ curImage[i].at <= high /\ curImage[i].at \in Nat
      BY <3>1, ImageType DEF Base, Tracks, Grows, Number
    <3>3. high \in Nat /\ high' \in Nat /\ high' >= high
      BY HighMoves DEF Base, TypeOK
    <3> QED BY <3>2, <3>3
  <2> QED BY <2>1, <2>2
<1>4. Last(curImage)'.at = q
  BY DEF Grows, Last
<1>5. first' = first
  BY HighMoves DEF Base, setting
<1>6. Id(Last(curImage).at)' = Id(q)
  BY <1>4, <1>5 DEF Id
<1> QED BY <1>2, <1>3, <1>6 DEF Tracks

\* What a step must show of the picture, the rest of TypeOK being unchanged.
LEMMA TypeStep ==
  ASSUME TypeOK, NEW q \in 1 .. Len(stream), Arrives(q),
         curImage' \in Seq(Slice), rcvSeqId' \in 0 .. IdSpace - 1,
         frame_is_bad' \in BOOLEAN, frame_was_fixed' \in BOOLEAN, shown' \in Seq(Slice)
  PROVE  TypeOK'
<1>1. /\ stream' = stream /\ first' = first /\ net' = net
      /\ fix_packet_loss' = fix_packet_loss /\ Slice' = Slice
      /\ high' \in 0 .. Len(stream)
  BY HighMoves DEF setting
<1> QED BY <1>1 DEF TypeOK

LEMMA BaseNext == Base /\ [Next]_vars => Base'
<1> SUFFICES ASSUME Base, [Next]_vars PROVE Base'
  OBVIOUS
<1>1. CASE UNCHANGED vars
  BY <1>1 DEF vars, setting, picture, Base, TypeOK, Tracks, Slice, Id, Last
<1>2. ASSUME NEW q \in 1 .. Len(stream), Arrives(q) PROVE Base'
  <2>0. /\ TypeOK /\ Slice' = Slice /\ q \in Number
        /\ Id(q) \in 0 .. IdSpace - 1 /\ Whole(q) \in Slice
        /\ curImage \in Seq(Slice) /\ shown \in Seq(Slice)
    BY <1>2, HighMoves, PacketType DEF Base, TypeOK, Whole
  <2>1. CASE Begins(q)
    <3>1. /\ curImage' = <<Whole(q)>> /\ rcvSeqId' = Id(q)
          /\ frame_is_bad' = FALSE /\ frame_was_fixed' = FALSE
          /\ shown' \in {curImage, shown}
      BY <2>1 DEF Begins, StartNewFrame
    <3>2. curImage' \in Seq(Slice) /\ shown' \in Seq(Slice)
      BY <2>0, <3>1
    <3>3. TypeOK'
      BY <1>2, <2>0, <3>1, <3>2, TypeStep
    <3>4. Len(curImage') = 1 /\ curImage' # <<>> /\ curImage'[1].at = q
      BY <3>1 DEF Whole
    <3>5. first' = first /\ q <= high'
      BY <1>2, <2>0, HighMoves DEF setting
    <3>6. Last(curImage)'.at = q
      BY <3>4 DEF Last
    <3>7. Id(Last(curImage).at)' = Id(q)
      BY <3>5, <3>6 DEF Id
    <3>8. Tracks'
      BY <3>1, <3>4, <3>5, <3>7 DEF Tracks
    <3> QED BY <3>3, <3>8 DEF Base
  <2>2. CASE Follows(q)
    <3>1. Grows(q) /\ curImage' \in Seq(Slice')
      BY <1>2, <2>0, <2>2, AppendGrows, HighMoves DEF Follows, setting
    <3>2. rcvSeqId' = Id(q) /\ UNCHANGED <<frame_is_bad, frame_was_fixed, shown>>
      BY <2>2 DEF Follows, AppendSegment
    <3>3. TypeOK'
      BY <1>2, <2>0, <3>1, <3>2, TypeStep DEF TypeOK
    <3> QED BY <1>2, <3>1, <3>2, <3>3, GrowsTracks DEF Base
  <2>3. CASE Joins(q)
    <3>1. Grows(q) /\ curImage' \in Seq(Slice')
      BY <1>2, <2>0, <2>3, SpliceGrows, HighMoves DEF Joins, Joinable, setting
    <3>2. rcvSeqId' = Id(q) /\ frame_is_bad' = FALSE /\ frame_was_fixed' = TRUE /\ shown' = shown
      BY <2>3 DEF Joins, Splice
    <3>3. TypeOK'
      BY <1>2, <2>0, <3>1, <3>2, TypeStep
    <3> QED BY <1>2, <3>1, <3>2, <3>3, GrowsTracks DEF Base
  <2>4. CASE Misses(q) \/ Ignored(q)
    <3>1. /\ UNCHANGED <<curImage, rcvSeqId, frame_was_fixed, shown>>
          /\ frame_is_bad' \in {TRUE, frame_is_bad}
      BY <2>4 DEF Misses, Ignored, picture
    <3>2. TypeOK'
      BY <1>2, <2>0, <3>1, TypeStep DEF TypeOK
    <3>3. ASSUME NEW i \in 1 .. Len(curImage) PROVE curImage[i].at <= high'
      <4>1. curImage[i].at <= high /\ curImage[i].at \in Nat
        BY ImageType DEF Base, Tracks, Number
      <4>2. high \in Nat /\ high' \in Nat /\ high' >= high
        BY <1>2, HighMoves DEF Base, TypeOK
      <4> QED BY <4>1, <4>2
    <3>4. first' = first
      BY <1>2, <2>0, HighMoves DEF setting
    <3>5. Tracks'
      BY <3>1, <3>3, <3>4 DEF Base, Tracks, Id, Last
    <3> QED BY <3>2, <3>5 DEF Base
  <2> QED BY <1>2, <2>1, <2>2, <2>3, <2>4, Cases
<1> QED BY <1>1, <1>2, NextCases

\* Types are kept, and the session knows the id of its last slice.
THEOREM AssemblyInvariant == Spec => []Base
BY BaseInit, BaseNext, PTL DEF Spec

\* Every variable keeps its type, ids included: they never leave their space.
THEOREM AssemblyTypeOK == Spec => []TypeOK
<1>1. Base => TypeOK
  BY DEF Base
<1> QED BY <1>1, AssemblyInvariant, PTL

-----------------------------------------------------------------------------
(***************************************************************************)
(* A picture has no hole that was not repaired.                            *)
(***************************************************************************)
LEMMA FollowsAdjoins ==
  ASSUME Base, NEW q \in 1 .. Len(stream), Arrives(q), Follows(q), curImage # <<>>
  PROVE  q = Last(curImage).at + 1
<1> DEFINE p == Last(curImage).at
<1>1. p \in Number /\ q \in Number /\ first \in FirstIds /\ high \in Nat
  <2>1. TypeOK
    BY DEF Base
  <2>2. first \in FirstIds /\ high \in Nat
    BY <2>1, StreamAssumption DEF TypeOK
  <2> QED BY <2>1, <2>2, LastType, PacketType
<1>2. p <= high /\ Id(q) = Id(p) + 1
  BY LastType DEF Base, Tracks, Follows
<1>3. q < p + IdSpace
  BY DEF Arrives, Fresh, Follows
<1>4. high <= q + Window
  <2>1. net \in Network /\ q \in Nat /\ Window \in Nat
    BY IdAssumption DEF Base, TypeOK
  <2> QED BY <1>1, <2>1 DEF Arrives, Network
<1>5. p <= q + Window
  BY <1>1, <1>2, <1>4, IdAssumption DEF Number
<1> QED BY <1>1, <1>2, <1>3, <1>5, NextInSequence

LEMMA OldSeams ==
  ASSUME Base, HolesAreSpliced, NEW q, Grows(q), fix_packet_loss' = fix_packet_loss,
         frame_was_fixed' \in {TRUE, frame_was_fixed},
         NEW i \in 1 .. Len(curImage) - 1
  PROVE  Seam(curImage[i], curImage[i + 1])'
<1>1. Len(curImage) \in Nat
  BY DEF Base, TypeOK
<1>2. i \in 1 .. Len(curImage) /\ i + 1 \in 1 .. Len(curImage)
  BY <1>1
<1>3. Seam(curImage[i], curImage[i + 1])
  BY DEF HolesAreSpliced
<1>4. /\ curImage'[i].at = curImage[i].at
      /\ curImage'[i + 1].at = curImage[i + 1].at
      /\ curImage[i].cut \subseteq curImage'[i].cut
      /\ curImage[i + 1].cut \subseteq curImage'[i + 1].cut
  BY <1>2 DEF Grows
<1>5. CASE curImage[i + 1].at = curImage[i].at + 1
  BY <1>4, <1>5 DEF Seam
<1>6. CASE /\ fix_packet_loss /\ frame_was_fixed
           /\ "tail" \in curImage[i].cut
           /\ "head" \in curImage[i + 1].cut
  <2>1. frame_was_fixed' /\ fix_packet_loss'
    BY <1>6
  <2>2. "tail" \in curImage'[i].cut /\ "head" \in curImage'[i + 1].cut
    BY <1>4, <1>6
  <2> QED BY <2>1, <2>2 DEF Seam
<1> QED BY <1>3, <1>5, <1>6 DEF Seam

\* One new seam, the last: the others are the picture's own.
LEMMA NewSeam ==
  ASSUME Base, HolesAreSpliced, NEW q, Grows(q), fix_packet_loss' = fix_packet_loss,
         frame_was_fixed' \in {TRUE, frame_was_fixed},
         NEW n \in Nat, n = Len(curImage),
         n > 0 => Seam(curImage[n], curImage[n + 1])'
  PROVE  HolesAreSpliced'
<1>1. Len(curImage') = n + 1
  BY DEF Grows
<1>2. SUFFICES ASSUME NEW i \in 1 .. n
               PROVE  Seam(curImage[i], curImage[i + 1])'
  BY <1>1 DEF HolesAreSpliced
<1>3. CASE i = n
  BY <1>3
<1>4. CASE i # n
  <2>1. i \in 1 .. Len(curImage) - 1
    BY <1>4
  <2> QED BY <2>1, OldSeams
<1> QED BY <1>3, <1>4

LEMMA HolesNext == Base /\ HolesAreSpliced /\ [Next]_vars => HolesAreSpliced'
<1> SUFFICES ASSUME Base, HolesAreSpliced, [Next]_vars PROVE HolesAreSpliced'
  OBVIOUS
<1>1. CASE UNCHANGED vars
  BY <1>1 DEF vars, setting, picture, HolesAreSpliced, Seam
<1>2. ASSUME NEW q \in 1 .. Len(stream), Arrives(q) PROVE HolesAreSpliced'
  <2>0. TypeOK /\ stream' = stream /\ fix_packet_loss' = fix_packet_loss
    BY <1>2, HighMoves DEF Base, setting
  <2>1. CASE Begins(q)
    <3>1. Len(curImage') = 1
      BY <2>1 DEF Begins, StartNewFrame
    <3> QED BY <3>1 DEF HolesAreSpliced
  <2>2. CASE Follows(q)
    <3>1. Grows(q) /\ frame_was_fixed' = frame_was_fixed
      BY <2>0, <2>2, AppendGrows DEF Follows, AppendSegment
    <3>2. PICK n \in Nat : n = Len(curImage)
      BY <2>0 DEF TypeOK
    <3>3. ASSUME n > 0 PROVE Seam(curImage[n], curImage[n + 1])'
      <4>1. q = curImage[n].at + 1
        BY <1>2, <2>2, <3>2, <3>3, FollowsAdjoins DEF Last
      <4>2. curImage'[n].at = curImage[n].at /\ curImage'[n + 1].at = q
        BY <3>1, <3>2, <3>3 DEF Grows
      <4> QED BY <4>1, <4>2 DEF Seam
    <3> QED BY <2>0, <3>1, <3>2, <3>3, NewSeam
  <2>3. CASE Joins(q)
    <3>1. Grows(q) /\ frame_was_fixed' = TRUE /\ fix_packet_loss
      BY <1>2, <2>0, <2>3, SpliceGrows DEF Joins, Joinable, Splice
    <3>2. PICK n \in Nat : n = Len(curImage)
      BY <2>0 DEF TypeOK
    <3>3. Len(curImage') = n + 1
      BY <3>1, <3>2 DEF Grows
    <3>4. "tail" \in curImage'[n].cut /\ "head" \in curImage'[n + 1].cut
      BY <1>2, <2>0, <2>3, <3>2, <3>3, SpliceGrows DEF Joins, Joinable
    <3>5. Seam(curImage[n], curImage[n + 1])'
      BY <2>0, <3>1, <3>4 DEF Seam
    <3> QED BY <2>0, <3>1, <3>2, <3>5, NewSeam
  <2>4. CASE Misses(q) \/ Ignored(q)
    BY <2>0, <2>4 DEF Misses, Ignored, picture, HolesAreSpliced, Seam
  <2> QED BY <1>2, <2>1, <2>2, <2>3, <2>4, Cases
<1> QED BY <1>1, <1>2, NextCases

\* Without fix_packet_loss no picture has a hole; with it, every hole is cut
\* at reset markers - on any network, for ids of any width.
THEOREM PicturesHaveNoHoles == Spec => []HolesAreSpliced
<1>1. Init => HolesAreSpliced
  BY DEF Init, HolesAreSpliced
<1> QED BY <1>1, HolesNext, AssemblyInvariant, PTL DEF Spec

-----------------------------------------------------------------------------
(***************************************************************************)
(* How a picture begins.                                                   *)
(***************************************************************************)
\* A picture that had a first slice keeps it.
LEMMA FirstKept ==
  ASSUME TypeOK, NEW q, Grows(q), curImage # <<>>
  PROVE  curImage'[1].at = curImage[1].at
<1>1. 1 \in 1 .. Len(curImage)
  BY LastType
<1> QED BY <1>1 DEF Grows

Headless(image) == image # <<>> /\ stream[image[1].at] # "start"

Heads ==
    /\ Headless(curImage) => Id(curImage[1].at) = 1 /\ shown = <<>>
    /\ Headless(shown) => Id(shown[1].at) = 1

LEMMA HeadsMeans == Heads <=> OnlyFirstIsHeadless
<1>1. Heads => OnlyFirstIsHeadless
  BY DEF Heads, Headless, OnlyFirstIsHeadless
<1>2. OnlyFirstIsHeadless => Heads
  BY DEF Heads, Headless, OnlyFirstIsHeadless
<1> QED BY <1>1, <1>2

LEMMA HeadsNext == Base /\ Heads /\ [Next]_vars => Heads'
<1> SUFFICES ASSUME Base, Heads, [Next]_vars PROVE Heads'
  OBVIOUS
<1>1. CASE UNCHANGED vars
  BY <1>1 DEF vars, setting, picture, Heads, Headless, Id
<1>2. ASSUME NEW q \in 1 .. Len(stream), Arrives(q) PROVE Heads'
  <2>0. TypeOK /\ stream' = stream /\ first' = first
    BY <1>2, HighMoves DEF Base, setting
  <2>1. CASE Begins(q)
    <3>1. curImage'[1].at = q /\ shown' \in {curImage, shown}
      BY <2>1 DEF Begins, StartNewFrame, Whole
    <3>2. ~Headless(curImage)'
      BY <2>0, <2>1, <3>1 DEF Headless, Begins
    <3>3. Headless(shown)' => Id(shown[1].at)' = 1
      BY <2>0, <3>1 DEF Heads, Headless, Id
    <3> QED BY <3>2, <3>3 DEF Heads
  <2>2. CASE Follows(q)
    <3>1. Grows(q) /\ shown' = shown
      BY <2>0, <2>2, AppendGrows DEF Follows, AppendSegment
    <3>2. CASE curImage = <<>>
      <4>1. Id(q) = 1 /\ shown' = <<>>
        BY <2>2, <3>1, <3>2 DEF Base, Tracks, Follows
      <4>2. curImage'[1].at = q
        BY <3>1, <3>2 DEF Grows
      <4> QED BY <2>0, <4>1, <4>2 DEF Heads, Headless, Id
    <3>3. CASE curImage # <<>>
      BY <2>0, <3>1, <3>3, FirstKept DEF Heads, Headless, Id
    <3> QED BY <3>2, <3>3
  <2>3. CASE Joins(q)
    <3>1. Len(curImage) > 1 /\ Splice(q)
      BY <2>3 DEF Joins, Joinable
    <3>2. Grows(q)
      BY <2>0, <3>1, SpliceGrows
    <3>3. shown' = shown /\ curImage # <<>>
      BY <3>1 DEF Splice
    <3> QED BY <2>0, <3>2, <3>3, FirstKept DEF Heads, Headless, Id
  <2>4. CASE Misses(q) \/ Ignored(q)
    BY <2>0, <2>4 DEF Misses, Ignored, picture, Heads, Headless, Id
  <2> QED BY <1>2, <2>1, <2>2, <2>3, <2>4, Cases
<1> QED BY <1>1, <1>2, NextCases

\* Only the first picture of a session may lack its start, and only when it
\* begins with the packet whose id is 1.
THEOREM HeadlessOnlyOnce == Spec => []OnlyFirstIsHeadless
<1>1. Init => Heads
  BY DEF Init, Heads, Headless
<1>2. Spec => []Heads
  BY <1>1, HeadsNext, AssemblyInvariant, PTL DEF Spec
<1> QED BY <1>2, HeadsMeans, PTL

-----------------------------------------------------------------------------
(***************************************************************************)
(* Packets in order.                                                       *)
(***************************************************************************)
\* The first slice is not behind the last; shown pictures are behind both.
Ascends ==
    InOrder =>
        /\ curImage # <<>> => curImage[1].at <= Last(curImage).at
        /\ shown # <<>> =>
              /\ Last(shown).at <= high
              /\ curImage # <<>> => Last(shown).at < curImage[1].at

LEMMA ShownType ==
  ASSUME TypeOK, shown # <<>>
  PROVE  Last(shown).at \in Number
<1>1. Len(shown) \in 1 .. Len(shown) /\ shown \in Seq(Slice)
  BY DEF TypeOK
<1>2. shown[Len(shown)] \in Slice /\ Len(stream) \in Nat
  BY <1>1, StreamAssumption DEF TypeOK
<1> QED BY <1>2 DEF Last, Slice, Number

LEMMA FirstType ==
  ASSUME TypeOK, curImage # <<>>
  PROVE  curImage[1].at \in Number
<1>1. 1 \in 1 .. Len(curImage)
  BY LastType
<1> QED BY <1>1, ImageType

LEMMA AscendsNext == Base /\ Ascends /\ [Next]_vars => Ascends'
<1> SUFFICES ASSUME Base, Ascends, [Next]_vars PROVE Ascends'
  OBVIOUS
<1>1. CASE UNCHANGED vars
  BY <1>1 DEF vars, setting, picture, Ascends, InOrder, Last
<1>2. ASSUME NEW q \in 1 .. Len(stream), Arrives(q) PROVE Ascends'
  <2>0. TypeOK /\ InOrder' = InOrder /\ q \in Number
    BY <1>2, HighMoves, PacketType DEF Base, setting, InOrder
  <2> SUFFICES ASSUME InOrder
               PROVE  /\ curImage' # <<>> => curImage'[1].at <= Last(curImage)'.at
                      /\ shown' # <<>> =>
                           /\ Last(shown)'.at <= high'
                           /\ curImage' # <<>> => Last(shown)'.at < curImage'[1].at
    BY <2>0 DEF Ascends
  <2>a. high' = q /\ q > high /\ high \in Nat /\ high' \in Nat
    BY <1>2, <2>0, HighMoves DEF TypeOK
  <2>b. shown # <<>> => Last(shown).at \in Number /\ Last(shown).at <= high
    BY <2>0, ShownType DEF Ascends
  <2>c. curImage # <<>> => /\ Last(curImage).at \in Number /\ Last(curImage).at <= high
                           /\ curImage[1].at \in Number
                           /\ curImage[1].at <= Last(curImage).at
    BY <2>0, LastType, FirstType DEF Base, Tracks, Ascends
  <2>1. CASE Begins(q)
    <3>1. curImage'[1].at = q /\ Last(curImage)'.at = q
      BY <2>1 DEF Begins, StartNewFrame, Whole, Last
    <3>2. shown' # <<>> => Last(shown)'.at \in Number /\ Last(shown)'.at <= high
      <4>1. CASE shown' = shown
        BY <2>b, <4>1 DEF Last
      <4>2. CASE shown' = curImage
        BY <2>c, <4>2 DEF Last
      <4> QED BY <2>1, <4>1, <4>2 DEF Begins, StartNewFrame
    <3> QED BY <2>0, <2>a, <3>1, <3>2 DEF Number
  <2>2. ASSUME Grows(q), shown' = shown PROVE Ascends'
    <3>1. Last(curImage)'.at = q /\ Last(shown)' = Last(shown)
      BY <2>2 DEF Grows, Last
    <3>2. CASE curImage = <<>>
      <4>1. curImage'[1].at = q
        BY <2>2, <3>2 DEF Grows
      <4> QED BY <2>0, <2>2, <3>1, <3>2, <4>1 DEF Base, Tracks, Ascends, Number
    <3>3. CASE curImage # <<>>
      <4>1. curImage'[1].at = curImage[1].at
        BY <2>0, <2>2, <3>3, FirstKept
      <4>2. shown # <<>> => Last(shown).at < curImage[1].at
        BY <3>3 DEF Ascends
      <4> QED BY <2>0, <2>2, <2>a, <2>b, <2>c, <3>1, <3>3, <4>1, <4>2 DEF Ascends, Number
    <3> QED BY <3>2, <3>3
  <2>3. CASE Follows(q)
    BY <1>2, <2>0, <2>2, <2>3, AppendGrows, HighMoves DEF Follows, AppendSegment, setting, Ascends
  <2>4. CASE Joins(q)
    BY <1>2, <2>0, <2>2, <2>4, SpliceGrows, HighMoves
    DEF Joins, Joinable, Splice, setting, Ascends
  <2>5. CASE Misses(q) \/ Ignored(q)
    <3>1. curImage' = curImage /\ shown' = shown
      BY <2>5 DEF Misses, Ignored, picture
    <3>2. shown # <<>> /\ curImage # <<>> => Last(shown).at < curImage[1].at
      BY DEF Ascends
    <3> QED BY <2>a, <2>b, <2>c, <3>1, <3>2 DEF Last, Number
  <2> QED BY <1>2, <2>1, <2>3, <2>4, <2>5, Cases
<1> QED BY <1>1, <1>2, NextCases

LEMMA AscendsAlways == Spec => [](Base /\ Ascends)
<1>1. Init => Ascends
  BY DEF Init, Ascends
<1> QED BY <1>1, AscendsNext, AssemblyInvariant, PTL DEF Spec

\* On a network that keeps packets in order, no part of a picture is shown
\* twice or out of its turn.
THEOREM PicturesShownInOrder == Spec => ShownInOrder
<1>1. Base /\ Ascends /\ [Next]_vars =>
        [InOrder /\ shown' # shown /\ shown # <<>> => shown'[1].at > Last(shown).at]_vars
  <2> SUFFICES ASSUME Base, Ascends, [Next]_vars, InOrder, shown' # shown, shown # <<>>
               PROVE  shown'[1].at > Last(shown).at
    OBVIOUS
  <2>1. PICK q \in 1 .. Len(stream) : Arrives(q)
    BY NextCases DEF vars
  <2>2. Begins(q)
    BY <2>1, Cases DEF Follows, AppendSegment, Joins, Splice, Misses, Ignored
  <2>3. shown' = curImage /\ curImage # <<>>
    BY <2>2 DEF Begins, StartNewFrame
  <2>4. Last(shown).at < curImage[1].at
    BY <2>3 DEF Ascends
  <2>5. Last(shown).at \in Number /\ curImage[1].at \in Number
    BY <2>3, ShownType, FirstType DEF Base
  <2> QED BY <2>3, <2>4, <2>5 DEF Number
<1> QED BY <1>1, AscendsAlways, PTL DEF Spec, ShownInOrder

(***************************************************************************)
(* What is lost inside a frame is noticed.                                 *)
(***************************************************************************)
\* Unless the ids wrap, a later segment never passes for a retransmission.
LEMMA LaterIsNotOld ==
  ASSUME Base, Ascends, InOrder, curImage # <<>>,
         NEW q \in 1 .. Len(stream), q > high, NoWrap(curImage[1].at, q)
  PROVE  Id(q) > rcvSeqId
<1> DEFINE f == curImage[1].at
           l == Last(curImage).at
<1>1. f \in Number /\ l \in Number /\ q \in Number /\ first \in FirstIds
  BY FirstType, LastType, PacketType DEF Base, TypeOK
<1>2. f <= l /\ l <= high /\ high \in Nat
  <2>1. Len(stream) \in Nat
    BY StreamAssumption DEF Base, TypeOK
  <2>2. Len(curImage) \in 1 .. Len(curImage)
    BY LastType DEF Base
  <2> QED BY <2>1, <2>2 DEF Base, TypeOK, Tracks, Ascends, Last
<1>3. NoWrap(f, l)
  BY <1>1, <1>2, NoWrapBetween DEF Number
<1>4. Id(f) \in Nat /\ Id(l) \in Nat /\ Id(q) \in Nat
  BY <1>1, IdNat
<1>5. rcvSeqId = Id(l)
  BY DEF Base, Tracks
<1>6. Id(l) = Id(f) + (l - f) /\ Id(q) = Id(f) + (q - f)
  BY <1>3 DEF NoWrap
<1> HIDE DEF f, l
<1> QED BY <1>1, <1>2, <1>4, <1>5, <1>6 DEF Number

LEMMA LossNext == Base /\ Ascends /\ LossInsideNoticed /\ [Next]_vars => LossInsideNoticed'
<1> SUFFICES ASSUME Base, Ascends, LossInsideNoticed, [Next]_vars PROVE LossInsideNoticed'
  OBVIOUS
<1>1. CASE UNCHANGED vars
  BY <1>1 DEF vars, setting, picture, LossInsideNoticed, InOrder, NoWrap, Id, Last
<1>2. ASSUME NEW q \in 1 .. Len(stream), Arrives(q) PROVE LossInsideNoticed'
  <2>0. TypeOK /\ UNCHANGED setting /\ InOrder' = InOrder
    BY <1>2, HighMoves DEF Base, setting, InOrder
  <2> SUFFICES ASSUME InOrder, curImage' # <<>>, ~frame_is_bad', stream[q] \in Segment,
                      NoWrap(curImage[1].at, q)'
               PROVE  Last(curImage)'.at = q
    BY <1>2, <2>0, HighMoves DEF LossInsideNoticed, setting, NoWrap, Id
  <2>1. CASE Begins(q)
    BY <2>1 DEF Begins, Segment
  <2>2. CASE Follows(q)
    BY <2>0, <2>2, AppendGrows DEF Follows, Grows, Last, setting
  <2>3. CASE Joins(q)
    BY <2>0, <2>3, SpliceGrows DEF Joins, Joinable, Grows, Last, setting
  <2>4. CASE Misses(q)
    BY <2>4 DEF Misses
  <2>5. CASE Ignored(q)
    <3>1. curImage' = curImage /\ Id(q) <= rcvSeqId
      BY <2>5 DEF Ignored, picture
    <3>2. NoWrap(curImage[1].at, q)
      BY <2>0, <3>1 DEF NoWrap, Id, setting
    <3>3. Id(q) > rcvSeqId
      BY <1>2, <2>0, <3>1, <3>2, HighMoves, LaterIsNotOld
    <3>4. Id(q) \in Nat /\ rcvSeqId \in Nat
      <4>1. q \in Number /\ first \in FirstIds /\ rcvSeqId \in 0 .. IdSpace - 1
        BY <2>0, PacketType DEF TypeOK
      <4> QED BY <4>1, IdNat
    <3> QED BY <3>1, <3>3, <3>4
  <2> QED BY <1>2, <2>1, <2>2, <2>3, <2>4, <2>5, Cases
<1> QED BY <1>1, <1>2, NextCases

\* On a network that keeps packets in order, a picture that may be shown has
\* the latest segment: no loss inside a frame goes unnoticed, unless the ids
\* wrap inside it.
THEOREM LossIsNoticed == Spec => []LossInsideNoticed
<1>1. Init => LossInsideNoticed
  BY DEF Init, LossInsideNoticed
<1> QED BY <1>1, LossNext, AscendsAlways, PTL DEF Spec

(***************************************************************************)
(* What is not lost is not skipped.                                        *)
(***************************************************************************)
\* The next segment of a frame that has all its segments is next in sequence.
LEMMA NextSegmentFollows ==
  ASSUME Base, Ascends, InOrder, curImage # <<>>, Last(curImage).at = high,
         NEW q \in 1 .. Len(stream), q = high + 1, NoWrap(curImage[1].at, q)
  PROVE  Id(q) = rcvSeqId + 1
<1> DEFINE f == curImage[1].at
<1>1. f \in Number /\ high \in Number /\ q \in Number /\ first \in FirstIds
  BY FirstType, LastType, PacketType DEF Base, TypeOK
<1>2. f <= high
  BY DEF Ascends
<1>3. NoWrap(f, high)
  BY <1>1, <1>2, NoWrapBetween DEF Number
<1>4. Id(f) \in Nat /\ Id(high) \in Nat /\ Id(q) \in Nat
  BY <1>1, IdNat
<1>5. rcvSeqId = Id(high)
  BY DEF Base, Tracks
<1>6. Id(high) = Id(f) + (high - f) /\ Id(q) = Id(f) + (q - f)
  BY <1>3 DEF NoWrap
<1> HIDE DEF f
<1> QED BY <1>1, <1>4, <1>5, <1>6 DEF Number

LEMMA SkipNext ==
  Base /\ Ascends /\ NothingSkippedUntilWrap /\ [Next]_vars => NothingSkippedUntilWrap'
<1> SUFFICES ASSUME Base, Ascends, NothingSkippedUntilWrap, [Next]_vars
             PROVE  NothingSkippedUntilWrap'
  OBVIOUS
<1>1. CASE UNCHANGED vars
  BY <1>1 DEF vars, setting, picture, NothingSkippedUntilWrap, OneFrame, NoWrap, Id, Last
<1>2. ASSUME NEW q \in 1 .. Len(stream), Arrives(q) PROVE NothingSkippedUntilWrap'
  <2>0. TypeOK /\ UNCHANGED setting
    BY <1>2, HighMoves DEF Base
  <2> SUFFICES ASSUME net = "perfect", OneFrame(curImage)', NoWrap(curImage[1].at, high)'
               PROVE  Last(curImage)'.at = high' /\ ~frame_is_bad'
    BY <2>0 DEF NothingSkippedUntilWrap, setting
  <2>a. InOrder /\ q = high + 1 /\ high' = q /\ high \in Nat
    BY <1>2, <2>0, HighMoves DEF Arrives, InOrder, TypeOK
  <2>b. curImage' # <<>> /\ stream[curImage'[1].at] = "start"
    BY <2>0 DEF OneFrame, setting
  <2>1. CASE Begins(q)
    <3>1. Last(curImage)'.at = q /\ frame_is_bad' = FALSE
      BY <2>1 DEF Begins, StartNewFrame, Whole, Last
    <3> QED BY <2>a, <3>1
  \* The first slice is an earlier one: the frame had it before this packet.
  <2>2. ASSUME curImage # <<>>, curImage'[1].at = curImage[1].at
        PROVE  /\ Last(curImage).at = high /\ ~frame_is_bad
               /\ stream[q] \in Segment /\ Id(q) = rcvSeqId + 1
    <3>1. curImage[1].at \in Number /\ curImage[1].at <= high
      <4>1. 1 \in 1 .. Len(curImage)
        BY <2>0, <2>2, LastType
      <4> QED BY <2>0, <2>2, <4>1, FirstType DEF Base, Tracks
    <3>2. \A p \in curImage[1].at + 1 .. q : stream[p] \in Segment
      BY <2>0, <2>2, <2>a DEF OneFrame, setting
    <3>3. OneFrame(curImage)
      BY <2>2, <2>a, <2>b, <3>1, <3>2 DEF OneFrame, Number
    <3>4. NoWrap(curImage[1].at, q)
      BY <2>0, <2>2, <2>a DEF NoWrap, Id, setting
    <3>5. NoWrap(curImage[1].at, high)
      <4>1. high \in Number /\ q \in Number /\ high <= q /\ first \in FirstIds
        BY <2>0, <2>a, <3>1, PacketType DEF Number, TypeOK
      <4> QED BY <3>1, <3>4, <4>1, NoWrapBetween
    <3>6. Last(curImage).at = high /\ ~frame_is_bad
      BY <3>3, <3>5 DEF NothingSkippedUntilWrap
    <3>7. stream[q] \in Segment
      BY <2>a, <3>1, <3>2 DEF Number
    <3> QED BY <2>2, <2>a, <3>4, <3>6, <3>7, NextSegmentFollows
  <2>3. CASE Follows(q)
    <3>1. Grows(q) /\ frame_is_bad' = frame_is_bad
      BY <2>0, <2>3, AppendGrows DEF Follows, AppendSegment, setting
    <3>2. curImage # <<>>
      <4>1. CASE curImage = <<>>
        <5>1. curImage'[1].at = q
          BY <3>1, <4>1 DEF Grows
        <5> QED BY <2>3, <2>b, <5>1 DEF Follows, Segment
      <4> QED BY <4>1
    <3>3. ~frame_is_bad
      BY <2>0, <2>2, <3>1, <3>2, FirstKept
    <3> QED BY <2>a, <3>1, <3>3 DEF Grows, Last
  <2>4. CASE Joins(q)
    <3>1. Len(curImage) > 1 /\ Splice(q) /\ Id(q) > rcvSeqId + 1
      BY <2>4 DEF Joins, Joinable
    <3>2. Grows(q)
      BY <2>0, <3>1, SpliceGrows DEF setting
    <3>3. curImage # <<>>
      BY <3>1
    <3>4. Id(q) = rcvSeqId + 1
      BY <2>0, <2>2, <3>2, <3>3, FirstKept
    <3>5. rcvSeqId \in Int
      BY <2>0, IdAssumption DEF TypeOK
    <3> QED BY <3>1, <3>4, <3>5
  <2>5. CASE Misses(q) \/ Ignored(q)
    <3>1. curImage' = curImage
      BY <2>5 DEF Misses, Ignored, picture
    <3>2. Id(q) = rcvSeqId + 1 /\ stream[q] \in Segment
      BY <2>2, <2>b, <3>1
    <3>3. rcvSeqId \in Int
      BY <2>0, IdAssumption DEF TypeOK
    <3> QED BY <2>5, <3>2, <3>3 DEF Misses, Ignored
  <2> QED BY <1>2, <2>1, <2>3, <2>4, <2>5, Cases
<1> QED BY <1>1, <1>2, NextCases

\* On a network that loses nothing, every segment of a frame is appended to
\* it, until the ids wrap.
THEOREM NothingIsSkipped == Spec => []NothingSkippedUntilWrap
<1>1. Init => NothingSkippedUntilWrap
  BY DEF Init, NothingSkippedUntilWrap, OneFrame
<1> QED BY <1>1, SkipNext, AscendsAlways, PTL DEF Spec
=============================================================================
