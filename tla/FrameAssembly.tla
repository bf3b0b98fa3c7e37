---------------------------- MODULE FrameAssembly ----------------------------
(***************************************************************************)
(* How a session puts the camera's packets together into pictures:         *)
(* deal_with_data in handlers.ts.                                          *)
(*                                                                         *)
(* The camera numbers its packets 1, 2, 3, ... and sends each number       *)
(* modulo IdSpace; the session knows only the latter.  A picture is a      *)
(* "start" packet and the segments after it, up to the next "start".       *)
(***************************************************************************)
EXTENDS Naturals, Sequences

CONSTANTS
    IdSpace,     \* packet ids are 0 .. IdSpace - 1: 2^16 on the wire
    FirstIds,    \* ids the camera may give its first packet
    Streams,     \* what the camera may send: sequences of packet kinds
    Window       \* bound: how late a packet may arrive, in packets

(***************************************************************************)
(* "marked": a segment with JPEG reset markers; "bare": one without.       *)
(* "aside": a packet that has no part in a picture - audio, another kind   *)
(* of data frame, a JPEG header without data, less than 12 bytes.          *)
(***************************************************************************)
Segment == {"marked", "bare"}
Kind == {"start", "aside"} \cup Segment

\* Packets arrive in order and all of them, in order, or in any order and
\* more than once.
Network == {"perfect", "lossy", "disordered"}

ASSUME IdAssumption ==
    /\ IdSpace \in Nat
    /\ Window \in Nat
    /\ Window + 1 < IdSpace
    /\ FirstIds \subseteq 0 .. IdSpace - 1
ASSUME StreamAssumption == Streams \subseteq Seq(Kind)

VARIABLES
    stream, first, net, fix_packet_loss,     \* the camera, the way to it, the configuration
    high,                \* the highest number of a packet that arrived
    curImage,            \* session.curImage: packets, and the ends they were cut at
    rcvSeqId,            \* session.rcvSeqId
    frame_is_bad,        \* session.frame_is_bad
    frame_was_fixed,     \* session.frame_was_fixed
    shown                \* the last picture of a "frame" event

setting == <<stream, first, net, fix_packet_loss>>
picture == <<curImage, rcvSeqId, frame_is_bad, frame_was_fixed>>
vars == <<setting, high, picture, shown>>

Id(q) == (first + q - 1) % IdSpace

Whole(q) == [at |-> q, cut |-> {}]
Last(image) == image[Len(image)]
HasMarkers(slice) == stream[slice.at] = "marked"

Init ==
    /\ stream \in Streams
    /\ first \in FirstIds
    /\ net \in Network
    /\ fix_packet_loss \in BOOLEAN
    /\ high = 0
    /\ curImage = <<>>
    /\ rcvSeqId = 0
    /\ frame_is_bad = FALSE
    /\ frame_was_fixed = FALSE
    /\ shown = <<>>

-----------------------------------------------------------------------------
(***************************************************************************)
(* startNewFrame: the picture so far is complete, as far as one can tell,  *)
(* and shown unless a packet was missing.                                  *)
(***************************************************************************)
StartNewFrameKeepsBad(q) ==     \* Deviation: one bad frame, no frame ever after
    /\ shown' = IF curImage # <<>> /\ ~frame_is_bad THEN curImage ELSE shown
    /\ curImage' = <<Whole(q)>>
    /\ rcvSeqId' = Id(q)
    /\ frame_is_bad' = frame_is_bad
    /\ frame_was_fixed' = FALSE

StartNewFrameTooLate(q) ==      \* Deviation: the new slice is pushed before the event
    /\ shown' = IF curImage # <<>> /\ ~frame_is_bad THEN curImage ELSE shown
    /\ curImage' = IF frame_is_bad THEN <<Whole(q)>> ELSE Append(curImage, Whole(q))
    /\ rcvSeqId' = Id(q)
    /\ frame_is_bad' = FALSE
    /\ frame_was_fixed' = FALSE

StartNewFrameEmpty(q) ==        \* Deviation: the data of the start packet is left out
    /\ shown' = IF curImage # <<>> /\ ~frame_is_bad THEN curImage ELSE shown
    /\ curImage' = <<>>
    /\ rcvSeqId' = Id(q)
    /\ frame_is_bad' = FALSE
    /\ frame_was_fixed' = FALSE

StartNewFrame(q) ==
    /\ shown' = IF curImage # <<>> /\ ~frame_is_bad THEN curImage ELSE shown
    /\ curImage' = <<Whole(q)>>
    /\ rcvSeqId' = Id(q)
    /\ frame_is_bad' = FALSE
    /\ frame_was_fixed' = FALSE

\* A segment that is next in sequence belongs to the picture, bad or not.
AppendSegment(q) ==
    /\ curImage' = Append(curImage, Whole(q))
    /\ rcvSeqId' = Id(q)
    /\ UNCHANGED <<frame_is_bad, frame_was_fixed, shown>>

(***************************************************************************)
(* A segment after a gap.  Only with fix_packet_loss, and only from one    *)
(* reset marker to another, can it be joined to the picture; otherwise the *)
(* picture is bad and rcvSeqId stays behind.                               *)
(***************************************************************************)
Joinable(q) ==
    /\ fix_packet_loss
    /\ Len(curImage) > 1
    /\ HasMarkers(Last(curImage))
    /\ stream[q] = "marked"

Splice(q) ==
    /\ curImage' = Append([curImage EXCEPT ![Len(curImage)].cut = @ \cup {"tail"}],
                          [at |-> q, cut |-> {"head"}])
    /\ rcvSeqId' = Id(q)
    /\ frame_is_bad' = FALSE
    /\ frame_was_fixed' = TRUE
    /\ UNCHANGED shown

AfterGapUnnoticed(q) ==         \* Deviation: the picture is not marked bad
    IF Joinable(q) THEN Splice(q) ELSE UNCHANGED <<picture, shown>>

AfterGapJoinsAll(q) ==          \* Deviation: joined without looking for markers
    IF fix_packet_loss
    THEN /\ AppendSegment(q)
    ELSE /\ frame_is_bad' = TRUE
         /\ UNCHANGED <<curImage, rcvSeqId, frame_was_fixed, shown>>

AfterGap(q) ==
    IF Joinable(q)
    THEN Splice(q)
    ELSE /\ frame_is_bad' = TRUE
         /\ UNCHANGED <<curImage, rcvSeqId, frame_was_fixed, shown>>

\* deal_with_data, for the packet numbered q.
HandleData(q) ==
    \/ /\ stream[q] = "start"
       /\ StartNewFrame(q)
    \/ /\ stream[q] \in Segment
       /\ \/ /\ Id(q) <= rcvSeqId            \* taken for a retransmission
             /\ UNCHANGED <<picture, shown>>
          \/ /\ Id(q) = rcvSeqId + 1
             /\ AppendSegment(q)
          \/ /\ Id(q) > rcvSeqId + 1
             /\ AfterGap(q)
    \/ /\ stream[q] = "aside"
       /\ UNCHANGED <<picture, shown>>

-----------------------------------------------------------------------------
\* Bound: some start packet arrives in every IdSpace packets.
Fresh(q) == stream[q] \in Segment /\ curImage # <<>> => q < Last(curImage).at + IdSpace

Arrives(q) ==
    /\ Fresh(q)
    /\ \/ net = "perfect" /\ q = high + 1
       \/ net = "lossy" /\ q > high
       \/ net = "disordered" /\ q + Window >= high
    /\ HandleData(q)
    /\ high' = IF q > high THEN q ELSE high
    /\ UNCHANGED setting

Next == \E q \in 1 .. Len(stream) : Arrives(q)

Spec == Init /\ [][Next]_vars

-----------------------------------------------------------------------------
Slice == [at : 1 .. Len(stream), cut : SUBSET {"head", "tail"}]

\* Every variable has its type.
TypeOK ==
    /\ stream \in Streams
    /\ first \in FirstIds
    /\ net \in Network
    /\ fix_packet_loss \in BOOLEAN
    /\ high \in 0 .. Len(stream)
    /\ curImage \in Seq(Slice)
    /\ rcvSeqId \in 0 .. IdSpace - 1
    /\ frame_is_bad \in BOOLEAN
    /\ frame_was_fixed \in BOOLEAN
    /\ shown \in Seq(Slice)

InOrder == net # "disordered"

\* The ids from packet p to packet q do not pass through 0.
NoWrap(p, q) == Id(q) = Id(p) + (q - p)

\* Two slices that may be neighbours: the camera sent one after the other, or
\* both were cut at a reset marker and the picture counts as fixed.
Seam(s, t) ==
    \/ t.at = s.at + 1
    \/ /\ fix_packet_loss /\ frame_was_fixed
       /\ "tail" \in s.cut
       /\ "head" \in t.cut

\* Wherever two slices of a picture do not come from consecutive packets, the
\* loss was seen and repaired.  Without fix_packet_loss a picture has no hole
\* at all, whatever the network loses, repeats or reorders.
HolesAreSpliced ==
    \A i \in 1 .. Len(curImage) - 1 : Seam(curImage[i], curImage[i + 1])

\* A picture begins with the start of a frame.  The one exception is the first
\* picture of a session, when it begins with the packet whose id is 1:
\* rcvSeqId is 0 before any packet was received.
OnlyFirstIsHeadless ==
    \A image \in {curImage, shown} :
        image # <<>> /\ stream[image[1].at] # "start" =>
            /\ Id(image[1].at) = 1
            /\ image = curImage => shown = <<>>

\* When packets arrive in order, a picture that may be shown is never behind
\* the segments that arrived: what is lost inside a frame is noticed, and
\* repaired only by the latest segment - unless the ids wrap inside the frame.
LossInsideNoticed ==
    /\ InOrder
    /\ curImage # <<>>
    /\ ~frame_is_bad
    /\ stream[high] \in Segment
    /\ NoWrap(curImage[1].at, high)
    => Last(curImage).at = high

\* Nothing but segments came since the frame started.
OneFrame(image) ==
    /\ image # <<>>
    /\ stream[image[1].at] = "start"
    /\ \A q \in image[1].at + 1 .. high : stream[q] \in Segment

\* When every packet arrives in order, every segment of a frame is appended
\* to it and the frame is not skipped - unless the ids wrap inside it, or
\* another packet takes an id between its segments.
NothingSkippedUntilWrap ==
    /\ net = "perfect"
    /\ OneFrame(curImage)
    /\ NoWrap(curImage[1].at, high)
    => Last(curImage).at = high /\ ~frame_is_bad

\* When packets arrive in order, pictures are shown in order, each slice once.
ShownInOrder ==
    [][InOrder /\ shown' # shown /\ shown # <<>> => shown'[1].at > Last(shown).at]_vars

\* docs/protocol.md: segments are appended until the next start or until a
\* packet is lost.  (They are not, once the ids wrap.)
SegmentsAppended ==
    net = "perfect" /\ OneFrame(curImage) => Last(curImage).at = high
=============================================================================
