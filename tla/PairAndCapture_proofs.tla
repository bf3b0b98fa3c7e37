------------------------ MODULE PairAndCapture_proofs ------------------------
(***************************************************************************)
(* Theorems about the two commands that are no server.  Pairing: the       *)
(* obfuscation of its listings (XqBytes), for buffers, lengths and         *)
(* distances of every size; that a session configures its camera once, and *)
(* as the camera listed it, for every listing and number of commands.      *)
(* Capture: that it writes one picture, for any number of cameras.         *)
(***************************************************************************)
EXTENDS Pairing, SingleCapture, FiniteSetTheorems, TLAPS

Buffer(n) == [0 .. n - 1 -> Nat]

\* Flipping the lowest bit twice changes nothing.
LEMMA FlipTwice == \A b \in Nat : Flip(b) \in Nat /\ Flip(Flip(b)) = b
  BY DEF Flip

\* A buffer that is encoded as a whole.
LEMMA EncWhole ==
    ASSUME NEW n \in Nat, NEW r \in 0 .. n, NEW buf \in Buffer(n)
    PROVE  XqBytesEnc(buf, n, r) =
             [i \in 0 .. n - 1 |-> IF i < n - r THEN Flip(buf[i + r])
                                   ELSE Flip(buf[i - (n - r)])]
  BY DEF XqBytesEnc, Buffer

\* XqBytesDec undoes XqBytesEnc, whatever the bytes, the length and the distance:
\* what tests/fn.test.js tries on two buffers ("reverts Enc with Dec").
THEOREM DecUndoesEnc ==
    ASSUME NEW n \in Nat, NEW r \in 0 .. n, NEW buf \in Buffer(n)
    PROVE  XqBytesDec(XqBytesEnc(buf, n, r), n, r) = buf
<1> DEFINE e == XqBytesEnc(buf, n, r)
<1> DEFINE d == XqBytesDec(e, n, r)
<1>1. e = [i \in 0 .. n - 1 |-> IF i < n - r THEN Flip(buf[i + r])
                                ELSE Flip(buf[i - (n - r)])]
  BY EncWhole
<1>a. DOMAIN e = 0 .. n - 1
  BY <1>1
<1> HIDE DEF e
<1>2. d = [i \in 0 .. n - 1 |-> IF i >= r THEN Flip(e[i - r])
                                ELSE Flip(e[n - r + i])]
  BY <1>a DEF XqBytesDec
<1>3. ASSUME NEW i \in 0 .. n - 1
      PROVE  d[i] = buf[i]
  <2>1. buf[i] \in Nat
    BY DEF Buffer
  <2>2. CASE i >= r
    <3>1. i - r \in 0 .. n - 1 /\ i - r < n - r /\ (i - r) + r = i
      BY <2>2
    <3>2. e[i - r] = Flip(buf[i])
      BY <1>1, <3>1
    <3>3. d[i] = Flip(e[i - r])
      BY <1>2, <2>2
    <3> QED
      BY <2>1, <3>2, <3>3, FlipTwice
  <2>3. CASE i < r
    <3>1. n - r + i \in 0 .. n - 1 /\ ~(n - r + i < n - r) /\ (n - r + i) - (n - r) = i
      BY <2>3
    <3>2. e[n - r + i] = Flip(buf[i])
      BY <1>1, <3>1
    <3>3. d[i] = Flip(e[n - r + i])
      BY <1>2, <2>3
    <3> QED
      BY <2>1, <3>2, <3>3, FlipTwice
  <2> QED
    BY <2>2, <2>3
<1>4. d = [i \in 0 .. n - 1 |-> buf[i]]
  BY <1>2, <1>3
<1> QED
  <2>1. buf = [i \in 0 .. n - 1 |-> buf[i]]
    BY DEF Buffer
  <2>2. d = buf
    BY <1>4, <2>1
  <2> QED
    BY <2>2 DEF e

\* What becomes of a payload of n cells of which a packet holds m, when the code
\* decodes r cells less than there are (createResponseForControlCommand on a
\* cropped payload): the middle is right, both ends are cells from elsewhere.
THEOREM CutSpoilsBothEnds ==
    ASSUME NEW n \in Nat, NEW r \in Nat, NEW m \in Nat, 2 * r <= m, m + r <= n,
           NEW buf \in Buffer(n),
           NEW cut, cut = [i \in 0 .. m - 1 |-> XqBytesEnc(buf, n, r)[i]],
           NEW d, d = XqBytesDec(cut, m - r, r)
    PROVE  /\ \A i \in r .. m - r - 1 : d[i] = buf[i]
           /\ \A i \in 0 .. r - 1 : d[i] = buf[m - r + i]
           /\ \A i \in m - r .. m - 1 : d[i] = Flip(buf[i + r])
<1>1. ASSUME NEW i \in 0 .. m - 1
      PROVE  cut[i] = Flip(buf[i + r])
  <2>1. i \in 0 .. n - 1 /\ i < n - r
    OBVIOUS
  <2>2. r \in 0 .. n
    OBVIOUS
  <2>3. XqBytesEnc(buf, n, r) = [j \in 0 .. n - 1 |->
            IF j < n - r THEN Flip(buf[j + r]) ELSE Flip(buf[j - (n - r)])]
    BY <2>2, EncWhole
  <2>4. XqBytesEnc(buf, n, r)[i] = Flip(buf[i + r])
    BY <2>1, <2>3
  <2> QED
    BY <2>4
<1>2. d = [i \in 0 .. m - 1 |->
             IF i >= m - r THEN cut[i]
             ELSE IF i >= r THEN Flip(cut[i - r])
             ELSE Flip(cut[m - r - r + i])]
  <2>1. DOMAIN cut = 0 .. m - 1
    OBVIOUS
  <2> QED
    BY <2>1 DEF XqBytesDec
<1>3. ASSUME NEW i \in r .. m - r - 1
      PROVE  d[i] = buf[i]
  <2>1. i \in 0 .. m - 1 /\ i - r \in 0 .. m - 1 /\ (i - r) + r = i /\ ~(i >= m - r)
    OBVIOUS
  <2>2. d[i] = Flip(cut[i - r])
    BY <1>2, <2>1
  <2>3. cut[i - r] = Flip(buf[i])
    BY <1>1, <2>1
  <2>4. buf[i] \in Nat
    BY DEF Buffer
  <2> QED
    BY <2>2, <2>3, <2>4, FlipTwice
<1>4. ASSUME NEW i \in 0 .. r - 1
      PROVE  d[i] = buf[m - r + i]
  <2>1. /\ i \in 0 .. m - 1 /\ ~(i >= m - r) /\ ~(i >= r)
        /\ m - r - r + i \in 0 .. m - 1 /\ (m - r - r + i) + r = m - r + i
    OBVIOUS
  <2>2. d[i] = Flip(cut[m - r - r + i])
    BY <1>2, <2>1
  <2>3. cut[m - r - r + i] = Flip(buf[m - r + i])
    BY <1>1, <2>1
  <2>4. buf[m - r + i] \in Nat
    BY DEF Buffer
  <2> QED
    BY <2>2, <2>3, <2>4, FlipTwice
<1>5. ASSUME NEW i \in m - r .. m - 1
      PROVE  d[i] = Flip(buf[i + r])
  <2>1. i \in 0 .. m - 1 /\ i >= m - r
    OBVIOUS
  <2> QED
    BY <1>1, <1>2, <2>1
<1> QED
  BY <1>3, <1>4, <1>5

\* The same, of one cell.
LEMMA CutByOneCell ==
    ASSUME NEW n \in Nat, NEW m \in Nat, 2 <= m, m + 1 <= n, NEW buf \in Buffer(n),
           NEW d,
           d = XqBytesDec([i \in 0 .. m - 1 |-> XqBytesEnc(buf, n, 1)[i]], m - 1, 1)
    PROVE  /\ \A i \in 1 .. m - 2 : d[i] = buf[i]
           /\ d[0] = buf[m - 1]
           /\ d[m - 1] = Flip(buf[m])
<1> DEFINE cut == [i \in 0 .. m - 1 |-> XqBytesEnc(buf, n, 1)[i]]
<1>1. 1 \in Nat /\ 2 * 1 <= m /\ m + 1 <= n
  OBVIOUS
<1>2. d = XqBytesDec(cut, m - 1, 1) /\ cut = [i \in 0 .. m - 1 |-> XqBytesEnc(buf, n, 1)[i]]
  OBVIOUS
<1> HIDE DEF cut
<1>3. /\ \A i \in 1 .. m - 1 - 1 : d[i] = buf[i]
      /\ \A i \in 0 .. 1 - 1 : d[i] = buf[m - 1 + i]
      /\ \A i \in m - 1 .. m - 1 : d[i] = Flip(buf[i + 1])
  BY <1>1, <1>2, CutSpoilsBothEnds
<1>4. /\ m - 1 - 1 = m - 2 /\ 0 \in 0 .. 1 - 1 /\ m - 1 + 0 = m - 1
      /\ m - 1 \in m - 1 .. m - 1 /\ m - 1 + 1 = m
  OBVIOUS
<1> QED
  BY <1>3, <1>4

-----------------------------------------------------------------------------
(***************************************************************************)
(* What the listener is told of a listing.                                 *)
(***************************************************************************)
Body(scan) ==
    [i \in 0 .. ItemLen * Len(scan) - 1 |->
        Cell(scan[i \div ItemLen + 1], i % ItemLen)]

LEMMA Division ==
    \A k \in Nat \ {0}, j \in 0 .. 4 :
        (5 * (k - 1) + j) \div 5 + 1 = k /\ (5 * (k - 1) + j) % 5 = j
  OBVIOUS

LEMMA Place ==
    \A n \in Nat : \A i \in 0 .. 5 * n - 1 : i \div 5 + 1 \in 1 .. n /\ i % 5 \in 0 .. 4
  OBVIOUS

LEMMA CellIsNumber ==
    ASSUME NEW net \in Network, NEW j \in 0 .. 4
    PROVE  Cell(net, j) \in Nat
<1>1. net.ssid[1] \in Nat /\ net.ssid[2] \in Nat /\ net.channel \in Nat
  BY DEF Network
<1>2. j \in {0, 1} => j + 1 \in {1, 2}
  OBVIOUS
<1>3. CASE j \in {0, 1}
  BY <1>1, <1>2, <1>3 DEF Cell
<1>4. CASE j = 4
  BY <1>1, <1>4 DEF Cell, ItemLen
<1>5. CASE j \in {2, 3}
  BY <1>5 DEF Cell, ItemLen
<1> QED
  BY <1>3, <1>4, <1>5

LEMMA ChannelIsByte ==
    ASSUME NEW scan \in Seq(Network), NEW k \in 1 .. Len(scan)
    PROVE  scan[k].channel \in 0 .. 255 /\ scan[k].channel \in Nat
<1>1. scan[k] \in Network
  OBVIOUS
<1>2. scan[k].channel \in 0 .. 255
  BY <1>1 DEF Network
<1>3. \A c \in 0 .. 255 : c \in Nat
  OBVIOUS
<1> QED
  BY <1>2, <1>3

LEMMA CellsOfItem ==
    ASSUME NEW net \in Network
    PROVE  /\ Cell(net, 0) = net.ssid[1] /\ Cell(net, 1) = net.ssid[2]
           /\ Cell(net, 4) = net.channel
           /\ net.ssid = <<net.ssid[1], net.ssid[2]>>
<1>1. Cell(net, 0) = net.ssid[0 + 1] /\ Cell(net, 1) = net.ssid[1 + 1]
  BY DEF Cell, ItemLen
<1>2. 0 + 1 = 1 /\ 1 + 1 = 2
  OBVIOUS
<1>3. Cell(net, 4) = net.channel
  BY DEF Cell, ItemLen
<1>4. net.ssid \in Nat \X Nat
  BY DEF Network
<1> QED
  BY <1>1, <1>2, <1>3, <1>4

\* The cells of the k-th item.
LEMMA BodyCells ==
    ASSUME NEW scan \in Seq(Network)
    PROVE  /\ Body(scan) \in Buffer(5 * Len(scan))
           /\ \A k \in 1 .. Len(scan) :
                 /\ Body(scan)[5 * (k - 1)] = scan[k].ssid[1]
                 /\ Body(scan)[5 * (k - 1) + 1] = scan[k].ssid[2]
                 /\ Body(scan)[5 * (k - 1) + 4] = scan[k].channel
<1> DEFINE n == Len(scan)
<1>0. n \in Nat /\ \A k \in 1 .. n : scan[k] \in Network
  OBVIOUS
<1>1. Body(scan) = [i \in 0 .. 5 * n - 1 |-> Cell(scan[i \div 5 + 1], i % 5)]
  BY DEF Body, ItemLen
<1> HIDE DEF n
<1>2. ASSUME NEW i \in 0 .. 5 * n - 1
      PROVE  Cell(scan[i \div 5 + 1], i % 5) \in Nat
  <2>1. i \div 5 + 1 \in 1 .. n /\ i % 5 \in 0 .. 4
    BY <1>0, Place
  <2> QED
    BY <1>0, <2>1, CellIsNumber
<1>3. Body(scan) \in Buffer(5 * n)
  BY <1>1, <1>2 DEF Buffer
<1>4. ASSUME NEW k \in 1 .. n, NEW j \in 0 .. 4
      PROVE  Body(scan)[5 * (k - 1) + j] = Cell(scan[k], j)
  <2>1. 5 * (k - 1) + j \in 0 .. 5 * n - 1
    BY <1>0
  <2>2. (5 * (k - 1) + j) \div 5 + 1 = k /\ (5 * (k - 1) + j) % 5 = j
    BY <1>0, Division
  <2> QED
    BY <1>1, <2>1, <2>2
<1>5. ASSUME NEW k \in 1 .. n
      PROVE  /\ Body(scan)[5 * (k - 1)] = scan[k].ssid[1]
             /\ Body(scan)[5 * (k - 1) + 1] = scan[k].ssid[2]
             /\ Body(scan)[5 * (k - 1) + 4] = scan[k].channel
  <2>1. Cell(scan[k], 0) = scan[k].ssid[1] /\ Cell(scan[k], 1) = scan[k].ssid[2]
    BY <1>0, CellsOfItem
  <2>2. Cell(scan[k], 4) = scan[k].channel
    BY <1>0, CellsOfItem
  <2>3. 5 * (k - 1) + 0 = 5 * (k - 1)
    BY <1>0
  <2>4. Body(scan)[5 * (k - 1) + 0] = Cell(scan[k], 0)
    BY <1>4
  <2>5. Body(scan)[5 * (k - 1) + 1] = Cell(scan[k], 1)
    BY <1>4
  <2>6. Body(scan)[5 * (k - 1) + 4] = Cell(scan[k], 4)
    BY <1>4
  <2> QED
    BY <2>1, <2>2, <2>3, <2>4, <2>5, <2>6
<1> QED
  BY <1>3, <1>5 DEF n

\* A listing that fits is read as it is.
LEMMA ListedWhole ==
    ASSUME NEW scan \in Seq(Network), Len(scan) <= MaxItems
    PROVE  /\ DOMAIN Listed(scan) = 1 .. Len(scan)
           /\ \A k \in 1 .. Len(scan) :
                 /\ Listed(scan)[k].ssid = scan[k].ssid
                 /\ Listed(scan)[k].channel = scan[k].channel
<1> DEFINE n == Len(scan)
           pkt == ListWifiAck(scan)
<1>0. n \in Nat /\ MaxItems \in Nat /\ ~(n > MaxItems)
  BY PairAssumption
<1>1. /\ pkt.payload_len = 1 + 5 * n /\ pkt.byteLength = 5 + 5 * n
      /\ pkt.msg_count = n
      /\ pkt.data = [i \in 0 .. 5 * n - 1 |->
                        IF 5 * n = 0 THEN 0 ELSE XqBytesEnc(Body(scan), 5 * n, 1)[i]]
  BY <1>0 DEF ListWifiAck, HeaderLen, ItemLen, Rotate, Body
<1> HIDE DEF n, pkt
<1>2. CASE n = 0
  <2>1. Listed(scan) = <<>>
    BY <1>1, <1>2 DEF Listed, pkt
  <2> QED
    BY <1>2, <2>1 DEF n
<1>3. CASE n > 0
  <2>1. Body(scan) \in Buffer(5 * n)
    BY BodyCells DEF n
  <2>2. 5 * n \in Nat /\ 1 \in 0 .. 5 * n /\ 5 * n # 0
    BY <1>0, <1>3
  <2>3. pkt.data = XqBytesEnc(Body(scan), 5 * n, 1)
    <3>1. DOMAIN XqBytesEnc(Body(scan), 5 * n, 1) = 0 .. 5 * n - 1
      BY <2>1, <2>2, EncWhole
    <3>2. XqBytesEnc(Body(scan), 5 * n, 1)
            = [i \in 0 .. 5 * n - 1 |-> XqBytesEnc(Body(scan), 5 * n, 1)[i]]
      BY <3>1 DEF XqBytesEnc
    <3> QED
      BY <1>1, <2>2, <3>2
  <2>4. Decoded(pkt) = XqBytesDec(pkt.data, 5 * n, 1)
    BY <1>0, <1>1, <1>3 DEF Decoded, HeaderLen, Rotate
  <2>5. Decoded(pkt) = Body(scan)
    BY <2>1, <2>2, <2>3, <2>4, DecUndoesEnc
  <2>6. (pkt.byteLength - (HeaderLen + 1)) \div ItemLen = n
    BY <1>0, <1>1 DEF HeaderLen, ItemLen
  <2>7. Listed(scan) = [k \in 1 .. n |->
            [ssid |-> <<Body(scan)[5 * (k - 1)], Body(scan)[5 * (k - 1) + 1]>>,
             channel |-> Body(scan)[5 * (k - 1) + 5 - 1]]]
    <3>1. Listed(scan) = parseListWifi(pkt, Body(scan))
      BY <1>0, <1>1, <1>3, <2>5 DEF Listed, pkt
    <3> QED
      BY <1>0, <1>1, <2>6, <3>1 DEF parseListWifi, ItemLen
  <2>8. ASSUME NEW k \in 1 .. n
        PROVE  Listed(scan)[k].ssid = scan[k].ssid /\ Listed(scan)[k].channel = scan[k].channel
    <3>1. 5 * (k - 1) + 5 - 1 = 5 * (k - 1) + 4
      BY <1>0
    <3>2. /\ Body(scan)[5 * (k - 1)] = scan[k].ssid[1]
          /\ Body(scan)[5 * (k - 1) + 1] = scan[k].ssid[2]
          /\ Body(scan)[5 * (k - 1) + 4] = scan[k].channel
      BY BodyCells DEF n
    <3>3. scan[k] \in Network
      BY DEF n
    <3>4. scan[k].ssid = <<scan[k].ssid[1], scan[k].ssid[2]>>
      BY <3>3, CellsOfItem
    <3>5. Listed(scan)[k] =
            [ssid |-> <<Body(scan)[5 * (k - 1)], Body(scan)[5 * (k - 1) + 1]>>,
             channel |-> Body(scan)[5 * (k - 1) + 5 - 1]]
      BY <2>7
    <3> QED
      BY <3>1, <3>2, <3>4, <3>5
  <2>9. DOMAIN Listed(scan) = 1 .. n
    BY <2>7
  <2> QED
    BY <2>8, <2>9 DEF n
<1> QED
  BY <1>0, <1>2, <1>3

\* Of one that is cut, the names are right from the second item on, the channels
\* before the last; the name of the first begins with the last one's channel.
LEMMA ListedCut ==
    ASSUME NEW scan \in Seq(Network), Len(scan) > MaxItems
    PROVE  /\ DOMAIN Listed(scan) = 1 .. MaxItems
           /\ Listed(scan)[1].ssid[1] = scan[MaxItems].channel
           /\ \A k \in 2 .. MaxItems : Listed(scan)[k].ssid = scan[k].ssid
           /\ \A k \in 1 .. MaxItems - 1 : Listed(scan)[k].channel = scan[k].channel
           /\ Listed(scan)[MaxItems].channel \in Nat
<1> DEFINE n == 5 * Len(scan)
           m == 5 * MaxItems
           pkt == ListWifiAck(scan)
           d == XqBytesDec(pkt.data, m - 1, 1)
<1>0. /\ Len(scan) \in Nat /\ MaxItems \in Nat \ {0}
      /\ n \in Nat /\ m \in Nat /\ 1 \in Nat /\ m >= 5 /\ n >= m + 5
  BY PairAssumption
<1>1. /\ pkt.payload_len = 1 + n /\ pkt.byteLength = 5 + m
      /\ pkt.msg_count = Len(scan)
      /\ pkt.data = [i \in 0 .. m - 1 |->
                        IF n = 0 THEN 0 ELSE XqBytesEnc(Body(scan), n, 1)[i]]
  BY <1>0 DEF ListWifiAck, HeaderLen, ItemLen, Rotate, Body
<1>2. Body(scan) \in Buffer(n)
  BY BodyCells
<1>3. /\ \A i \in 1 .. m - 2 : d[i] = Body(scan)[i]
      /\ d[0] = Body(scan)[m - 1]
      /\ d[m - 1] = Flip(Body(scan)[m])
  <2>1. pkt.data = [i \in 0 .. m - 1 |-> XqBytesEnc(Body(scan), n, 1)[i]]
    BY <1>0, <1>1
  <2>2. d = XqBytesDec(pkt.data, m - 1, 1)
    OBVIOUS
  <2> HIDE DEF n, m, pkt, d
  <2>3. n \in Nat /\ m \in Nat /\ 2 <= m /\ m + 1 <= n
    BY <1>0
  <2>4. d = XqBytesDec([i \in 0 .. m - 1 |-> XqBytesEnc(Body(scan), n, 1)[i]], m - 1, 1)
    BY <2>1, <2>2
  <2> QED
    BY <1>2, <2>3, <2>4, CutByOneCell
<1>4. Decoded(pkt) = d
  <2> HIDE DEF n, m, pkt
  <2>1. /\ pkt.byteLength > HeaderLen + 1 /\ pkt.payload_len > pkt.byteLength
        /\ pkt.byteLength - (HeaderLen + 1) = m
    BY <1>0, <1>1 DEF HeaderLen
  <2>2. m > Rotate
    BY <1>0 DEF Rotate
  <2> QED
    BY <2>1, <2>2 DEF Decoded, Rotate
<1>5. Listed(scan) = [k \in 1 .. MaxItems |->
          [ssid |-> <<d[5 * (k - 1)], d[5 * (k - 1) + 1]>>,
           channel |-> d[5 * (k - 1) + 5 - 1]]]
  <2>1. pkt.payload_len # 1
    BY <1>0, <1>1
  <2>2. Listed(scan) = parseListWifi(pkt, d)
    BY <1>4, <2>1 DEF Listed
  <2> HIDE DEF n, pkt, d
  <2>3. (pkt.byteLength - (HeaderLen + 1)) \div ItemLen = MaxItems
    BY <1>0, <1>1 DEF HeaderLen, ItemLen
  <2>4. MaxItems < pkt.msg_count
    BY <1>1
  <2> QED
    BY <2>2, <2>3, <2>4 DEF parseListWifi, ItemLen
<1>c. d[m - 1] \in Nat
  <2> HIDE DEF d, n
  <2>1. m \in 0 .. n - 1
    BY <1>0
  <2>2. Body(scan)[m] \in Nat
    BY <1>2, <2>1 DEF Buffer
  <2> QED
    BY <1>3, <2>2, FlipTwice
<1> HIDE DEF d, pkt
<1>7. Listed(scan)[1].ssid[1] = scan[MaxItems].channel
  <2>1. Listed(scan)[1] = [ssid |-> <<d[5 * (1 - 1)], d[5 * (1 - 1) + 1]>>,
                           channel |-> d[5 * (1 - 1) + 5 - 1]]
    BY <1>0, <1>5
  <2>2. Listed(scan)[1].ssid[1] = d[5 * (1 - 1)] /\ 5 * (1 - 1) = 0
    BY <2>1
  <2>3. m - 1 = 5 * (MaxItems - 1) + 4 /\ MaxItems \in 1 .. Len(scan)
    BY <1>0
  <2>4. Body(scan)[m - 1] = scan[MaxItems].channel
    BY <2>3, BodyCells
  <2> QED
    BY <1>3, <2>2, <2>4
<1>8. ASSUME NEW k \in 2 .. MaxItems
      PROVE  Listed(scan)[k].ssid = scan[k].ssid
  <2>1. /\ k \in 1 .. Len(scan) /\ k \in 1 .. MaxItems /\ k \in DOMAIN scan
        /\ 5 * (k - 1) \in 1 .. m - 2 /\ 5 * (k - 1) + 1 \in 1 .. m - 2
    BY <1>0
  <2>2. Listed(scan)[k].ssid = <<d[5 * (k - 1)], d[5 * (k - 1) + 1]>>
    BY <1>5, <2>1
  <2>3. /\ Body(scan)[5 * (k - 1)] = scan[k].ssid[1]
        /\ Body(scan)[5 * (k - 1) + 1] = scan[k].ssid[2]
    BY <2>1, BodyCells
  <2>4. scan[k] \in Network
    BY <2>1
  <2>5. scan[k].ssid = <<scan[k].ssid[1], scan[k].ssid[2]>>
    BY <2>4, CellsOfItem
  <2> QED
    BY <1>3, <2>1, <2>2, <2>3, <2>5
<1>9. ASSUME NEW k \in 1 .. MaxItems - 1
      PROVE  Listed(scan)[k].channel = scan[k].channel
  <2>1. /\ k \in 1 .. Len(scan) /\ k \in 1 .. MaxItems
        /\ 5 * (k - 1) + 4 \in 1 .. m - 2 /\ 5 * (k - 1) + 5 - 1 = 5 * (k - 1) + 4
    BY <1>0
  <2>2. Listed(scan)[k].channel = d[5 * (k - 1) + 5 - 1]
    BY <1>5, <2>1
  <2>3. Body(scan)[5 * (k - 1) + 4] = scan[k].channel
    BY <2>1, BodyCells
  <2> QED
    BY <1>3, <2>1, <2>2, <2>3
<1>10. Listed(scan)[MaxItems].channel \in Nat
  <2>1. MaxItems \in 1 .. MaxItems /\ 5 * (MaxItems - 1) + 5 - 1 = m - 1
    BY <1>0
  <2> QED
    BY <1>5, <1>c, <2>1
<1> QED
  BY <1>5, <1>7, <1>8, <1>9, <1>10

Known(scan) ==
    {k \in DOMAIN scan :
        scan[k].ssid = Home /\ (Len(scan) > MaxItems => k \in 2 .. MaxItems)}

\* The first match of a listing is the first network of that name which the
\* camera saw, but for the item whose name was spoilt.
LEMMA FirstMatchIsFirstSeen ==
    ASSUME NEW scan \in Scans, NEW k, FirstMatch(scan, k)
    PROVE  /\ k \in Known(scan) /\ \A j \in Known(scan) : k <= j
           /\ \/ Listed(scan)[k].channel = scan[k].channel
              \/ Len(scan) > MaxItems /\ k = MaxItems
           /\ Listed(scan)[k].channel \in Nat
<1>1. scan \in Seq(Network) /\ Len(scan) \in Nat /\ MaxItems \in Nat \ {0}
  BY PairAssumption
<1>2. DOMAIN scan = 1 .. Len(scan)
  BY <1>1
<1>3. k \in Matches(scan) /\ \A j \in Matches(scan) : k <= j
  BY DEF FirstMatch
<1>4. CASE Len(scan) <= MaxItems
  <2>1. Known(scan) = Matches(scan)
    BY <1>1, <1>2, <1>4, ListedWhole DEF Known, Matches
  <2>2. k \in 1 .. Len(scan)
    BY <1>2, <1>3, <2>1 DEF Known
  <2>3. Listed(scan)[k].channel = scan[k].channel
    BY <1>1, <1>4, <2>2, ListedWhole
  <2>4. scan[k].channel \in Nat
    BY <1>1, <2>2, ChannelIsByte
  <2> QED
    BY <1>3, <2>1, <2>3, <2>4
<1>5. CASE Len(scan) > MaxItems
  <2>1. /\ DOMAIN Listed(scan) = 1 .. MaxItems
        /\ Listed(scan)[1].ssid[1] = scan[MaxItems].channel
        /\ \A i \in 2 .. MaxItems : Listed(scan)[i].ssid = scan[i].ssid
        /\ \A i \in 1 .. MaxItems - 1 : Listed(scan)[i].channel = scan[i].channel
        /\ Listed(scan)[MaxItems].channel \in Nat
    BY <1>1, <1>5, ListedCut
  <2>2. 1 \notin Matches(scan)
    <3>1. MaxItems \in DOMAIN scan
      BY <1>1, <1>2, <1>5
    <3>2. scan[MaxItems].channel # Home[1]
      BY <3>1, HomeAssumption
    <3> QED
      BY <2>1, <3>2 DEF Matches
  <2>3. Known(scan) = Matches(scan)
    <3>1. \A i \in 2 .. MaxItems : i \in DOMAIN scan /\ i \in 1 .. MaxItems
      BY <1>1, <1>2, <1>5
    <3>2. \A i \in 1 .. MaxItems : i # 1 => i \in 2 .. MaxItems
      BY <1>1
    <3>3. \A i : i \in Matches(scan) <=> i \in 2 .. MaxItems /\ scan[i].ssid = Home
      BY <2>1, <2>2, <3>1, <3>2 DEF Matches
    <3>4. \A i : i \in Known(scan) <=> i \in 2 .. MaxItems /\ scan[i].ssid = Home
      BY <1>5, <3>1 DEF Known
    <3> QED
      BY <3>3, <3>4 DEF Known, Matches
  <2>4. k \in 1 .. MaxItems
    BY <1>3, <2>1 DEF Matches
  <2>5. k = MaxItems \/ k \in 1 .. MaxItems - 1
    BY <1>1, <2>4
  <2>6. \A i \in 1 .. MaxItems - 1 : i \in 1 .. Len(scan) /\ scan[i].channel \in Nat
    BY <1>1, <1>5, ChannelIsByte
  <2> QED
    BY <1>3, <1>5, <2>1, <2>3, <2>5, <2>6
<1> QED
  BY <1>1, <1>4, <1>5

\* What a session may have told its camera.
Right(u) ==
    \E k \in Known(u.scan) :
        /\ \A j \in Known(u.scan) : k <= j
        /\ u.channel = u.scan[k].channel \/ (Len(u.scan) > MaxItems /\ k = MaxItems)

LEMMA ConfiguresRight ==
    ASSUME NEW scan \in Scans, NEW k, FirstMatch(scan, k)
    PROVE  /\ WifiDetails(scan, Listed(scan)[k].channel) \in [scan : Scans, channel : 0 .. 255]
           /\ Right(WifiDetails(scan, Listed(scan)[k].channel))
<1> DEFINE u == WifiDetails(scan, Listed(scan)[k].channel)
<1>1. u.scan = scan /\ u.channel = Listed(scan)[k].channel % 256
  BY DEF WifiDetails
<1>2. /\ k \in Known(scan) /\ \A j \in Known(scan) : k <= j
      /\ \/ Listed(scan)[k].channel = scan[k].channel
         \/ Len(scan) > MaxItems /\ k = MaxItems
      /\ Listed(scan)[k].channel \in Nat
  BY FirstMatchIsFirstSeen
<1>3. scan \in Seq(Network) /\ k \in 1 .. Len(scan)
  BY <1>2, PairAssumption DEF Known
<1>4. scan[k].channel \in 0 .. 255
  BY <1>3, ChannelIsByte
<1>5. scan[k].channel % 256 = scan[k].channel
  BY <1>4
<1>6. u \in [scan : Scans, channel : 0 .. 255]
  <2>1. \A c \in Nat : c % 256 \in 0 .. 255
    OBVIOUS
  <2>2. Listed(scan)[k].channel % 256 \in 0 .. 255
    BY <1>2, <2>1
  <2> QED
    BY <2>2 DEF WifiDetails
<1>7. Right(u)
  <2> HIDE DEF u
  <2> QED
    BY <1>1, <1>2, <1>5 DEF Right
<1> QED
  BY <1>6, <1>7

AsScannedInv ==
    /\ used \in Seq([scan : Scans, channel : 0 .. 255])
    /\ \A i \in DOMAIN used : Right(used[i])

LEMMA AsScannedStep ==
    ASSUME AsScannedInv, NEW scan \in Scans, HandleListWifiAck(scan)
    PROVE  AsScannedInv'
<1>1. PICK k \in Matches(scan) :
          FirstMatch(scan, k) /\ ConfigureWifi(scan, Listed(scan)[k].channel)
  BY DEF HandleListWifiAck
<1> DEFINE u == WifiDetails(scan, Listed(scan)[k].channel)
<1>2. u \in [scan : Scans, channel : 0 .. 255] /\ Right(u)
  BY <1>1, ConfiguresRight
<1>3. used' = Append(used, u)
  BY <1>1 DEF ConfigureWifi
<1> HIDE DEF u
<1>4. used' \in Seq([scan : Scans, channel : 0 .. 255])
  BY <1>2, <1>3 DEF AsScannedInv
<1>5. ASSUME NEW i \in DOMAIN used'
      PROVE  Right(used'[i])
  <2>1. (i \in DOMAIN used /\ used'[i] = used[i]) \/ used'[i] = u
    BY <1>2, <1>3 DEF AsScannedInv
  <2> QED
    BY <1>2, <2>1 DEF AsScannedInv
<1>6. \A i \in DOMAIN used' : Right(used[i])'
  BY <1>5 DEF Right, Known
<1> QED
  BY <1>4, <1>6 DEF AsScannedInv

LEMMA AsScannedNext == AsScannedInv /\ [PairNext]_pairVars => AsScannedInv'
<1> SUFFICES ASSUME AsScannedInv, [PairNext]_pairVars PROVE AsScannedInv'
  OBVIOUS
<1>1. CASE used' = <<>>
  BY <1>1 DEF AsScannedInv
<1>2. CASE UNCHANGED used
  BY <1>2 DEF AsScannedInv, Right, Known
<1>3. ASSUME NEW scan \in Scans, HandleListWifiAck(scan) PROVE AsScannedInv'
  BY <1>3, AsScannedStep
<1> QED
  BY <1>1, <1>2, <1>3 DEF PairNext, pairVars, Discover, Disconnect, HandleP2PRdy,
       HandleConnectUserAck, Delivers

\* For every listing, however long, and wherever it is cut.
THEOREM ChannelAsScanned == PairSpec => []ConfiguredAsScanned
<1>1. PairInit => AsScannedInv
  BY DEF PairInit, AsScannedInv
<1>2. AsScannedInv => ConfiguredAsScanned
  <2> SUFFICES ASSUME AsScannedInv PROVE ConfiguredAsScanned
    OBVIOUS
  <2>1. ASSUME NEW u \in {used[i] : i \in DOMAIN used}
        PROVE  Right(u)
    BY DEF AsScannedInv
  <2> QED
    BY <2>1 DEF ConfiguredAsScanned, Right, Known
<1> QED
  BY <1>1, <1>2, AsScannedNext, PTL DEF PairSpec

-----------------------------------------------------------------------------
(***************************************************************************)
(* A session configures its camera at most once.  `configured` is reset    *)
(* when the session ends, its commands stay: therefore `open`.             *)
(***************************************************************************)
Configures(n) == kinds[n] = "WifiSettingsSet"

OnceInv ==
    /\ kinds \in Seq({"ConnectUser", "ListWifi", "WifiSettingsSet"})
    /\ \A m, n \in DOMAIN kinds : Configures(m) /\ Configures(n) => m = n
    /\ open /\ ~configured => \A n \in DOMAIN kinds : ~Configures(n)

LEMMA SendAppends ==
    ASSUME OnceInv, NEW kind \in {"ConnectUser", "ListWifi", "WifiSettingsSet"},
           SendCommand(kind)
    PROVE  /\ kinds' \in Seq({"ConnectUser", "ListWifi", "WifiSettingsSet"})
           /\ DOMAIN kinds' = DOMAIN kinds \cup {Len(kinds) + 1}
           /\ kinds'[Len(kinds) + 1] = kind
           /\ \A n \in DOMAIN kinds : n # Len(kinds) + 1 /\ kinds'[n] = kinds[n]
           /\ open' = open
  BY DEF OnceInv, SendCommand

\* Any other command may be sent at any time ...
LEMMA OtherCommands ==
    ASSUME OnceInv, NEW kind \in {"ConnectUser", "ListWifi"}, SendCommand(kind),
           configured' = configured
    PROVE  OnceInv'
<1>1. /\ kinds' \in Seq({"ConnectUser", "ListWifi", "WifiSettingsSet"})
      /\ DOMAIN kinds' = DOMAIN kinds \cup {Len(kinds) + 1}
      /\ kinds'[Len(kinds) + 1] = kind
      /\ \A n \in DOMAIN kinds : n # Len(kinds) + 1 /\ kinds'[n] = kinds[n]
      /\ open' = open
  BY SendAppends
<1> QED
  BY <1>1 DEF OnceInv, Configures

\* ... the configuration only while none was sent.
LEMMA FirstConfiguration ==
    ASSUME OnceInv, NEW scan, HandleListWifiAck(scan)
    PROVE  OnceInv'
<1>1. SendCommand("WifiSettingsSet") /\ configured' = TRUE
  BY DEF HandleListWifiAck, ConfigureWifi
<1>2. \A n \in DOMAIN kinds : ~Configures(n)
  BY DEF HandleListWifiAck, Answered, OnceInv
<1>3. /\ kinds' \in Seq({"ConnectUser", "ListWifi", "WifiSettingsSet"})
      /\ DOMAIN kinds' = DOMAIN kinds \cup {Len(kinds) + 1}
      /\ \A n \in DOMAIN kinds : n # Len(kinds) + 1 /\ kinds'[n] = kinds[n]
  BY <1>1, SendAppends
<1>4. \A n \in DOMAIN kinds' : Configures(n)' => n = Len(kinds) + 1
  BY <1>2, <1>3 DEF Configures
<1> QED
  BY <1>1, <1>3, <1>4 DEF OnceInv

LEMMA OnceNext == OnceInv /\ [PairNext]_pairVars => OnceInv'
<1> SUFFICES ASSUME OnceInv, [PairNext]_pairVars PROVE OnceInv'
  OBVIOUS
<1>1. CASE Discover
  <2>1. kinds' = <<>> /\ DOMAIN kinds' = {}
    BY <1>1 DEF Discover
  <2> QED
    BY <2>1 DEF OnceInv, Configures
<1>2. CASE Disconnect
  BY <1>2 DEF Disconnect, Close, OnceInv, Configures
<1>3. CASE HandleP2PRdy
  BY <1>3, OtherCommands DEF HandleP2PRdy
<1>4. CASE HandleConnectUserAck
  BY <1>4, OtherCommands DEF HandleConnectUserAck
<1>5. ASSUME NEW scan \in Scans, HandleListWifiAck(scan) PROVE OnceInv'
  BY <1>5, FirstConfiguration
<1>6. CASE UNCHANGED <<kinds, configured, open>>
  BY <1>6 DEF OnceInv, Configures
<1>7. CASE Delivers
  BY <1>6, <1>7 DEF Delivers, Settle, Execute
<1>8. CASE UNCHANGED pairVars
  BY <1>6, <1>8 DEF pairVars, vars
<1> QED
  BY <1>1, <1>2, <1>3, <1>4, <1>5, <1>7, <1>8 DEF PairNext

\* However often the camera answers, and whenever: one configuration a session.
THEOREM CameraConfiguredOnce == PairSpec => []ConfiguredOnce
<1>1. PairInit => OnceInv
  <2> SUFFICES ASSUME PairInit PROVE OnceInv
    OBVIOUS
  <2>1. kinds = <<>> /\ DOMAIN kinds = {} /\ open = FALSE
    BY DEF PairInit
  <2> QED
    BY <2>1 DEF OnceInv
<1>2. OnceInv => ConfiguredOnce
  <2> SUFFICES ASSUME OnceInv PROVE ConfiguredOnce
    OBVIOUS
  <2> DEFINE S == {n \in DOMAIN kinds : kinds[n] = "WifiSettingsSet"}
  <2>1. CASE S = {}
    <3>1. Cardinality(S) = 0
      BY <2>1, FS_EmptySet
    <3> QED
      BY <3>1 DEF ConfiguredOnce
  <2>2. CASE S # {}
    <3>1. PICK n \in S : TRUE
      BY <2>2
    <3>2. S = {n}
      BY <3>1 DEF OnceInv, Configures
    <3>3. Cardinality(S) = 1
      BY <3>2, FS_Singleton
    <3> QED
      BY <3>3 DEF ConfiguredOnce
  <2> QED
    BY <2>1, <2>2
<1> QED
  BY <1>1, <1>2, OnceNext, PTL DEF PairSpec

-----------------------------------------------------------------------------
(***************************************************************************)
(* A session of pairing uses its commands as CommandDelivery has it, which *)
(* CommandChannel implements; and a camera answers only what it was told,  *)
(* so that a session logs in, lists and configures in this order.          *)
(***************************************************************************)
Kind == {"ConnectUser", "ListWifi", "WifiSettingsSet"}

PairTypeOK ==
    /\ count \in Nat /\ kinds \in Seq(Kind) /\ Len(kinds) = count
    /\ waiting \subseteq 1 .. count
    /\ executed \subseteq 1 .. count
    /\ open \in BOOLEAN

\* Command n was sent when the camera had carried out one of the kind given.
After(n, kind) == \E m \in executed : m < n /\ kinds[m] = kind

Sequenced ==
    \A n \in DOMAIN kinds :
        /\ kinds[n] = "ListWifi" => After(n, "ConnectUser")
        /\ kinds[n] = "WifiSettingsSet" => After(n, "ListWifi")

LEMMA SendIsIssue ==
    ASSUME PairTypeOK, open, NEW kind \in Kind, SendCommand(kind)
    PROVE  /\ PairTypeOK' /\ Issue
           /\ DOMAIN kinds = 1 .. count /\ DOMAIN kinds' = 1 .. count + 1
           /\ kinds'[count + 1] = kind /\ \A n \in 1 .. count : kinds'[n] = kinds[n]
<1>1. /\ count \in Nat /\ kinds \in Seq(Kind) /\ Len(kinds) = count
      /\ waiting \subseteq 1 .. count /\ executed \subseteq 1 .. count
      /\ MaxCommands \in Nat
  BY PairAssumption DEF PairTypeOK
<1>2. /\ count < MaxCommands /\ count' = count + 1
      /\ waiting' = waiting \cup {count + 1} /\ kinds' = Append(kinds, kind)
      /\ executed' = executed /\ open' = open
  BY DEF SendCommand
<1>3. kinds' \in Seq(Kind) /\ Len(kinds') = count + 1 /\ kinds'[count + 1] = kind
  BY <1>1, <1>2
<1>4. \A n \in 1 .. count : kinds'[n] = kinds[n]
  BY <1>1, <1>2
<1>5. PairTypeOK'
  <2>1. 1 .. count \subseteq 1 .. count' /\ count + 1 \in 1 .. count' /\ count' \in Nat
    BY <1>1, <1>2
  <2>2. open' \in BOOLEAN
    BY <1>2 DEF PairTypeOK
  <2> QED
    BY <1>1, <1>2, <1>3, <2>1, <2>2 DEF PairTypeOK
<1>6. Issue
  <2>1. count + 1 \in count .. MaxCommands
    BY <1>1, <1>2
  <2>2. count + 1 .. count + 1 = {count + 1}
    BY <1>1
  <2>3. count' = count + 1 /\ waiting' = waiting \cup (count + 1 .. count + 1)
    BY <1>2, <2>2
  <2> QED
    BY <1>2, <2>1, <2>3 DEF Issue
<1>7. DOMAIN kinds = 1 .. count /\ DOMAIN kinds' = 1 .. count + 1
  BY <1>1, <1>3
<1> QED
  BY <1>3, <1>4, <1>5, <1>6, <1>7

\* What a command may be sent after.
Cause(kind) ==
    /\ kind = "ListWifi" => \E m \in executed : kinds[m] = "ConnectUser"
    /\ kind = "WifiSettingsSet" => \E m \in executed : kinds[m] = "ListWifi"

LEMMA SendKeepsOrder ==
    ASSUME PairTypeOK, Sequenced, open, NEW kind \in Kind, SendCommand(kind), Cause(kind)
    PROVE  Sequenced'
<1>1. /\ DOMAIN kinds = 1 .. count /\ DOMAIN kinds' = 1 .. count + 1
      /\ kinds'[count + 1] = kind /\ \A n \in 1 .. count : kinds'[n] = kinds[n]
  BY SendIsIssue
<1>2. executed' = executed /\ executed \subseteq 1 .. count /\ count \in Nat
  BY DEF SendCommand, PairTypeOK
<1>3. ASSUME NEW n \in 1 .. count, NEW k, After(n, k) PROVE After(n, k)'
  BY <1>1, <1>2, <1>3 DEF After
<1>4. ASSUME NEW c, c = count + 1, NEW k, NEW m \in executed, kinds[m] = k
      PROVE  After(c, k)'
  <2>1. m \in 1 .. count /\ m < c /\ m \in executed'
    BY <1>2, <1>4
  <2>2. kinds'[m] = k
    BY <1>1, <1>4, <2>1
  <2> QED
    BY <2>1, <2>2 DEF After
<1>5. ASSUME NEW n \in 1 .. count
      PROVE  /\ kinds'[n] = "ListWifi" => After(n, "ConnectUser")'
             /\ kinds'[n] = "WifiSettingsSet" => After(n, "ListWifi")'
  BY <1>1, <1>3 DEF Sequenced
<1>6. ASSUME NEW n, n = count + 1
      PROVE  /\ kinds'[n] = "ListWifi" => After(n, "ConnectUser")'
             /\ kinds'[n] = "WifiSettingsSet" => After(n, "ListWifi")'
  BY <1>1, <1>4, <1>6 DEF Cause
<1>7. \A n \in DOMAIN kinds' : n \in 1 .. count \/ n = count + 1
  BY <1>1, <1>2
<1> QED
  BY <1>5, <1>6, <1>7 DEF Sequenced

\* One step of a session: a step of CommandDelivery; and it keeps the order.
LEMMA PairStep ==
    ASSUME PairTypeOK, Sequenced, PairNext
    PROVE  PairTypeOK' /\ Sequenced' /\ ((Discover /\ Init') \/ [Next]_vars)
<1>0. /\ count \in Nat /\ kinds \in Seq(Kind) /\ DOMAIN kinds = 1 .. count
      /\ waiting \subseteq 1 .. count /\ executed \subseteq 1 .. count
  BY DEF PairTypeOK
<1>a. ASSUME open, NEW kind \in Kind, SendCommand(kind), Cause(kind)
      PROVE  PairTypeOK' /\ Sequenced' /\ [Next]_vars
  BY <1>a, SendIsIssue, SendKeepsOrder DEF Next
<1>b. ASSUME Answered("ConnectUser") \/ Answered("ListWifi")
      PROVE  open
  BY <1>b DEF Answered
<1>1. CASE Discover
  <2>1. /\ count' = 0 /\ waiting' = {} /\ executed' = {} /\ open' = TRUE /\ kinds' = <<>>
    BY <1>1 DEF Discover
  <2>2. <<>> \in Seq(Kind) /\ Len(<<>>) = 0 /\ DOMAIN <<>> = {}
    OBVIOUS
  <2>3. Init'
    BY <2>1 DEF Init
  <2>4. PairTypeOK'
    BY <2>1, <2>2 DEF PairTypeOK
  <2>5. Sequenced'
    BY <2>1, <2>2 DEF Sequenced
  <2> QED
    BY <1>1, <2>3, <2>4, <2>5
<1>2. CASE Disconnect
  BY <1>2 DEF Disconnect, Close, Next, PairTypeOK, Sequenced, After
<1>3. CASE HandleP2PRdy
  BY <1>3, <1>a DEF HandleP2PRdy, Kind, Cause
<1>4. CASE HandleConnectUserAck
  <2>1. SendCommand("ListWifi") /\ open /\ \E m \in executed : kinds[m] = "ConnectUser"
    BY <1>4 DEF HandleConnectUserAck, Answered
  <2> QED
    BY <1>a, <2>1 DEF Kind, Cause
<1>5. ASSUME NEW scan \in Scans, HandleListWifiAck(scan)
      PROVE  PairTypeOK' /\ Sequenced' /\ [Next]_vars
  <2>1. SendCommand("WifiSettingsSet") /\ open /\ \E m \in executed : kinds[m] = "ListWifi"
    BY <1>5 DEF HandleListWifiAck, ConfigureWifi, Answered
  <2> QED
    BY <1>a, <2>1 DEF Kind, Cause
<1>6. CASE Settle /\ UNCHANGED kinds
  BY <1>6 DEF Settle, Next, PairTypeOK, Sequenced, After
<1>7. ASSUME NEW n \in Command, Execute(n), UNCHANGED kinds
      PROVE  PairTypeOK' /\ Sequenced' /\ [Next]_vars
  <2>1. /\ executed' = executed \cup {n} /\ n \in 1 .. count
        /\ UNCHANGED <<count, waiting, open, kinds>>
    BY <1>7 DEF Execute
  <2>2. PairTypeOK'
    BY <2>1 DEF PairTypeOK
  <2>3. Sequenced'
    BY <2>1 DEF Sequenced, After
  <2> QED
    BY <1>7, <2>2, <2>3 DEF Next
<1> QED
  BY <1>1, <1>2, <1>3, <1>4, <1>5, <1>6, <1>7 DEF PairNext, Delivers

LEMMA PairInvariant ==
    PairSpec => [](PairTypeOK /\ Sequenced)
<1>1. PairInit => PairTypeOK /\ Sequenced
  <2> SUFFICES ASSUME PairInit PROVE PairTypeOK /\ Sequenced
    OBVIOUS
  <2>1. /\ count = 0 /\ waiting = {} /\ executed = {} /\ open = FALSE /\ kinds = <<>>
    BY DEF PairInit
  <2>2. <<>> \in Seq(Kind) /\ Len(<<>>) = 0 /\ DOMAIN <<>> = {}
    OBVIOUS
  <2> QED
    BY <2>1, <2>2 DEF PairTypeOK, Sequenced
<1>2. PairTypeOK /\ Sequenced /\ UNCHANGED pairVars => PairTypeOK' /\ Sequenced'
  BY DEF PairTypeOK, Sequenced, After, pairVars, vars
<1>3. PairTypeOK /\ Sequenced /\ [PairNext]_pairVars => (PairTypeOK /\ Sequenced)'
  BY <1>2, PairStep
<1> QED
  BY <1>1, <1>3, PTL DEF PairSpec

\* In every session, and whatever is lost, resent or answered twice: networks are
\* listed after the camera carried out a login, and one is chosen after the camera
\* carried out a listing.
THEOREM PairGoesInOrder == PairSpec => []Sequenced
  BY PairInvariant, PTL

\* Pairing is one session after the other, each of which starts as CommandDelivery
\* does and takes its steps only.
SessionsDeliver == [][(Discover /\ Init') \/ [Next]_vars]_vars

THEOREM PairUsesDelivery == PairSpec => SessionsDeliver
<1>1. PairTypeOK /\ Sequenced /\ [PairNext]_pairVars => [(Discover /\ Init') \/ [Next]_vars]_vars
  BY PairStep DEF pairVars
<1> QED
  BY <1>1, PairInvariant, PTL DEF PairSpec, SessionsDeliver

-----------------------------------------------------------------------------
(***************************************************************************)
(* The capture command, for any number of cameras.  Until an exception     *)
(* ends it, the socket that searches is closed exactly when the file is    *)
(* written, and the session it was written from is gone: a second picture  *)
(* is another camera's, and closes that socket again.                      *)
(***************************************************************************)
Picture == [by : Camera, extent : {"whole", "cut"}]

CaptureTypes ==
    /\ discovery \in {"open", "failed", "closed"}
    /\ sessions \in [Camera -> Stage]
    /\ outFile \in Seq(Picture)

CaptureInv == CaptureTypes /\ OnePicture

LEMMA OneMore ==
    ASSUME NEW S, NEW s \in Seq(S), NEW e \in S
    PROVE  /\ Append(s, e) \in Seq(S) /\ Len(Append(s, e)) = Len(s) + 1
           /\ Append(s, e)[Len(s) + 1] = e
           /\ \A i \in 1 .. Len(s) : Append(s, e)[i] = s[i]
  OBVIOUS

LEMMA OnlyOne ==
    ASSUME NEW S, NEW s \in Seq(S), Len(s) = 1
    PROVE  s[1] \in S
  OBVIOUS

LEMMA Thrown ==
    ASSUME NEW by, NEW why, Throw(by, why)
    PROVE  /\ Crashed' /\ \A e \in exception' : e.by = by /\ e.why = why
  BY DEF Throw, Crashed

\* What a write leaves in the file of a process that is in order.
LEMMA WriteAppends ==
    ASSUME CaptureTypes, Orderly, NEW c \in Camera, NEW extent \in {"whole", "cut"}, Write(c, extent),
           sessions[c] = "open"
    PROVE  /\ outFile' \in Seq(Picture)
           /\ discovery # "closed" => /\ Len(outFile') = 1
                                      /\ outFile'[1].by = c /\ outFile'[1].extent = extent
           /\ discovery = "closed" =>
                /\ Len(outFile') = 2 /\ outFile'[1].by # outFile'[2].by
                /\ outFile'[1].extent = "whole" /\ outFile'[2].extent = extent
<1> DEFINE w == [by |-> c, extent |-> extent]
<1>1. outFile \in Seq(Picture) /\ w \in Picture /\ outFile' = Append(outFile, w)
  BY DEF CaptureTypes, Write, Picture
<1>2. /\ outFile' \in Seq(Picture) /\ Len(outFile') = Len(outFile) + 1
      /\ outFile'[Len(outFile) + 1] = w
      /\ \A i \in 1 .. Len(outFile) : outFile'[i] = outFile[i]
  <2> HIDE DEF w
  <2> QED BY <1>1, OneMore
<1>3. ASSUME discovery # "closed" PROVE Len(outFile') = 1 /\ outFile'[1] = w
  BY <1>2, <1>3 DEF Orderly
<1>4. ASSUME discovery = "closed"
      PROVE  /\ Len(outFile') = 2 /\ outFile'[1].by # outFile'[2].by
             /\ outFile'[1].extent = "whole" /\ outFile'[2].extent = extent
  <2>1. Len(outFile) = 1 /\ outFile[1].extent = "whole" /\ sessions[outFile[1].by] = "closed"
    BY <1>4 DEF Orderly, WholeUpTo
  <2>2. Len(outFile') = 2 /\ outFile'[2] = w /\ outFile'[1] = outFile[1]
    BY <1>2, <2>1
  <2> QED BY <2>1, <2>2
<1> QED BY <1>2, <1>3, <1>4

\* The frame listener, as far as it gets.
LEMMA CaptureFrame ==
    ASSUME CaptureInv, ~Crashed, NEW c \in Camera, Frame(c)
    PROVE  CaptureInv'
<1>1. CaptureTypes /\ Orderly /\ sessions[c] = "open" /\ exception = {}
  BY DEF CaptureInv, OnePicture, Frame, Crashed
<1>2. CASE WriteThrows(c)
  <2>1. Throw(c, "write") /\ UNCHANGED <<discovery, sessions>>
    BY <1>2 DEF WriteThrows
  <2>2. CASE UNCHANGED outFile
    <3>1. CaptureTypes' /\ Orderly'
      BY <1>1, <2>1, <2>2 DEF CaptureTypes, Orderly, WholeUpTo
    <3> QED BY <2>1, <3>1, Thrown DEF CaptureInv, OnePicture
  <2>3. CASE Write(c, "cut")
    <3>1. CaptureTypes'
      BY <1>1, <2>1, <2>3, WriteAppends DEF CaptureTypes
    <3>2. \/ Len(outFile') = 1 /\ discovery' # "closed"
          \/ TwoCameras' /\ discovery' = "closed" /\ WholeUpTo(1)'
      BY <1>1, <2>1, <2>3, WriteAppends DEF TwoCameras, WholeUpTo
    <3> QED BY <2>1, <3>1, <3>2, Thrown DEF CaptureInv, OnePicture
  <2> QED BY <1>2, <2>2, <2>3 DEF WriteThrows
<1>3. CASE CloseThrows(c)
  <2>1. /\ discovery # "open" /\ Write(c, "whole") /\ Throw(c, "close")
        /\ UNCHANGED <<discovery, sessions>>
    BY <1>3 DEF CloseThrows
  <2>2. CaptureTypes'
    BY <1>1, <2>1, WriteAppends DEF CaptureTypes
  <2>3. CASE discovery = "failed"
    <3>1. Len(outFile') = 1 /\ outFile'[1].extent = "whole"
      BY <1>1, <2>1, <2>3, WriteAppends
    <3>2. WholeUpTo(Len(outFile))'
      BY <3>1 DEF WholeUpTo
    <3> QED BY <2>1, <2>2, <2>3, <3>1, <3>2, Thrown DEF CaptureInv, OnePicture
  <2>4. CASE discovery = "closed"
    <3>1. /\ Len(outFile') = 2 /\ outFile'[1].by # outFile'[2].by
          /\ outFile'[1].extent = "whole" /\ outFile'[2].extent = "whole"
      BY <1>1, <2>1, <2>4, WriteAppends
    <3>2. WholeUpTo(Len(outFile))' /\ TwoCameras'
      BY <3>1 DEF WholeUpTo, TwoCameras
    <3> QED BY <2>1, <2>2, <2>4, <3>2, Thrown DEF CaptureInv, OnePicture
  <2> QED BY <1>1, <2>1, <2>3, <2>4 DEF CaptureTypes
<1>4. CASE FirstPicture(c)
  <2>1. /\ discovery = "open" /\ discovery' = "closed" /\ Write(c, "whole")
        /\ sessions' = [sessions EXCEPT ![c] = "closed"] /\ exception' = {}
    BY <1>1, <1>4 DEF FirstPicture, Becomes
  <2>2. sessions' \in [Camera -> Stage] /\ sessions'[c] = "closed"
    BY <1>1, <2>1 DEF CaptureTypes, Stage
  <2>3. /\ outFile' \in Seq(Picture) /\ Len(outFile') = 1
        /\ outFile'[1].by = c /\ outFile'[1].extent = "whole"
    BY <1>1, <2>1, WriteAppends
  <2>4. CaptureTypes' /\ Orderly'
    BY <2>1, <2>2, <2>3 DEF CaptureTypes, Orderly, WholeUpTo
  <2> QED BY <2>1, <2>4 DEF CaptureInv, OnePicture, Crashed
<1> QED BY <1>2, <1>3, <1>4 DEF Frame

\* Steps that write nothing and throw nothing leave what is in order in order: no
\* closed session is opened again.
LEMMA CaptureQuiet ==
    ASSUME CaptureInv, ~Crashed, UNCHANGED <<outFile, exception>>,
           discovery' = discovery \/ (discovery = "open" /\ discovery' = "failed"),
           sessions' \in [Camera -> Stage],
           \A c \in Camera : sessions[c] = "closed" => sessions'[c] = "closed"
    PROVE  CaptureInv'
<1>1. CaptureTypes /\ Orderly
  BY DEF CaptureInv, OnePicture
<1>2. CaptureTypes' /\ ~Crashed' /\ exception' = {}
  BY <1>1 DEF CaptureTypes, Crashed
<1>3. Orderly'
  <2>1. CASE discovery # "closed" /\ Len(outFile) = 0
    BY <2>1 DEF Orderly
  <2>2. CASE /\ discovery = "closed" /\ Len(outFile) = 1
             /\ WholeUpTo(1) /\ sessions[outFile[1].by] = "closed"
    <3>1. outFile[1] \in Picture
      BY <1>1, <2>2, OnlyOne DEF CaptureTypes
    <3>2. sessions'[outFile[1].by] = "closed"
      BY <2>2, <3>1 DEF Picture
    <3> QED BY <2>2, <3>2 DEF Orderly, WholeUpTo
  <2> QED BY <1>1, <2>1, <2>2 DEF Orderly
<1> QED BY <1>2, <1>3 DEF CaptureInv, OnePicture

\* Exceptions that no write and no close throws.
LEMMA CaptureThrows ==
    ASSUME CaptureInv, ~Crashed, UNCHANGED <<discovery, sessions, outFile>>,
           \/ \E by : Throw(by, "packet")
           \/ \E c \in Camera : sessions[c] = "failed" /\ Throw(c, "send")
    PROVE  CaptureInv'
<1>1. CaptureTypes' /\ Orderly'
  BY DEF CaptureInv, CaptureTypes, OnePicture, Orderly, WholeUpTo
<1>2. CASE \E by : Throw(by, "packet")
  BY <1>1, <1>2, Thrown DEF CaptureInv, OnePicture
<1>3. CASE \E c \in Camera : sessions[c] = "failed" /\ Throw(c, "send")
  BY <1>1, <1>3, Thrown DEF CaptureInv, OnePicture
<1> QED BY <1>2, <1>3

LEMMA CaptureStep == CaptureInv /\ [CaptureNext]_captureVars => CaptureInv'
<1> SUFFICES ASSUME CaptureInv, [CaptureNext]_captureVars PROVE CaptureInv'
  OBVIOUS
<1>0. sessions \in [Camera -> Stage]
  BY DEF CaptureInv, CaptureTypes
<1>1. CASE UNCHANGED captureVars
  BY <1>1 DEF CaptureInv, CaptureTypes, OnePicture, Orderly, TwoCameras, WholeUpTo,
              Crashed, captureVars
<1>2. CASE ~Crashed /\ (PunchThrows \/ \E c \in Camera : SendThrows(c) \/ PacketThrows(c))
  BY <1>2, CaptureThrows DEF PunchThrows, SendThrows, PacketThrows
<1>3. CASE ~Crashed /\ DiscoveryError
  BY <1>0, <1>3, CaptureQuiet DEF DiscoveryError
<1>4. ASSUME ~Crashed, NEW c \in Camera,
             \/ DiscoverCamera(c) \/ SessionStarts(c)
             \/ SessionError(c) \/ DisconnectCamera(c)
      PROVE  CaptureInv'
  <2>1. PICK s \in Stage : sessions' = [sessions EXCEPT ![c] = s]
    BY <1>4 DEF DiscoverCamera, SessionStarts, SessionError, DisconnectCamera, Becomes, Stage
  <2>2. sessions[c] # "closed" /\ UNCHANGED <<discovery, outFile, exception>>
    BY <1>4 DEF DiscoverCamera, SessionStarts, SessionError, DisconnectCamera
  <2> QED BY <1>0, <1>4, <2>1, <2>2, CaptureQuiet
<1>5. ASSUME ~Crashed, NEW c \in Camera, Frame(c) PROVE CaptureInv'
  BY <1>5, CaptureFrame
<1> QED
  BY <1>1, <1>2, <1>3, <1>4, <1>5 DEF CaptureNext

LEMMA CaptureInvariant == CaptureSpec => []CaptureInv
<1>1. CaptureInit => CaptureInv
  <2> SUFFICES ASSUME CaptureInit PROVE CaptureInv
    OBVIOUS
  <2>1. /\ discovery = "open" /\ outFile = <<>> /\ exception = {}
        /\ sessions \in [Camera -> Stage]
    BY DEF CaptureInit, Stage
  <2>2. <<>> \in Seq(Picture) /\ Len(<<>>) = 0
    OBVIOUS
  <2>3. CaptureTypes /\ Orderly
    BY <2>1, <2>2 DEF CaptureTypes, Orderly
  <2> QED BY <2>1, <2>3 DEF CaptureInv, OnePicture, Crashed
<1> QED BY <1>1, CaptureStep, PTL DEF CaptureSpec

\* However many cameras answer, and whichever socket, packet or write fails: one
\* whole picture whose session and search are closed, or an exception, and of each
\* kind of exception what it finds and leaves.
THEOREM CaptureWritesOnce == CaptureSpec => []OnePicture
<1>1. CaptureInv => OnePicture
  BY DEF CaptureInv
<1> QED BY <1>1, CaptureInvariant, PTL

\* Every session of a capture implements SessionLife, for any number of cameras.
THEOREM CaptureKeepsLives == CaptureSpec => CaptureKeepsLife
<1>1. CaptureInv /\ [CaptureNext]_captureVars =>
        [\A c \in Camera :
           IF sessions[c] = "none"
           THEN sessions'[c] = "none" \/ LifeOf(c)!Init'
           ELSE [LifeOf(c)!Next]_(LifeOf(c)!vars)]_captureVars
  <2> SUFFICES ASSUME CaptureInv, CaptureNext, NEW d \in Camera
               PROVE  IF sessions[d] = "none"
                      THEN sessions'[d] = "none" \/ LifeOf(d)!Init'
                      ELSE LifeOf(d)!Next \/ UNCHANGED LifeOf(d)!vars
    OBVIOUS
  <2>0. sessions \in [Camera -> Stage] /\ exception = {}
    BY DEF CaptureInv, CaptureTypes, CaptureNext, Crashed
  <2>1. CASE sessions'[d] = sessions[d] /\ \A e \in exception' : e.by # d
    BY <2>0, <2>1 DEF LifeOf!vars
  <2>2. CASE DiscoveryError
    BY <2>1, <2>2, <2>0 DEF DiscoveryError
  <2>3. CASE PunchThrows
    BY <2>1, <2>3, Thrown, CameraAssumption DEF PunchThrows
  <2>4. ASSUME NEW c \in Camera,
               \/ SendThrows(c) \/ PacketThrows(c)
               \/ (Frame(c) /\ (WriteThrows(c) \/ CloseThrows(c)))
        PROVE  IF sessions[d] = "none"
               THEN sessions'[d] = "none" \/ LifeOf(d)!Init'
               ELSE LifeOf(d)!Next \/ UNCHANGED LifeOf(d)!vars
    <3>1. /\ sessions' = sessions /\ sessions[c] \in {"open", "failed"}
          /\ \A e \in exception' : e.by = c
          /\ \E e \in exception' : e.by = c
      <4>1. /\ sessions' = sessions /\ sessions[c] \in {"open", "failed"}
            /\ \E why : Throw(c, why)
        BY <2>4 DEF SendThrows, PacketThrows, Frame, WriteThrows, CloseThrows
      <4> QED BY <4>1, Thrown DEF Crashed
    <3>2. CASE d # c
      BY <2>1, <3>1, <3>2
    <3>3. CASE d = c
      BY <2>0, <3>1, <3>3 DEF LifeOf!Next, LifeOf!Die
    <3> QED BY <3>2, <3>3
  <2>5. ASSUME NEW c \in Camera,
               \/ DiscoverCamera(c) \/ SessionStarts(c) \/ SessionError(c)
               \/ DisconnectCamera(c) \/ (Frame(c) /\ FirstPicture(c))
        PROVE  IF sessions[d] = "none"
               THEN sessions'[d] = "none" \/ LifeOf(d)!Init'
               ELSE LifeOf(d)!Next \/ UNCHANGED LifeOf(d)!vars
    <3>1. exception' = {} /\ \E s \in Stage : sessions' = [sessions EXCEPT ![c] = s]
      BY <2>0, <2>5 DEF DiscoverCamera, SessionStarts, SessionError, DisconnectCamera,
                        FirstPicture, Becomes, Stage
    <3>2. CASE d # c
      BY <2>0, <2>1, <3>1, <3>2
    <3>3. CASE d = c
      <4>1. \/ sessions[c] = "none" /\ sessions'[c] = "binding"
            \/ sessions[c] = "binding" /\ sessions'[c] = "open"
            \/ sessions[c] = "binding" /\ sessions'[c] = "unbound"
            \/ sessions[c] = "open" /\ sessions'[c] = "failed"
            \/ sessions[c] = "open" /\ sessions'[c] = "closed"
        BY <2>0, <2>5 DEF DiscoverCamera, SessionStarts, SessionError, DisconnectCamera,
                          Frame, FirstPicture, Becomes
      <4> QED
        BY <2>0, <3>1, <3>3, <4>1
           DEF LifeOf!Init, LifeOf!Next, LifeOf!Start, LifeOf!Fail, LifeOf!End
    <3> QED BY <3>2, <3>3
  <2> QED
    BY <2>2, <2>3, <2>4, <2>5 DEF CaptureNext, Frame
<1> QED BY <1>1, CaptureInvariant, PTL DEF CaptureSpec, CaptureKeepsLife
=============================================================================
