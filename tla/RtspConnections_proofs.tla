------------------------ MODULE RtspConnections_proofs ------------------------
(***************************************************************************)
(* Proofs about RtspConnections, for any connections and any number of     *)
(* requests.  A step concerns one connection, so the invariant is one for  *)
(* each connection; its parts are stated of values, so that the lemmas     *)
(* about them need no variables.                                           *)
(***************************************************************************)
EXTENDS RtspConnections, TLAPS

(***************************************************************************)
(* The listener: the flag is set while it runs or waits, it waits for one  *)
(* socket at most, and it leaves nothing unread.                           *)
(***************************************************************************)
Flow(runs, flag, aw, q) ==
    /\ flag <=> runs \/ aw # {}
    /\ runs => aw = {}
    /\ \A v, w \in aw : v = w
    /\ ~flag => q = <<>>

\* Requests are answered, waiting and unread in the order they came.
Waiting(aw) == IF aw = {} THEN 0 ELSE 1

Order(ans, aw, q, n) ==
    /\ \A i \in DOMAIN ans : ans[i] = i
    /\ \A w \in aw : w.no = Len(ans) + 1
    /\ \A j \in DOMAIN q : q[j].no = Len(ans) + Waiting(aw) + j
    /\ Len(ans) + Waiting(aw) + Len(q) = n

(***************************************************************************)
(* The session objects ss of a connection and the ids in the map.  The id  *)
(* of an object leads to it or to a later one; an object in the map was    *)
(* not cleaned up, so its last interval is the only one it can clear.      *)
(***************************************************************************)
Counted(o) ==
    \/ o.rtcpTimer /\ o.plays > 0 /\ o.intervals = o.plays
    \/ ~o.rtcpTimer /\ o.plays = 0 /\ o.intervals = 0

Owned(ss, map) ==
    \A s \in DOMAIN map :
        /\ map[s] \in DOMAIN ss
        /\ ss[map[s]].sid = s
        /\ Counted(ss[map[s]])
        /\ \A k \in DOMAIN ss : ss[k].sid = s => k <= map[s]

Clean(o) == ~o.bound /\ (o.intervals < o.plays \/ o.intervals = 0)

Last(ss) == ss[Len(ss)]

Released(ss, map) ==
    ss # <<>> => Last(ss).sid \in DOMAIN map \/ Clean(Last(ss))

\* activeSessId is the id of the last SETUP, also of one that still waits.
Active(ss, act, aw) ==
    /\ \A w \in aw : w.sid = act
    /\ aw = {} /\ ss # <<>> => act = Last(ss).sid

Bound(ss, t) ==
    t \in {"none", "open"} => \A k \in DOMAIN ss : ss[k].udp => ss[k].bound

Gone(ss, map, aw, t) ==
    t = "closed" /\ aw = {} /\ ss # <<>> => Last(ss).late \/ Last(ss).sid \notin DOMAIN map

Objects(ss, map, act, aw, t) ==
    /\ Owned(ss, map)
    /\ Released(ss, map)
    /\ Active(ss, act, aw)
    /\ Bound(ss, t)
    /\ Gone(ss, map, aw, t)

Local(c) ==
    /\ Flow(running = c, processing[c], awaiting[c], buf[c])
    /\ Order(answers[c], awaiting[c], buf[c], arrived[c])
    /\ Objects(sessions[c], rtspSessions[c], activeSessId[c], awaiting[c], tcp[c])

LocalTypes(c) ==
    /\ buf[c] \in Seq([no : 1 .. arrived[c], req : Request(c)])
    /\ awaiting[c] \subseteq [no : 1 .. arrived[c], sid : Nat \ {NoSid}]
    /\ sessions[c] \in Seq(Sess)
    /\ rtspSessions[c] \in [DOMAIN rtspSessions[c] -> DOMAIN sessions[c]]
    /\ DOMAIN rtspSessions[c] \subseteq Given(c)
    /\ answers[c] \in Seq(1 .. arrived[c])

GlobalTypes ==
    /\ tcp \in [Connection -> {"none", "open", "destroyed", "closed"}]
    /\ running \in Connection \cup {Nobody}
    /\ processing \in [Connection -> BOOLEAN]
    /\ activeSessId \in [Connection -> Nat]
    /\ arrived \in [Connection -> 0 .. MaxRequests]
    /\ crashed \in BOOLEAN
    /\ DOMAIN buf = Connection /\ DOMAIN awaiting = Connection
    /\ DOMAIN sessions = Connection /\ DOMAIN rtspSessions = Connection
    /\ DOMAIN answers = Connection

IInv == GlobalTypes /\ \A c \in Connection : LocalTypes(c) /\ Local(c)

-----------------------------------------------------------------------------
(***************************************************************************)
(* Sequences.                                                              *)
(***************************************************************************)
LEMMA SeqGrows ==
    ASSUME NEW S, NEW T, S \subseteq T, NEW s \in Seq(S)
    PROVE  s \in Seq(T)
OBVIOUS

LEMMA Widen ==
    ASSUME NEW n \in Nat, NEW R, NEW a \in Seq(1 .. n), NEW q \in Seq([no : 1 .. n, req : R])
    PROVE  a \in Seq(Nat) /\ q \in Seq([no : Nat, req : R])
<1>1. 1 .. n \subseteq Nat
  OBVIOUS
<1> DEFINE S == [no : 1 .. n, req : R]
           T == [no : Nat, req : R]
<1>2. S \subseteq T /\ q \in Seq(S)
  BY <1>1
<1>3. a \in Seq(Nat)
  BY <1>1, SeqGrows
<1>4. q \in Seq(T)
  <2> HIDE DEF S, T
  <2> QED
    BY <1>2, SeqGrows
<1> QED
  BY <1>3, <1>4

LEMMA AppendFacts ==
    ASSUME NEW S, NEW s \in Seq(S), NEW e \in S, NEW r, r = Append(s, e)
    PROVE  /\ r \in Seq(S) /\ Len(r) = Len(s) + 1 /\ r # <<>>
           /\ DOMAIN r = DOMAIN s \cup {Len(s) + 1}
           /\ r[Len(s) + 1] = e
           /\ \A k \in DOMAIN s : r[k] = s[k] /\ k # Len(s) + 1 /\ k < Len(s) + 1
OBVIOUS

LEMMA ReplaceFacts ==
    ASSUME NEW S, NEW s \in Seq(S), NEW x \in DOMAIN s, NEW e \in S,
           NEW r, r = [s EXCEPT ![x] = e]
    PROVE  /\ r \in Seq(S) /\ DOMAIN r = DOMAIN s /\ Len(r) = Len(s)
           /\ \A k \in DOMAIN s : r[k] = IF k = x THEN e ELSE s[k]
OBVIOUS

LEMMA TailFacts ==
    ASSUME NEW S, NEW s \in Seq(S), s # <<>>, NEW r, r = Tail(s)
    PROVE  /\ r \in Seq(S) /\ Len(r) = Len(s) - 1 /\ Len(s) >= 1
           /\ Head(s) = s[1] /\ Head(s) \in S /\ 1 \in DOMAIN s
           /\ \A k \in DOMAIN r : k + 1 \in DOMAIN s /\ r[k] = s[k + 1] /\ k \in Nat
OBVIOUS

LEMMA SameLength ==
    ASSUME NEW S, NEW T, NEW s \in Seq(S), NEW p \in [DOMAIN s -> T]
    PROVE  p \in Seq(T) /\ Len(p) = Len(s) /\ (p = <<>> <=> s = <<>>)
<1>1. DOMAIN s = 1 .. Len(s) /\ Len(s) \in Nat
  OBVIOUS
<1> DEFINE n == Len(s)
<1>2. n \in Nat /\ p \in [1 .. n -> T]
  BY <1>1
<1> HIDE DEF n
<1>3. p \in Seq(T) /\ Len(p) = n
  BY <1>2
<1> QED
  BY <1>1, <1>3 DEF n

LEMMA LastIndex ==
    ASSUME NEW S, NEW s \in Seq(S), s # <<>>
    PROVE  Len(s) \in DOMAIN s /\ s[Len(s)] \in S /\ \A k \in DOMAIN s : k <= Len(s)
OBVIOUS

(***************************************************************************)
(* The order of requests.                                                  *)
(***************************************************************************)
\* A request arrives behind the others.
LEMMA OrderArrives ==
    ASSUME NEW R, NEW n \in Nat, NEW ans \in Seq(Nat), NEW aw,
           NEW q \in Seq([no : Nat, req : R]), NEW r \in R, Order(ans, aw, q, n)
    PROVE  Order(ans, aw, Append(q, [no |-> n + 1, req |-> r]), n + 1)
<1> DEFINE e == [no |-> n + 1, req |-> r]
           p == Append(q, e)
<1>1. e \in [no : Nat, req : R] /\ e.no = n + 1
  OBVIOUS
<1> HIDE DEF e
<1>2. /\ p \in Seq([no : Nat, req : R]) /\ Len(p) = Len(q) + 1
      /\ DOMAIN p = DOMAIN q \cup {Len(q) + 1}
      /\ p[Len(q) + 1] = e
      /\ \A k \in DOMAIN q : p[k] = q[k]
  BY <1>1, AppendFacts
<1> HIDE DEF p
<1>3. Len(ans) \in Nat /\ Len(q) \in Nat /\ Waiting(aw) \in Nat
  BY DEF Waiting
<1>4. Order(ans, aw, p, n + 1)
  BY <1>1, <1>2, <1>3 DEF Order
<1> QED
  BY <1>4 DEF p, e

LEMMA OneOver ==
    ASSUME NEW ans, NEW q, NEW a, NEW t, NEW n, Len(ans) \in Nat, Len(q) \in Nat,
           Len(ans) + 0 + Len(q) = n, Len(a) = Len(ans) + 1, Len(t) = Len(q) - 1
    PROVE  Len(a) + 0 + Len(t) = n
OBVIOUS

\* The next request is answered at once ...
LEMMA OrderAnswers ==
    ASSUME NEW R, NEW n \in Nat, NEW ans \in Seq(Nat),
           NEW q \in Seq([no : Nat, req : R]), q # <<>>, Order(ans, {}, q, n)
    PROVE  Order(Append(ans, Head(q).no), {}, Tail(q), n)
<1> DEFINE t == Tail(q)
<1>1. /\ Len(t) = Len(q) - 1 /\ Len(q) >= 1 /\ Head(q) = q[1] /\ 1 \in DOMAIN q
      /\ \A k \in DOMAIN t : k + 1 \in DOMAIN q /\ t[k] = q[k + 1] /\ k \in Nat
  BY TailFacts
<1> HIDE DEF t
<1>2. Waiting({}) = 0
  BY DEF Waiting
<1>o. /\ \A i \in DOMAIN ans : ans[i] = i
      /\ \A j \in DOMAIN q : q[j].no = Len(ans) + 0 + j
      /\ Len(ans) + 0 + Len(q) = n
  BY <1>2 DEF Order
<1>l. Len(ans) \in Nat /\ Len(q) \in Nat
  OBVIOUS
<1>3. Head(q).no = Len(ans) + 1
  <2>1. q[1].no = Len(ans) + 0 + 1
    BY <1>1, <1>o
  <2> QED
    BY <1>1, <1>l, <2>1
<1> DEFINE a == Append(ans, Head(q).no)
<1>4. /\ Len(a) = Len(ans) + 1
      /\ DOMAIN a = DOMAIN ans \cup {Len(ans) + 1}
      /\ a[Len(ans) + 1] = Len(ans) + 1
      /\ \A k \in DOMAIN ans : a[k] = ans[k]
  BY <1>3, AppendFacts
<1> HIDE DEF a
<1>5. \A i \in DOMAIN a : a[i] = i
  BY <1>4, <1>o
<1>6. \A j \in DOMAIN t : t[j].no = Len(a) + 0 + j
  BY <1>1, <1>4, <1>l, <1>o
<1>7. Len(a) + 0 + Len(t) = n
  <2>1. Len(a) = Len(ans) + 1 /\ Len(t) = Len(q) - 1 /\ Len(ans) + 0 + Len(q) = n
    BY <1>1, <1>4, <1>o
  <2> QED
    BY <1>l, <2>1, OneOver
<1> QED
  BY <1>2, <1>5, <1>6, <1>7 DEF Order, a, t

\* ... or has to wait ...
LEMMA OrderWaits ==
    ASSUME NEW R, NEW n \in Nat, NEW ans \in Seq(Nat),
           NEW q \in Seq([no : Nat, req : R]), q # <<>>, Order(ans, {}, q, n),
           NEW w, w.no = Head(q).no
    PROVE  Order(ans, {w}, Tail(q), n)
<1> DEFINE t == Tail(q)
<1>1. /\ Len(t) = Len(q) - 1 /\ Len(q) >= 1 /\ Head(q) = q[1] /\ 1 \in DOMAIN q
      /\ \A k \in DOMAIN t : k + 1 \in DOMAIN q /\ t[k] = q[k + 1] /\ k \in Nat
  BY TailFacts
<1> HIDE DEF t
<1>2. Waiting({}) = 0 /\ Waiting({w}) = 1
  BY DEF Waiting
<1>o. /\ \A i \in DOMAIN ans : ans[i] = i
      /\ \A j \in DOMAIN q : q[j].no = Len(ans) + 0 + j
      /\ Len(ans) + 0 + Len(q) = n
  BY <1>2 DEF Order
<1>l. Len(ans) \in Nat /\ Len(q) \in Nat
  OBVIOUS
<1>3. w.no = Len(ans) + 1
  <2>1. q[1].no = Len(ans) + 0 + 1
    BY <1>1, <1>o
  <2> QED
    BY <1>1, <1>l, <2>1
<1>4. \A j \in DOMAIN t : t[j].no = Len(ans) + 1 + j
  BY <1>1, <1>l, <1>o
<1>5. Len(ans) + 1 + Len(t) = n
  BY <1>1, <1>l, <1>o
<1> QED
  BY <1>2, <1>3, <1>4, <1>5, <1>o DEF Order, t

\* ... and is answered before those behind it.
LEMMA OrderWaited ==
    ASSUME NEW R, NEW n \in Nat, NEW ans \in Seq(Nat),
           NEW q \in Seq([no : Nat, req : R]), NEW w, Order(ans, {w}, q, n)
    PROVE  Order(Append(ans, w.no), {}, q, n)
<1>1. Waiting({}) = 0 /\ Waiting({w}) = 1
  BY DEF Waiting
<1>2. w.no = Len(ans) + 1
  BY DEF Order
<1> DEFINE a == Append(ans, w.no)
<1>3. /\ Len(a) = Len(ans) + 1
      /\ DOMAIN a = DOMAIN ans \cup {Len(ans) + 1}
      /\ a[Len(ans) + 1] = Len(ans) + 1
      /\ \A k \in DOMAIN ans : a[k] = ans[k]
  BY <1>2, AppendFacts
<1> HIDE DEF a
<1>4. \A i \in DOMAIN a : a[i] = i
  BY <1>3 DEF Order
<1>5. \A j \in DOMAIN q : q[j].no = Len(a) + 0 + j
  BY <1>1, <1>3 DEF Order
<1>6. Len(a) + 0 + Len(q) = n
  BY <1>1, <1>3 DEF Order
<1> QED
  BY <1>1, <1>4, <1>5, <1>6 DEF Order, a

(***************************************************************************)
(* The session objects.                                                    *)
(***************************************************************************)
NewObject(o, id, t) ==
    o \in Sess /\ o.sid = id /\ (o.udp => o.bound) /\ (t = "open" \/ o.late) /\ Counted(o)

Grows(p, ss, o) ==
    /\ p \in Seq(Sess) /\ Len(p) = Len(ss) + 1 /\ p # <<>>
    /\ DOMAIN p = DOMAIN ss \cup {Len(ss) + 1}
    /\ p[Len(ss) + 1] = o
    /\ \A k \in DOMAIN ss : p[k] = ss[k] /\ k # Len(ss) + 1 /\ k < Len(ss) + 1

Enters(m, map, id, n) ==
    /\ DOMAIN m = DOMAIN map \cup {id} /\ m[id] = n
    /\ \A s \in DOMAIN map : s # id => m[s] = map[s]

\* A new object under an id, which it takes over: SETUP.  An earlier object
\* with the same id is in the map no more, and nothing is asked of it.
LEMMA ObjectsRegister ==
    ASSUME NEW ss \in Seq(Sess), NEW map, NEW id, NEW t, Owned(ss, map), Bound(ss, t),
           NEW o, NewObject(o, id, t), NEW p, Grows(p, ss, o),
           NEW m, Enters(m, map, id, Len(ss) + 1)
    PROVE  /\ p \in Seq(Sess)
           /\ \A s \in DOMAIN m : m[s] \in DOMAIN p
           /\ Objects(p, m, id, {}, t)
<1>1. o \in Sess /\ o.sid = id /\ (o.udp => o.bound) /\ (t = "open" \/ o.late)
  BY DEF NewObject
<1>2. Counted(o)
  BY DEF NewObject
<1>3. /\ p \in Seq(Sess) /\ Len(p) = Len(ss) + 1 /\ p # <<>>
      /\ DOMAIN p = DOMAIN ss \cup {Len(ss) + 1}
      /\ p[Len(ss) + 1] = o
      /\ \A k \in DOMAIN ss : p[k] = ss[k] /\ k # Len(ss) + 1 /\ k < Len(ss) + 1
  BY DEF Grows
<1>4. /\ DOMAIN m = DOMAIN map \cup {id} /\ m[id] = Len(ss) + 1
      /\ \A s \in DOMAIN map : s # id => m[s] = map[s]
  BY DEF Enters
<1>5. Last(p) = o
  BY <1>3 DEF Last
<1>6. Owned(p, m)
  <2> SUFFICES ASSUME NEW s \in DOMAIN m
               PROVE  /\ m[s] \in DOMAIN p
                      /\ p[m[s]].sid = s
                      /\ Counted(p[m[s]])
                      /\ \A k \in DOMAIN p : p[k].sid = s => k <= m[s]
    BY DEF Owned
  <2>0. Len(ss) + 1 \in Nat
    OBVIOUS
  <2>1. CASE s = id
    <3>1. \A k \in DOMAIN p : k <= Len(ss) + 1
      BY <1>3, <2>0
    <3> QED
      BY <1>1, <1>2, <1>3, <1>4, <2>1, <3>1
  <2>2. CASE s # id
    <3>1. /\ s \in DOMAIN map /\ m[s] = map[s] /\ map[s] \in DOMAIN ss
          /\ ss[map[s]].sid = s /\ Counted(ss[map[s]])
          /\ \A k \in DOMAIN ss : ss[k].sid = s => k <= map[s]
      BY <1>4, <2>2 DEF Owned
    <3>2. p[map[s]] = ss[map[s]] /\ map[s] \in DOMAIN p
      BY <1>3, <3>1
    <3>3. \A k \in DOMAIN p : p[k].sid = s => k \in DOMAIN ss /\ p[k] = ss[k]
      BY <1>1, <1>3, <2>2
    <3> QED
      BY <3>1, <3>2, <3>3
  <2> QED
    BY <2>1, <2>2
<1>7. \A s \in DOMAIN m : m[s] \in DOMAIN p
  BY <1>6 DEF Owned
<1>8. Released(p, m) /\ Active(p, id, {})
  BY <1>1, <1>4, <1>5 DEF Released, Active
<1>9. Bound(p, t)
  BY <1>1, <1>3 DEF Bound
<1>10. Gone(p, m, {}, t)
  BY <1>1, <1>5 DEF Gone
<1> QED
  BY <1>3, <1>6, <1>7, <1>8, <1>9, <1>10 DEF Objects

Played(o) == [o EXCEPT !.playing = TRUE, !.rtcpTimer = TRUE,
                       !.intervals = @ + 1, !.plays = @ + 1]

LEMMA OnePlayMore ==
    ASSUME NEW b \in Sess, NEW o, o = Played(b)
    PROVE  /\ o \in Sess /\ o.sid = b.sid /\ o.udp = b.udp /\ o.bound = b.bound
           /\ o.late = b.late /\ o.rtcpTimer = TRUE
           /\ o.intervals = b.intervals + 1 /\ o.plays = b.plays + 1
<1> DEFINE i == b.intervals + 1
           k == b.plays + 1
<1>1. i \in Nat /\ k \in Nat
  BY DEF Sess
<1>2. o = [b EXCEPT !.playing = TRUE, !.rtcpTimer = TRUE, !.intervals = i, !.plays = k]
  BY DEF Sess, Played
<1> HIDE DEF i, k
<1>3. /\ o \in Sess /\ o.sid = b.sid /\ o.udp = b.udp /\ o.bound = b.bound
      /\ o.late = b.late /\ o.rtcpTimer = TRUE
      /\ o.intervals = i /\ o.plays = k
  BY <1>1, <1>2 DEF Sess
<1> QED
  BY <1>3 DEF i, k

\* One more interval and PLAY for an object in the map.
LEMMA ObjectsPlay ==
    ASSUME NEW ss \in Seq(Sess), NEW map, NEW act, NEW aw, NEW t,
           Objects(ss, map, act, aw, t), NEW sid \in DOMAIN map,
           NEW p,
           p = [ss EXCEPT ![map[sid]] = Played(ss[map[sid]])]
    PROVE  /\ p \in Seq(Sess) /\ DOMAIN p = DOMAIN ss
           /\ \A k \in DOMAIN ss : p[k].sid = ss[k].sid
           /\ Objects(p, map, act, aw, t)
<1> DEFINE x == map[sid]
           o == Played(ss[x])
<1>1. /\ x \in DOMAIN ss /\ Counted(ss[x]) /\ ss[x] \in Sess
  BY DEF Objects, Owned
<1>2. /\ o \in Sess /\ o.sid = ss[x].sid /\ o.udp = ss[x].udp /\ o.bound = ss[x].bound
      /\ o.late = ss[x].late /\ o.rtcpTimer = TRUE
      /\ o.intervals = ss[x].intervals + 1 /\ o.plays = ss[x].plays + 1
  BY <1>1, OnePlayMore
<1>p. p = [ss EXCEPT ![x] = o]
  OBVIOUS
<1> HIDE DEF o
<1>3. Counted(o)
  <2>1. ss[x].intervals = ss[x].plays /\ ss[x].plays \in Nat
    BY <1>1 DEF Counted, Sess
  <2>2. o.intervals = o.plays /\ o.plays > 0
    BY <1>2, <2>1
  <2> QED
    BY <1>2, <2>2 DEF Counted
<1>4. /\ p \in Seq(Sess) /\ DOMAIN p = DOMAIN ss /\ Len(p) = Len(ss)
      /\ \A k \in DOMAIN ss : p[k] = IF k = x THEN o ELSE ss[k]
  <2>1. o \in Sess /\ x \in DOMAIN ss
    BY <1>1, <1>2
  <2> HIDE DEF Sess, x
  <2> QED
    BY <1>p, <2>1, ReplaceFacts
<1> HIDE DEF x
<1>5. \A k \in DOMAIN ss : /\ p[k].sid = ss[k].sid /\ p[k].udp = ss[k].udp
                           /\ p[k].bound = ss[k].bound /\ p[k].late = ss[k].late
  BY <1>2, <1>4
<1>6. p = <<>> <=> ss = <<>>
  BY <1>4
<1>7. ss # <<>> => Last(p).sid = Last(ss).sid /\ Last(p).late = Last(ss).late
  BY <1>4, <1>5, LastIndex DEF Last
<1>8. Owned(p, map)
  BY <1>3, <1>4, <1>5 DEF Objects, Owned
<1>9. Released(p, map)
  <2> SUFFICES ASSUME ss # <<>>, Last(ss).sid \notin DOMAIN map
               PROVE  Clean(Last(p))
    BY <1>6, <1>7 DEF Released
  <2>1. Clean(Last(ss))
    BY DEF Objects, Released
  <2>2. Len(ss) \in DOMAIN ss
    BY LastIndex
  <2>3. Len(ss) # x
    BY <2>2 DEF x, Objects, Owned, Last
  <2> QED
    BY <1>4, <2>1, <2>2, <2>3 DEF Last
<1>10. Active(p, act, aw) /\ Gone(p, map, aw, t)
  BY <1>6, <1>7 DEF Objects, Active, Gone
<1>11. Bound(p, t)
  BY <1>4, <1>5 DEF Objects, Bound
<1> QED
  BY <1>4, <1>5, <1>8, <1>9, <1>10, <1>11 DEF Objects

\* What becomes of an object in the map when its id is forgotten.
LEMMA CleanedUp ==
    ASSUME NEW o \in Sess, Counted(o), NEW r, r = Cleaned(o)
    PROVE  /\ r \in Sess /\ r.sid = o.sid /\ r.late = o.late
           /\ Clean(r)
<1>1. o.intervals \in Nat /\ o.plays \in Nat
  BY DEF Sess
<1>2. CASE o.rtcpTimer
  <2>1. o.intervals = o.plays /\ o.plays > 0
    BY <1>2 DEF Counted
  <2>2. o.intervals - 1 \in Nat /\ o.intervals - 1 < o.plays
    BY <1>1, <2>1
  <2>3. r = [o EXCEPT !.bound = FALSE, !.intervals = o.intervals - 1]
    BY <1>2 DEF Cleaned
  <2>4. /\ r \in Sess /\ r.sid = o.sid /\ r.late = o.late /\ r.bound = FALSE
        /\ r.intervals = o.intervals - 1 /\ r.plays = o.plays
    BY <2>2, <2>3 DEF Sess
  <2> QED
    BY <2>2, <2>4 DEF Clean
<1>3. CASE ~o.rtcpTimer
  <2>1. o.intervals = 0
    BY <1>3 DEF Counted
  <2>2. r = [o EXCEPT !.bound = FALSE, !.intervals = o.intervals]
    BY <1>3 DEF Cleaned
  <2>3. /\ r \in Sess /\ r.sid = o.sid /\ r.late = o.late /\ r.bound = FALSE
        /\ r.intervals = o.intervals
    BY <1>1, <2>2 DEF Sess
  <2> QED
    BY <2>1, <2>3 DEF Clean
<1> QED
  BY <1>2, <1>3

\* The end of session sid, object by object ...
Cleans(p, ss, map, sid) ==
    /\ p \in [DOMAIN ss -> Sess]
    /\ \A k \in DOMAIN ss :
         /\ p[k].sid = ss[k].sid /\ p[k].late = ss[k].late
         /\ sid \in DOMAIN map /\ k = map[sid] => Clean(p[k])
         /\ ~(sid \in DOMAIN map /\ k = map[sid]) => p[k] = ss[k]

Forgets(m, map, sid) ==
    /\ DOMAIN m = DOMAIN map \ {sid}
    /\ \A s \in DOMAIN m : m[s] = map[s]

LEMMA CleanUpObjects ==
    ASSUME NEW ss \in Seq(Sess), NEW map, Owned(ss, map), NEW sid
    PROVE  Cleans([k \in DOMAIN ss |->
                     IF sid \in DOMAIN map /\ k = map[sid]
                     THEN Cleaned(ss[k]) ELSE ss[k]], ss, map, sid)
<1> DEFINE r(k) == Cleaned(ss[k])
           e(k) == IF sid \in DOMAIN map /\ k = map[sid] THEN r(k) ELSE ss[k]
<1>1. ASSUME NEW k \in DOMAIN ss, sid \in DOMAIN map, k = map[sid]
      PROVE  r(k) \in Sess /\ r(k).sid = ss[k].sid /\ r(k).late = ss[k].late /\ Clean(r(k))
  <2>1. ss[k] \in Sess /\ Counted(ss[k])
    <3>1. Counted(ss[map[sid]])
      BY <1>1 DEF Owned
    <3> HIDE DEF Sess
    <3> QED
      BY <1>1, <3>1
  <2> QED
    BY <2>1, CleanedUp
<1> HIDE DEF r
<1>2. ASSUME NEW k \in DOMAIN ss
      PROVE  /\ e(k) \in Sess /\ e(k).sid = ss[k].sid /\ e(k).late = ss[k].late
             /\ sid \in DOMAIN map /\ k = map[sid] => Clean(e(k))
             /\ ~(sid \in DOMAIN map /\ k = map[sid]) => e(k) = ss[k]
  <2>1. CASE sid \in DOMAIN map /\ k = map[sid]
    BY <1>1, <2>1
  <2>2. CASE ~(sid \in DOMAIN map /\ k = map[sid])
    <3>1. ss[k] \in Sess
      OBVIOUS
    <3> QED
      BY <2>2, <3>1
  <2> QED
    BY <2>1, <2>2
<1> HIDE DEF e
<1>3. /\ [k \in DOMAIN ss |-> e(k)] \in [DOMAIN ss -> Sess]
      /\ \A k \in DOMAIN ss : [j \in DOMAIN ss |-> e(j)][k] = e(k)
  BY <1>2
<1>4. Cleans([k \in DOMAIN ss |-> e(k)], ss, map, sid)
  BY <1>2, <1>3 DEF Cleans
<1> QED
  BY <1>4 DEF e, r

(***************************************************************************)
(* ... and for the connection, by TEARDOWN or by the close event.  When    *)
(* the connection becomes closed, sid is the id of the last SETUP.         *)
(***************************************************************************)
LEMMA ObjectsCleanUp ==
    ASSUME NEW ss \in Seq(Sess), NEW map, NEW act, NEW aw, NEW t,
           Objects(ss, map, act, aw, t), NEW sid, NEW t2, t2 \notin {"none", "open"},
           t2 = "closed" => t = "closed" \/ sid = act,
           NEW p, Cleans(p, ss, map, sid), NEW m, Forgets(m, map, sid)
    PROVE  /\ p \in Seq(Sess) /\ DOMAIN p = DOMAIN ss
           /\ \A k \in DOMAIN ss : p[k].sid = ss[k].sid
           /\ \A s \in DOMAIN m : m[s] \in DOMAIN p
           /\ Objects(p, m, act, aw, t2)
<1>1. \A k \in DOMAIN ss :
        /\ p[k] \in Sess /\ p[k].sid = ss[k].sid /\ p[k].late = ss[k].late
        /\ sid \in DOMAIN map /\ k = map[sid] => Clean(p[k])
        /\ ~(sid \in DOMAIN map /\ k = map[sid]) => p[k] = ss[k]
  BY DEF Cleans
<1>2. DOMAIN p = DOMAIN ss /\ p \in [DOMAIN ss -> Sess]
  BY DEF Cleans
<1>3. p \in Seq(Sess) /\ Len(p) = Len(ss) /\ (p = <<>> <=> ss = <<>>)
  BY <1>2, SameLength
<1>4. p = <<>> <=> ss = <<>>
  BY <1>3
<1>5. ss # <<>> => /\ Last(p).sid = Last(ss).sid /\ Last(p).late = Last(ss).late
                   /\ Len(ss) \in DOMAIN ss /\ Last(p) = p[Len(ss)] /\ Last(ss) = ss[Len(ss)]
  BY <1>1, <1>3, LastIndex DEF Last
<1>6. /\ DOMAIN m = DOMAIN map \ {sid}
      /\ \A s \in DOMAIN m : m[s] = map[s]
  BY DEF Forgets
<1>0. Owned(ss, map)
  BY DEF Objects
<1>7. \A s \in DOMAIN m : p[map[s]] = ss[map[s]] /\ map[s] \in DOMAIN ss
  <2> SUFFICES ASSUME NEW s \in DOMAIN m
               PROVE  p[map[s]] = ss[map[s]] /\ map[s] \in DOMAIN ss
    OBVIOUS
  <2>1. s \in DOMAIN map /\ s # sid
    BY <1>6
  <2>2. map[s] \in DOMAIN ss /\ ss[map[s]].sid = s
    BY <1>0, <2>1 DEF Owned
  <2>3. sid \in DOMAIN map => map[s] # map[sid]
    BY <1>0, <2>1, <2>2 DEF Owned
  <2> QED
    BY <1>1, <2>2, <2>3
<1>8. Owned(p, m)
  <2> SUFFICES ASSUME NEW s \in DOMAIN m
               PROVE  /\ m[s] \in DOMAIN p
                      /\ p[m[s]].sid = s
                      /\ Counted(p[m[s]])
                      /\ \A k \in DOMAIN p : p[k].sid = s => k <= m[s]
    BY DEF Owned
  <2>1. s \in DOMAIN map /\ m[s] = map[s]
    BY <1>6
  <2>2. /\ map[s] \in DOMAIN ss /\ ss[map[s]].sid = s /\ Counted(ss[map[s]])
        /\ \A k \in DOMAIN ss : ss[k].sid = s => k <= map[s]
    BY <1>0, <2>1 DEF Owned
  <2>3. p[m[s]] = ss[map[s]]
    BY <1>7, <2>1
  <2> QED
    BY <1>1, <1>2, <2>1, <2>2, <2>3
<1>9. Released(p, m)
  <2> SUFFICES ASSUME ss # <<>>, Last(ss).sid \notin DOMAIN map \ {sid}
               PROVE  Clean(Last(p))
    BY <1>4, <1>5, <1>6 DEF Released
  <2>0. ss # <<>>
    OBVIOUS
  <2>1. CASE Last(ss).sid \in DOMAIN map
    <3>1. Last(ss).sid = sid
      BY <2>1
    <3>2. map[sid] \in DOMAIN ss /\ Len(ss) <= map[sid]
      BY <1>5, <2>1, <3>1 DEF Objects, Owned
    <3>3. map[sid] = Len(ss)
      <4>1. map[sid] <= Len(ss)
        <5>1. \A k \in DOMAIN ss : k <= Len(ss)
          BY <2>0, LastIndex
        <5> QED
          BY <3>2, <5>1
      <4>2. map[sid] \in Nat /\ Len(ss) \in Nat
        BY <3>2
      <4> QED
        BY <3>2, <4>1, <4>2
    <3> QED
      BY <1>1, <1>5, <2>1, <3>1, <3>3
  <2>2. CASE Last(ss).sid \notin DOMAIN map
    <3>1. Clean(Last(ss))
      BY <2>2 DEF Objects, Released
    <3> QED
      BY <1>1, <1>5, <3>1
  <2> QED
    BY <2>1, <2>2
<1>10. Active(p, act, aw)
  BY <1>4, <1>5 DEF Objects, Active
<1>11. Gone(p, m, aw, t2)
  BY <1>4, <1>5, <1>6 DEF Objects, Active, Gone
<1>12. Bound(p, t2)
  BY DEF Bound
<1>13. \A s \in DOMAIN m : m[s] \in DOMAIN p
  BY <1>2, <1>6, <1>7
<1> QED
  BY <1>1, <1>2, <1>3, <1>6, <1>8, <1>9, <1>10, <1>11, <1>12, <1>13 DEF Objects

-----------------------------------------------------------------------------
(***************************************************************************)
(* One connection at a time.                                               *)
(***************************************************************************)
\* A step of c leaves the other connections alone, and the thread too if one
\* of them has it.
Frame(c) ==
    /\ running' = running \/ {running, running'} \subseteq {Nobody, c}
    /\ \A d \in Connection \ {c} :
         /\ tcp'[d] = tcp[d] /\ buf'[d] = buf[d] /\ processing'[d] = processing[d]
         /\ awaiting'[d] = awaiting[d] /\ activeSessId'[d] = activeSessId[d]
         /\ sessions'[d] = sessions[d] /\ rtspSessions'[d] = rtspSessions[d]
         /\ arrived'[d] = arrived[d] /\ answers'[d] = answers[d]

LEMMA Combine ==
    ASSUME IInv, NEW c \in Connection, Frame(c), GlobalTypes', LocalTypes(c)', Local(c)'
    PROVE  IInv'
<1> SUFFICES ASSUME NEW d \in Connection, d # c
             PROVE  LocalTypes(d)' /\ Local(d)'
  BY DEF IInv
<1>1. LocalTypes(d) /\ Local(d)
  BY DEF IInv
<1>2. /\ tcp'[d] = tcp[d] /\ buf'[d] = buf[d] /\ processing'[d] = processing[d]
      /\ awaiting'[d] = awaiting[d] /\ activeSessId'[d] = activeSessId[d]
      /\ sessions'[d] = sessions[d] /\ rtspSessions'[d] = rtspSessions[d]
      /\ arrived'[d] = arrived[d] /\ answers'[d] = answers[d]
  BY DEF Frame
<1>3. (running' = d) <=> (running = d)
  BY ConnectionAssumption DEF Frame
<1>4. LocalTypes(d)'
  BY <1>1, <1>2 DEF LocalTypes, Given, Request, Header
<1>5. Local(d)'
  <2>1. Flow(running' = d, processing'[d], awaiting'[d], buf'[d])
    BY <1>1, <1>2, <1>3 DEF Local, Flow
  <2>2. /\ Order(answers'[d], awaiting'[d], buf'[d], arrived'[d])
        /\ Objects(sessions'[d], rtspSessions'[d], activeSessId'[d], awaiting'[d], tcp'[d])
    BY <1>1, <1>2 DEF Local
  <2> QED
    BY <2>1, <2>2 DEF Local
<1> QED
  BY <1>4, <1>5

\* With more ids given, a client may send more.
LEMMA RequestsGrow ==
    ASSUME NEW c \in Connection, NEW q, NEW n \in Nat,
           q \in Seq([no : 1 .. n, req : Request(c)]), Given(c) \subseteq Given(c)'
    PROVE  q \in Seq([no : 1 .. n, req : Request(c)'])
<1>1. Request(c) \subseteq Request(c)'
  <2>1. Header(c) \subseteq Header(c)'
    BY DEF Header
  <2> HIDE DEF Header
  <2> QED
    BY <2>1 DEF Request
<1>2. [no : 1 .. n, req : Request(c)] \subseteq [no : 1 .. n, req : Request(c)']
  BY <1>1
<1> QED
  BY <1>2, SeqGrows

LEMMA InitInv == Init => IInv
<1> SUFFICES ASSUME Init PROVE IInv
  OBVIOUS
<1>1. GlobalTypes
  <2>1. 0 \in 0 .. MaxRequests
    BY RequestAssumption
  <2>2. arrived \in [Connection -> 0 .. MaxRequests]
    BY <2>1 DEF Init
  <2> QED
    BY <2>2 DEF Init, GlobalTypes, NoSid
<1>2. ASSUME NEW c \in Connection PROVE LocalTypes(c) /\ Local(c)
  <2>1. /\ tcp[c] = "none" /\ buf[c] = <<>> /\ processing[c] = FALSE
        /\ awaiting[c] = {} /\ activeSessId[c] = NoSid
        /\ sessions[c] = <<>> /\ rtspSessions[c] = <<>>
        /\ arrived[c] = 0 /\ answers[c] = <<>>
    BY DEF Init
  <2>2. running # c
    BY ConnectionAssumption DEF Init
  <2>3. LocalTypes(c)
    BY <2>1 DEF LocalTypes
  <2>4. Flow(running = c, processing[c], awaiting[c], buf[c])
    BY <2>1, <2>2 DEF Flow
  <2>5. Order(answers[c], awaiting[c], buf[c], arrived[c])
    BY <2>1 DEF Order, Waiting
  <2>6. Objects(sessions[c], rtspSessions[c], activeSessId[c], awaiting[c], tcp[c])
    BY <2>1 DEF Objects, Owned, Released, Active, Bound, Gone
  <2> QED
    BY <2>3, <2>4, <2>5, <2>6 DEF Local
<1> QED
  BY <1>1, <1>2 DEF IInv

(***************************************************************************)
(* The actions.                                                            *)
(***************************************************************************)
\* A step that only changes tcp[c].
LEMMA TcpOnly ==
    ASSUME IInv, NEW c \in Connection, NEW t \in {"open", "destroyed"},
           t = "open" => tcp[c] = "none",
           tcp' = [tcp EXCEPT ![c] = t],
           UNCHANGED <<running, buf, processing, awaiting, activeSessId, sessions,
                       rtspSessions, arrived, answers, crashed>>
    PROVE  IInv'
<1>1. GlobalTypes /\ LocalTypes(c) /\ Local(c)
  BY DEF IInv
<1>2. GlobalTypes' /\ Frame(c) /\ tcp'[c] = t
  BY <1>1 DEF GlobalTypes, Frame
<1>3. LocalTypes(c)'
  BY <1>1 DEF LocalTypes, Given, Request, Header
<1>4. Objects(sessions[c], rtspSessions[c], activeSessId[c], awaiting[c], t)
  BY <1>1 DEF Local, Objects, Bound, Gone
<1>5. Local(c)'
  BY <1>1, <1>2, <1>4 DEF Local
<1> QED
  BY <1>2, <1>3, <1>5, Combine

LEMMA DataInv ==
    ASSUME IInv, NEW c \in Connection, Data(c)
    PROVE  IInv'
<1>1. GlobalTypes /\ LocalTypes(c) /\ Local(c)
  BY DEF IInv
<1> DEFINE n == arrived[c]
<1>2. PICK r \in Request(c) :
        buf' = [buf EXCEPT ![c] = Append(@, [no |-> arrived[c] + 1, req |-> r])]
  BY DEF Data, DataEvent
<1>3. /\ n \in Nat /\ n + 1 \in 0 .. MaxRequests
  BY <1>1, RequestAssumption DEF GlobalTypes, Data, DataEvent
<1> DEFINE e == [no |-> n + 1, req |-> r]
<1>4. buf'[c] = Append(buf[c], e) /\ arrived'[c] = n + 1 /\ processing'[c] = TRUE
  BY <1>1, <1>2 DEF GlobalTypes, Data, DataEvent
<1>5. /\ UNCHANGED <<tcp, awaiting, activeSessId, sessions, rtspSessions, answers, crashed>>
      /\ running \in {Nobody, c}
      /\ running' = IF ~processing[c] THEN c ELSE running
      /\ arrived' = [arrived EXCEPT ![c] = n + 1]
      /\ processing' = [processing EXCEPT ![c] = TRUE]
      /\ buf' = [buf EXCEPT ![c] = Append(@, e)]
  BY <1>2 DEF Data, DataEvent
<1>6. GlobalTypes'
  BY <1>1, <1>3, <1>5 DEF GlobalTypes
<1>7. Frame(c)
  BY <1>1, <1>5 DEF Frame, GlobalTypes
<1>8. LocalTypes(c)'
  <2>1. Request(c)' = Request(c) /\ Given(c)' = Given(c)
    BY <1>5 DEF Request, Header, Given
  <2>2. buf'[c] \in Seq([no : 1 .. (n + 1), req : Request(c)])
    <3>1. buf[c] \in Seq([no : 1 .. (n + 1), req : Request(c)])
      <4>1. [no : 1 .. n, req : Request(c)] \subseteq [no : 1 .. (n + 1), req : Request(c)]
        BY <1>3
      <4>2. buf[c] \in Seq([no : 1 .. n, req : Request(c)])
        BY <1>1 DEF LocalTypes
      <4> QED
        BY <4>1, <4>2, SeqGrows
    <3>2. e \in [no : 1 .. (n + 1), req : Request(c)]
      BY <1>3
    <3> HIDE DEF e
    <3> QED
      BY <1>4, <3>1, <3>2, AppendFacts
  <2>3. awaiting[c] \subseteq [no : 1 .. (n + 1), sid : Nat \ {NoSid}]
    BY <1>1, <1>3 DEF LocalTypes
  <2>4. answers[c] \in Seq(1 .. (n + 1))
    <3>1. 1 .. n \subseteq 1 .. (n + 1)
      BY <1>3
    <3>2. answers[c] \in Seq(1 .. n)
      BY <1>1 DEF LocalTypes
    <3> QED
      BY <3>1, <3>2, SeqGrows
  <2> QED
    BY <1>1, <1>4, <1>5, <2>1, <2>2, <2>3, <2>4 DEF LocalTypes
<1>9. Local(c)'
  <2>1. Flow(running = c, processing[c], awaiting[c], buf[c])
    BY <1>1 DEF Local
  <2>2. Flow(running' = c, TRUE, awaiting[c], buf'[c])
    BY <1>5, <2>1, ConnectionAssumption DEF Flow
  <2>3. Order(answers[c], awaiting[c], buf'[c], n + 1)
    <3>1. /\ answers[c] \in Seq(Nat) /\ buf[c] \in Seq([no : Nat, req : Request(c)])
      <4>1. answers[c] \in Seq(1 .. n) /\ buf[c] \in Seq([no : 1 .. n, req : Request(c)])
        BY <1>1 DEF LocalTypes
      <4> QED
        BY <1>3, <4>1, Widen
    <3>2. Order(answers[c], awaiting[c], buf[c], n)
      BY <1>1 DEF Local
    <3> QED
      BY <1>3, <1>4, <3>1, <3>2, OrderArrives
  <2>4. Objects(sessions[c], rtspSessions[c], activeSessId[c], awaiting[c], tcp[c])
    BY <1>1 DEF Local
  <2> QED
    BY <1>4, <1>5, <2>2, <2>3, <2>4 DEF Local
<1> QED
  BY <1>6, <1>7, <1>8, <1>9, Combine

LEMMA LoopEndsInv ==
    ASSUME IInv, NEW c \in Connection, LoopEnds(c)
    PROVE  IInv'
<1>1. GlobalTypes /\ LocalTypes(c) /\ Local(c)
  BY DEF IInv
<1>2. /\ UNCHANGED <<tcp, buf, awaiting, activeSessId, sessions, rtspSessions,
                      arrived, answers, crashed>>
      /\ processing' = [processing EXCEPT ![c] = FALSE]
      /\ running = c /\ running' = Nobody /\ buf[c] = <<>>
  BY DEF LoopEnds
<1>3. GlobalTypes' /\ Frame(c) /\ processing'[c] = FALSE
  BY <1>1, <1>2 DEF GlobalTypes, Frame
<1>4. LocalTypes(c)'
  BY <1>1, <1>2 DEF LocalTypes, Given, Request, Header
<1>5. Flow(running' = c, FALSE, awaiting[c], buf[c])
  BY <1>1, <1>2, ConnectionAssumption DEF Local, Flow
<1>6. Local(c)'
  BY <1>1, <1>2, <1>3, <1>5 DEF Local
<1> QED
  BY <1>3, <1>4, <1>6, Combine

-----------------------------------------------------------------------------
(***************************************************************************)
(* What all requests have in common.                                       *)
(***************************************************************************)
LEMMA Taken ==
    ASSUME IInv, NEW c \in Connection, running = c, buf[c] # <<>>,
           buf' = [buf EXCEPT ![c] = Tail(@)], Given(c) \subseteq Given(c)'
    PROVE  /\ Head(buf[c]) \in [no : 1 .. arrived[c], req : Request(c)]
           /\ buf'[c] = Tail(buf[c]) /\ DOMAIN buf' = Connection
           /\ \A d \in Connection \ {c} : buf'[d] = buf[d]
           /\ buf'[c] \in Seq([no : 1 .. arrived[c], req : Request(c)'])
           /\ processing[c] /\ awaiting[c] = {}
           /\ Order(Append(answers[c], Head(buf[c]).no), {}, Tail(buf[c]), arrived[c])
           /\ \A w : w.no = Head(buf[c]).no =>
                     Order(answers[c], {w}, Tail(buf[c]), arrived[c])
<1>1. GlobalTypes /\ LocalTypes(c) /\ Local(c)
  BY DEF IInv
<1> DEFINE R == [no : 1 .. arrived[c], req : Request(c)]
<1>2. buf[c] \in Seq(R) /\ arrived[c] \in Nat /\ answers[c] \in Seq(1 .. arrived[c])
  BY <1>1 DEF LocalTypes, GlobalTypes
<1>3. Head(buf[c]) \in R /\ Tail(buf[c]) \in Seq(R)
  <2> HIDE DEF R
  <2> QED
    BY <1>2, TailFacts
<1>4. /\ buf'[c] = Tail(buf[c]) /\ DOMAIN buf' = Connection
      /\ \A d \in Connection \ {c} : buf'[d] = buf[d]
  BY <1>1 DEF GlobalTypes
<1>5. buf'[c] \in Seq([no : 1 .. arrived[c], req : Request(c)'])
  BY <1>2, <1>3, <1>4, RequestsGrow
<1>6. processing[c] /\ awaiting[c] = {}
  BY <1>1 DEF Local, Flow
<1>7. Order(answers[c], {}, buf[c], arrived[c])
  BY <1>1, <1>6 DEF Local
<1>8. answers[c] \in Seq(Nat) /\ buf[c] \in Seq([no : Nat, req : Request(c)])
  BY <1>2, Widen
<1>9. Order(Append(answers[c], Head(buf[c]).no), {}, Tail(buf[c]), arrived[c])
  BY <1>2, <1>7, <1>8, OrderAnswers
<1>10. ASSUME NEW w, w.no = Head(buf[c]).no
       PROVE  Order(answers[c], {w}, Tail(buf[c]), arrived[c])
  BY <1>2, <1>7, <1>8, <1>10, OrderWaits
<1> QED
  BY <1>3, <1>4, <1>5, <1>6, <1>9, <1>10

Changes(f, g, c, v) ==
    DOMAIN g = Connection /\ g[c] = v /\ \A d \in Connection \ {c} : g[d] = f[d]

\* A request that is answered at once, whatever it does to the sessions.
LEMMA Answered ==
    ASSUME IInv, NEW c \in Connection, running = c, buf[c] # <<>>,
           buf' = [buf EXCEPT ![c] = Tail(@)], Answer(c, Head(buf[c]).no),
           UNCHANGED <<running, processing, awaiting, arrived, crashed>>,
           NEW t \in {"none", "open", "destroyed", "closed"}, tcp' = [tcp EXCEPT ![c] = t],
           NEW act \in Nat, activeSessId' = [activeSessId EXCEPT ![c] = act],
           NEW ss \in Seq(Sess), Changes(sessions, sessions', c, ss),
           NEW map, map \in [DOMAIN map -> DOMAIN ss],
           Changes(rtspSessions, rtspSessions', c, map),
           Given(c) \subseteq Given(c)', DOMAIN map \subseteq Given(c)',
           Objects(ss, map, act, {}, t)
    PROVE  IInv'
<1>1. GlobalTypes /\ LocalTypes(c) /\ Local(c)
  BY DEF IInv
<1>2. /\ Head(buf[c]) \in [no : 1 .. arrived[c], req : Request(c)]
      /\ buf'[c] = Tail(buf[c]) /\ DOMAIN buf' = Connection
      /\ \A d \in Connection \ {c} : buf'[d] = buf[d]
      /\ buf'[c] \in Seq([no : 1 .. arrived[c], req : Request(c)'])
      /\ processing[c] /\ awaiting[c] = {}
      /\ Order(Append(answers[c], Head(buf[c]).no), {}, Tail(buf[c]), arrived[c])
  BY Taken
<1>3. answers' = [answers EXCEPT ![c] = Append(@, Head(buf[c]).no)]
  BY DEF Answer
<1> HIDE DEF Sess
<1>4. /\ answers'[c] = Append(answers[c], Head(buf[c]).no)
      /\ tcp'[c] = t /\ activeSessId'[c] = act /\ sessions'[c] = ss /\ rtspSessions'[c] = map
  BY <1>1, <1>3 DEF GlobalTypes, Changes
<1>5. GlobalTypes'
  BY <1>1, <1>2, <1>3 DEF GlobalTypes, Changes
<1>6. Frame(c)
  BY <1>1, <1>2, <1>3 DEF Frame, GlobalTypes, Changes
<1>7. LocalTypes(c)'
  <2>1. Head(buf[c]).no \in 1 .. arrived[c]
    BY <1>2
  <2>2. answers[c] \in Seq(1 .. arrived[c])
    BY <1>1 DEF LocalTypes
  <2>3. answers'[c] \in Seq(1 .. arrived[c])
    BY <1>4, <2>1, <2>2, AppendFacts
  <2> QED
    BY <1>2, <1>4, <2>3 DEF LocalTypes
<1>8. Local(c)'
  <2>1. Flow(running = c, processing[c], {}, buf[c])
    BY <1>1, <1>2 DEF Local
  <2>2. Flow(running = c, processing[c], {}, buf'[c])
    BY <1>2, <2>1 DEF Flow
  <2> QED
    BY <1>2, <1>4, <2>2 DEF Local
<1> QED
  BY <1>5, <1>6, <1>7, <1>8, Combine

\* Session ids are never NoSid, and a new one is none.
LEMMA GivenIds ==
    ASSUME NEW c, sessions[c] \in Seq(Sess)
    PROVE  Given(c) \subseteq Nat \ {NoSid} /\ Len(sessions[c]) + 1 \in Nat \ {NoSid}
<1>1. \A k \in DOMAIN sessions[c] : sessions[c][k] \in Sess
  <2> HIDE DEF Sess
  <2> QED
    OBVIOUS
<1>2. Given(c) \subseteq Nat \ {NoSid}
  BY <1>1 DEF Given, Sess
<1> QED
  BY <1>2 DEF NoSid

\* The objects and the map of c become ss and map, and all is well with them.
Becomes(c, act, aw, t, ss, map) ==
    /\ Changes(sessions, sessions', c, ss)
    /\ Changes(rtspSessions, rtspSessions', c, map)
    /\ map \in [DOMAIN map -> DOMAIN ss]
    /\ Given(c) \subseteq Given(c)' /\ DOMAIN map \subseteq Given(c)'
    /\ Objects(ss, map, act, aw, t)

\* A new object and its id: what Register does, for any id.
LEMMA Registered ==
    ASSUME IInv, NEW c \in Connection, NEW id \in Nat \ {NoSid}, NEW udp \in BOOLEAN,
           Register(c, id, udp)
    PROVE  \E ss \in Seq(Sess) : \E map :
             Becomes(c, id, {}, tcp[c], ss, map)
<1>1. GlobalTypes /\ LocalTypes(c) /\ Local(c)
  BY DEF IInv
<1> DEFINE o == [sid |-> id, udp |-> udp, bound |-> udp, playing |-> FALSE,
                 rtcpTimer |-> FALSE, intervals |-> 0, plays |-> 0, late |-> tcp[c] # "open"]
           ss == Append(sessions[c], o)
           map == [s \in DOMAIN rtspSessions[c] \cup {id} |->
                     IF s = id THEN Len(sessions[c]) + 1 ELSE rtspSessions[c][s]]
<1>2. Changes(sessions, sessions', c, ss) /\ Changes(rtspSessions, rtspSessions', c, map)
  BY <1>1 DEF Register, GlobalTypes, Changes
<1>3. /\ sessions[c] \in Seq(Sess)
      /\ Owned(sessions[c], rtspSessions[c]) /\ Bound(sessions[c], tcp[c])
      /\ DOMAIN rtspSessions[c] \subseteq Given(c)
  BY <1>1 DEF LocalTypes, Local, Objects
<1> HIDE DEF Sess
<1>4. /\ ss \in Seq(Sess)
      /\ map \in [DOMAIN map -> DOMAIN ss]
      /\ Objects(ss, map, id, {}, tcp[c])
  <2>1. NewObject(o, id, tcp[c])
    BY DEF NewObject, Counted, Sess
  <2>2. Enters(map, rtspSessions[c], id, Len(sessions[c]) + 1)
    BY DEF Enters
  <2>3. Grows(ss, sessions[c], o)
    BY <1>3, <2>1, AppendFacts DEF Grows, NewObject
  <2>4. map = [s \in DOMAIN map |-> map[s]]
    OBVIOUS
  <2> HIDE DEF o, ss, map
  <2>5. /\ ss \in Seq(Sess) /\ \A s \in DOMAIN map : map[s] \in DOMAIN ss
        /\ Objects(ss, map, id, {}, tcp[c])
    BY <1>3, <2>1, <2>2, <2>3, ObjectsRegister
  <2> QED
    BY <2>4, <2>5
<1>5. /\ DOMAIN ss = DOMAIN sessions[c] \cup {Len(sessions[c]) + 1}
      /\ ss[Len(sessions[c]) + 1].sid = id
      /\ \A k \in DOMAIN sessions[c] : ss[k] = sessions[c][k]
  <2>1. o \in Sess
    BY DEF Sess
  <2>2. o.sid = id
    OBVIOUS
  <2> HIDE DEF o
  <2> QED
    BY <1>3, <2>1, <2>2, AppendFacts
<1>6. sessions'[c] = ss /\ DOMAIN map = DOMAIN rtspSessions[c] \cup {id}
  BY <1>2 DEF Changes
<1> HIDE DEF ss, map
<1>7. Given(c)' = Given(c) \cup {id}
  BY <1>5, <1>6 DEF Given
<1>8. Given(c) \subseteq Given(c)' /\ DOMAIN map \subseteq Given(c)'
  BY <1>3, <1>6, <1>7
<1> QED
  BY <1>2, <1>4, <1>8 DEF Becomes

LEMMA SetupTcpInv ==
    ASSUME IInv, NEW c \in Connection, HandleSetupTcp(c)
    PROVE  IInv'
<1>1. GlobalTypes /\ LocalTypes(c) /\ Local(c)
  BY DEF IInv
<1> DEFINE id == SetupSid(c, Head(buf[c]).req)
<1>2. /\ Register(c, id, FALSE) /\ Answer(c, Head(buf[c]).no)
      /\ activeSessId' = [activeSessId EXCEPT ![c] = id]
      /\ running = c /\ buf[c] # <<>> /\ buf' = [buf EXCEPT ![c] = Tail(@)]
      /\ UNCHANGED <<tcp, running, processing, awaiting, arrived, crashed>>
  BY DEF HandleSetupTcp, Take
<1>3. id \in Nat \ {NoSid}
  <2>1. sessions[c] \in Seq(Sess) /\ DOMAIN rtspSessions[c] \subseteq Given(c)
    BY <1>1 DEF LocalTypes
  <2> QED
    BY <2>1, GivenIds DEF SetupSid
<1>4a. PICK ss \in Seq(Sess) : \E map : Becomes(c, id, {}, tcp[c], ss, map)
  <2> HIDE DEF id, Sess
  <2> QED
    BY <1>2, <1>3, Registered
<1>4. PICK map : Becomes(c, id, {}, tcp[c], ss, map)
  BY <1>4a
<1>5. tcp[c] \in {"none", "open", "destroyed", "closed"} /\ tcp' = [tcp EXCEPT ![c] = tcp[c]]
  BY <1>1, <1>2 DEF GlobalTypes
<1>6. id \in Nat
  BY <1>3
<1> HIDE DEF id, Sess
<1> QED
  BY <1>2, <1>4, <1>5, <1>6, Answered DEF Becomes

LEMMA SetupUdpInv ==
    ASSUME IInv, NEW c \in Connection, HandleSetupUdp(c)
    PROVE  IInv'
<1>1. GlobalTypes /\ LocalTypes(c) /\ Local(c)
  BY DEF IInv
<1> DEFINE id == SetupSid(c, Head(buf[c]).req)
           w == [no |-> Head(buf[c]).no, sid |-> id]
<1>2. /\ activeSessId' = [activeSessId EXCEPT ![c] = id]
      /\ awaiting' = [awaiting EXCEPT ![c] = @ \cup {w}]
      /\ running = c /\ running' = Nobody
      /\ buf[c] # <<>> /\ buf' = [buf EXCEPT ![c] = Tail(@)]
      /\ UNCHANGED <<tcp, processing, sessions, rtspSessions, arrived, answers, crashed>>
  BY DEF HandleSetupUdp, Take
<1>3. id \in Nat \ {NoSid}
  <2>1. sessions[c] \in Seq(Sess) /\ DOMAIN rtspSessions[c] \subseteq Given(c)
    BY <1>1 DEF LocalTypes
  <2> QED
    BY <2>1, GivenIds DEF SetupSid
<1> HIDE DEF id
<1>4. Given(c)' = Given(c) /\ Request(c)' = Request(c)
  BY <1>2 DEF Request, Header, Given
<1>5. /\ Head(buf[c]) \in [no : 1 .. arrived[c], req : Request(c)]
      /\ buf'[c] = Tail(buf[c]) /\ DOMAIN buf' = Connection
      /\ \A d \in Connection \ {c} : buf'[d] = buf[d]
      /\ buf'[c] \in Seq([no : 1 .. arrived[c], req : Request(c)'])
      /\ processing[c] /\ awaiting[c] = {}
      /\ \A v : v.no = Head(buf[c]).no =>
                Order(answers[c], {v}, Tail(buf[c]), arrived[c])
  BY <1>2, <1>4, Taken
<1>6. w.no = Head(buf[c]).no /\ w.sid = id
  OBVIOUS
<1>7. w \in [no : 1 .. arrived[c], sid : Nat \ {NoSid}]
  BY <1>3, <1>5
<1> HIDE DEF w
<1>8. awaiting'[c] = {w} /\ activeSessId'[c] = id
  BY <1>1, <1>2, <1>5 DEF GlobalTypes
<1>9. GlobalTypes' /\ Frame(c)
  BY <1>1, <1>2, <1>3, <1>5 DEF GlobalTypes, Frame
<1>10. LocalTypes(c)'
  BY <1>1, <1>2, <1>4, <1>5, <1>7, <1>8 DEF LocalTypes
<1>11. Local(c)'
  <2>1. Flow(running' = c, processing[c], {w}, buf'[c])
    BY <1>2, <1>5, ConnectionAssumption DEF Flow
  <2>2. Order(answers[c], {w}, buf'[c], arrived[c])
    BY <1>5, <1>6
  <2>3. Objects(sessions[c], rtspSessions[c], id, {w}, tcp[c])
    BY <1>1, <1>6 DEF Local, Objects, Active, Gone
  <2> QED
    BY <1>2, <1>8, <2>1, <2>2, <2>3 DEF Local
<1> QED
  BY <1>9, <1>10, <1>11, Combine

LEMMA UdpBoundInv ==
    ASSUME IInv, NEW c \in Connection, UdpBound(c)
    PROVE  IInv'
<1>1. GlobalTypes /\ LocalTypes(c) /\ Local(c)
  BY DEF IInv
<1>2. PICK w \in awaiting[c] :
         /\ awaiting' = [awaiting EXCEPT ![c] = @ \ {w}]
         /\ Register(c, w.sid, TRUE)
         /\ Answer(c, w.no)
  BY DEF UdpBound
<1>3. /\ UNCHANGED <<tcp, buf, processing, activeSessId, arrived, crashed>>
      /\ running = Nobody /\ running' = c
  BY DEF UdpBound
<1>4. /\ awaiting[c] = {w} /\ w.sid = activeSessId[c]
      /\ w.sid \in Nat \ {NoSid} /\ w.no \in 1 .. arrived[c]
  BY <1>1 DEF Local, LocalTypes, Flow, Objects, Active
<1> HIDE DEF Sess
<1>5a. PICK ss \in Seq(Sess) : \E map : Becomes(c, activeSessId[c], {}, tcp[c], ss, map)
  BY <1>2, <1>4, Registered
<1>5. PICK map : Becomes(c, activeSessId[c], {}, tcp[c], ss, map)
  BY <1>5a
<1>6. answers' = [answers EXCEPT ![c] = Append(@, w.no)]
  BY <1>2 DEF Answer
<1>7. /\ awaiting'[c] = {} /\ answers'[c] = Append(answers[c], w.no)
      /\ sessions'[c] = ss /\ rtspSessions'[c] = map
  BY <1>1, <1>2, <1>4, <1>5, <1>6 DEF GlobalTypes, Changes, Becomes
<1>8. GlobalTypes'
  BY <1>1, <1>2, <1>3, <1>5, <1>6 DEF GlobalTypes, Changes, Becomes
<1>9. Frame(c)
  BY <1>1, <1>2, <1>3, <1>5, <1>6 DEF Frame, GlobalTypes, Changes, Becomes
<1>0. /\ arrived[c] \in Nat /\ answers[c] \in Seq(1 .. arrived[c])
      /\ buf[c] \in Seq([no : 1 .. arrived[c], req : Request(c)])
  BY <1>1 DEF GlobalTypes, LocalTypes
<1>10. LocalTypes(c)'
  <2>1. answers'[c] \in Seq(1 .. arrived[c])
    BY <1>0, <1>4, <1>7, AppendFacts
  <2>2. buf[c] \in Seq([no : 1 .. arrived[c], req : Request(c)'])
    BY <1>0, <1>5, RequestsGrow DEF Becomes
  <2> QED
    BY <1>3, <1>5, <1>7, <2>1, <2>2 DEF LocalTypes, Becomes
<1>11. Local(c)'
  <2>1. Flow(TRUE, processing[c], {}, buf[c])
    BY <1>1, <1>4 DEF Local, Flow
  <2>2. Order(Append(answers[c], w.no), {}, buf[c], arrived[c])
    <3>1. answers[c] \in Seq(Nat) /\ buf[c] \in Seq([no : Nat, req : Request(c)])
      BY <1>0, Widen
    <3>2. Order(answers[c], {w}, buf[c], arrived[c])
      BY <1>1, <1>4 DEF Local
    <3> QED
      BY <1>0, <3>1, <3>2, OrderWaited
  <2> QED
    BY <1>3, <1>5, <1>7, <2>1, <2>2 DEF Local, Becomes
<1> QED
  BY <1>8, <1>9, <1>10, <1>11, Combine

LEMMA UdpErrorInv ==
    ASSUME IInv, NEW c \in Connection, UdpError(c)
    PROVE  IInv'
<1>1. GlobalTypes /\ LocalTypes(c) /\ Local(c)
  BY DEF IInv
<1>2. /\ UNCHANGED <<tcp, running, buf, processing, awaiting, activeSessId, sessions,
                      rtspSessions, arrived, answers>>
      /\ crashed' = TRUE
  BY DEF UdpError
<1>3. GlobalTypes' /\ Frame(c)
  BY <1>1, <1>2 DEF GlobalTypes, Frame
<1>4. LocalTypes(c)'
  BY <1>1, <1>2 DEF LocalTypes, Given, Request, Header
<1>5. Local(c)'
  BY <1>1, <1>2 DEF Local
<1> QED
  BY <1>3, <1>4, <1>5, Combine

\* A request answered without effect.
WithoutEffect(c) ==
    /\ running = c /\ buf[c] # <<>> /\ buf' = [buf EXCEPT ![c] = Tail(@)]
    /\ Answer(c, Head(buf[c]).no)
    /\ UNCHANGED <<tcp, running, processing, awaiting, activeSessId, sessions,
                   rtspSessions, arrived, crashed>>

LEMMA NothingDone ==
    ASSUME IInv, NEW c \in Connection, WithoutEffect(c)
    PROVE  IInv'
<1>1. GlobalTypes /\ LocalTypes(c) /\ Local(c)
  BY DEF IInv
<1>2. /\ Answer(c, Head(buf[c]).no)
      /\ running = c /\ buf[c] # <<>> /\ buf' = [buf EXCEPT ![c] = Tail(@)]
      /\ UNCHANGED <<tcp, running, processing, awaiting, activeSessId, sessions,
                     rtspSessions, arrived, crashed>>
  BY DEF WithoutEffect
<1>3. awaiting[c] = {}
  BY <1>1, <1>2 DEF Local, Flow
<1>4. /\ tcp[c] \in {"none", "open", "destroyed", "closed"} /\ activeSessId[c] \in Nat
      /\ tcp' = [tcp EXCEPT ![c] = tcp[c]]
      /\ activeSessId' = [activeSessId EXCEPT ![c] = activeSessId[c]]
      /\ Changes(sessions, sessions', c, sessions[c])
      /\ Changes(rtspSessions, rtspSessions', c, rtspSessions[c])
  BY <1>1, <1>2 DEF GlobalTypes, Changes
<1>5. Given(c) \subseteq Given(c)' /\ DOMAIN rtspSessions[c] \subseteq Given(c)'
  BY <1>1, <1>2 DEF Given, LocalTypes
<1>6. /\ sessions[c] \in Seq(Sess)
      /\ rtspSessions[c] \in [DOMAIN rtspSessions[c] -> DOMAIN sessions[c]]
  BY <1>1 DEF LocalTypes
<1>7. Objects(sessions[c], rtspSessions[c], activeSessId[c], {}, tcp[c])
  BY <1>1, <1>3 DEF Local
<1> HIDE DEF Sess
<1> QED
  BY <1>2, <1>4, <1>5, <1>6, <1>7, Answered

LEMMA PlayInv ==
    ASSUME IInv, NEW c \in Connection, HandlePlay(c)
    PROVE  IInv'
<1>1. GlobalTypes /\ LocalTypes(c) /\ Local(c)
  BY DEF IInv
<1> DEFINE sid == Named(c, Head(buf[c]).req)
           map == rtspSessions[c]
           ss == [sessions[c] EXCEPT ![map[sid]] = Played(sessions[c][map[sid]])]
<1>2. /\ Answer(c, Head(buf[c]).no)
      /\ running = c /\ buf[c] # <<>> /\ buf' = [buf EXCEPT ![c] = Tail(@)]
      /\ UNCHANGED <<tcp, running, processing, awaiting, activeSessId, rtspSessions,
                     arrived, crashed>>
  BY DEF HandlePlay, Take
<1>3. awaiting[c] = {}
  BY <1>1, <1>2 DEF Local, Flow
<1>4. CASE sid \notin DOMAIN map
  <2>1. WithoutEffect(c)
    BY <1>2, <1>4 DEF HandlePlay, WithoutEffect
  <2> QED
    BY <2>1, NothingDone
<1>5. CASE sid \in DOMAIN map
  <2>1. /\ sessions[c] \in Seq(Sess)
        /\ map \in [DOMAIN map -> DOMAIN sessions[c]]
        /\ DOMAIN map \subseteq Given(c)
    BY <1>1 DEF LocalTypes
  <2>2. Changes(sessions, sessions', c, ss)
    <3>1. sessions' = [sessions EXCEPT ![c][map[sid]].playing = TRUE,
                                       ![c][map[sid]].rtcpTimer = TRUE,
                                       ![c][map[sid]].intervals = @ + 1,
                                       ![c][map[sid]].plays = @ + 1]
      BY <1>5 DEF HandlePlay
    <3>2. map[sid] \in DOMAIN sessions[c] /\ sessions[c][map[sid]] \in Sess
      <4>1. map[sid] \in DOMAIN sessions[c]
        BY <1>5, <2>1
      <4> HIDE DEF map, sid, Sess
      <4> QED
        BY <2>1, <4>1
    <3> HIDE DEF map, sid
    <3> QED
      BY <1>1, <3>1, <3>2 DEF GlobalTypes, Sess, Changes, Played
  <2>3. Objects(sessions[c], map, activeSessId[c], {}, tcp[c])
    BY <1>1, <1>3 DEF Local
  <2> HIDE DEF sid, Sess
  <2>4. /\ ss \in Seq(Sess) /\ DOMAIN ss = DOMAIN sessions[c]
        /\ \A k \in DOMAIN sessions[c] : ss[k].sid = sessions[c][k].sid
        /\ Objects(ss, map, activeSessId[c], {}, tcp[c])
    BY <1>5, <2>1, <2>3, ObjectsPlay
  <2> HIDE DEF ss, map
  <2>5. sessions'[c] = ss
    BY <2>2 DEF Changes
  <2>6. Given(c)' = Given(c)
    BY <2>4, <2>5 DEF Given
  <2>7. /\ tcp[c] \in {"none", "open", "destroyed", "closed"} /\ activeSessId[c] \in Nat
        /\ tcp' = [tcp EXCEPT ![c] = tcp[c]]
        /\ activeSessId' = [activeSessId EXCEPT ![c] = activeSessId[c]]
        /\ Changes(rtspSessions, rtspSessions', c, map)
    BY <1>1, <1>2 DEF GlobalTypes, Changes, map
  <2>8. /\ map \in [DOMAIN map -> DOMAIN ss]
        /\ Given(c) \subseteq Given(c)' /\ DOMAIN map \subseteq Given(c)'
    BY <2>1, <2>4, <2>6
  <2> QED
    BY <1>2, <2>2, <2>4, <2>7, <2>8, Answered
<1> QED
  BY <1>4, <1>5

\* The end of session sid, on the way to a state t of the connection.
LEMMA CleanedConnection ==
    ASSUME IInv, NEW c \in Connection, NEW sid, CleanUp(c, sid),
           NEW t \in {"destroyed", "closed"}, t = "closed" => tcp[c] = "closed" \/ sid = activeSessId[c]
    PROVE  \E ss \in Seq(Sess) : \E map :
             Becomes(c, activeSessId[c], awaiting[c], t, ss, map)
<1>1. GlobalTypes /\ LocalTypes(c) /\ Local(c)
  BY DEF IInv
<1> DEFINE old == sessions[c]
           ids == rtspSessions[c]
           ss == [k \in DOMAIN old |->
                    IF sid \in DOMAIN ids /\ k = ids[sid]
                    THEN Cleaned(old[k]) ELSE old[k]]
           map == [s \in DOMAIN ids \ {sid} |-> ids[s]]
<1>2. Changes(sessions, sessions', c, ss) /\ Changes(rtspSessions, rtspSessions', c, map)
  <2>1. sessions' = [sessions EXCEPT ![c] = ss]
    BY DEF CleanUp
  <2>2. rtspSessions' = [rtspSessions EXCEPT ![c] = map]
    BY DEF CleanUp
  <2> HIDE DEF ss, map
  <2> QED
    BY <1>1, <2>1, <2>2 DEF GlobalTypes, Changes
<1>3. /\ old \in Seq(Sess) /\ DOMAIN ids \subseteq Given(c)
      /\ Objects(old, ids, activeSessId[c], awaiting[c], tcp[c]) /\ Owned(old, ids)
  BY <1>1 DEF LocalTypes, Local, Objects
<1>4. Cleans(ss, old, ids, sid)
  <2> HIDE DEF old, ids, Sess
  <2> QED
    BY <1>3, CleanUpObjects
<1>5. Forgets(map, ids, sid) /\ map = [s \in DOMAIN map |-> map[s]]
  BY DEF Forgets
<1>6. t \notin {"none", "open"} /\ (t = "closed" => tcp[c] = "closed" \/ sid = activeSessId[c])
  OBVIOUS
<1> HIDE DEF ss, map, Sess
<1>7. /\ ss \in Seq(Sess) /\ DOMAIN ss = DOMAIN old
      /\ \A k \in DOMAIN old : ss[k].sid = old[k].sid
      /\ \A s \in DOMAIN map : map[s] \in DOMAIN ss
      /\ Objects(ss, map, activeSessId[c], awaiting[c], t)
  <2> HIDE DEF old, ids
  <2> QED
    BY <1>3, <1>4, <1>5, <1>6, ObjectsCleanUp
<1>8. Given(c)' = Given(c)
  BY <1>2, <1>7 DEF Given, Changes
<1>9. DOMAIN map \subseteq Given(c)'
  BY <1>3, <1>5, <1>8 DEF Forgets
<1>10. map \in [DOMAIN map -> DOMAIN ss]
  BY <1>5, <1>7
<1> QED
  BY <1>2, <1>7, <1>8, <1>9, <1>10 DEF Becomes

LEMMA TeardownInv ==
    ASSUME IInv, NEW c \in Connection, HandleTeardown(c)
    PROVE  IInv'
<1>1. GlobalTypes /\ LocalTypes(c) /\ Local(c)
  BY DEF IInv
<1> DEFINE sid == Named(c, Head(buf[c]).req)
           t == IF tcp[c] = "closed" THEN "closed" ELSE "destroyed"
<1>2. /\ CleanUp(c, sid) /\ Answer(c, Head(buf[c]).no)
      /\ tcp' = [tcp EXCEPT ![c] = t]
      /\ running = c /\ buf[c] # <<>> /\ buf' = [buf EXCEPT ![c] = Tail(@)]
      /\ UNCHANGED <<running, processing, awaiting, activeSessId, arrived, crashed>>
  BY DEF HandleTeardown, Take
<1>3. awaiting[c] = {}
  BY <1>1, <1>2 DEF Local, Flow
<1>4. /\ t \in {"destroyed", "closed"} /\ t \in {"none", "open", "destroyed", "closed"}
      /\ (t = "closed" => tcp[c] = "closed" \/ sid = activeSessId[c])
  OBVIOUS
<1>5. activeSessId[c] \in Nat /\ activeSessId' = [activeSessId EXCEPT ![c] = activeSessId[c]]
  BY <1>1, <1>2 DEF GlobalTypes
<1> HIDE DEF sid, t, Sess
<1>6a. PICK ss \in Seq(Sess) : \E map : Becomes(c, activeSessId[c], {}, t, ss, map)
  BY <1>2, <1>3, <1>4, CleanedConnection
<1>6. PICK map : Becomes(c, activeSessId[c], {}, t, ss, map)
  BY <1>6a
<1> QED
  BY <1>2, <1>4, <1>5, <1>6, Answered DEF Becomes

LEMMA CloseInv ==
    ASSUME IInv, NEW c \in Connection, CloseEvent(c)
    PROVE  IInv'
<1>1. GlobalTypes /\ LocalTypes(c) /\ Local(c)
  BY DEF IInv
<1>2. /\ CleanUp(c, activeSessId[c])
      /\ tcp' = [tcp EXCEPT ![c] = "closed"]
      /\ UNCHANGED <<running, buf, processing, awaiting, activeSessId, arrived,
                     answers, crashed>>
  BY DEF CloseEvent
<1> HIDE DEF Sess
<1>3a. PICK ss \in Seq(Sess) : \E map : Becomes(c, activeSessId[c], awaiting[c], "closed", ss, map)
  BY <1>2, CleanedConnection
<1>3. PICK map : Becomes(c, activeSessId[c], awaiting[c], "closed", ss, map)
  BY <1>3a
<1>4. tcp'[c] = "closed" /\ sessions'[c] = ss /\ rtspSessions'[c] = map
  BY <1>1, <1>2, <1>3 DEF GlobalTypes, Changes, Becomes
<1>5. GlobalTypes'
  BY <1>1, <1>2, <1>3 DEF GlobalTypes, Changes, Becomes
<1>6. Frame(c)
  BY <1>1, <1>2, <1>3 DEF GlobalTypes, Frame, Changes, Becomes
<1>7. LocalTypes(c)'
  <2>1. /\ arrived[c] \in Nat
        /\ buf[c] \in Seq([no : 1 .. arrived[c], req : Request(c)])
    BY <1>1 DEF LocalTypes, GlobalTypes
  <2>2. buf[c] \in Seq([no : 1 .. arrived[c], req : Request(c)'])
    BY <1>3, <2>1, RequestsGrow DEF Becomes
  <2> QED
    BY <1>1, <1>2, <1>3, <1>4, <2>2 DEF LocalTypes, Becomes
<1>8. Local(c)'
  BY <1>1, <1>2, <1>3, <1>4 DEF Local, Becomes
<1> QED
  BY <1>5, <1>6, <1>7, <1>8, Combine

LEMMA NextInv == IInv /\ [Next]_vars => IInv'
<1> SUFFICES ASSUME IInv, [Next]_vars PROVE IInv'
  OBVIOUS
<1>1. CASE UNCHANGED vars
  <2>1. GlobalTypes'
    BY <1>1 DEF vars, IInv, GlobalTypes
  <2>2. ASSUME NEW c \in Connection PROVE LocalTypes(c)' /\ Local(c)'
    <3>1. LocalTypes(c) /\ Local(c)
      BY DEF IInv
    <3>2. LocalTypes(c)'
      BY <1>1, <3>1 DEF vars, LocalTypes, Given, Request, Header
    <3>3. Local(c)'
      BY <1>1, <3>1 DEF vars, Local
    <3> QED
      BY <3>2, <3>3
  <2> QED
    BY <2>1, <2>2 DEF IInv
<1>2. CASE Next
  <2> PICK c \in Connection :
         \/ Connect(c) \/ ClientLeaves(c) \/ Data(c)
         \/ Listener(c) \/ UdpError(c) \/ CloseEvent(c)
    BY <1>2 DEF Next
  <2>1. CASE Connect(c)
    BY <2>1, TcpOnly DEF Connect
  <2>2. CASE ClientLeaves(c)
    BY <2>2, TcpOnly DEF ClientLeaves
  <2>3. CASE HandleOther(c)
    <3>1. WithoutEffect(c)
      BY <2>3 DEF HandleOther, Take, WithoutEffect
    <3> QED
      BY <3>1, NothingDone
  <2>4. CASE LoopEnds(c)
    BY <2>4, LoopEndsInv
  <2>5. CASE HandleSetupTcp(c) \/ HandleSetupUdp(c) \/ UdpBound(c)
    BY <2>5, SetupTcpInv, SetupUdpInv, UdpBoundInv
  <2>6. CASE HandlePlay(c) \/ HandleTeardown(c)
    BY <2>6, PlayInv, TeardownInv
  <2> QED
    BY <2>1, <2>2, <2>3, <2>4, <2>5, <2>6, DataInv, UdpErrorInv, CloseInv DEF Listener
<1> QED
  BY <1>1, <1>2

-----------------------------------------------------------------------------
\* The invariant of the listeners: each of its parts holds of every connection
\* whatever the others do.
THEOREM Invariant == SafetySpec => []IInv
BY InitInv, NextInv, PTL DEF SafetySpec

\* Every variable has its type: a client names only ids it was given, the map
\* only leads to objects that were made.
THEOREM Types == SafetySpec => []TypeOK
<1>1. IInv => TypeOK
  BY DEF IInv, GlobalTypes, LocalTypes, TypeOK
<1> QED
  BY <1>1, Invariant, PTL

\* Requests are answered in the order they came, also over the await of SETUP.
THEOREM Ordered == SafetySpec => []AnsweredInOrder
<1>1. IInv => AnsweredInOrder
  BY DEF IInv, Local, Order, AnsweredInOrder
<1> QED
  BY <1>1, Invariant, PTL

\* The data listener never goes to sleep on an unread request.
THEOREM AllRead == SafetySpec => []NothingLeftUnread
<1>1. IInv => NothingLeftUnread
  BY DEF IInv, Local, Flow, NothingLeftUnread
<1> QED
  BY <1>1, Invariant, PTL

\* While a connection is open, what is sent for a session over UDP finds the
\* socket of that session open, whatever SETUP, PLAY and TEARDOWN came before.
THEOREM SocketsOpen == SafetySpec => []SendsThroughOpenSocket
<1>1. IInv => SendsThroughOpenSocket
  BY DEF IInv, Local, Objects, Bound, Sends, SendsThroughOpenSocket
<1> QED
  BY <1>1, Invariant, PTL

\* A closed connection leaves nothing of the session it set up last.
THEOREM ReleasedAtClose == SafetySpec => []NothingLeftBehind
<1>1. ASSUME IInv, NEW c \in Connection,
             tcp[c] = "closed", awaiting[c] = {}, sessions[c] # <<>>,
             ~sessions[c][Len(sessions[c])].late
      PROVE  /\ \A s \in DOMAIN rtspSessions[c] : rtspSessions[c][s] # Len(sessions[c])
             /\ Clean(sessions[c][Len(sessions[c])])
  <2>1. Local(c)
    BY <1>1 DEF IInv
  <2>2. Last(sessions[c]).sid \notin DOMAIN rtspSessions[c]
    BY <1>1, <2>1 DEF Local, Objects, Gone, Last
  <2>3. Clean(Last(sessions[c]))
    BY <1>1, <2>1, <2>2 DEF Local, Objects, Released
  <2>4. \A s \in DOMAIN rtspSessions[c] : sessions[c][rtspSessions[c][s]].sid = s
    BY <2>1 DEF Local, Objects, Owned
  <2> QED
    BY <2>2, <2>3, <2>4 DEF Last
<1>2. IInv => NothingLeftBehind
  BY <1>1 DEF NothingLeftBehind, Clean
<1> QED
  BY <1>2, Invariant, PTL
-----------------------------------------------------------------------------
(***************************************************************************)
(* The life of one session object, k, as its connection goes on: where it  *)
(* stands, of values.                                                      *)
(***************************************************************************)
StageOf(ss, map, t, k) ==
    IF k \in DOMAIN ss => ss[k].late THEN "none"
    ELSE IF ~(t = "open" /\ \E s \in DOMAIN map : map[s] = k) THEN "destroyed"
    ELSE IF ss[k].playing THEN "playing" ELSE "ready"

Moves(a, b) ==
    \/ a = b
    \/ a = "none" /\ b = "ready"
    \/ a = "ready" /\ b = "playing"
    \/ a \in {"ready", "playing"} /\ b = "destroyed"

LEMMA StageValues ==
    ASSUME NEW ss, NEW map, NEW t, NEW k
    PROVE  StageOf(ss, map, t, k) \in {"none", "ready", "playing", "destroyed"}
BY DEF StageOf

\* Once its connection is open no more, an object that had begun has ended.
LEMMA StageEnds ==
    ASSUME NEW ss, NEW map, NEW t, NEW p, NEW m, NEW u, u # "open",
           DOMAIN p = DOMAIN ss, \A j \in DOMAIN ss : p[j].late = ss[j].late, NEW k
    PROVE  Moves(StageOf(ss, map, t, k), StageOf(p, m, u, k))
<1>1. CASE k \in DOMAIN ss => ss[k].late
  <2>1. StageOf(ss, map, t, k) = "none" /\ StageOf(p, m, u, k) = "none"
    BY <1>1 DEF StageOf
  <2> QED
    BY <2>1 DEF Moves
<1>2. CASE ~(k \in DOMAIN ss => ss[k].late)
  <2>1. StageOf(ss, map, t, k) \in {"ready", "playing", "destroyed"}
    BY <1>2 DEF StageOf
  <2>2. StageOf(p, m, u, k) = "destroyed"
    BY <1>2 DEF StageOf
  <2> QED
    BY <2>1, <2>2 DEF Moves
<1> QED
  BY <1>1, <1>2

\* An object made by SETUP begins, or never will; one whose id it takes ends.
LEMMA StageRegister ==
    ASSUME NEW ss \in Seq(Sess), NEW map, NEW id, NEW t,
           \A s \in DOMAIN map : map[s] \in DOMAIN ss,
           NEW o, o.playing = FALSE, t = "open" \/ o.late, NEW p, Grows(p, ss, o),
           NEW m, Enters(m, map, id, Len(ss) + 1), NEW k
    PROVE  Moves(StageOf(ss, map, t, k), StageOf(p, m, t, k))
<1>1. /\ DOMAIN p = DOMAIN ss \cup {Len(ss) + 1}
      /\ p[Len(ss) + 1] = o
      /\ \A j \in DOMAIN ss : p[j] = ss[j] /\ j # Len(ss) + 1
  BY DEF Grows
<1>2. /\ DOMAIN m = DOMAIN map \cup {id} /\ m[id] = Len(ss) + 1
      /\ \A s \in DOMAIN map : s # id => m[s] = map[s]
  BY DEF Enters
<1> DEFINE n == Len(ss) + 1
<1>3. CASE k = n
  <2>1. StageOf(ss, map, t, k) = "none"
    BY <1>1, <1>3 DEF StageOf
  <2>2. id \in DOMAIN m /\ m[id] = k /\ p[k].playing = FALSE
    BY <1>1, <1>2, <1>3
  <2>3. CASE t = "open"
    <3>1. StageOf(p, m, t, k) \in {"none", "ready"}
      BY <2>2, <2>3 DEF StageOf
    <3> QED
      BY <2>1, <3>1 DEF Moves
  <2>4. CASE t # "open"
    <3>0. p[k].late
      BY <1>1, <1>3, <2>4
    <3>1. StageOf(p, m, t, k) = "none"
      BY <3>0 DEF StageOf
    <3> QED
      BY <2>1, <3>1 DEF Moves
  <2> QED
    BY <2>3, <2>4
<1>4. CASE k \notin DOMAIN p
  <2>1. StageOf(ss, map, t, k) = "none" /\ StageOf(p, m, t, k) = "none"
    BY <1>1, <1>4 DEF StageOf
  <2> QED
    BY <2>1 DEF Moves
<1>5. CASE k \in DOMAIN ss
  <2>1. p[k] = ss[k] /\ k \in DOMAIN p /\ k # n
    BY <1>1, <1>5
  <2>2. (\E s \in DOMAIN m : m[s] = k) => \E s \in DOMAIN map : map[s] = k
    BY <1>2, <2>1
  <2>3. CASE (\E s \in DOMAIN m : m[s] = k) <=> \E s \in DOMAIN map : map[s] = k
    <3>1. StageOf(p, m, t, k) = StageOf(ss, map, t, k)
      BY <1>5, <2>1, <2>3 DEF StageOf
    <3> QED
      BY <3>1 DEF Moves
  <2>4. CASE ~\E s \in DOMAIN m : m[s] = k
    <3>1. CASE ss[k].late
      <4>1. StageOf(ss, map, t, k) = "none" /\ StageOf(p, m, t, k) = "none"
        BY <2>1, <3>1 DEF StageOf
      <4> QED
        BY <4>1 DEF Moves
    <3>2. CASE ~ss[k].late
      <4>1. StageOf(p, m, t, k) = "destroyed"
        BY <2>1, <2>4, <3>2 DEF StageOf
      <4>2. StageOf(ss, map, t, k) \in {"ready", "playing", "destroyed"}
        BY <1>5, <3>2 DEF StageOf
      <4> QED
        BY <4>1, <4>2 DEF Moves
    <3> QED
      BY <3>1, <3>2
  <2> QED
    BY <2>2, <2>3, <2>4
<1> QED
  BY <1>1, <1>3, <1>4, <1>5

LEMMA StagePlay ==
    ASSUME NEW ss \in Seq(Sess), NEW map, NEW t, NEW x \in DOMAIN ss,
           NEW p, p = [ss EXCEPT ![x] = Played(ss[x])], NEW k
    PROVE  Moves(StageOf(ss, map, t, k), StageOf(p, map, t, k))
<1> DEFINE o == Played(ss[x])
<1>1. ss[x] \in Sess
  <2> HIDE DEF Sess
  <2> QED
    OBVIOUS
<1>2. o.late = ss[x].late /\ o.playing = TRUE
  BY <1>1 DEF Played, Sess
<1> HIDE DEF o
<1>3. DOMAIN p = DOMAIN ss /\ p[x] = o /\ \A j \in DOMAIN ss : j # x => p[j] = ss[j]
  BY DEF o
<1>4. CASE k # x
  <2>1. StageOf(p, map, t, k) = StageOf(ss, map, t, k)
    BY <1>3, <1>4 DEF StageOf
  <2> QED
    BY <2>1 DEF Moves
<1>5. CASE k = x /\ ss[k].late
  <2>1. StageOf(ss, map, t, k) = "none" /\ StageOf(p, map, t, k) = "none"
    BY <1>2, <1>3, <1>5 DEF StageOf
  <2> QED
    BY <2>1 DEF Moves
<1>6. CASE k = x /\ ~ss[k].late /\ ~(t = "open" /\ \E s \in DOMAIN map : map[s] = k)
  <2>1. StageOf(ss, map, t, k) = "destroyed" /\ StageOf(p, map, t, k) = "destroyed"
    BY <1>2, <1>3, <1>6 DEF StageOf
  <2> QED
    BY <2>1 DEF Moves
<1>7. CASE k = x /\ ~ss[k].late /\ t = "open" /\ \E s \in DOMAIN map : map[s] = k
  <2>1. StageOf(ss, map, t, k) \in {"ready", "playing"} /\ StageOf(p, map, t, k) = "playing"
    BY <1>2, <1>3, <1>7 DEF StageOf
  <2> QED
    BY <2>1 DEF Moves
<1> QED
  BY <1>4, <1>5, <1>6, <1>7

-----------------------------------------------------------------------------
\* A step of c, and what it leaves to the others.
Step(c) ==
    \/ Connect(c) \/ ClientLeaves(c) \/ Data(c)
    \/ Listener(c) \/ UdpError(c) \/ CloseEvent(c)

LEMMA OthersAlone ==
    ASSUME GlobalTypes, NEW c \in Connection, Step(c), NEW d \in Connection, d # c
    PROVE  /\ tcp'[d] = tcp[d] /\ arrived'[d] = arrived[d]
           /\ sessions'[d] = sessions[d] /\ rtspSessions'[d] = rtspSessions[d]
<1>1. CASE Connect(c) \/ ClientLeaves(c) \/ UdpError(c)
  BY <1>1 DEF GlobalTypes, Connect, ClientLeaves, UdpError
<1>2. CASE Data(c) \/ LoopEnds(c)
  BY <1>2 DEF GlobalTypes, Data, DataEvent, LoopEnds
<1>3. CASE HandleSetupTcp(c)
  BY <1>3 DEF GlobalTypes, HandleSetupTcp, Register
<1>4. CASE HandleSetupUdp(c) \/ HandleOther(c)
  BY <1>4 DEF GlobalTypes, HandleSetupUdp, HandleOther
<1>5. CASE UdpBound(c)
  BY <1>5 DEF GlobalTypes, UdpBound, Register
<1>6. CASE HandlePlay(c)
  BY <1>6 DEF GlobalTypes, HandlePlay
<1>7. CASE HandleTeardown(c)
  BY <1>7 DEF GlobalTypes, HandleTeardown, CleanUp
<1>8. CASE CloseEvent(c)
  BY <1>8 DEF GlobalTypes, CloseEvent, CleanUp
<1> QED
  BY <1>1, <1>2, <1>3, <1>4, <1>5, <1>6, <1>7, <1>8 DEF Step, Listener

\* Before a connection is made nothing arrives on it and nothing is set up.
Fresh(c) == tcp[c] = "none" => arrived[c] = 0 /\ sessions[c] = <<>>

LEMMA NothingYet ==
    ASSUME NEW n, n = 0, NEW S, NEW T, NEW ans \in Seq(S), NEW aw, NEW q \in Seq(T),
           Order(ans, aw, q, n)
    PROVE  aw = {} /\ q = <<>>
<1>1. Len(ans) \in Nat /\ Len(q) \in Nat /\ Waiting(aw) \in {0, 1}
  BY DEF Waiting
<1>2. Len(ans) + Waiting(aw) + Len(q) = 0
  BY DEF Order
<1>3. Waiting(aw) = 0 /\ Len(q) = 0
  BY <1>1, <1>2
<1> QED
  BY <1>3 DEF Waiting

LEMMA StaysFresh ==
    ASSUME IInv, NEW c \in Connection, Step(c), NEW d \in Connection, Fresh(d)
    PROVE  Fresh(d)'
<1>1. GlobalTypes /\ LocalTypes(d) /\ Local(d)
  BY DEF IInv
<1>2. CASE d # c
  BY <1>1, <1>2, OthersAlone DEF Fresh
<1>3. CASE d = c /\ tcp[c] # "none"
  <2>1. tcp'[c] # "none"
    <3>1. CASE ClientLeaves(c) \/ UdpError(c) \/ Data(c) \/ LoopEnds(c)
      BY <1>1, <1>3, <3>1 DEF GlobalTypes, ClientLeaves, UdpError, Data, DataEvent, LoopEnds
    <3>2. CASE HandleSetupTcp(c) \/ HandleSetupUdp(c) \/ UdpBound(c)
      BY <1>1, <1>3, <3>2 DEF GlobalTypes, HandleSetupTcp, HandleSetupUdp, UdpBound
    <3>3. CASE HandlePlay(c) \/ HandleTeardown(c) \/ HandleOther(c) \/ CloseEvent(c)
      BY <1>1, <1>3, <3>3 DEF GlobalTypes, HandlePlay, HandleTeardown, HandleOther, CloseEvent
    <3> QED
      BY <1>3, <3>1, <3>2, <3>3 DEF Step, Listener, Connect
  <2> QED
    BY <1>3, <2>1 DEF Fresh
<1>4. CASE d = c /\ tcp[c] = "none"
  <2>1. awaiting[c] = {} /\ buf[c] = <<>>
    BY <1>1, <1>4, NothingYet DEF Fresh, LocalTypes, Local
  <2>2. Connect(c) \/ UdpError(c) \/ LoopEnds(c)
    BY <1>4, <2>1 DEF Step, Listener, ClientLeaves, Data, DataEvent, HandleSetupTcp,
       HandleSetupUdp, UdpBound, HandlePlay, HandleTeardown, HandleOther, Take, CloseEvent
  <2>3. CASE Connect(c)
    BY <1>1, <1>4, <2>3 DEF Connect, Fresh, GlobalTypes
  <2>4. CASE UdpError(c) \/ LoopEnds(c)
    BY <1>4, <2>4 DEF UdpError, LoopEnds, Fresh
  <2> QED
    BY <2>2, <2>3, <2>4
<1> QED
  BY <1>2, <1>3, <1>4

(***************************************************************************)
(* The steps, for an object k of c.                                        *)
(***************************************************************************)
MovesOn(c, k) ==
    Moves(StageOf(sessions[c], rtspSessions[c], tcp[c], k),
          StageOf(sessions'[c], rtspSessions'[c], tcp'[c], k))

LEMMA RegisterMoves ==
    ASSUME IInv, NEW c \in Connection, NEW id \in Nat \ {NoSid}, NEW udp \in BOOLEAN,
           Register(c, id, udp), UNCHANGED tcp, NEW k
    PROVE  MovesOn(c, k)
<1>1. GlobalTypes /\ LocalTypes(c) /\ Local(c)
  BY DEF IInv
<1> DEFINE o == [sid |-> id, udp |-> udp, bound |-> udp, playing |-> FALSE,
                 rtcpTimer |-> FALSE, intervals |-> 0, plays |-> 0, late |-> tcp[c] # "open"]
           ss == Append(sessions[c], o)
           map == [s \in DOMAIN rtspSessions[c] \cup {id} |->
                     IF s = id THEN Len(sessions[c]) + 1 ELSE rtspSessions[c][s]]
<1>2. sessions'[c] = ss /\ rtspSessions'[c] = map /\ tcp'[c] = tcp[c]
  BY <1>1 DEF Register, GlobalTypes
<1>3. o.playing = FALSE /\ (tcp[c] = "open" \/ o.late)
  OBVIOUS
<1>4. o \in Sess
  BY DEF Sess
<1>5. Enters(map, rtspSessions[c], id, Len(sessions[c]) + 1)
  BY DEF Enters
<1> HIDE DEF Sess
<1>6. /\ sessions[c] \in Seq(Sess)
      /\ \A s \in DOMAIN rtspSessions[c] : rtspSessions[c][s] \in DOMAIN sessions[c]
  BY <1>1 DEF LocalTypes
<1> HIDE DEF o
<1>7. Grows(ss, sessions[c], o)
  BY <1>4, <1>6, AppendFacts DEF Grows
<1> HIDE DEF ss, map
<1>8. Moves(StageOf(sessions[c], rtspSessions[c], tcp[c], k), StageOf(ss, map, tcp[c], k))
  BY <1>3, <1>5, <1>6, <1>7, StageRegister
<1> QED
  BY <1>2, <1>8 DEF MovesOn

LEMMA CleanUpMoves ==
    ASSUME IInv, NEW c \in Connection, NEW sid, CleanUp(c, sid), tcp'[c] # "open", NEW k
    PROVE  MovesOn(c, k)
<1>1. GlobalTypes /\ LocalTypes(c) /\ Local(c)
  BY DEF IInv
<1> DEFINE old == sessions[c]
           ids == rtspSessions[c]
           ss == [j \in DOMAIN old |->
                    IF sid \in DOMAIN ids /\ j = ids[sid]
                    THEN Cleaned(old[j]) ELSE old[j]]
<1>2. sessions'[c] = ss
  BY <1>1 DEF GlobalTypes, CleanUp
<1>3. old \in Seq(Sess) /\ Owned(old, ids)
  BY <1>1 DEF LocalTypes, Local, Objects
<1>4. Cleans(ss, old, ids, sid)
  <2> HIDE DEF old, ids, Sess
  <2> QED
    BY <1>3, CleanUpObjects
<1> HIDE DEF ss
<1>5. DOMAIN ss = DOMAIN old /\ \A j \in DOMAIN old : ss[j].late = old[j].late
  BY <1>4 DEF Cleans
<1>6. \A m, u : u # "open" => Moves(StageOf(old, ids, tcp[c], k), StageOf(ss, m, u, k))
  BY <1>5, StageEnds
<1> QED
  BY <1>2, <1>6 DEF MovesOn

LEMMA PlayMoves ==
    ASSUME IInv, NEW c \in Connection, HandlePlay(c), NEW k
    PROVE  MovesOn(c, k)
<1>1. GlobalTypes /\ LocalTypes(c) /\ Local(c)
  BY DEF IInv
<1> DEFINE sid == Named(c, Head(buf[c]).req)
           map == rtspSessions[c]
           x == map[sid]
<1>2. tcp' = tcp /\ rtspSessions' = rtspSessions
  BY DEF HandlePlay
<1>3. CASE sid \notin DOMAIN map
  <2>1. sessions' = sessions
    BY <1>3 DEF HandlePlay
  <2> QED
    BY <1>2, <2>1 DEF MovesOn, Moves
<1>4. CASE sid \in DOMAIN map
  <2>1. sessions[c] \in Seq(Sess) /\ x \in DOMAIN sessions[c]
    BY <1>1, <1>4 DEF LocalTypes
  <2>2. sessions[c][x] \in Sess
    <3> HIDE DEF x, Sess
    <3> QED
      BY <2>1
  <2>3. sessions' = [sessions EXCEPT ![c][x].playing = TRUE,
                                     ![c][x].rtcpTimer = TRUE,
                                     ![c][x].intervals = @ + 1,
                                     ![c][x].plays = @ + 1]
    BY <1>4 DEF HandlePlay
  <2> HIDE DEF x, map, sid
  <2>4. sessions'[c] = [sessions[c] EXCEPT ![x] = Played(sessions[c][x])]
    BY <1>1, <2>1, <2>2, <2>3 DEF GlobalTypes, Sess, Played
  <2> HIDE DEF Sess
  <2>5. Moves(StageOf(sessions[c], map, tcp[c], k), StageOf(sessions'[c], map, tcp[c], k))
    BY <2>1, <2>4, StagePlay
  <2> QED
    BY <1>2, <2>5 DEF MovesOn, map
<1> QED
  BY <1>3, <1>4

LEMMA StepMoves ==
    ASSUME IInv, NEW c \in Connection, Step(c), NEW d \in Connection, Fresh(d), NEW k
    PROVE  MovesOn(d, k)
<1>1. GlobalTypes /\ LocalTypes(c) /\ Local(c)
  BY DEF IInv
<1>2. CASE d # c
  <2>1. tcp'[d] = tcp[d] /\ sessions'[d] = sessions[d] /\ rtspSessions'[d] = rtspSessions[d]
    BY <1>1, <1>2, OthersAlone
  <2> QED
    BY <2>1 DEF MovesOn, Moves
<1>3. CASE d = c
  <2>1. CASE Connect(c)
    <3>1. sessions[c] = <<>> /\ sessions' = sessions
      BY <1>3, <2>1 DEF Connect, Fresh
    <3>2. k \notin DOMAIN sessions[c]
      BY <3>1
    <3>3. \A m, t : StageOf(sessions[c], m, t, k) = "none"
      BY <3>2 DEF StageOf
    <3> QED
      BY <1>3, <3>1, <3>3 DEF MovesOn, Moves
  <2>2. CASE ClientLeaves(c)
    <3>1. sessions' = sessions /\ tcp'[c] # "open"
      BY <1>1, <2>2 DEF ClientLeaves, GlobalTypes
    <3>2. \A m, u : u # "open" =>
            Moves(StageOf(sessions[c], rtspSessions[c], tcp[c], k), StageOf(sessions[c], m, u, k))
      BY StageEnds
    <3> QED
      BY <1>3, <3>1, <3>2 DEF MovesOn
  <2>3. CASE Data(c) \/ LoopEnds(c) \/ HandleSetupUdp(c) \/ HandleOther(c) \/ UdpError(c)
    <3>1. sessions' = sessions /\ rtspSessions' = rtspSessions /\ tcp' = tcp
      BY <2>3 DEF Data, DataEvent, LoopEnds, HandleSetupUdp, HandleOther, UdpError
    <3> QED
      BY <1>3, <3>1 DEF MovesOn, Moves
  <2>4. CASE HandleSetupTcp(c)
    <3> DEFINE id == SetupSid(c, Head(buf[c]).req)
    <3>1. Register(c, id, FALSE) /\ UNCHANGED tcp
      BY <2>4 DEF HandleSetupTcp
    <3>2. id \in Nat \ {NoSid}
      <4>1. sessions[c] \in Seq(Sess) /\ DOMAIN rtspSessions[c] \subseteq Given(c)
        BY <1>1 DEF LocalTypes
      <4> QED
        BY <4>1, GivenIds DEF SetupSid
    <3> HIDE DEF id
    <3> QED
      BY <1>3, <3>1, <3>2, RegisterMoves
  <2>5. CASE UdpBound(c)
    <3>1. PICK w \in awaiting[c] : Register(c, w.sid, TRUE)
      BY <2>5 DEF UdpBound
    <3>2. UNCHANGED tcp
      BY <2>5 DEF UdpBound
    <3>3. w.sid \in Nat \ {NoSid}
      BY <1>1 DEF LocalTypes
    <3> QED
      BY <1>3, <3>1, <3>2, <3>3, RegisterMoves
  <2>6. CASE HandlePlay(c)
    BY <1>3, <2>6, PlayMoves
  <2>7. CASE HandleTeardown(c)
    <3>1. CleanUp(c, Named(c, Head(buf[c]).req)) /\ tcp'[c] # "open"
      BY <1>1, <2>7 DEF HandleTeardown, GlobalTypes
    <3> QED
      BY <1>3, <3>1, CleanUpMoves
  <2>8. CASE CloseEvent(c)
    <3>1. CleanUp(c, activeSessId[c]) /\ tcp'[c] # "open"
      BY <1>1, <2>8 DEF CloseEvent, GlobalTypes
    <3> QED
      BY <1>3, <3>1, CleanUpMoves
  <2> QED
    BY <2>1, <2>2, <2>3, <2>4, <2>5, <2>6, <2>7, <2>8 DEF Step, Listener
<1> QED
  BY <1>2, <1>3

\* Whatever requests, sockets and the client do: a session object gets pictures
\* over one stretch of time, as the frame listener takes it to.
THEOREM SessionsLiveOnce == SafetySpec => SessionsStream
<1> DEFINE FreshInv == \A c \in Connection : Fresh(c)
<1>1. Init => FreshInv
  BY DEF Init, Fresh
<1>2. IInv /\ FreshInv /\ [Next]_vars => FreshInv'
  <2> SUFFICES ASSUME IInv, FreshInv, [Next]_vars, NEW d \in Connection
               PROVE  Fresh(d)'
    OBVIOUS
  <2>1. CASE UNCHANGED vars
    BY <2>1 DEF vars, Fresh
  <2>2. CASE Next
    <3>1. PICK c \in Connection : Step(c)
      BY <2>2 DEF Next, Step
    <3> QED
      BY <3>1, StaysFresh
  <2> QED
    BY <2>1, <2>2
<1>3. IInv /\ FreshInv /\ Next =>
        \A c \in Connection : \A k \in 1 .. MaxRequests :
          StreamOf(c, k)!Next \/ UNCHANGED Stage(c, k)
  <2> SUFFICES ASSUME IInv, FreshInv, Next,
                      NEW d \in Connection, NEW k \in 1 .. MaxRequests
               PROVE  StreamOf(d, k)!Next \/ UNCHANGED Stage(d, k)
    OBVIOUS
  <2>1. PICK c \in Connection : Step(c)
    BY DEF Next, Step
  <2>2. MovesOn(d, k)
    BY <2>1, StepMoves
  <2>3. /\ Stage(d, k) = StageOf(sessions[d], rtspSessions[d], tcp[d], k)
        /\ Stage(d, k)' = StageOf(sessions'[d], rtspSessions'[d], tcp'[d], k)
    BY DEF Stage, InUse, StageOf
  <2>4. Moves(Stage(d, k), Stage(d, k)')
    BY <2>2, <2>3 DEF MovesOn
  <2> QED
    BY <2>4 DEF Moves, StreamOf!Next, StreamOf!Setup, StreamOf!Play, StreamOf!Destroy
<1>4. IInv /\ FreshInv /\ [Next]_vars =>
        [\A c \in Connection : \A k \in 1 .. MaxRequests :
           StreamOf(c, k)!Next \/ UNCHANGED Stage(c, k)]_vars
  BY <1>3
<1> QED
  BY <1>1, <1>2, <1>4, Invariant, PTL DEF SafetySpec, SessionsStream
-----------------------------------------------------------------------------
(***************************************************************************)
(* Why every request is answered, as far as it can be said without         *)
(* fairness: while one is not, its listener has the thread or waits for    *)
(* its socket, and every step of the listener leaves it less to do.        *)
(***************************************************************************)
Runs(c) == IF running = c THEN 1 ELSE 0

\* A request costs a turn and perhaps a wait, a wait the turn that follows it.
Work(c) == 3 * Len(buf[c]) + 2 * Waiting(awaiting[c]) + Runs(c)

\* Every step of a data listener lowers its work, and nothing but a request of
\* its own client raises it.
ListenersGetDone ==
    [][\A c \in Connection :
         /\ Listener(c) => Work(c)' < Work(c)
         /\ Work(c)' # Work(c) => Listener(c) \/ Data(c)]_vars

\* While a request is unanswered its listener runs or waits for a socket.
NeverStuck ==
    \A c \in Connection :
        /\ Work(c) \in Nat
        /\ Len(answers[c]) < arrived[c] => running = c \/ awaiting[c] # {}

\* A request handled, a socket bound, a loop left: each lowers the sum.
LEMMA ListenerStep ==
    ASSUME IInv, NEW c \in Connection, Listener(c)
    PROVE  Work(c)' < Work(c)
<1>1. GlobalTypes /\ LocalTypes(c) /\ Local(c)
  BY DEF IInv
<1> DEFINE n == Len(buf[c])
<1>2. n \in Nat /\ (buf[c] # <<>> => n > 0 /\ Len(Tail(buf[c])) = n - 1)
  <2>1. buf[c] \in Seq([no : 1 .. arrived[c], req : Request(c)])
    BY <1>1 DEF LocalTypes
  <2> QED
    BY <2>1, TailFacts
<1>3. /\ Work(c) = 3 * n + 2 * Waiting(awaiting[c]) + Runs(c)
      /\ Work(c)' = 3 * Len(buf'[c]) + 2 * Waiting(awaiting'[c]) + Runs(c)'
  BY DEF Work, Waiting
<1>4. Waiting({}) = 0 /\ \A w : Waiting({w}) = 1
  BY DEF Waiting
<1>5. running = c => awaiting[c] = {}
  BY <1>1 DEF Local, Flow
<1> HIDE DEF n
<1>6. CASE HandleSetupTcp(c) \/ HandlePlay(c) \/ HandleTeardown(c) \/ HandleOther(c)
  <2>1. /\ running = c /\ running' = running /\ awaiting' = awaiting
        /\ buf[c] # <<>> /\ buf' = [buf EXCEPT ![c] = Tail(@)]
    BY <1>6 DEF HandleSetupTcp, HandlePlay, HandleTeardown, HandleOther, Take
  <2>2. Len(buf'[c]) = n - 1 /\ n > 0
    BY <1>1, <1>2, <2>1 DEF GlobalTypes
  <2>3. Work(c) = 3 * n + 2 * 0 + 1 /\ Work(c)' = 3 * (n - 1) + 2 * 0 + 1
    BY <1>3, <1>4, <1>5, <2>1, <2>2 DEF Runs
  <2> QED
    BY <1>2, <2>2, <2>3
<1>7. CASE HandleSetupUdp(c)
  <2>1. /\ running = c /\ running' = Nobody
        /\ buf[c] # <<>> /\ buf' = [buf EXCEPT ![c] = Tail(@)]
    BY <1>7 DEF HandleSetupUdp, Take
  <2>2. PICK w : awaiting'[c] = {w}
    BY <1>1, <1>5, <1>7, <2>1 DEF HandleSetupUdp, GlobalTypes
  <2>3. Len(buf'[c]) = n - 1 /\ n > 0 /\ running' # c
    BY <1>1, <1>2, <2>1, ConnectionAssumption DEF GlobalTypes
  <2>4. Work(c) = 3 * n + 2 * 0 + 1 /\ Work(c)' = 3 * (n - 1) + 2 * 1 + 0
    BY <1>3, <1>4, <1>5, <2>1, <2>2, <2>3 DEF Runs
  <2> QED
    BY <1>2, <2>3, <2>4
<1>8. CASE UdpBound(c)
  <2>1. PICK w \in awaiting[c] : awaiting' = [awaiting EXCEPT ![c] = @ \ {w}]
    BY <1>8 DEF UdpBound
  <2>2. running = Nobody /\ running' = c /\ buf' = buf
    BY <1>8 DEF UdpBound
  <2>3. awaiting[c] = {w} /\ awaiting'[c] = {} /\ running # c
    BY <1>1, <2>1, <2>2, ConnectionAssumption DEF Local, Flow, GlobalTypes
  <2>4. Work(c) = 3 * n + 2 * 1 + 0 /\ Work(c)' = 3 * n + 2 * 0 + 1
    BY <1>3, <1>4, <2>2, <2>3 DEF Runs, n
  <2> QED
    BY <1>2, <2>4
<1>9. CASE LoopEnds(c)
  <2>1. running = c /\ running' = Nobody /\ buf' = buf /\ awaiting' = awaiting
    BY <1>9 DEF LoopEnds
  <2>2. running' # c
    BY <2>1, ConnectionAssumption
  <2>3. Work(c) = 3 * n + 2 * 0 + 1 /\ Work(c)' = 3 * n + 2 * 0 + 0
    BY <1>3, <1>4, <1>5, <2>1, <2>2 DEF Runs, n
  <2> QED
    BY <1>2, <2>3
<1> QED
  BY <1>6, <1>7, <1>8, <1>9 DEF Listener

LEMMA WorkIsNumber == ASSUME IInv, NEW c \in Connection PROVE Work(c) \in Nat
<1>1. buf[c] \in Seq([no : 1 .. arrived[c], req : Request(c)])
  BY DEF IInv, LocalTypes
<1>2. Len(buf[c]) \in Nat /\ Waiting(awaiting[c]) \in Nat /\ Runs(c) \in Nat
  BY <1>1 DEF Waiting, Runs
<1> QED
  BY <1>2 DEF Work

\* The steps of others, and of the client, leave a listener its work: only a
\* request that arrives adds to it.
LEMMA OthersAddNothing ==
    ASSUME IInv, NEW c \in Connection, Step(c), NEW d \in Connection, Work(d)' # Work(d)
    PROVE  d = c /\ (Listener(c) \/ Data(c))
<1>1. GlobalTypes
  BY DEF IInv
<1>2. UNCHANGED <<buf[d], awaiting[d], running = d>> => Work(d)' = Work(d)
  BY DEF Work, Runs, Waiting
<1>3. CASE Connect(c) \/ ClientLeaves(c) \/ UdpError(c) \/ CloseEvent(c)
  BY <1>2, <1>3 DEF Connect, ClientLeaves, UdpError, CloseEvent
<1>4. CASE d # c /\ (Listener(c) \/ Data(c))
  <2>1. buf'[d] = buf[d] /\ awaiting'[d] = awaiting[d]
    BY <1>1, <1>4 DEF GlobalTypes, Listener, HandleSetupTcp, HandleSetupUdp, UdpBound,
       HandlePlay, HandleTeardown, HandleOther, LoopEnds, Take, Data, DataEvent
  <2>2. running \in {Nobody, c} /\ running' \in {Nobody, c}
    BY <1>4 DEF Listener, HandleSetupTcp, HandleSetupUdp, UdpBound,
       HandlePlay, HandleTeardown, HandleOther, LoopEnds, Take, Data, DataEvent
  <2>3. running # d /\ running' # d
    BY <1>4, <2>2, ConnectionAssumption
  <2> QED
    BY <1>2, <2>1, <2>3
<1> QED
  BY <1>3, <1>4 DEF Step

\* With a callback that runs to its end and sockets that are bound, that is all
\* that RequestsAnswered needs: a listener gets done after as many steps as it
\* has work, only a request adds to it, and it is not done while one is unanswered.
THEOREM ListenersFinish == SafetySpec => ListenersGetDone /\ []NeverStuck
<1>1. IInv /\ [Next]_vars =>
        [\A c \in Connection :
           /\ Listener(c) => Work(c)' < Work(c)
           /\ Work(c)' # Work(c) => Listener(c) \/ Data(c)]_vars
  <2> SUFFICES ASSUME IInv, Next, NEW d \in Connection
               PROVE  /\ Listener(d) => Work(d)' < Work(d)
                      /\ Work(d)' # Work(d) => Listener(d) \/ Data(d)
    OBVIOUS
  <2>1. PICK c \in Connection : Step(c)
    BY DEF Next, Step
  <2>2. Work(d)' # Work(d) => Listener(d) \/ Data(d)
    BY <2>1, OthersAddNothing
  <2> QED
    BY <2>2, ListenerStep
<1>2. IInv => NeverStuck
  <2> SUFFICES ASSUME IInv, NEW c \in Connection, Len(answers[c]) < arrived[c],
                      running # c, awaiting[c] = {}
               PROVE  FALSE
    BY WorkIsNumber DEF NeverStuck
  <2>1. GlobalTypes /\ LocalTypes(c) /\ Local(c)
    BY DEF IInv
  <2>2. buf[c] = <<>>
    BY <2>1 DEF Local, Flow
  <2>3. Len(answers[c]) + 0 + 0 = arrived[c]
    BY <2>1, <2>2 DEF Local, Order, Waiting
  <2>4. Len(answers[c]) \in Nat
    BY <2>1 DEF LocalTypes
  <2> QED
    BY <2>3, <2>4
<1> QED
  BY <1>1, <1>2, Invariant, PTL DEF SafetySpec, ListenersGetDone

=============================================================================
