------------------------ MODULE CommandChannel_proofs ------------------------
(***************************************************************************)
(* For every id space, every bound and every login sequence: Inv is an     *)
(* inductive invariant of CommandChannel, no command is lost, and the      *)
(* channel implements the safety part of CommandDelivery.                  *)
(***************************************************************************)
EXTENDS CommandChannel, FiniteSetTheorems, SequenceTheorems, TLAPS

(***************************************************************************)
(* Arithmetic of the wrapping counter.                                     *)
(***************************************************************************)
LEMMA WireType ==
  ASSUME NEW c \in Id, NEW k \in 0 .. IdSpace
  PROVE  Wire(c, k) \in Id
BY IdSpaceAssumption DEF Wire, Id

\* Fewer than IdSpace consecutive ids are distinct.
LEMMA WireInjective ==
  ASSUME NEW c \in Id, NEW k \in 0 .. IdSpace - 1, NEW l \in 0 .. IdSpace - 1,
         Wire(c, k) = Wire(c, l)
  PROVE  k = l
BY IdSpaceAssumption DEF Wire, Id

\* Moving the counter by d, then by k, is moving it by d + k.
LEMMA WireShift ==
  ASSUME NEW c \in Id, NEW d \in Nat, NEW k \in Nat, d + k < IdSpace
  PROVE  Wire(Wire(c, d), k) = Wire(c, d + k)
BY IdSpaceAssumption DEF Wire, Id

\* A free stretch of ids contains every shorter one.
LEMMA FreeAheadShorter ==
  ASSUME NEW m \in Nat, NEW n \in Nat, n <= m, FreeAhead(m)
  PROVE  FreeAhead(n)
BY IdSpaceAssumption DEF FreeAhead

LEMMA IdFinite == IsFiniteSet(Id)
BY FS_Interval, IdSpaceAssumption DEF Id

LEMMA OutstandingType ==
  ASSUME TypeOK
  PROVE  /\ IsFiniteSet(DOMAIN unackedDrw)
         /\ Outstanding \in Nat
BY IdFinite, FS_Subset, FS_CardinalityType DEF TypeOK, Outstanding

-----------------------------------------------------------------------------
(***************************************************************************)
(* What a batch of sends does, whatever it is sent for.                    *)
(***************************************************************************)
BatchId(slot, n) == Wire(outgoingCommandId, slot[n])

\* A batch: the commands S, each in a slot of its own.
IsBatch(S, slot) ==
    /\ IsFiniteSet(S)
    /\ Cardinality(S) <= IdSpace
    /\ slot \in [S -> 0 .. Cardinality(S) - 1]
    /\ \A m, n \in S : slot[m] = slot[n] => m = n

BatchIds(S, slot) == {BatchId(slot, n) : n \in S}

BatchSent(S, slot, old) ==
    LET wire == BatchIds(S, slot)
        kept == DOMAIN unackedDrw \ old
    IN  /\ \A n \in S : BatchId(slot, n) \in Id
        /\ \A m, n \in S : BatchId(slot, m) = BatchId(slot, n) => m = n
        /\ DOMAIN unackedDrw' = kept \cup wire
        /\ unackedDrw' = [i \in DOMAIN unackedDrw' |-> unackedDrw'[i]]
        /\ \A n \in S : unackedDrw'[BatchId(slot, n)] = n
        /\ \A i \in kept : i \notin wire => unackedDrw'[i] = unackedDrw[i]
        /\ toCamera' = {p \in toCamera : p.id \notin wire}
                         \cup {[id |-> BatchId(slot, n), cmd |-> n] : n \in S}
        /\ acks' = acks \ wire
        /\ outgoingCommandId' = Wire(outgoingCommandId, Cardinality(S))

LEMMA TransmitEffect ==
  ASSUME NEW S, NEW slot, IsBatch(S, slot), NEW old,
         outgoingCommandId \in Id,
         Transmit(slot, old)
  PROVE  BatchSent(S, slot, old)
<1> USE DEF IsBatch
<1> DEFINE id(n) == BatchId(slot, n)
           wire == {id(n) : n \in S}
           K == DOMAIN unackedDrw \ old
<1>1. Cardinality(S) \in Nat
  BY FS_CardinalityType
<1>2. DOMAIN slot = S
  OBVIOUS
<1>3. \A n \in S : slot[n] \in 0 .. IdSpace - 1 /\ slot[n] \in 0 .. IdSpace
  BY <1>1, IdSpaceAssumption
<1>4. \A n \in S : id(n) \in Id
  BY <1>3, WireType DEF BatchId
<1>5. \A m, n \in S : id(m) = id(n) => m = n
  BY <1>3, WireInjective DEF BatchId
<1>6. {Key(i) : i \in {Wire(outgoingCommandId, slot[n]) : n \in DOMAIN slot}} = wire
  BY <1>2 DEF Key, BatchId
<1>7. unackedDrw' = [k \in K \cup wire |->
                       IF k \in wire THEN CHOOSE n \in S : id(n) = k ELSE unackedDrw[k]]
  BY <1>2, <1>6 DEF Transmit, Key, BatchId, Without
<1>8. \A n \in S : unackedDrw'[id(n)] = n
  <2> SUFFICES ASSUME NEW n \in S PROVE unackedDrw'[id(n)] = n
    OBVIOUS
  <2>1. id(n) \in wire
    OBVIOUS
  <2>2. (CHOOSE m \in S : id(m) = id(n)) = n
    BY <1>5
  <2> QED BY <1>7, <2>1, <2>2
<1>9. DOMAIN unackedDrw' = K \cup wire
  BY <1>7
<1>10. \A i \in K : i \notin wire => unackedDrw'[i] = unackedDrw[i]
  BY <1>7
<1>11. unackedDrw' = [i \in DOMAIN unackedDrw' |-> unackedDrw'[i]]
  BY <1>7
<1>12. toCamera' = {p \in toCamera : p.id \notin wire}
                     \cup {[id |-> id(n), cmd |-> n] : n \in S}
  BY <1>2 DEF Transmit, BatchId
<1>13. acks' = acks \ wire
  BY <1>2 DEF Transmit, BatchId
<1>14. outgoingCommandId' = Wire(outgoingCommandId, Cardinality(S))
  BY <1>2 DEF Transmit, CounterAfter
<1> QED
  BY <1>4, <1>5, <1>8, <1>9, <1>10, <1>11, <1>12, <1>13, <1>14 DEF BatchSent, BatchIds

-----------------------------------------------------------------------------
(***************************************************************************)
(* Sending a batch preserves the invariant, when the batch takes free ids  *)
(* and the commands it sends are not among those kept.                     *)
(***************************************************************************)
LEMMA TransmitTypes ==
  ASSUME TypeOK,
         NEW S, NEW slot, IsBatch(S, slot), NEW old,
         Transmit(slot, old),
         S \subseteq 1 .. Len(issued'), Len(issued') \in Nat,
         Len(issued) <= Len(issued')
  PROVE  /\ outgoingCommandId' \in Id
         /\ DOMAIN unackedDrw' \subseteq Id
         /\ unackedDrw' \in [DOMAIN unackedDrw' -> 1 .. Len(issued')]
         /\ toCamera' \subseteq [id : Id, cmd : 1 .. Len(issued')]
         /\ acks' \subseteq Id
<1> DEFINE wire == {BatchId(slot, n) : n \in S}
           K == DOMAIN unackedDrw \ old
<1>0. BatchSent(S, slot, old)
  BY TransmitEffect DEF TypeOK
<1>1. outgoingCommandId \in Id /\ Len(issued) \in Nat
  BY DEF TypeOK
<1>2. /\ \A n \in S : BatchId(slot, n) \in Id
      /\ DOMAIN unackedDrw' = K \cup wire
      /\ unackedDrw' = [i \in DOMAIN unackedDrw' |-> unackedDrw'[i]]
      /\ \A n \in S : unackedDrw'[BatchId(slot, n)] = n
      /\ \A i \in K : i \notin wire => unackedDrw'[i] = unackedDrw[i]
      /\ toCamera' = {p \in toCamera : p.id \notin wire}
                        \cup {[id |-> BatchId(slot, n), cmd |-> n] : n \in S}
      /\ acks' = acks \ wire
      /\ outgoingCommandId' = Wire(outgoingCommandId, Cardinality(S))
  BY <1>0 DEF BatchSent, BatchIds
<1>3. outgoingCommandId' \in Id
  BY <1>1, <1>2, WireType, FS_CardinalityType, IdSpaceAssumption DEF IsBatch
<1>4. DOMAIN unackedDrw' \subseteq Id
  BY <1>2 DEF TypeOK
<1>5. \A i \in DOMAIN unackedDrw' : unackedDrw'[i] \in 1 .. Len(issued')
  <2> SUFFICES ASSUME NEW i \in DOMAIN unackedDrw'
               PROVE  unackedDrw'[i] \in 1 .. Len(issued')
    OBVIOUS
  <2>1. CASE i \in wire
    BY <2>1, <1>2
  <2>2. CASE i \notin wire
    <3>1. unackedDrw'[i] = unackedDrw[i] /\ i \in DOMAIN unackedDrw
      BY <2>2, <1>2
    <3>2. unackedDrw[i] \in 1 .. Len(issued)
      BY <3>1 DEF TypeOK
    <3> QED BY <1>1, <3>1, <3>2
  <2> QED BY <2>1, <2>2
<1>6. unackedDrw' \in [DOMAIN unackedDrw' -> 1 .. Len(issued')]
  BY <1>2, <1>5
<1>7. toCamera' \subseteq [id : Id, cmd : 1 .. Len(issued')]
  <2>1. toCamera \subseteq [id : Id, cmd : 1 .. Len(issued')]
    BY <1>1 DEF TypeOK
  <2> QED BY <1>2, <2>1
<1>8. acks' \subseteq Id
  BY <1>2 DEF TypeOK
<1> QED BY <1>3, <1>4, <1>6, <1>7, <1>8

LEMMA TransmitKeeps ==
  ASSUME TypeOK, TrackedOnce, AckUnambiguous,
         NEW S, NEW slot, IsBatch(S, slot), NEW old,
         \A i \in DOMAIN unackedDrw \ old :
            unackedDrw[i] \notin S /\ i \notin BatchIds(S, slot),
         Transmit(slot, old),
         executed' = executed
  PROVE  /\ TrackedOnce'
         /\ AckUnambiguous'
         /\ Tracked' = {unackedDrw[i] : i \in DOMAIN unackedDrw \ old} \cup S
<1> DEFINE id(n) == BatchId(slot, n)
           wire == {id(n) : n \in S}
           K == DOMAIN unackedDrw \ old
<1>1. BatchSent(S, slot, old)
  BY TransmitEffect DEF TypeOK
<1>2. /\ \A m, n \in S : id(m) = id(n) => m = n
      /\ DOMAIN unackedDrw' = K \cup wire
      /\ \A n \in S : unackedDrw'[id(n)] = n
      /\ \A i \in K : i \notin wire => unackedDrw'[i] = unackedDrw[i]
      /\ toCamera' = {p \in toCamera : p.id \notin wire}
                        \cup {[id |-> id(n), cmd |-> n] : n \in S}
      /\ acks' = acks \ wire
  BY <1>1 DEF BatchSent, BatchIds
<1>3. wire \cap K = {}
  BY DEF id, BatchIds
<1>4. \A i \in K : unackedDrw'[i] = unackedDrw[i] /\ i \notin wire
  BY <1>2, <1>3
<1> HIDE DEF id
<1>5. \A i \in wire : unackedDrw'[i] \in S
  BY <1>2
<1>6. TrackedOnce'
  <2> SUFFICES ASSUME NEW i \in DOMAIN unackedDrw', NEW j \in DOMAIN unackedDrw',
                      unackedDrw'[i] = unackedDrw'[j]
               PROVE  i = j
    BY DEF TrackedOnce
  <2>1. CASE i \in K /\ j \in K
    BY <2>1, <1>4 DEF TrackedOnce
  <2>2. CASE i \in wire /\ j \in wire
    BY <2>2, <1>2
  <2>3. CASE i \in K /\ j \in wire
    BY <2>3, <1>4, <1>5
  <2>4. CASE i \in wire /\ j \in K
    BY <2>4, <1>4, <1>5
  <2> QED BY <2>1, <2>2, <2>3, <2>4, <1>2
<1>7. \A p \in toCamera' : p.id \in DOMAIN unackedDrw' => unackedDrw'[p.id] = p.cmd
  <2> SUFFICES ASSUME NEW p \in toCamera', p.id \in DOMAIN unackedDrw'
               PROVE  unackedDrw'[p.id] = p.cmd
    OBVIOUS
  <2>1. CASE p \in toCamera /\ p.id \notin wire
    <3>1. p.id \in K
      BY <2>1, <1>2
    <3> QED BY <2>1, <3>1, <1>4 DEF AckUnambiguous
  <2>2. CASE \E n \in S : p = [id |-> id(n), cmd |-> n]
    BY <2>2, <1>2
  <2> QED BY <2>1, <2>2, <1>2
<1>8. \A i \in acks' \cap DOMAIN unackedDrw' : unackedDrw'[i] \in executed'
  BY <1>2, <1>4 DEF AckUnambiguous
<1>9. Tracked' = {unackedDrw[i] : i \in K} \cup S
  <2>1. Tracked' = {unackedDrw'[i] : i \in K} \cup {unackedDrw'[i] : i \in wire}
    BY <1>2 DEF Tracked
  <2>2. {unackedDrw'[i] : i \in wire} = S
    BY <1>2
  <2>3. {unackedDrw'[i] : i \in K} = {unackedDrw[i] : i \in K}
    BY <1>4
  <2> QED BY <2>1, <2>2, <2>3
<1> QED BY <1>6, <1>7, <1>8, <1>9 DEF AckUnambiguous

\* Outstanding grows by no more than the batch.
LEMMA TransmitCount ==
  ASSUME TypeOK,
         NEW S, NEW slot, IsBatch(S, slot),
         NEW old \in SUBSET DOMAIN unackedDrw,
         Transmit(slot, old)
  PROVE  /\ Outstanding' \in Nat
         /\ Outstanding' <= Outstanding - Cardinality(old) + Cardinality(S)
<1> DEFINE wire == BatchIds(S, slot)
           kept == DOMAIN unackedDrw \ old
           f == [n \in S |-> BatchId(slot, n)]
<1>1. DOMAIN unackedDrw' = kept \cup wire
  <2>1. BatchSent(S, slot, old)
    BY TransmitEffect DEF TypeOK
  <2> QED BY <2>1 DEF BatchSent
<1>2. IsFiniteSet(DOMAIN unackedDrw)
  BY OutstandingType
<1>3. IsFiniteSet(kept) /\ IsFiniteSet(old)
  BY <1>2, FS_Subset
<1>4. f \in Surjection(S, wire)
  BY DEF Surjection, BatchIds
<1>5. IsFiniteSet(wire) /\ Cardinality(wire) <= Cardinality(S)
  BY <1>4, FS_Surjection DEF IsBatch
<1>6. /\ DOMAIN unackedDrw = kept \cup old
      /\ kept \cap old = {}
  OBVIOUS
<1> HIDE DEF kept, wire
<1>7. Cardinality(DOMAIN unackedDrw) = Cardinality(kept) + Cardinality(old)
  <2>1. Cardinality(kept \cup old)
          = Cardinality(kept) + Cardinality(old) - Cardinality(kept \cap old)
    BY <1>3, FS_Union
  <2>2. Cardinality(kept) \in Nat /\ Cardinality(old) \in Nat
    BY <1>3, FS_CardinalityType
  <2>3. Cardinality(kept \cap old) = 0
    BY <1>6, FS_EmptySet
  <2> QED BY <1>6, <2>1, <2>2, <2>3
<1>8. /\ IsFiniteSet(kept \cup wire)
      /\ Cardinality(kept \cup wire) <= Cardinality(kept) + Cardinality(wire)
  <2>1. /\ IsFiniteSet(kept \cup wire)
        /\ Cardinality(kept \cup wire)
             = Cardinality(kept) + Cardinality(wire) - Cardinality(kept \cap wire)
    BY <1>3, <1>5, FS_Union
  <2>2. /\ Cardinality(kept \cap wire) \in Nat
        /\ Cardinality(kept) \in Nat
        /\ Cardinality(wire) \in Nat
    BY <1>3, <1>5, FS_CardinalityType, FS_Intersection
  <2> QED BY <2>1, <2>2
<1>9. /\ Cardinality(kept) \in Nat
      /\ Cardinality(old) \in Nat
      /\ Cardinality(wire) \in Nat
      /\ Cardinality(S) \in Nat
      /\ Cardinality(kept \cup wire) \in Nat
  BY <1>3, <1>5, <1>8, FS_CardinalityType DEF IsBatch
<1>10. Outstanding' = Cardinality(kept \cup wire)
  BY <1>1 DEF Outstanding
<1> QED BY <1>5, <1>7, <1>8, <1>9, <1>10 DEF Outstanding

-----------------------------------------------------------------------------
(***************************************************************************)
(* A handler that issues commands.                                         *)
(***************************************************************************)
IssueSlot(L) == [c \in Len(issued) + 1 .. Len(issued) + L |-> c - Len(issued) - 1]
IssueSet(L) == Len(issued) + 1 .. Len(issued) + L

LEMMA IssueBatch ==
  ASSUME TypeOK, NEW L \in Nat, L <= IdSpace
  PROVE  /\ IsBatch(IssueSet(L), IssueSlot(L))
         /\ Cardinality(IssueSet(L)) = L
<1>1. Len(issued) \in Nat
  BY DEF TypeOK
<1>2. IsFiniteSet(IssueSet(L)) /\ Cardinality(IssueSet(L)) = L
  <2> DEFINE a == Len(issued) + 1
             b == Len(issued) + L
  <2>1. a \in Int /\ b \in Int
    BY <1>1
  <2>2. IsFiniteSet(a .. b) /\ Cardinality(a .. b) = IF a > b THEN 0 ELSE b - a + 1
    BY <2>1, FS_Interval
  <2>3. (IF a > b THEN 0 ELSE b - a + 1) = L
    BY <1>1
  <2> QED BY <2>2, <2>3 DEF IssueSet
<1>3. IssueSlot(L) \in [IssueSet(L) -> 0 .. L - 1]
  BY <1>1 DEF IssueSlot, IssueSet
<1>4. \A m, n \in IssueSet(L) : IssueSlot(L)[m] = IssueSlot(L)[n] => m = n
  BY <1>1 DEF IssueSlot, IssueSet
<1> QED BY <1>2, <1>3, <1>4 DEF IsBatch

LEMMA IssueStep ==
  ASSUME Inv,
         NEW kinds \in Seq(Kind), NEW tkt \in {"zero", "granted"},
         Issue(kinds, tkt),
         lastTick' = lastTick, executed' = executed, connected' = connected,
         ticket' \in {"zero", "granted"}
  PROVE  /\ Inv'
         /\ Len(issued') = Len(issued) + Len(kinds)
         /\ Len(issued') <= MaxCommands
         /\ Tracked' = Tracked \cup (Len(issued) + 1 .. Len(issued'))
         /\ issued' = issued \o [k \in 1 .. Len(kinds) |->
                                   [kind |-> kinds[k], ticket |-> tkt]]
<1> DEFINE L == Len(kinds)
           n == Len(issued)
           m == L + 2 * (Outstanding + L)
           S == IssueSet(L)
           slot == IssueSlot(L)
           Cmd == [kind : Kind, ticket : {"zero", "granted"}]
           new == [k \in 1 .. L |-> [kind |-> kinds[k], ticket |-> tkt]]
<1>1. L \in Nat /\ n \in Nat /\ Outstanding \in Nat /\ TypeOK
  BY OutstandingType DEF Inv, TypeOK
<1>2. /\ n + L <= MaxCommands
      /\ FreeAhead(m)
      /\ issued' = issued \o new
      /\ Transmit(slot, {})
  BY DEF Issue, RoomFor, IssueSlot
<1> HIDE DEF L, n, m, S, slot
<1>3. m \in Nat /\ L <= m /\ m <= IdSpace /\ 2 * (Outstanding + L) <= IdSpace
  BY <1>1, <1>2, IdSpaceAssumption DEF m, FreeAhead
<1>4. IsBatch(S, slot) /\ Cardinality(S) = L
  BY <1>1, <1>3, IdSpaceAssumption, IssueBatch DEF S, slot
<1>5. new \in Seq(Cmd) /\ Len(new) = L
  BY <1>1 DEF L
<1>6. issued' \in Seq(Cmd) /\ Len(issued') = n + L
  BY <1>1, <1>2, <1>5 DEF TypeOK, n
<1>7. S = n + 1 .. Len(issued') /\ S \subseteq 1 .. Len(issued')
  BY <1>1, <1>6 DEF S, IssueSet, n
<1>8. BatchSent(S, slot, {})
  BY <1>1, <1>2, <1>4, TransmitEffect DEF TypeOK
<1>9. \A c \in S : slot[c] \in 0 .. L - 1
  BY <1>4 DEF IsBatch
<1>10. \A i \in DOMAIN unackedDrw \ {} :
          unackedDrw[i] \notin S /\ i \notin BatchIds(S, slot)
  <2>1. ASSUME NEW i \in DOMAIN unackedDrw PROVE unackedDrw[i] \notin S
    BY <1>1, <1>7 DEF TypeOK, n
  <2>2. ASSUME NEW i \in DOMAIN unackedDrw, NEW c \in S PROVE i # BatchId(slot, c)
    BY <1>1, <1>2, <1>3, <1>9 DEF FreeAhead, BatchId
  <2> QED BY <2>1, <2>2 DEF BatchIds
<1>11. /\ TrackedOnce'
       /\ AckUnambiguous'
       /\ Tracked' = {unackedDrw[i] : i \in DOMAIN unackedDrw \ {}} \cup S
  BY <1>1, <1>2, <1>4, <1>10, TransmitKeeps DEF Inv
<1>12. Tracked' = Tracked \cup S
  BY <1>11 DEF Tracked
<1>13. TypeOK'
  <2>1. /\ outgoingCommandId' \in Id
        /\ DOMAIN unackedDrw' \subseteq Id
        /\ unackedDrw' \in [DOMAIN unackedDrw' -> 1 .. Len(issued')]
        /\ toCamera' \subseteq [id : Id, cmd : 1 .. Len(issued')]
        /\ acks' \subseteq Id
    <3>1. Len(issued') \in Nat /\ Len(issued) <= Len(issued')
      BY <1>1, <1>6 DEF n
    <3> QED BY <1>1, <1>2, <1>4, <1>7, <3>1, TransmitTypes
  <2>2. lastTick' \in 0 .. Len(issued') /\ executed' \subseteq 1 .. Len(issued')
    BY <1>1, <1>6 DEF TypeOK, n
  <2>3. Len(issued') <= MaxCommands
    BY <1>2, <1>6
  <2> QED BY <1>1, <1>6, <2>1, <2>2, <2>3 DEF TypeOK
<1>14. NoCommandLost'
  <2> SUFFICES ASSUME NEW c \in 1 .. Len(issued') PROVE c \in executed' \/ c \in Tracked'
    BY DEF NoCommandLost
  <2>1. CASE c <= n
    BY <2>1, <1>1, <1>12 DEF Inv, NoCommandLost, n
  <2>2. CASE c > n
    BY <2>2, <1>1, <1>6, <1>7, <1>12
  <2> QED BY <2>1, <2>2, <1>1, <1>6
<1>15. Outstanding' \in Nat /\ Outstanding' <= Outstanding + L
  <2>1. Outstanding' \in Nat
        /\ Outstanding' <= Outstanding - Cardinality({}) + Cardinality(S)
    BY <1>1, <1>2, <1>4, TransmitCount
  <2> QED BY <2>1, <1>1, <1>4, FS_EmptySet
<1>16. ASSUME NEW k \in 0 .. 2 * (Outstanding + L) - 1
       PROVE  Wire(outgoingCommandId', k) \notin DOMAIN unackedDrw'
  <2>1. outgoingCommandId' = Wire(outgoingCommandId, L)
    BY <1>4, <1>8 DEF BatchSent
  <2>2. DOMAIN unackedDrw' = DOMAIN unackedDrw \cup BatchIds(S, slot)
    BY <1>8 DEF BatchSent
  <2>3. L + k \in 0 .. m - 1 /\ L + k < IdSpace /\ L + k \in 0 .. IdSpace - 1 /\ k \in Nat
    BY <1>1, <1>3, IdSpaceAssumption DEF m
  <2>4. Wire(outgoingCommandId', k) = Wire(outgoingCommandId, L + k)
    BY <1>1, <2>1, <2>3, WireShift DEF TypeOK
  <2>5. Wire(outgoingCommandId, L + k) \notin DOMAIN unackedDrw
    BY <1>2, <2>3 DEF FreeAhead
  <2>6. ASSUME NEW c \in S PROVE Wire(outgoingCommandId, L + k) # BatchId(slot, c)
    <3>1. slot[c] \in 0 .. IdSpace - 1 /\ slot[c] < L + k
      BY <1>1, <1>3, <1>9, <2>3, IdSpaceAssumption
    <3> QED BY <1>1, <2>3, <3>1, WireInjective DEF BatchId, TypeOK
  <2> QED BY <2>2, <2>4, <2>5, <2>6 DEF BatchIds
<1>17. ResendFindsFreeIds' /\ RoomForRounds'
  <2> DEFINE now == Outstanding
             next == Outstanding'
  <2>1. now \in Nat /\ next \in Nat /\ next <= now + L
    BY <1>1, <1>15
  <2>2. 2 * (now + L) <= IdSpace
    BY <1>3
  <2>3. \A k \in 0 .. 2 * (now + L) - 1 :
           Wire(outgoingCommandId', k) \notin DOMAIN unackedDrw'
    BY <1>16
  <2> HIDE DEF now, next
  <2>4. 2 * next <= 2 * (now + L) /\ next <= 2 * next
    BY <1>1, <2>1
  <2>5. 2 * next <= IdSpace /\ next <= IdSpace
    BY <1>1, <2>1, <2>2, <2>4, IdSpaceAssumption
  <2>6. /\ \A k \in 0 .. 2 * next - 1 : Wire(outgoingCommandId', k) \notin DOMAIN unackedDrw'
        /\ \A k \in 0 .. next - 1 : Wire(outgoingCommandId', k) \notin DOMAIN unackedDrw'
    BY <1>1, <2>1, <2>3, <2>4
  <2>7. ResendFindsFreeIds'
    BY <2>5, <2>6 DEF ResendFindsFreeIds, FreeAhead, next
  <2>8. RoomForRounds'
    BY <2>5, <2>6 DEF RoomForRounds, FreeAhead, next
  <2> QED BY <2>7, <2>8
<1>18. Inv'
  BY <1>11, <1>13, <1>14, <1>17 DEF Inv
<1> QED
  BY <1>1, <1>2, <1>6, <1>7, <1>12, <1>18 DEF n, L

-----------------------------------------------------------------------------
(***************************************************************************)
(* A round of the resend timer: the due entries get distinct slots, in the *)
(* order of their keys.                                                    *)
(***************************************************************************)
ResendSet(due) == {unackedDrw[i] : i \in due}
Rank(due, i) == Cardinality({j \in due : j < i})

LEMMA RankProperties ==
  ASSUME NEW due \in SUBSET Id
  PROVE  /\ Cardinality(due) \in Nat
         /\ \A i \in due : Rank(due, i) \in 0 .. Cardinality(due) - 1
         /\ \A i, j \in due : Rank(due, i) = Rank(due, j) => i = j
<1> DEFINE below(i) == {j \in due : j < i}
<1>1. IsFiniteSet(due) /\ Cardinality(due) \in Nat
  BY IdFinite, FS_Subset, FS_CardinalityType
<1>2. \A i : /\ IsFiniteSet(below(i))
             /\ Cardinality(below(i)) \in Nat
             /\ Cardinality(below(i)) <= Cardinality(due)
             /\ Cardinality(due) = Cardinality(below(i)) => due = below(i)
  <2> SUFFICES ASSUME NEW i
               PROVE  /\ IsFiniteSet(below(i))
                      /\ Cardinality(below(i)) \in Nat
                      /\ Cardinality(below(i)) <= Cardinality(due)
                      /\ Cardinality(due) = Cardinality(below(i)) => due = below(i)
    OBVIOUS
  <2>1. below(i) \in SUBSET due
    OBVIOUS
  <2> HIDE DEF below
  <2> QED BY <1>1, <2>1, FS_Subset, FS_CardinalityType
<1>3. ASSUME NEW i \in due PROVE Rank(due, i) \in 0 .. Cardinality(due) - 1
  <2>1. i \in Nat /\ i \notin below(i)
    BY IdSpaceAssumption DEF Id
  <2>2. Cardinality(below(i)) # Cardinality(due)
    BY <1>2, <2>1
  <2> HIDE DEF below
  <2>3. Cardinality(below(i)) \in 0 .. Cardinality(due) - 1
    BY <1>1, <1>2, <2>2
  <2> QED BY <2>3 DEF Rank, below
<1>4. ASSUME NEW i \in due, NEW j \in due, i < j PROVE Rank(due, i) # Rank(due, j)
  <2>1. below(i) \in SUBSET below(j)
    <3> SUFFICES ASSUME NEW l \in due, l < i PROVE l < j
      OBVIOUS
    <3>1. l \in Nat /\ i \in Nat /\ j \in Nat
      BY IdSpaceAssumption DEF Id
    <3> QED BY <1>4, <3>1
  <2>2. i \in below(j) /\ i \notin below(i)
    BY <1>4, IdSpaceAssumption DEF Id
  <2> HIDE DEF below
  <2>3. IsFiniteSet(below(j))
    BY <1>2
  <2>4. Cardinality(below(j)) = Cardinality(below(i)) => below(j) = below(i)
    BY <2>1, <2>3, FS_Subset
  <2>5. Cardinality(below(i)) # Cardinality(below(j))
    BY <2>2, <2>4
  <2> QED BY <2>5 DEF Rank, below
<1>5. \A i, j \in due : i = j \/ i < j \/ j < i
  BY IdSpaceAssumption DEF Id
<1> QED BY <1>1, <1>3, <1>4, <1>5

LEMMA ResendBatch ==
  ASSUME TypeOK, TrackedOnce, Outstanding <= IdSpace,
         NEW due \in SUBSET DOMAIN unackedDrw
  PROVE  /\ IsBatch(ResendSet(due), ResendOrder(due))
         /\ Cardinality(ResendSet(due)) = Cardinality(due)
         /\ Cardinality(due) <= Outstanding
<1> DEFINE S == ResendSet(due)
           f == [i \in due |-> unackedDrw[i]]
           key(n) == CHOOSE i \in due : unackedDrw[i] = n
<1>1. due \in SUBSET Id
  BY DEF TypeOK
<1>2. /\ Cardinality(due) \in Nat
      /\ \A i \in due : Rank(due, i) \in 0 .. Cardinality(due) - 1
      /\ \A i, j \in due : Rank(due, i) = Rank(due, j) => i = j
  BY <1>1, RankProperties
<1>3. IsFiniteSet(due) /\ Cardinality(due) <= Outstanding /\ Outstanding \in Nat
  BY OutstandingType, FS_Subset DEF Outstanding
<1>4. f \in Bijection(due, S)
  <2>1. f \in [due -> S] /\ \A n \in S : \E i \in due : f[i] = n
    BY DEF ResendSet
  <2>2. \A i, j \in due : f[i] = f[j] => i = j
    BY DEF TrackedOnce
  <2> QED BY <2>1, <2>2 DEF Bijection, Injection, Surjection, IsInjective
<1>5. IsFiniteSet(S) /\ Cardinality(S) = Cardinality(due)
  BY <1>3, <1>4, FS_Bijection DEF ExistsBijection
<1>6. \A n \in S : key(n) \in due /\ unackedDrw[key(n)] = n
  BY DEF ResendSet
<1>7. ResendOrder(due) = [n \in S |-> Rank(due, key(n))]
  BY DEF ResendOrder, ResendSet, Rank
<1> HIDE DEF S, key
<1>8. ResendOrder(due) \in [S -> 0 .. Cardinality(S) - 1]
  BY <1>2, <1>5, <1>6, <1>7
<1>9. ASSUME NEW m \in S, NEW n \in S, ResendOrder(due)[m] = ResendOrder(due)[n]
      PROVE  m = n
  <2>1. Rank(due, key(m)) = Rank(due, key(n))
    BY <1>7, <1>9
  <2>2. key(m) = key(n)
    BY <1>2, <1>6, <2>1
  <2> QED BY <1>6, <2>2
<1>10. Cardinality(S) <= IdSpace
  BY <1>2, <1>3, <1>5, IdSpaceAssumption
<1> QED BY <1>3, <1>5, <1>8, <1>9, <1>10 DEF IsBatch, S

LEMMA ResendStep ==
  ASSUME Inv, ResendTimer
  PROVE  Inv' /\ Tracked' = Tracked /\ Len(issued') = Len(issued)
<1>1. PICK cutoff \in lastTick .. Len(issued) :
         Transmit(ResendOrder(Due(cutoff)), Due(cutoff))
  BY DEF ResendTimer
<1> DEFINE due == Due(cutoff)
           slot == ResendOrder(due)
           S == ResendSet(due)
           kept == DOMAIN unackedDrw \ due
           now == Outstanding
           next == Outstanding'
           d == Cardinality(due)
<1>2. /\ lastTick' = Len(issued)
      /\ connected' = connected /\ ticket' = ticket
      /\ issued' = issued /\ executed' = executed
  BY DEF ResendTimer
<1>3. /\ TypeOK /\ TrackedOnce /\ AckUnambiguous /\ NoCommandLost
      /\ FreeAhead(now)
      /\ 2 * now <= IdSpace
      /\ lastTick < Len(issued) => FreeAhead(2 * now)
  BY DEF Inv, ResendFindsFreeIds, RoomForRounds
<1>4. due \in SUBSET DOMAIN unackedDrw
  BY DEF Due
<1>5. now \in Nat /\ Len(issued) \in Nat /\ lastTick \in 0 .. Len(issued)
  BY <1>3, OutstandingType DEF TypeOK
<1>6. now <= IdSpace
  BY <1>3 DEF FreeAhead
<1>7. IsBatch(S, slot) /\ Cardinality(S) = d /\ d <= now
  BY <1>3, <1>4, <1>6, ResendBatch
<1>8. d \in Nat
  BY <1>4, <1>3, OutstandingType, FS_Subset, FS_CardinalityType
<1>9. Transmit(slot, due)
  BY <1>1
<1>10. BatchSent(S, slot, due)
  BY <1>3, <1>7, <1>9, TransmitEffect DEF TypeOK
<1>11. \A n \in S : slot[n] \in 0 .. d - 1
  BY <1>7 DEF IsBatch
<1>12. S \subseteq 1 .. Len(issued')
  BY <1>2, <1>3, <1>4 DEF TypeOK, ResendSet
<1>13. S \cup {unackedDrw[i] : i \in kept} = Tracked
  BY <1>4 DEF Tracked, ResendSet
<1>14. \A i \in kept : unackedDrw[i] \notin S
  BY <1>3, <1>4 DEF TrackedOnce, ResendSet
<1> HIDE DEF due, slot, S, now, next, d
<1>15. \A i \in kept : i \notin BatchIds(S, slot)
  <2> SUFFICES ASSUME NEW i \in kept, NEW n \in S PROVE i # BatchId(slot, n)
    BY DEF BatchIds
  <2>1. slot[n] \in 0 .. now - 1
    BY <1>5, <1>7, <1>8, <1>11
  <2> QED BY <1>3, <2>1 DEF FreeAhead, BatchId
<1>16. /\ TrackedOnce'
       /\ AckUnambiguous'
       /\ Tracked' = {unackedDrw[i] : i \in kept} \cup S
  BY <1>2, <1>3, <1>7, <1>9, <1>14, <1>15, TransmitKeeps
<1>17. Tracked' = Tracked
  BY <1>13, <1>16
<1>18. TypeOK'
  <2>1. /\ outgoingCommandId' \in Id
        /\ DOMAIN unackedDrw' \subseteq Id
        /\ unackedDrw' \in [DOMAIN unackedDrw' -> 1 .. Len(issued')]
        /\ toCamera' \subseteq [id : Id, cmd : 1 .. Len(issued')]
        /\ acks' \subseteq Id
    <3>1. Len(issued') \in Nat /\ Len(issued) <= Len(issued')
      BY <1>2, <1>5
    <3> QED BY <1>3, <1>7, <1>9, <1>12, <3>1, TransmitTypes
  <2> QED BY <1>2, <1>3, <1>5, <2>1 DEF TypeOK
<1>19. NoCommandLost'
  BY <1>2, <1>3, <1>17 DEF NoCommandLost
<1>20. next \in Nat /\ next <= now
  <2>1. Outstanding' \in Nat
        /\ Outstanding' <= Outstanding - Cardinality(due) + Cardinality(S)
    BY <1>3, <1>4, <1>7, <1>9, TransmitCount DEF due
  <2>2. next \in Nat /\ next <= now - d + d
    BY <2>1, <1>7 DEF next, now, d
  <2> QED BY <1>5, <1>8, <2>2
<1>21. ASSUME NEW k \in 0 .. now - 1
       PROVE  Wire(outgoingCommandId', k) \notin DOMAIN unackedDrw'
  <2>1. outgoingCommandId' = Wire(outgoingCommandId, d)
    BY <1>7, <1>10 DEF BatchSent
  <2>2. DOMAIN unackedDrw' = kept \cup BatchIds(S, slot)
    BY <1>10 DEF BatchSent
  <2>3. d + k < IdSpace /\ d + k \in 0 .. IdSpace - 1 /\ d + k \in 0 .. 2 * now - 1 /\ k \in Nat
    BY <1>3, <1>5, <1>7, <1>8, IdSpaceAssumption
  <2>4. Wire(outgoingCommandId', k) = Wire(outgoingCommandId, d + k)
    BY <1>3, <1>8, <2>1, <2>3, WireShift DEF TypeOK
  <2>5. Wire(outgoingCommandId, d + k) \notin kept
    <3>1. CASE lastTick < Len(issued)
      BY <3>1, <1>3, <2>3 DEF FreeAhead
    <3>2. CASE lastTick = Len(issued)
      <4>1. cutoff = Len(issued)
        BY <3>2, <1>5
      <4>2. \A i \in DOMAIN unackedDrw : unackedDrw[i] <= cutoff
        BY <4>1, <1>3 DEF TypeOK
      <4>3. kept = {}
        BY <4>2 DEF due, Due
      <4> QED BY <4>3
    <3> QED BY <3>1, <3>2, <1>5
  <2>6. ASSUME NEW n \in S PROVE Wire(outgoingCommandId, d + k) # BatchId(slot, n)
    <3>1. slot[n] \in 0 .. IdSpace - 1 /\ slot[n] < d + k
      BY <1>8, <1>11, <2>3, IdSpaceAssumption
    <3> QED BY <1>3, <2>3, <3>1, WireInjective DEF BatchId, TypeOK
  <2> QED BY <2>2, <2>4, <2>5, <2>6 DEF BatchIds
<1>22. ResendFindsFreeIds'
  <2>1. \A k \in 0 .. next - 1 : Wire(outgoingCommandId', k) \notin DOMAIN unackedDrw'
    BY <1>5, <1>20, <1>21
  <2>2. next <= IdSpace
    BY <1>5, <1>6, <1>20, IdSpaceAssumption
  <2> QED BY <2>1, <2>2 DEF ResendFindsFreeIds, FreeAhead, next
<1>23. RoomForRounds'
  <2>1. 2 * next <= IdSpace
    BY <1>3, <1>5, <1>20, IdSpaceAssumption
  <2> QED BY <1>2, <1>5, <2>1 DEF RoomForRounds, next
<1> QED
  BY <1>2, <1>16, <1>17, <1>18, <1>19, <1>22, <1>23 DEF Inv

-----------------------------------------------------------------------------
(***************************************************************************)
(* The other actions, and the theorems.                                    *)
(***************************************************************************)
LEMMA AckStep ==
  ASSUME Inv, HandleDrwAck
  PROVE  /\ Inv'
         /\ Tracked' \subseteq Tracked
         /\ \A n \in Tracked \ Tracked' : n \in executed
<1>1. PICK ids \in SUBSET (acks \cap DOMAIN unackedDrw) : unackedDrw' = Without(ids)
  BY DEF HandleDrwAck
<1>2. UNCHANGED <<connected, outgoingCommandId, ticket, issued, lastTick,
                  toCamera, acks, executed>>
  BY DEF HandleDrwAck
<1>3. /\ DOMAIN unackedDrw' = DOMAIN unackedDrw \ ids
      /\ \A i \in DOMAIN unackedDrw' : unackedDrw'[i] = unackedDrw[i]
      /\ unackedDrw' = [i \in DOMAIN unackedDrw' |-> unackedDrw'[i]]
  BY <1>1 DEF Without
<1>4. TypeOK /\ NoCommandLost /\ TrackedOnce /\ AckUnambiguous
  BY DEF Inv
<1>5. TypeOK'
  BY <1>2, <1>3, <1>4 DEF TypeOK
<1>6. Tracked' \subseteq Tracked
  BY <1>3 DEF Tracked
<1>7. \A n \in Tracked \ Tracked' : n \in executed
  <2> SUFFICES ASSUME NEW i \in DOMAIN unackedDrw, unackedDrw[i] \notin Tracked'
               PROVE  unackedDrw[i] \in executed
    BY DEF Tracked
  <2>1. i \in ids
    BY <1>3 DEF Tracked
  <2> QED BY <1>4, <2>1 DEF AckUnambiguous
<1>8. NoCommandLost'
  BY <1>2, <1>4, <1>7 DEF NoCommandLost
<1>9. TrackedOnce' /\ AckUnambiguous'
  BY <1>2, <1>3, <1>4 DEF TrackedOnce, AckUnambiguous
<1>10. Outstanding \in Nat /\ Outstanding' \in Nat /\ Outstanding' <= Outstanding
  <2>1. IsFiniteSet(DOMAIN unackedDrw) /\ DOMAIN unackedDrw' \subseteq DOMAIN unackedDrw
    BY <1>3, <1>4, OutstandingType
  <2> QED BY <2>1, FS_Subset, FS_CardinalityType DEF Outstanding
<1>11. ResendFindsFreeIds' /\ RoomForRounds'
  <2> DEFINE now == Outstanding
             next == Outstanding'
  <2>1. now \in Nat /\ next \in Nat /\ next <= now
    BY <1>10
  <2>2. FreeAhead(now) /\ 2 * now <= IdSpace /\ (lastTick < Len(issued) => FreeAhead(2 * now))
    BY DEF Inv, ResendFindsFreeIds, RoomForRounds
  <2> HIDE DEF now, next
  <2>3. next <= IdSpace /\ 2 * next <= IdSpace
    BY <2>1, <2>2, IdSpaceAssumption
  <2>4. \A k \in 0 .. next - 1 : Wire(outgoingCommandId, k) \notin DOMAIN unackedDrw
    BY <2>1, <2>2 DEF FreeAhead
  <2>5. lastTick < Len(issued) =>
          \A k \in 0 .. 2 * next - 1 : Wire(outgoingCommandId, k) \notin DOMAIN unackedDrw
    BY <2>1, <2>2 DEF FreeAhead
  <2>6. ResendFindsFreeIds'
    BY <1>2, <1>3, <2>3, <2>4 DEF ResendFindsFreeIds, FreeAhead, next
  <2>7. RoomForRounds'
    BY <1>2, <1>3, <2>3, <2>5 DEF RoomForRounds, FreeAhead, next
  <2> QED BY <2>6, <2>7
<1> QED BY <1>5, <1>6, <1>7, <1>8, <1>9, <1>11 DEF Inv

LEMMA EnvironmentStep ==
  ASSUME Inv,
         \/ Disconnect
         \/ \E p \in toCamera : CameraReceives(p)
         \/ \E p \in toCamera : Lose(p)
         \/ UNCHANGED vars
  PROVE  Inv' /\ Tracked' = Tracked /\ Len(issued') = Len(issued)
<1>1. UNCHANGED <<outgoingCommandId, ticket, unackedDrw, issued, lastTick>>
  BY DEF Disconnect, CameraReceives, Lose, sessionVars, vars
<1>2. ResendFindsFreeIds' /\ RoomForRounds' /\ TrackedOnce' /\ Tracked' = Tracked
  BY <1>1 DEF Inv, ResendFindsFreeIds, RoomForRounds, FreeAhead, Outstanding, TrackedOnce,
              Tracked
<1>3. TypeOK' /\ NoCommandLost' /\ AckUnambiguous'
  <2>1. CASE Disconnect
    BY <1>1, <1>2, <2>1 DEF Inv, TypeOK, NoCommandLost, AckUnambiguous, Disconnect
  <2>2. ASSUME NEW p \in toCamera, CameraReceives(p)
        PROVE  TypeOK' /\ NoCommandLost' /\ AckUnambiguous'
    BY <1>1, <1>2, <2>2
       DEF Inv, TypeOK, NoCommandLost, AckUnambiguous, CameraReceives, sessionVars
  <2>3. ASSUME NEW p \in toCamera, Lose(p)
        PROVE  TypeOK' /\ NoCommandLost' /\ AckUnambiguous'
    BY <1>1, <1>2, <2>3 DEF Inv, TypeOK, NoCommandLost, AckUnambiguous, Lose, sessionVars
  <2>4. CASE UNCHANGED vars
    BY <1>1, <1>2, <2>4 DEF Inv, TypeOK, NoCommandLost, AckUnambiguous, vars, sessionVars
  <2> QED BY <2>1, <2>2, <2>3, <2>4
<1> QED BY <1>1, <1>2, <1>3 DEF Inv

LEMMA HandlerStep ==
  ASSUME Inv, HandleP2PRdy \/ HandleConnectUserAck
  PROVE  /\ Inv'
         /\ Len(issued') \in Len(issued) .. MaxCommands
         /\ Tracked' = Tracked \cup (Len(issued) + 1 .. Len(issued'))
         /\ UNCHANGED <<connected, executed>>
<1>1. Len(issued) \in Nat /\ ticket \in {"zero", "granted"}
  BY DEF Inv, TypeOK
<1>2. CASE HandleP2PRdy
  <2>1. <<"ConnectUser">> \in Seq(Kind)
    BY DEF Kind
  <2>2. Len(<<"ConnectUser">>) = 1
    OBVIOUS
  <2>3. /\ Inv'
        /\ Len(issued') = Len(issued) + Len(<<"ConnectUser">>)
        /\ Len(issued') <= MaxCommands
        /\ Tracked' = Tracked \cup (Len(issued) + 1 .. Len(issued'))
    <3>1. /\ Issue(<<"ConnectUser">>, ticket)
          /\ lastTick' = lastTick /\ executed' = executed /\ connected' = connected
          /\ ticket' \in {"zero", "granted"}
      BY <1>1, <1>2 DEF HandleP2PRdy
    <3> HIDE DEF Issue
    <3> QED BY <1>1, <2>1, <3>1, IssueStep
  <2>4. Len(issued') \in Len(issued) .. MaxCommands
    BY <1>1, <2>2, <2>3, BoundAssumption
  <2> QED BY <1>2, <2>3, <2>4 DEF HandleP2PRdy
<1>3. CASE HandleConnectUserAck
  <2>1. LoginCommands \in Seq(Kind) /\ Len(LoginCommands) \in Nat
    BY LoginAssumption
  <2> QED
    BY <1>1, <1>3, <2>1, IssueStep, BoundAssumption DEF HandleConnectUserAck
<1> QED BY <1>2, <1>3

LEMMA InitInv == Init => Inv
<1> SUFFICES ASSUME Init PROVE Inv
  OBVIOUS
<1>1. unackedDrw = <<>> /\ DOMAIN unackedDrw = {}
  BY DEF Init
<1>2. Outstanding = 0
  BY <1>1, FS_EmptySet DEF Outstanding
<1>3. TypeOK
  BY <1>1, IdSpaceAssumption, BoundAssumption DEF Init, TypeOK, Id
<1> QED
  BY <1>1, <1>2, <1>3, IdSpaceAssumption
     DEF Init, Inv, NoCommandLost, TrackedOnce, AckUnambiguous, ResendFindsFreeIds,
         RoomForRounds, FreeAhead

LEMMA NextInv == Inv /\ [Next]_vars => Inv'
<1> SUFFICES ASSUME Inv, [Next]_vars PROVE Inv'
  OBVIOUS
<1> QED
  BY HandlerStep, AckStep, ResendStep, EnvironmentStep DEF Next

(***************************************************************************)
(* The invariant holds in every reachable state: the counter, the table of *)
(* unacknowledged commands, packets and acks stay consistent (session.ts). *)
(***************************************************************************)
THEOREM ChannelInvariant == SafetySpec => []Inv
BY InitInv, NextInv, PTL DEF SafetySpec

(***************************************************************************)
(* No command is lost, and none is tracked twice, whatever the network and *)
(* the timer do (ackDrw and resendTimer of session.ts).                    *)
(***************************************************************************)
THEOREM CommandsNotLost == SafetySpec => [](NoCommandLost /\ TrackedOnce)
<1>1. Inv => NoCommandLost /\ TrackedOnce
  BY DEF Inv
<1> QED BY <1>1, ChannelInvariant, PTL

(***************************************************************************)
(* A late or repeated ack frees no command but the one it acknowledges     *)
(* (ackDrw of session.ts).                                                 *)
(***************************************************************************)
THEOREM AcksNotMistaken == SafetySpec => []AckUnambiguous
<1>1. Inv => AckUnambiguous
  BY DEF Inv
<1> QED BY <1>1, ChannelInvariant, PTL

\* Every variable keeps its type.
THEOREM ChannelTypeOK == SafetySpec => []TypeOK
<1>1. Inv => TypeOK
  BY DEF Inv
<1> QED BY <1>1, ChannelInvariant, PTL

(***************************************************************************)
(* The resend loop takes only free ids, also across the wrap of the        *)
(* counter (resendTimer of session.ts).                                    *)
(***************************************************************************)
THEOREM ResendsOverwriteNothing == SafetySpec => [](ResendFindsFreeIds /\ RoomForRounds)
<1>1. Inv => ResendFindsFreeIds /\ RoomForRounds
  BY DEF Inv
<1> QED BY <1>1, ChannelInvariant, PTL

(***************************************************************************)
(* Whatever is sent after the login carries the ticket the camera granted  *)
(* (ConnectUserAck in handlers.ts).                                        *)
(***************************************************************************)
\* A batch that carries the ticket if it has to.
LEMMA IssueCarriesTicket ==
  ASSUME TypeOK, CommandsCarryTicket,
         NEW kinds \in Seq(Kind), NEW tkt \in {"zero", "granted"}, Issue(kinds, tkt),
         \A k \in 1 .. Len(kinds) : kinds[k] # "ConnectUser" => tkt = "granted"
  PROVE  CommandsCarryTicket'
<1> DEFINE batch == [k \in 1 .. Len(kinds) |-> [kind |-> kinds[k], ticket |-> tkt]]
           Cmd == [kind : Kind, ticket : {"zero", "granted"}]
<1>1. issued' = issued \o batch /\ issued \in Seq(Cmd)
  BY DEF Issue, TypeOK
<1>2. Len(kinds) \in Nat /\ Len(batch) = Len(kinds) /\ batch \in Seq(Cmd)
  OBVIOUS
<1>3. \A k \in 1 .. Len(kinds) : batch[k].kind = kinds[k] /\ batch[k].ticket = tkt
  OBVIOUS
<1> HIDE DEF batch, Cmd
<1>4. /\ Len(issued') = Len(issued) + Len(kinds) /\ Len(issued) \in Nat
      /\ \A n \in 1 .. Len(issued') :
           issued'[n] = IF n <= Len(issued) THEN issued[n] ELSE batch[n - Len(issued)]
  <2>1. Len(issued') = Len(issued) + Len(kinds) /\ Len(issued) \in Nat
    <3>1. Len(issued \o batch) = Len(issued) + Len(batch)
      BY <1>1, <1>2, ConcatProperties
    <3>2. Len(issued) \in Nat
      BY <1>1
    <3> QED BY <1>1, <1>2, <3>1, <3>2
  <2>2. ASSUME NEW n \in 1 .. Len(issued) + Len(kinds)
        PROVE  issued'[n] = IF n <= Len(issued) THEN issued[n] ELSE batch[n - Len(issued)]
    <3>1. (issued \o batch)[n] = IF n <= Len(issued) THEN issued[n] ELSE batch[n - Len(issued)]
      BY <1>1, <1>2, ConcatProperties
    <3> QED BY <1>1, <3>1
  <2> QED BY <2>1, <2>2
<1>5. ASSUME NEW n \in 1 .. Len(issued'), issued'[n].kind # "ConnectUser"
      PROVE  issued'[n].ticket = "granted"
  <2>1. CASE n <= Len(issued)
    BY <1>4, <1>5, <2>1 DEF CommandsCarryTicket
  <2>2. CASE ~(n <= Len(issued))
    <3>1. n - Len(issued) \in 1 .. Len(kinds) /\ issued'[n] = batch[n - Len(issued)]
      BY <1>2, <1>4, <2>2
    <3> QED BY <1>3, <1>5, <3>1
  <2> QED BY <2>1, <2>2
<1> QED BY <1>5 DEF CommandsCarryTicket

LEMMA TicketNext == TypeOK /\ CommandsCarryTicket /\ [Next]_vars => CommandsCarryTicket'
<1> SUFFICES ASSUME TypeOK, CommandsCarryTicket, [Next]_vars PROVE CommandsCarryTicket'
  OBVIOUS
<1>1. CASE HandleP2PRdy
  <2>1. /\ <<"ConnectUser">> \in Seq(Kind) /\ ticket \in {"zero", "granted"}
        /\ Issue(<<"ConnectUser">>, ticket)
    BY <1>1 DEF HandleP2PRdy, Kind, TypeOK
  <2>2. \A k \in 1 .. Len(<<"ConnectUser">>) : <<"ConnectUser">>[k] = "ConnectUser"
    OBVIOUS
  <2> QED BY <2>1, <2>2, IssueCarriesTicket
<1>2. CASE HandleConnectUserAck
  <2>1. LoginCommands \in Seq(Kind) /\ Issue(LoginCommands, "granted")
    BY <1>2, LoginAssumption DEF HandleConnectUserAck
  <2> QED BY <2>1, IssueCarriesTicket
<1>3. CASE UNCHANGED issued
  BY <1>3 DEF CommandsCarryTicket
<1> QED
  BY <1>1, <1>2, <1>3
  DEF Next, HandleDrwAck, ResendTimer, Disconnect, CameraReceives, Lose, sessionVars, vars

THEOREM TicketCarried == SafetySpec => []CommandsCarryTicket
<1>1. Init => CommandsCarryTicket
  BY DEF Init, CommandsCarryTicket
<1> QED BY <1>1, TicketNext, ChannelTypeOK, PTL DEF SafetySpec

(***************************************************************************)
(* The channel implements CommandDelivery's safety part: what the session  *)
(* stops tracking, the camera has carried out.                             *)
(***************************************************************************)
LEMMA InitKeeps == Init => Delivery!Init
BY DEF Init, Delivery!Init, Tracked

LEMMA NextKeeps == Inv /\ Inv' /\ [Next]_vars => [Delivery!Next]_(Delivery!vars)
<1> SUFFICES ASSUME Inv, Inv', [Next]_vars
             PROVE  [Delivery!Next]_(Delivery!vars)
  OBVIOUS
<1> USE DEF Delivery!vars
<1>1. CASE HandleP2PRdy \/ HandleConnectUserAck
  <2>1. connected
    BY <1>1 DEF HandleP2PRdy, HandleConnectUserAck
  <2>2. Delivery!Issue
    BY <1>1, <2>1, HandlerStep DEF Delivery!Issue
  <2> QED BY <2>2 DEF Delivery!Next
<1>2. CASE HandleDrwAck
  <2>1. connected /\ UNCHANGED <<connected, issued, executed>>
    BY <1>2 DEF HandleDrwAck
  <2>2. Tracked' \subseteq Tracked /\ \A n \in Tracked \ Tracked' : n \in executed
    BY <1>2, AckStep
  <2>3. /\ (Tracked \ Tracked') \in SUBSET (Tracked \cap executed)
        /\ Tracked' = Tracked \ (Tracked \ Tracked')
    BY <2>2
  <2>4. Delivery!Settle
    BY <2>1, <2>3 DEF Delivery!Settle
  <2> QED BY <2>4 DEF Delivery!Next
<1>3. CASE ResendTimer
  BY <1>3, ResendStep DEF ResendTimer
<1>4. CASE Disconnect
  <2>1. Delivery!Close
    BY <1>4, EnvironmentStep DEF Disconnect, Delivery!Close
  <2> QED BY <2>1 DEF Delivery!Next
<1>5. ASSUME NEW p \in toCamera, CameraReceives(p)
      PROVE  [Delivery!Next]_(Delivery!vars)
  <2>1. p.cmd \in 1 .. Len(issued) /\ 1 .. Len(issued) \subseteq Delivery!Command
    BY BoundAssumption DEF Inv, TypeOK, Delivery!Command
  <2>2. Tracked' = Tracked /\ issued' = issued /\ connected' = connected
    BY <1>5 DEF CameraReceives, sessionVars, Tracked
  <2>3. Delivery!Execute(p.cmd)
    BY <1>5, <2>1, <2>2 DEF CameraReceives, Delivery!Execute
  <2> QED BY <2>1, <2>3 DEF Delivery!Next
<1>6. ASSUME NEW p \in toCamera, Lose(p)
      PROVE  [Delivery!Next]_(Delivery!vars)
  BY <1>6 DEF Lose, sessionVars, Tracked
<1>7. CASE UNCHANGED vars
  BY <1>7 DEF vars, sessionVars, Tracked
<1> QED BY <1>1, <1>2, <1>3, <1>4, <1>5, <1>6, <1>7 DEF Next

THEOREM ChannelImplementsDelivery == SafetySpec => KeepsCommands
<1>1. Inv /\ Inv' /\ [Next]_vars => [Delivery!Next]_(Delivery!vars)
  BY NextKeeps
<1> QED
  BY <1>1, InitKeeps, ChannelInvariant, PTL DEF SafetySpec, KeepsCommands, Delivery!SafetySpec
=============================================================================
