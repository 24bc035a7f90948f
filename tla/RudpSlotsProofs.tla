---------------------------- MODULE RudpSlotsProofs ----------------------------
(* Proofs about RudpSlots: the counters agree with the slots, and the loop over   *)
(* the slots does what Rudp takes as one step.                                    *)
EXTENDS RudpSlots, RudpOutgoingProofs, SequenceTheorems

--------------------------------------------------------------------------------
(* Arrays of slots, for the one before a step and the one after it.               *)
Record == [id : Nat \ {0}, body : Message, sent : Nat]
UsedIn(r) == {i \in Slots : r[i] # Unused}
IdsIn(r) == {r[i].id : i \in UsedIn(r)}
OutgoingIn(r) == [id \in IdsIn(r) |->
  LET i == CHOOSE j \in UsedIn(r) : r[j].id = id
  IN  [body |-> r[i].body, sent |-> r[i].sent]]

OneSet(r, q, i, c) == q = [r EXCEPT ![i] = c]

(* The ids of the slots r are older than n, and each is in one slot.              *)
Good(r, n) ==
  /\ r \in [Slots -> Record \cup {Unused}]
  /\ \A i \in UsedIn(r) : r[i].id < n /\ \A j \in UsedIn(r) : r[j].id = r[i].id => j = i

Counted(r, count, size) == count = Cardinality(UsedIn(r)) /\ size = Bytes(OutgoingIn(r))

LEMMA InArrays ==
  /\ Used = UsedIn(reliable) /\ Outgoing = OutgoingIn(reliable)
  /\ IdsInv /\ TypeOK => Good(reliable, idgen_reliable_send)
  /\ CountersMatchSlots <=> Counted(reliable, reliable_count, reliable_size)
<1>1. Used = UsedIn(reliable)
  BY Zenon DEF Used, UsedIn
<1>2. Outgoing = OutgoingIn(reliable)
  BY <1>1, Zenon DEF Outgoing, OutgoingIn, IdsIn
<1>3. IdsInv /\ TypeOK => Good(reliable, idgen_reliable_send)
  BY <1>1 DEF IdsInv, TypeOK, Good, Record
<1> QED
  BY <1>1, <1>2, <1>3, Zenon DEF CountersMatchSlots, Counted

LEMMA InArraysNext ==
  /\ Used' = UsedIn(reliable') /\ Outgoing' = OutgoingIn(reliable')
  /\ Good(reliable', idgen_reliable_send') => IdsInv'
  /\ CountersMatchSlots' <=> Counted(reliable', reliable_count', reliable_size')
<1>1. Used' = UsedIn(reliable')
  BY Zenon DEF Used, UsedIn
<1>2. Outgoing' = OutgoingIn(reliable')
  BY <1>1, Zenon DEF Outgoing, OutgoingIn, IdsIn
<1>3. Good(reliable', idgen_reliable_send') => IdsInv'
  BY <1>1 DEF IdsInv, Good
<1> QED
  BY <1>1, <1>2, <1>3, Zenon DEF CountersMatchSlots, Counted

LEMMA RecordIsUsed ==
  ASSUME NEW c \in Record
  PROVE  c # Unused
BY MessageAssumption DEF Record

(* The message of a slot is the one of its id.                                    *)
LEMMA OutgoingOfSlot ==
  ASSUME NEW r, NEW n, Good(r, n), NEW i \in UsedIn(r)
  PROVE  /\ r[i].id \in DOMAIN OutgoingIn(r)
         /\ OutgoingIn(r)[r[i].id] = [body |-> r[i].body, sent |-> r[i].sent]
         /\ r[i] \in Record
<1>1. (CHOOSE j \in UsedIn(r) : r[j].id = r[i].id) = i
  BY DEF Good
<1>2. r[i].id \in DOMAIN OutgoingIn(r)
  BY DEF OutgoingIn, IdsIn
<1>3. r[i] \in Record
  BY DEF Good, UsedIn
<1>4. OutgoingIn(r)[r[i].id] = [body |-> r[i].body, sent |-> r[i].sent]
  BY <1>1, <1>2 DEF OutgoingIn
<1> QED
  BY <1>2, <1>3, <1>4

LEMMA SlotOfOutgoing ==
  ASSUME NEW r, NEW id \in DOMAIN OutgoingIn(r)
  PROVE  \E i \in UsedIn(r) : r[i].id = id
BY DEF OutgoingIn, IdsIn

LEMMA OutgoingIsSized ==
  ASSUME NEW r, NEW n \in Nat \ {0}, Good(r, n)
  PROVE  /\ Sized(OutgoingIn(r)) /\ IsFiniteSet(UsedIn(r))
         /\ DOMAIN OutgoingIn(r) \subseteq 1 .. (n - 1)
         /\ \A id \in DOMAIN OutgoingIn(r) :
              OutgoingIn(r)[id] \in [body : Message, sent : Nat]
<1>1. ASSUME NEW id \in DOMAIN OutgoingIn(r)
      PROVE  id \in 1 .. (n - 1) /\ OutgoingIn(r)[id] \in [body : Message, sent : Nat]
  <2>1. PICK i \in UsedIn(r) : r[i].id = id
    BY SlotOfOutgoing
  <2>2. r[i] \in Record /\ OutgoingIn(r)[id] = [body |-> r[i].body, sent |-> r[i].sent]
    BY <2>1, OutgoingOfSlot
  <2>3. r[i].id < n
    BY DEF Good
  <2> QED
    BY <2>1, <2>2, <2>3 DEF Record
<1>2. DOMAIN OutgoingIn(r) \subseteq 1 .. (n - 1)
  BY <1>1
<1>3. IsFiniteSet(DOMAIN OutgoingIn(r))
  BY <1>2, FS_Interval, FS_Subset
<1>4. \A id \in DOMAIN OutgoingIn(r) : Size[OutgoingIn(r)[id].body] \in Nat
  BY <1>1, SizeAssumption
<1>5. IsFiniteSet(UsedIn(r))
  <2>1. UsedIn(r) \subseteq Slots /\ IsFiniteSet(Slots)
    BY SlotAssumption, FS_Interval DEF UsedIn, Slots
  <2> QED
    BY <2>1, FS_Subset
<1> QED
  BY <1>1, <1>2, <1>3, <1>4, <1>5 DEF Sized

--------------------------------------------------------------------------------
(* A record is set in a free slot.                                                *)
WasSet(r, q, i, n, m) ==
  /\ Good(q, n + 1)
  /\ UsedIn(q) = UsedIn(r) \cup {i} /\ q[i] = NewRecord(n, m)
  /\ \A j \in UsedIn(r) : q[j] = r[j]
  /\ DOMAIN OutgoingIn(q) = DOMAIN OutgoingIn(r) \cup {n}
  /\ OutgoingIn(q)[n] = [body |-> m, sent |-> 0]
  /\ \A id \in DOMAIN OutgoingIn(r) : OutgoingIn(q)[id] = OutgoingIn(r)[id]

LEMMA SetSlot ==
  ASSUME NEW n \in Nat \ {0}, NEW r, Good(r, n), NEW i \in Slots \ UsedIn(r), NEW m \in Message,
         NEW q, OneSet(r, q, i, NewRecord(n, m))
  PROVE  WasSet(r, q, i, n, m)
<1>1. NewRecord(n, m) \in Record /\ NewRecord(n, m) # Unused
  BY RecordIsUsed DEF NewRecord, Record
<1>2. r \in [Slots -> Record \cup {Unused}]
  BY DEF Good
<1>3. q \in [Slots -> Record \cup {Unused}] /\ q[i] = NewRecord(n, m) /\ \A j \in Slots \ {i} : q[j] = r[j]
  BY <1>1, <1>2 DEF OneSet
<1>4. UsedIn(q) = UsedIn(r) \cup {i} /\ \A j \in UsedIn(r) : q[j] = r[j]
  BY <1>1, <1>3 DEF UsedIn
<1>5. q[i].id = n /\ q[i].body = m /\ q[i].sent = 0
  BY <1>3 DEF NewRecord
<1>6. \A j \in UsedIn(r) : r[j].id < n /\ r[j].id \in Nat
  BY OutgoingOfSlot DEF Good, Record
<1>7. Good(q, n + 1)
  <2>1. \A j \in UsedIn(q) : q[j].id < n + 1
    BY <1>4, <1>5, <1>6
  <2>2. \A j, k \in UsedIn(q) : q[j].id = q[k].id => j = k
    <3>1. \A j, k \in UsedIn(r) : r[j].id = r[k].id => j = k
      BY DEF Good
    <3> QED
      BY <1>4, <1>5, <1>6, <3>1
  <2> QED
    BY <1>3, <2>1, <2>2 DEF Good
<1>8. DOMAIN OutgoingIn(q) = DOMAIN OutgoingIn(r) \cup {n}
  <2>1. DOMAIN OutgoingIn(q) = IdsIn(q) /\ DOMAIN OutgoingIn(r) = IdsIn(r)
    BY DEF OutgoingIn
  <2>2. IdsIn(q) = IdsIn(r) \cup {n}
    BY <1>4, <1>5 DEF IdsIn
  <2> QED
    BY <2>1, <2>2, Zenon
<1>9. OutgoingIn(q)[n] = [body |-> m, sent |-> 0]
  <2>1. i \in UsedIn(q)
    BY <1>4
  <2>2. OutgoingIn(q)[q[i].id] = [body |-> q[i].body, sent |-> q[i].sent]
    BY <1>7, <2>1, OutgoingOfSlot, Zenon
  <2> QED
    BY <1>5, <2>2
<1>10. ASSUME NEW id \in DOMAIN OutgoingIn(r) PROVE OutgoingIn(q)[id] = OutgoingIn(r)[id]
  <2>1. PICK j \in UsedIn(r) : r[j].id = id
    BY SlotOfOutgoing
  <2>2. OutgoingIn(r)[id] = [body |-> r[j].body, sent |-> r[j].sent]
    BY <2>1, OutgoingOfSlot
  <2>3. j \in UsedIn(q) /\ q[j] = r[j]
    BY <1>4
  <2>4. OutgoingIn(q)[q[j].id] = [body |-> q[j].body, sent |-> q[j].sent]
    BY <1>7, <2>3, OutgoingOfSlot, Zenon
  <2> QED
    BY <2>1, <2>2, <2>3, <2>4
<1> QED
  BY <1>3, <1>4, <1>7, <1>8, <1>9, <1>10, Zenon DEF WasSet

(* A slot is cleared.                                                             *)
WasCleared(r, q, i, n) ==
  /\ Good(q, n)
  /\ UsedIn(q) = UsedIn(r) \ {i}
  /\ \A j \in UsedIn(q) : q[j] = r[j]
  /\ DOMAIN OutgoingIn(q) = DOMAIN OutgoingIn(r) \ {r[i].id}
  /\ \A id \in DOMAIN OutgoingIn(q) : OutgoingIn(q)[id] = OutgoingIn(r)[id]

LEMMA ClearSlot ==
  ASSUME NEW n \in Nat \ {0}, NEW r, Good(r, n), NEW i \in UsedIn(r),
         NEW q, OneSet(r, q, i, Unused)
  PROVE  WasCleared(r, q, i, n)
<1>1. r \in [Slots -> Record \cup {Unused}] /\ i \in Slots
  BY DEF Good, UsedIn
<1>2. q \in [Slots -> Record \cup {Unused}] /\ q[i] = Unused /\ \A j \in Slots \ {i} : q[j] = r[j]
  BY <1>1 DEF OneSet
<1>3. UsedIn(q) = UsedIn(r) \ {i} /\ \A j \in UsedIn(q) : q[j] = r[j]
  BY <1>2 DEF UsedIn
<1>4. \A j, k \in UsedIn(r) : r[j].id = r[k].id => j = k
  BY DEF Good
<1>5. Good(q, n)
  BY <1>2, <1>3 DEF Good
<1>6. DOMAIN OutgoingIn(q) = DOMAIN OutgoingIn(r) \ {r[i].id}
  <2>1. DOMAIN OutgoingIn(q) = IdsIn(q) /\ DOMAIN OutgoingIn(r) = IdsIn(r)
    BY DEF OutgoingIn
  <2>2. IdsIn(q) = IdsIn(r) \ {r[i].id}
    BY <1>3, <1>4 DEF IdsIn
  <2> QED
    BY <2>1, <2>2, Zenon
<1>7. ASSUME NEW id \in DOMAIN OutgoingIn(q) PROVE OutgoingIn(q)[id] = OutgoingIn(r)[id]
  <2>1. PICK j \in UsedIn(q) : q[j].id = id
    BY SlotOfOutgoing
  <2>2. OutgoingIn(q)[q[j].id] = [body |-> q[j].body, sent |-> q[j].sent]
    BY <1>5, OutgoingOfSlot, Zenon
  <2>3. j \in UsedIn(r) /\ q[j] = r[j]
    BY <1>3
  <2>4. OutgoingIn(r)[r[j].id] = [body |-> r[j].body, sent |-> r[j].sent]
    BY <2>3, OutgoingOfSlot
  <2> QED
    BY <2>1, <2>2, <2>3, <2>4
<1> QED
  BY <1>3, <1>5, <1>6, <1>7, Zenon DEF WasCleared

(* Sending changes no id and no body.                                             *)
LEMMA SendSlots ==
  ASSUME NEW n, NEW r, Good(r, n), NEW q, Good(q, n), UsedIn(q) = UsedIn(r),
         \A i \in UsedIn(r) : q[i].id = r[i].id /\ q[i].body = r[i].body
  PROVE  Bytes(OutgoingIn(q)) = Bytes(OutgoingIn(r))
<1>1. DOMAIN OutgoingIn(q) = DOMAIN OutgoingIn(r)
  BY DEF OutgoingIn, IdsIn
<1>2. ASSUME NEW id \in DOMAIN OutgoingIn(r) PROVE OutgoingIn(q)[id].body = OutgoingIn(r)[id].body
  <2>1. PICK j \in UsedIn(r) : r[j].id = id
    BY SlotOfOutgoing
  <2>2. OutgoingIn(r)[id] = [body |-> r[j].body, sent |-> r[j].sent]
    BY <2>1, OutgoingOfSlot
  <2>3. OutgoingIn(q)[q[j].id] = [body |-> q[j].body, sent |-> q[j].sent]
    BY OutgoingOfSlot
  <2> QED
    BY <2>1, <2>2, <2>3
<1> QED
  BY <1>1, <1>2, BytesOfSame

--------------------------------------------------------------------------------
(* The counters.                                                                  *)
LEMMA SetCounts ==
  ASSUME NEW n \in Nat \ {0}, NEW r, Good(r, n), NEW i \in Slots \ UsedIn(r), NEW m \in Message,
         NEW q, OneSet(r, q, i, NewRecord(n, m)),
         NEW count \in Nat, NEW size \in Nat, Counted(r, count, size)
  PROVE  Counted(q, count + 1, size + Bytes1(m)) /\ Bytes1(m) \in Nat
<1> DEFINE R == OutgoingIn(r)
           Q == OutgoingIn(q)
<1>0. WasSet(r, q, i, n, m)
  BY SetSlot
<1>1. /\ Good(q, n + 1) /\ UsedIn(q) = UsedIn(r) \cup {i}
      /\ DOMAIN Q = DOMAIN R \cup {n} /\ Q[n] = [body |-> m, sent |-> 0]
      /\ \A id \in DOMAIN R : Q[id] = R[id]
  BY <1>0, Zenon DEF WasSet
<1>2. Sized(Q) /\ DOMAIN R \subseteq 1 .. (n - 1) /\ IsFiniteSet(UsedIn(r))
  BY <1>1, OutgoingIsSized
<1>3. n \notin DOMAIN R
  BY <1>2
<1>4. Bytes(Q) = Size[m] + RecordHeader + Bytes(R)
  <2> HIDE DEF Q, R
  <2>1. n \in DOMAIN Q /\ DOMAIN R = DOMAIN Q \ {n} /\ \A id \in DOMAIN R : R[id].body = Q[id].body
    BY <1>1, <1>3
  <2>2. Bytes(Q) = Size[Q[n].body] + RecordHeader + Bytes(R)
    BY <1>2, <2>1, BytesWithout
  <2> QED
    BY <1>1, <2>2
<1>5. Cardinality(UsedIn(q)) = Cardinality(UsedIn(r)) + 1
  BY <1>1, <1>2, FS_AddElement
<1>6. Size[m] \in Nat
  BY SizeAssumption
<1> HIDE DEF Q, R
<1> QED
  BY <1>4, <1>5, <1>6 DEF Counted, Bytes1, RecordHeader, Q, R

LEMMA ClearCounts ==
  ASSUME NEW n \in Nat \ {0}, NEW r, Good(r, n), NEW i \in UsedIn(r),
         NEW q, OneSet(r, q, i, Unused),
         NEW count \in Nat, NEW size \in Nat, Counted(r, count, size)
  PROVE  /\ Counted(q, count - 1, size - Bytes1(r[i].body))
         /\ count - 1 \in Nat /\ size - Bytes1(r[i].body) \in Nat
<1> DEFINE R == OutgoingIn(r)
           Q == OutgoingIn(q)
           id == r[i].id
<1>0. WasCleared(r, q, i, n)
  BY ClearSlot
<1>1. /\ Good(q, n) /\ UsedIn(q) = UsedIn(r) \ {i}
      /\ DOMAIN Q = DOMAIN R \ {id}
      /\ \A e \in DOMAIN Q : Q[e] = R[e]
  BY <1>0, Zenon DEF WasCleared
<1>2. Sized(R) /\ Sized(Q) /\ IsFiniteSet(UsedIn(r)) /\ IsFiniteSet(UsedIn(q))
  BY <1>1, OutgoingIsSized
<1>3. id \in DOMAIN R /\ R[id].body = r[i].body /\ r[i].body \in Message
  <2>1. /\ r[i].id \in DOMAIN OutgoingIn(r) /\ r[i] \in Record
        /\ OutgoingIn(r)[r[i].id] = [body |-> r[i].body, sent |-> r[i].sent]
    BY OutgoingOfSlot, Zenon
  <2> QED
    BY <2>1 DEF Record
<1> HIDE DEF Q, R, id
<1>4. Bytes(R) = Size[R[id].body] + RecordHeader + Bytes(Q)
  BY <1>1, <1>2, <1>3, BytesWithout
<1>5. Cardinality(UsedIn(q)) = Cardinality(UsedIn(r)) - 1
  BY <1>1, <1>2, FS_RemoveElement
<1>6. Size[r[i].body] \in Nat /\ Bytes(Q) \in Nat
  BY <1>2, <1>3, SizeAssumption, BytesNat
<1>7. Cardinality(UsedIn(q)) \in Nat
  BY <1>2, FS_CardinalityType
<1> QED
  BY <1>3, <1>4, <1>5, <1>6, <1>7 DEF Counted, Bytes1, RecordHeader, Q, R

(* What the counters say of room for a message is true.                           *)
LEMMA RoomByCounters ==
  ASSUME NEW n \in Nat \ {0}, NEW r, Good(r, n), NEW m,
         NEW count, NEW size, Counted(r, count, size)
  PROVE  HasRoom(OutgoingIn(r), m) <=> count < MAXMSG /\ FitsBy(size, m)
<1> DEFINE R == OutgoingIn(r)
<1>1. Sized(R) /\ IsFiniteSet(UsedIn(r))
  BY OutgoingIsSized
<1>2. Cardinality(DOMAIN R) = count
  <2> DEFINE f == [i \in UsedIn(r) |-> r[i].id]
  <2>1. f \in [UsedIn(r) -> DOMAIN R] /\ \A id \in DOMAIN R : \E i \in UsedIn(r) : f[i] = id
    BY DEF OutgoingIn, IdsIn
  <2>2. \A i, j \in UsedIn(r) : f[i] = f[j] => i = j
    BY DEF Good
  <2>3. f \in Bijection(UsedIn(r), DOMAIN R)
    <3> HIDE DEF R
    <3> QED
      BY <2>1, <2>2 DEF Bijection, Injection, Surjection, IsInjective
  <2>4. ExistsBijection(UsedIn(r), DOMAIN R)
    BY <2>3 DEF ExistsBijection
  <2> QED
    BY <1>1, <2>4, FS_Bijection DEF Counted
<1>3. size = 0 <=> DOMAIN R = {}
  <2>1. CASE DOMAIN R = {}
    BY <2>1, BytesOfNone DEF Counted
  <2>2. CASE DOMAIN R # {}
    <3>1. PICK x \in DOMAIN R : TRUE
      BY <2>2
    <3> DEFINE Q == [id \in DOMAIN R \ {x} |-> R[id]]
    <3> HIDE DEF R
    <3>2. Sized(Q)
      BY <1>1, BytesOfMore
    <3>3. Bytes(R) = Size[R[x].body] + RecordHeader + Bytes(Q)
      BY <1>1, BytesWithout
    <3>4. Size[R[x].body] \in Nat /\ Bytes(Q) \in Nat
      <4>1. Size[R[x].body] \in Nat
        BY <1>1 DEF Sized
      <4> HIDE DEF Q
      <4> QED
        BY <3>2, <4>1, BytesNat
    <3>5. Bytes(R) # 0
      <4> HIDE DEF Q
      <4> QED
        BY <3>3, <3>4 DEF RecordHeader
    <3> QED
      BY <2>2, <3>5 DEF Counted, R
  <2> QED
    BY <2>1, <2>2
<1> HIDE DEF R
<1>4. size = Bytes(R)
  BY DEF Counted, R
<1>5. HasRoom(R, m) <=> count < MAXMSG /\ FitsBy(size, m)
  BY <1>2, <1>3, <1>4, Zenon DEF HasRoom, CanAdd, FitsBy
<1> QED
  BY <1>5 DEF R

--------------------------------------------------------------------------------
(* What an ack makes of the slots.                                                *)
LEMMA RoomForFewer ==
  ASSUME NEW R, NEW Q, Sized(Q), DOMAIN R \subseteq DOMAIN Q,
         \A i \in DOMAIN R : R[i].body = Q[i].body, NEW m \in Message, HasRoom(Q, m)
  PROVE  HasRoom(R, m)
<1>1. Sized(R) /\ Bytes(R) <= Bytes(Q) /\ Bytes(R) \in Nat /\ Bytes(Q) \in Nat
  BY BytesOfMore, BytesNat
<1>2. /\ Cardinality(DOMAIN R) <= Cardinality(DOMAIN Q)
      /\ Cardinality(DOMAIN R) \in Nat /\ Cardinality(DOMAIN Q) \in Nat
  BY <1>1, FS_Subset, FS_CardinalityType DEF Sized
<1>3. Size[m] \in Nat /\ MAX_PACKET_SIZE \in Nat /\ MAXMSG \in Nat
  BY SizeAssumption, SlotAssumption
<1>4. CASE DOMAIN Q = {}
  BY <1>2, <1>3, <1>4 DEF HasRoom, CanAdd
<1>5. CASE DOMAIN Q # {}
  BY <1>1, <1>2, <1>3, <1>5 DEF HasRoom, CanAdd
<1> QED
  BY <1>4, <1>5

Loses(O, P, id) == DOMAIN P = DOMAIN O \ {id} /\ \A e \in DOMAIN P : P[e] = O[e]

LEMMA MovedFrees ==
  ASSUME NEW B, NEW a, NEW n \in Nat \ {0}, NEW x \in Seq(Message), NEW O, NEW k,
         Moved(B, a, n, x, O, k), DOMAIN B \subseteq 1 .. (n - 1),
         NEW id \in DOMAIN O, SentBefore(O[id], a), NEW P, Loses(O, P, id)
  PROVE  Moved(B, a, n, x, P, k) /\ id \in DOMAIN B
<1>1. id \in DOMAIN B /\ O[id] = B[id]
  <2>1. ~(O[id].sent = 0)
    BY DEF SentBefore
  <2> QED
    BY <2>1 DEF Moved
<1>2. id \notin DOMAIN Unacked(B, a)
  BY <1>1 DEF Unacked
<1>3. id \notin n .. (n + k - 1)
  BY <1>1 DEF Moved
<1>4. DOMAIN Unacked(B, a) \subseteq DOMAIN P /\ n .. (n + k - 1) \subseteq DOMAIN P
  BY <1>2, <1>3 DEF Moved, Loses
<1> QED
  BY <1>1, <1>4 DEF Moved, Loses

LEMMA IntervalGrows ==
  ASSUME NEW n \in Nat, NEW k \in Nat
  PROVE  n .. (n + (k + 1) - 1) = n .. (n + k - 1) \cup {n + k}
OBVIOUS

LEMMA MovedAdds ==
  ASSUME NEW B, NEW a, NEW n \in Nat \ {0}, NEW x \in Seq(Message), NEW O, NEW k,
         Moved(B, a, n, x, O, k), DOMAIN B \subseteq 1 .. (n - 1), Sized(O),
         k < Len(x), HasRoom(O, x[k + 1]),
         NEW P, DOMAIN P = DOMAIN O \cup {n + k}, P[n + k] = [body |-> x[k + 1], sent |-> 0],
         \A e \in DOMAIN O : P[e] = O[e]
  PROVE  Moved(B, a, n, x, P, k + 1)
<1> DEFINE U == Unacked(B, a)
           A == AddFirst(U, n, x, k)
<1>1. k \in Nat /\ k + 1 \in 0 .. Len(x) /\ x[k + 1] \in Message
  BY DEF Moved
<1>2. /\ DOMAIN U \subseteq DOMAIN O /\ DOMAIN U \subseteq DOMAIN B /\ n .. (n + k - 1) \subseteq DOMAIN O
      /\ \A i \in DOMAIN U : U[i] = B[i]
  BY DEF Moved, Unacked
<1>3. \A i \in DOMAIN O :
        \/ i \in DOMAIN B /\ O[i] = B[i]
        \/ i \in n .. (n + k - 1) /\ O[i] = [body |-> x[i - n + 1], sent |-> 0]
  BY DEF Moved
<1>4. HasRoom(A, x[k + 1])
  <2>1. DOMAIN A = DOMAIN U \cup n .. (n + k - 1)
    BY DEF AddFirst
  <2>2. ASSUME NEW i \in DOMAIN A PROVE A[i].body = O[i].body
    <3>1. CASE i \in DOMAIN U
      <4>1. A[i] = U[i]
        BY <2>1, <3>1 DEF AddFirst
      <4>2. O[i] = B[i]
        BY <1>1, <1>2, <1>3, <3>1
      <4> QED
        BY <1>2, <3>1, <4>1, <4>2
    <3>2. CASE i \notin DOMAIN U
      <4>1. i \in n .. (n + k - 1)
        BY <2>1, <2>2, <3>2
      <4>2. A[i] = [body |-> x[i - n + 1], sent |-> 0]
        BY <2>1, <2>2, <3>2 DEF AddFirst
      <4>3. O[i] = [body |-> x[i - n + 1], sent |-> 0]
        BY <1>1, <1>2, <1>3, <4>1
      <4> QED
        BY <4>2, <4>3
    <3> QED
      BY <3>1, <3>2
  <2>3. DOMAIN A \subseteq DOMAIN O
    BY <1>2, <2>1
  <2> HIDE DEF A
  <2> QED
    BY <1>1, <2>2, <2>3, RoomForFewer
<1>5. n .. (n + (k + 1) - 1) = n .. (n + k - 1) \cup {n + k}
  BY <1>1, IntervalGrows
<1>6. n .. (n + (k + 1) - 1) \subseteq DOMAIN P /\ DOMAIN U \subseteq DOMAIN P
  BY <1>2, <1>5
<1>7. ASSUME NEW i \in DOMAIN P
      PROVE  \/ i \in DOMAIN B /\ P[i] = B[i]
             \/ i \in n .. (n + (k + 1) - 1) /\ P[i] = [body |-> x[i - n + 1], sent |-> 0]
  <2>1. CASE i \in DOMAIN O
    BY <1>3, <1>5, <2>1
  <2>2. CASE i = n + k
    <3>1. i - n + 1 = k + 1
      BY <1>1, <2>2
    <3> QED
      BY <1>5, <2>2, <3>1
  <2> QED
    BY <1>7, <2>1, <2>2
<1>8. ASSUME NEW j \in 0 .. (k + 1 - 1) PROVE HasRoom(AddFirst(U, n, x, j), x[j + 1])
  <2>1. CASE j = k
    BY <1>4, <2>1
  <2>2. CASE j # k
    <3>1. j \in 0 .. (k - 1)
      BY <1>1, <2>2
    <3> QED
      BY <3>1 DEF Moved
  <2> QED
    BY <2>1, <2>2
<1> QED
  BY <1>1, <1>6, <1>7, <1>8 DEF Moved

(* When all acked messages are freed, nothing else is left to tell.               *)
LEMMA MovedAll ==
  ASSUME NEW B, NEW a, NEW n \in Nat \ {0}, NEW x \in Seq(Message), NEW O, NEW k,
         Moved(B, a, n, x, O, k), DOMAIN B \subseteq 1 .. (n - 1),
         O = [i \in DOMAIN O |-> O[i]],
         \A i \in DOMAIN O : ~SentBefore(O[i], a)
  PROVE  O = AddFirst(Unacked(B, a), n, x, k)
<1> DEFINE U == Unacked(B, a)
           A == AddFirst(U, n, x, k)
<1>1. DOMAIN A = DOMAIN U \cup n .. (n + k - 1) /\ k \in Nat
  BY DEF AddFirst, Moved
<1>2. \A i \in DOMAIN O :
        \/ i \in DOMAIN B /\ O[i] = B[i]
        \/ i \in n .. (n + k - 1) /\ O[i] = [body |-> x[i - n + 1], sent |-> 0]
  BY DEF Moved
<1>3. DOMAIN O = DOMAIN A
  <2>1. DOMAIN A \subseteq DOMAIN O
    BY <1>1 DEF Moved
  <2>2. ASSUME NEW i \in DOMAIN O PROVE i \in DOMAIN A
    <3>1. CASE i \in DOMAIN B /\ O[i] = B[i]
      BY <1>1, <3>1 DEF Unacked
    <3>2. CASE i \in n .. (n + k - 1)
      BY <1>1, <3>2
    <3> QED
      BY <1>2, <3>1, <3>2
  <2> QED
    BY <2>1, <2>2
<1>4. ASSUME NEW i \in DOMAIN O PROVE O[i] = A[i]
  <2>1. CASE i \in DOMAIN U
    <3>1. A[i] = U[i] /\ U[i] = B[i] /\ i \in DOMAIN B
      BY <1>1, <2>1 DEF AddFirst, Unacked
    <3>2. O[i] = B[i]
      BY <1>1, <1>2, <3>1
    <3> QED
      BY <3>1, <3>2
  <2>2. CASE i \notin DOMAIN U
    <3>1. i \in n .. (n + k - 1)
      BY <1>1, <1>3, <1>4, <2>2
    <3>2. A[i] = [body |-> x[i - n + 1], sent |-> 0]
      BY <1>1, <2>2, <3>1 DEF AddFirst
    <3> QED
      BY <1>1, <1>2, <3>1, <3>2
  <2> QED
    BY <2>1, <2>2
<1>5. A = [i \in DOMAIN A |-> A[i]]
  BY DEF AddFirst
<1> HIDE DEF A
<1>6. O = A
  BY <1>3, <1>4, <1>5
<1> QED
  BY <1>6 DEF A

--------------------------------------------------------------------------------
(* The loop, for the state before a step and the one after it.                    *)
InLoop(r, count, size, queue, g, l, b) ==
  LET k == g - b.n
      freed == ~(DOMAIN b.R \subseteq DOMAIN OutgoingIn(r))
  IN
  /\ b.n \in Nat \ {0} /\ b.x \in Seq(Message)
  /\ DOMAIN b.R \subseteq 1 .. (b.n - 1)
  /\ Moved(b.R, l.ack, b.n, b.x, OutgoingIn(r), k)
  /\ queue = SubSeq(b.x, k + 1, Len(b.x))
  /\ \A i \in UsedIn(r) : SentBefore(r[i], l.ack) => l.i <= i
  /\ ~freed => k = 0 /\ l.at = "scan"
  /\ freed => (l.at = "fill" <=> FillMore(count, queue, size))
  /\ l.at = "fill" => /\ l.i \in UsedIn(r)
                      /\ ~SentBefore(r[l.i], l.ack)
                      /\ 0 .. (l.rel - 1) \subseteq UsedIn(r)

LEMMA LoopInArrays ==
  LoopInv <=> (loop.at # "unlocked" =>
    InLoop(reliable, reliable_count, reliable_size, extra_reliables, idgen_reliable_send,
           loop, before))
BY InArrays, Zenon DEF LoopInv, InLoop

LEMMA LoopInArraysNext ==
  LoopInv' <=> (loop'.at # "unlocked" =>
    InLoop(reliable', reliable_count', reliable_size', extra_reliables', idgen_reliable_send',
           loop', before'))
BY InArraysNext, Zenon DEF LoopInv, InLoop

(* Free slots and their number.                                                   *)
LEMMA FreeSlots ==
  ASSUME NEW r, NEW count, NEW size, Counted(r, count, size)
  PROVE  /\ count \in Nat /\ count <= MAXMSG
         /\ count < MAXMSG <=> Slots \ UsedIn(r) # {}
<1>1. IsFiniteSet(Slots) /\ Cardinality(Slots) = MAXMSG /\ UsedIn(r) \subseteq Slots
  BY SlotAssumption, FS_Interval DEF Slots, UsedIn
<1>2. /\ IsFiniteSet(UsedIn(r)) /\ Cardinality(UsedIn(r)) <= MAXMSG
      /\ Cardinality(UsedIn(r)) = MAXMSG => UsedIn(r) = Slots
  BY <1>1, FS_Subset
<1>3. Cardinality(UsedIn(r)) \in Nat
  BY <1>2, FS_CardinalityType
<1>4. count < MAXMSG <=> UsedIn(r) # Slots
  BY <1>1, <1>2, <1>3, SlotAssumption DEF Counted
<1> QED
  BY <1>1, <1>2, <1>3, <1>4 DEF Counted

LEMMA LeastFreeSlot ==
  ASSUME NEW S \in SUBSET Slots, S # {}
  PROVE  Min(S) \in S
<1>1. S \in SUBSET Nat
  BY SlotAssumption DEF Slots
<1>2. PICK i \in S : \A j \in S : ~(j < i)
  BY <1>1, LeastNumber
<1>3. \A j \in S : i <= j
  BY <1>1, <1>2
<1> QED
  BY <1>3, Zenon DEF Min

(* The head of the rest of the queue.                                             *)
RestOf(x, k) == SubSeq(x, k + 1, Len(x))

LEMMA RestOfQueue ==
  ASSUME NEW x \in Seq(Message), NEW k \in 0 .. Len(x)
  PROVE  /\ RestOf(x, k) # <<>> <=> k < Len(x)
         /\ k < Len(x) => /\ Head(RestOf(x, k)) = x[k + 1] /\ x[k + 1] \in Message
                          /\ Tail(RestOf(x, k)) = RestOf(x, k + 1)
<1>1. k \in Nat /\ Len(x) \in Nat
  OBVIOUS
<1>2. CASE k < Len(x)
  <2>1. k + 1 \in 1 .. Len(x) /\ Len(x) \in (k + 1) .. Len(x)
    BY <1>1, <1>2
  <2>2. Head(RestOf(x, k)) = x[k + 1] /\ Tail(RestOf(x, k)) = RestOf(x, k + 1)
    BY <2>1, HeadTailOfSubSeq DEF RestOf
  <2>3. Len(RestOf(x, k)) = Len(x) - k
    BY <1>1, <1>2, <2>1 DEF RestOf
  <2>4. RestOf(x, k) # <<>>
    BY <1>1, <1>2, <2>3
  <2> QED
    BY <1>2, <2>1, <2>2, <2>4
<1>3. CASE ~(k < Len(x))
  <2>1. RestOf(x, k) = <<>>
    BY <1>1, <1>3, SubSeqEmpty DEF RestOf
  <2> QED
    BY <1>3, <2>1
<1> QED
  BY <1>2, <1>3

--------------------------------------------------------------------------------
(* The invariant holds initially, and every step keeps it.                        *)
LEMMA InitEstablishesIInv == Init => IInv
<1> SUFFICES ASSUME Init PROVE IInv
  OBVIOUS
<1>1. UsedIn(reliable) = {}
  BY DEF Init, UsedIn
<1>2. DOMAIN OutgoingIn(reliable) = {}
  BY <1>1 DEF OutgoingIn, IdsIn
<1>3. Bytes(OutgoingIn(reliable)) = 0 /\ Cardinality(UsedIn(reliable)) = 0
  BY <1>1, <1>2, BytesOfNone, FS_EmptySet
<1>4. CountersMatchSlots
  BY <1>3, InArrays DEF Init, Counted
<1>5. TypeOK
  <2>1. loop \in [at : {"unlocked", "scan", "fill"}, i : Slots \cup {MAXMSG}, rel : Slots, ack : Nat]
    BY SlotAssumption DEF Init, Slots
  <2> QED
    BY <2>1 DEF Init, TypeOK
<1>6. IdsInv
  BY <1>1, InArrays DEF IdsInv
<1>7. LoopInv
  BY DEF Init, LoopInv
<1> QED
  BY <1>4, <1>5, <1>6, <1>7 DEF IInv

(* What the steps use of the invariant.                                           *)
LEMMA AtStep ==
  ASSUME IInv
  PROVE  /\ TypeOK /\ Good(reliable, idgen_reliable_send)
         /\ Counted(reliable, reliable_count, reliable_size)
         /\ loop.at # "unlocked" =>
              InLoop(reliable, reliable_count, reliable_size, extra_reliables,
                     idgen_reliable_send, loop, before)
BY InArrays, LoopInArrays, Zenon DEF IInv

LEMMA AfterStep ==
  ASSUME TypeOK', Good(reliable', idgen_reliable_send'),
         Counted(reliable', reliable_count', reliable_size'),
         loop'.at # "unlocked" =>
           InLoop(reliable', reliable_count', reliable_size', extra_reliables',
                  idgen_reliable_send', loop', before')
  PROVE  IInv'
BY InArraysNext, LoopInArraysNext, Zenon DEF IInv

LEMMA WriterStep ==
  ASSUME IInv, NEW m \in Message, Writer(m)
  PROVE  IInv'
<1>0. /\ TypeOK /\ Good(reliable, idgen_reliable_send)
      /\ Counted(reliable, reliable_count, reliable_size)
  BY AtStep
<1>1. loop'.at = "unlocked" /\ UNCHANGED <<idgen_packet_send, loop, before>>
  BY DEF Writer
<1>2. CASE reliable_count < MAXMSG /\ FitsBy(reliable_size, m) /\ extra_reliables = <<>>
  <2> DEFINE n == idgen_reliable_send
             i == Min(Slots \ Used)
  <2>1. i \in Slots \ UsedIn(reliable)
    <3>1. Slots \ UsedIn(reliable) # {} /\ Used = UsedIn(reliable)
      BY <1>0, <1>2, FreeSlots, InArrays
    <3> QED
      BY <3>1, LeastFreeSlot
  <2>2. /\ reliable' = [reliable EXCEPT ![i] = NewRecord(n, m)]
        /\ reliable_count' = reliable_count + 1 /\ reliable_size' = reliable_size + Bytes1(m)
        /\ idgen_reliable_send' = n + 1 /\ extra_reliables' = extra_reliables
    BY <1>2 DEF Writer
  <2>3. OneSet(reliable, reliable', i, NewRecord(n, m)) /\ n \in Nat \ {0}
        /\ reliable_count \in Nat /\ reliable_size \in Nat
    BY <1>0, <2>2 DEF OneSet, TypeOK
  <2> HIDE DEF i, n
  <2>4. WasSet(reliable, reliable', i, n, m)
    BY <1>0, <2>1, <2>3, SetSlot DEF n
  <2>5. Counted(reliable', reliable_count + 1, reliable_size + Bytes1(m)) /\ Bytes1(m) \in Nat
    BY <1>0, <2>1, <2>3, SetCounts DEF n
  <2>6. Good(reliable', idgen_reliable_send')
    BY <2>2, <2>4 DEF WasSet
  <2>7. TypeOK'
    <3>1. reliable' \in [Slots -> Record \cup {Unused}]
      BY <2>6 DEF Good
    <3> QED
      BY <1>0, <1>1, <2>2, <2>3, <2>5, <3>1 DEF TypeOK, Record
  <2> QED
    BY <1>1, <2>2, <2>5, <2>6, <2>7, AfterStep
<1>3. CASE ~(reliable_count < MAXMSG /\ FitsBy(reliable_size, m) /\ extra_reliables = <<>>)
  <2>1. /\ extra_reliables' = Append(extra_reliables, m)
        /\ UNCHANGED <<reliable, reliable_count, reliable_size, idgen_reliable_send>>
    BY <1>3 DEF Writer
  <2>2. TypeOK'
    BY <1>0, <1>1, <2>1 DEF TypeOK, Slots
  <2> QED
    BY <1>0, <1>1, <2>1, <2>2, AfterStep
<1> QED
  BY <1>2, <1>3

LEMMA SendPacketStep ==
  ASSUME IInv, SendPacket
  PROVE  IInv'
<1>0. /\ TypeOK /\ Good(reliable, idgen_reliable_send)
      /\ Counted(reliable, reliable_count, reliable_size)
  BY AtStep
<1>1. /\ loop'.at = "unlocked" /\ idgen_packet_send' = idgen_packet_send + 1
      /\ UNCHANGED <<reliable_count, reliable_size, extra_reliables, idgen_reliable_send,
                     loop, before>>
      /\ reliable' = [i \in Slots |->
           IF i \in Used /\ reliable[i].sent = 0
           THEN [reliable[i] EXCEPT !.sent = idgen_packet_send] ELSE reliable[i]]
  BY DEF SendPacket
<1>2. \A i \in Slots : reliable[i] \in Record \cup {Unused}
  BY <1>0 DEF TypeOK, Record
<1>3. ASSUME NEW i \in Slots
      PROVE  /\ reliable'[i] \in Record \cup {Unused}
             /\ reliable'[i] = Unused <=> reliable[i] = Unused
             /\ reliable[i] # Unused => /\ reliable'[i].id = reliable[i].id
                                        /\ reliable'[i].body = reliable[i].body
  <2>1. CASE i \in Used /\ reliable[i].sent = 0
    <3>1. reliable'[i] = [reliable[i] EXCEPT !.sent = idgen_packet_send]
      BY <1>1, <2>1
    <3>2. reliable[i] \in Record /\ reliable[i] # Unused
      BY <1>2, <2>1 DEF Used
    <3>3. /\ reliable'[i] \in Record
          /\ reliable'[i].id = reliable[i].id /\ reliable'[i].body = reliable[i].body
      BY <1>0, <3>1, <3>2 DEF TypeOK, Record
    <3> QED
      BY <3>2, <3>3, RecordIsUsed
  <2>2. CASE ~(i \in Used /\ reliable[i].sent = 0)
    BY <1>1, <1>2, <2>2
  <2> QED
    BY <2>1, <2>2
<1>4. UsedIn(reliable') = UsedIn(reliable)
  BY <1>3 DEF UsedIn
<1>5. \A i \in UsedIn(reliable) :
        reliable'[i].id = reliable[i].id /\ reliable'[i].body = reliable[i].body
  BY <1>3 DEF UsedIn
<1>6. reliable' \in [Slots -> Record \cup {Unused}]
  BY <1>1, <1>3
<1>7. Good(reliable', idgen_reliable_send)
  BY <1>0, <1>4, <1>5, <1>6 DEF Good
<1>8. Counted(reliable', reliable_count, reliable_size)
  <2>1. Bytes(OutgoingIn(reliable')) = Bytes(OutgoingIn(reliable))
    BY <1>0, <1>4, <1>5, <1>7, SendSlots
  <2> QED
    BY <1>0, <1>4, <2>1 DEF Counted
<1>9. TypeOK'
  BY <1>0, <1>1, <1>6 DEF TypeOK, Record, Slots
<1> QED
  BY <1>1, <1>7, <1>8, <1>9, AfterStep

LEMMA BeginAckStep ==
  ASSUME IInv, NEW a \in 0 .. (idgen_packet_send - 1), BeginAck(a)
  PROVE  IInv'
<1> DEFINE n == idgen_reliable_send
           x == extra_reliables
           R == OutgoingIn(reliable)
<1>0. /\ TypeOK /\ Good(reliable, n)
      /\ Counted(reliable, reliable_count, reliable_size)
  BY AtStep
<1>1. /\ loop' = [at |-> "scan", i |-> 0, rel |-> 0, ack |-> a]
      /\ before' = [R |-> R, n |-> n, x |-> x]
      /\ UNCHANGED <<reliable, reliable_count, reliable_size, extra_reliables,
                     idgen_reliable_send, idgen_packet_send>>
  BY InArrays DEF BeginAck
<1>2. TypeOK'
  <2>1. loop' \in [at : {"unlocked", "scan", "fill"}, i : Slots \cup {MAXMSG}, rel : Slots, ack : Nat]
    BY <1>0, <1>1, SlotAssumption DEF Slots, TypeOK
  <2> QED
    BY <1>0, <1>1, <2>1 DEF TypeOK, Slots
<1>3. n \in Nat \ {0} /\ x \in Seq(Message) /\ DOMAIN R \subseteq 1 .. (n - 1)
  <2>1. n \in Nat \ {0} /\ x \in Seq(Message)
    BY <1>0 DEF TypeOK
  <2> QED
    BY <1>0, <2>1, OutgoingIsSized
<1>4. Moved(R, a, n, x, R, n - n)
  <2>1. DOMAIN Unacked(R, a) \subseteq DOMAIN R
    BY DEF Unacked
  <2>2. n - n = 0 /\ n .. (n + 0 - 1) = {} /\ 0 \in 0 .. Len(x) /\ 0 .. (0 - 1) = {}
    BY <1>3
  <2> HIDE DEF n, x, R
  <2>3. Moved(R, a, n, x, R, 0)
    BY <2>1, <2>2 DEF Moved
  <2> QED
    BY <2>2, <2>3
<1>5. x = SubSeq(x, (n - n) + 1, Len(x))
  BY <1>3, SubSeqFull
<1>6. \A i \in UsedIn(reliable) : 0 <= i
  BY SlotAssumption DEF UsedIn, Slots
<1>7. InLoop(reliable, reliable_count, reliable_size, x, n, loop', before')
  <2> HIDE DEF n, x, R
  <2>1. /\ loop'.at = "scan" /\ loop'.i = 0 /\ loop'.ack = a
        /\ before'.R = R /\ before'.n = n /\ before'.x = x
    BY <1>1
  <2>2. OutgoingIn(reliable) = R /\ n - n = 0
    BY <1>3 DEF R
  <2> QED
    BY <1>3, <1>4, <1>5, <1>6, <2>1, <2>2 DEF InLoop
<1> QED
  BY <1>0, <1>1, <1>2, <1>7, AfterStep

LEMMA NextSlotType ==
  ASSUME TypeOK, loop.i \in Slots
  PROVE  /\ NextSlot.at = "scan" /\ NextSlot.i = loop.i + 1 /\ NextSlot.ack = loop.ack
         /\ loop.i \in Nat
         /\ NextSlot \in [at : {"unlocked", "scan", "fill"}, i : Slots \cup {MAXMSG}, rel : Slots, ack : Nat]
<1>1. loop \in [at : {"unlocked", "scan", "fill"}, i : Slots \cup {MAXMSG}, rel : Slots, ack : Nat]
  BY DEF TypeOK
<1>2. loop.i \in Nat /\ loop.i + 1 \in Slots \cup {MAXMSG}
  BY SlotAssumption DEF Slots
<1> QED
  BY <1>1, <1>2 DEF NextSlot

LEMMA KeepSlotStep ==
  ASSUME IInv, KeepSlot
  PROVE  IInv'
<1>0. /\ TypeOK /\ Good(reliable, idgen_reliable_send)
      /\ Counted(reliable, reliable_count, reliable_size)
      /\ loop.at = "scan" /\ loop.i \in Slots
      /\ loop.i \in UsedIn(reliable) => ~SentBefore(reliable[loop.i], loop.ack)
      /\ InLoop(reliable, reliable_count, reliable_size, extra_reliables,
                idgen_reliable_send, loop, before)
  BY AtStep, InArrays DEF KeepSlot
<1>1. /\ loop' = NextSlot
      /\ UNCHANGED <<reliable, reliable_count, reliable_size, extra_reliables,
                     idgen_reliable_send, idgen_packet_send, before>>
  BY DEF KeepSlot
<1>2. loop'.at = "scan" /\ loop'.i = loop.i + 1 /\ loop'.ack = loop.ack /\ loop.i \in Nat
      /\ loop' \in [at : {"unlocked", "scan", "fill"}, i : Slots \cup {MAXMSG}, rel : Slots, ack : Nat]
  BY <1>0, <1>1, NextSlotType
<1>3. TypeOK'
  BY <1>0, <1>1, <1>2 DEF TypeOK, Slots
<1>4. \A i \in UsedIn(reliable) : SentBefore(reliable[i], loop.ack) => loop.i + 1 <= i
  <2> SUFFICES ASSUME NEW i \in UsedIn(reliable), SentBefore(reliable[i], loop.ack)
               PROVE  loop.i + 1 <= i
    OBVIOUS
  <2>1. loop.i <= i /\ loop.i # i /\ i \in Nat
    BY <1>0, SlotAssumption DEF InLoop, UsedIn, Slots
  <2> QED
    BY <1>2, <2>1
<1>5. InLoop(reliable, reliable_count, reliable_size, extra_reliables,
             idgen_reliable_send, loop', before)
  BY <1>0, <1>2, <1>4 DEF InLoop
<1> QED
  BY <1>0, <1>1, <1>3, <1>5, AfterStep

LEMMA EndAckStep ==
  ASSUME IInv, EndAck
  PROVE  IInv'
<1>0. /\ TypeOK /\ Good(reliable, idgen_reliable_send)
      /\ Counted(reliable, reliable_count, reliable_size)
  BY AtStep
<1>1. loop' = [loop EXCEPT !.at = "unlocked"]
      /\ UNCHANGED <<reliable, reliable_count, reliable_size, extra_reliables,
                     idgen_reliable_send, idgen_packet_send, before>>
  BY DEF EndAck
<1>2. loop'.at = "unlocked" /\ TypeOK'
  BY <1>0, <1>1 DEF TypeOK, Slots
<1> QED
  BY <1>0, <1>1, <1>2, AfterStep

--------------------------------------------------------------------------------
(* What freeing and filling a slot keep in common.                                *)
InMove(r, count, size, queue, g, a, b) ==
  /\ Good(r, g) /\ Counted(r, count, size)
  /\ count \in Nat /\ size \in Nat /\ g \in Nat \ {0}
  /\ b.n \in Nat \ {0} /\ b.x \in Seq(Message) /\ DOMAIN b.R \subseteq 1 .. (b.n - 1)
  /\ Moved(b.R, a, b.n, b.x, OutgoingIn(r), g - b.n)
  /\ queue = RestOf(b.x, g - b.n)

Freed(r, b) == ~(DOMAIN b.R \subseteq DOMAIN OutgoingIn(r))

LEMMA FreeKeepsMove ==
  ASSUME NEW r, NEW count, NEW size, NEW queue, NEW g, NEW a, NEW b,
         InMove(r, count, size, queue, g, a, b),
         NEW i \in UsedIn(r), SentBefore(r[i], a), NEW q, OneSet(r, q, i, Unused)
  PROVE  /\ InMove(q, count - 1, size - Bytes1(r[i].body), queue, g, a, b)
         /\ WasCleared(r, q, i, g) /\ Freed(q, b)
<1> DEFINE O == OutgoingIn(r)
           P == OutgoingIn(q)
           id == r[i].id
           k == g - b.n
<1>0. /\ Good(r, g) /\ Counted(r, count, size)
      /\ count \in Nat /\ size \in Nat /\ g \in Nat \ {0}
      /\ b.n \in Nat \ {0} /\ b.x \in Seq(Message) /\ DOMAIN b.R \subseteq 1 .. (b.n - 1)
      /\ Moved(b.R, a, b.n, b.x, O, k)
      /\ queue = RestOf(b.x, g - b.n)
  BY DEF InMove
<1>1. WasCleared(r, q, i, g)
  BY <1>0, ClearSlot
<1>2. /\ Counted(q, count - 1, size - Bytes1(r[i].body))
      /\ count - 1 \in Nat /\ size - Bytes1(r[i].body) \in Nat
  BY <1>0, ClearCounts
<1>3. id \in DOMAIN O /\ O[id].sent = r[i].sent
  <2>1. r[i].id \in DOMAIN OutgoingIn(r) /\ OutgoingIn(r)[r[i].id] = [body |-> r[i].body, sent |-> r[i].sent]
    BY <1>0, OutgoingOfSlot, Zenon
  <2> QED
    BY <2>1
<1>4. SentBefore(O[id], a)
  BY <1>3 DEF SentBefore
<1>5. DOMAIN P = DOMAIN O \ {id} /\ \A e \in DOMAIN P : P[e] = O[e]
  BY <1>1, Zenon DEF WasCleared
<1>6. Moved(b.R, a, b.n, b.x, P, k) /\ id \in DOMAIN b.R
  <2> HIDE DEF O, P, id, k
  <2>1. Loses(O, P, id)
    BY <1>5 DEF Loses
  <2> QED
    BY <1>0, <1>3, <1>4, <2>1, MovedFrees
<1>7. Freed(q, b)
  BY <1>5, <1>6, Zenon DEF Freed
<1>8. Good(q, g)
  BY <1>1, Zenon DEF WasCleared
<1> QED
  BY <1>0, <1>1, <1>2, <1>6, <1>7, <1>8, Zenon DEF InMove

LEMMA FillKeepsMove ==
  ASSUME NEW r, NEW count, NEW size, NEW queue, NEW g, NEW a, NEW b,
         InMove(r, count, size, queue, g, a, b), count < MAXMSG, QueueFits(queue, size),
         NEW i \in Slots \ UsedIn(r), NEW q, OneSet(r, q, i, NewRecord(g, Head(queue)))
  PROVE  /\ InMove(q, count + 1, size + Bytes1(Head(queue)), Tail(queue), g + 1, a, b)
         /\ WasSet(r, q, i, g, Head(queue))
         /\ Freed(q, b) <=> Freed(r, b)
<1> DEFINE O == OutgoingIn(r)
           P == OutgoingIn(q)
           m == Head(queue)
           k == g - b.n
<1>0. /\ Good(r, g) /\ Counted(r, count, size)
      /\ count \in Nat /\ size \in Nat /\ g \in Nat \ {0}
      /\ b.n \in Nat \ {0} /\ b.x \in Seq(Message) /\ DOMAIN b.R \subseteq 1 .. (b.n - 1)
      /\ Moved(b.R, a, b.n, b.x, O, k)
      /\ queue = RestOf(b.x, k)
  BY DEF InMove
<1>1. /\ k \in 0 .. Len(b.x) /\ k < Len(b.x) /\ m = b.x[k + 1] /\ m \in Message
      /\ Tail(queue) = RestOf(b.x, k + 1)
  <2>1. k \in 0 .. Len(b.x)
    BY <1>0 DEF Moved
  <2>2. queue # <<>>
    BY DEF QueueFits
  <2> HIDE DEF k
  <2>3. RestOf(b.x, k) # <<>>
    BY <1>0, <2>2
  <2>4. /\ k < Len(b.x) /\ Head(RestOf(b.x, k)) = b.x[k + 1] /\ b.x[k + 1] \in Message
        /\ Tail(RestOf(b.x, k)) = RestOf(b.x, k + 1)
    BY <1>0, <2>1, <2>3, RestOfQueue
  <2> QED
    BY <1>0, <2>1, <2>4, Zenon
<1>2. HasRoom(O, b.x[k + 1])
  <2>1. FitsBy(size, m)
    BY DEF QueueFits
  <2>2. HasRoom(OutgoingIn(r), m)
    BY <1>0, <2>1, RoomByCounters
  <2> QED
    BY <1>1, <2>2, Zenon
<1>3. WasSet(r, q, i, g, m)
  BY <1>0, <1>1, SetSlot, Zenon
<1>4. Counted(q, count + 1, size + Bytes1(m)) /\ Bytes1(m) \in Nat
  BY <1>0, <1>1, SetCounts, Zenon
<1>5. /\ Good(q, g + 1) /\ DOMAIN P = DOMAIN O \cup {g}
      /\ P[g] = [body |-> m, sent |-> 0] /\ \A e \in DOMAIN O : P[e] = O[e]
  BY <1>3, Zenon DEF WasSet
<1>6. Sized(O)
  BY <1>0, OutgoingIsSized
<1>7. k \in Nat /\ b.n + k = g /\ k + 1 = (g + 1) - b.n
  <2>1. b.n \in Nat /\ g \in Nat /\ k \in Nat
    BY <1>0, <1>1
  <2> QED
    BY <2>1
<1>8. Moved(b.R, a, b.n, b.x, P, k + 1)
  <2>1. DOMAIN P = DOMAIN O \cup {b.n + k} /\ P[b.n + k] = [body |-> b.x[k + 1], sent |-> 0]
    BY <1>1, <1>5, <1>7, Zenon
  <2> HIDE DEF O, P, m, k
  <2> QED
    BY <1>0, <1>1, <1>2, <1>5, <1>6, <2>1, MovedAdds
<1>9. Freed(q, b) <=> Freed(r, b)
  <2>1. g \notin DOMAIN b.R
    BY <1>0, <1>7
  <2> QED
    BY <1>5, <2>1 DEF Freed
<1>10. count + 1 \in Nat /\ size + Bytes1(m) \in Nat /\ g + 1 \in Nat \ {0}
  BY <1>0, <1>4
<1>11. Moved(b.R, a, b.n, b.x, P, (g + 1) - b.n) /\ Tail(queue) = RestOf(b.x, (g + 1) - b.n)
  <2> HIDE DEF P, k
  <2> QED
    BY <1>1, <1>7, <1>8
<1>12. InMove(q, count + 1, size + Bytes1(m), Tail(queue), g + 1, a, b)
  <2> DEFINE s == size + Bytes1(m)
             y == Tail(queue)
             h == g + 1
             d == count + 1
  <2>1. Good(q, h) /\ Counted(q, d, s) /\ d \in Nat /\ s \in Nat /\ h \in Nat \ {0}
    BY <1>4, <1>5, <1>10, Zenon
  <2>2. Moved(b.R, a, b.n, b.x, OutgoingIn(q), h - b.n) /\ y = RestOf(b.x, h - b.n)
    BY <1>11
  <2>3. InMove(q, d, s, y, h, a, b)
    BY <1>0, <2>1, <2>2, Zenon DEF InMove
  <2> QED
    BY <2>3 DEF s, y, h, d
<1> QED
  BY <1>3, <1>9, <1>12, Zenon

(* While there is room, slots that are not yet used are ahead.                    *)
LEMMA SlotsAhead ==
  ASSUME NEW r, NEW count, NEW size, NEW queue, Counted(r, count, size),
         FillMore(count, queue, size), NEW rel \in Slots, 0 .. rel \subseteq UsedIn(r)
  PROVE  rel + 1 < MAXMSG
<1>1. PICK j \in Slots : j \notin UsedIn(r)
  BY FreeSlots DEF FillMore
<1>2. j \notin 0 .. rel
  BY <1>1
<1> QED
  BY <1>1, <1>2, SlotAssumption DEF Slots

LoopTypes == [at : {"unlocked", "scan", "fill"}, i : Slots \cup {MAXMSG}, rel : Slots, ack : Nat]

(* In the loop the invariant follows from what a step keeps and where it is.      *)
LEMMA MoveInvariant ==
  ASSUME NEW a,
         InMove(reliable', reliable_count', reliable_size', extra_reliables',
                idgen_reliable_send', a, before'),
         loop' \in LoopTypes, loop'.ack = a, loop'.at # "unlocked",
         idgen_packet_send' \in Nat \ {0}, Freed(reliable', before'),
         \A i \in UsedIn(reliable') : SentBefore(reliable'[i], a) => loop'.i <= i,
         loop'.at = "fill" <=> FillMore(reliable_count', extra_reliables', reliable_size'),
         loop'.at = "fill" => /\ loop'.i \in UsedIn(reliable')
                              /\ ~SentBefore(reliable'[loop'.i], a)
                              /\ 0 .. (loop'.rel - 1) \subseteq UsedIn(reliable')
  PROVE  IInv'
<1>1. /\ Good(reliable', idgen_reliable_send') /\ Counted(reliable', reliable_count', reliable_size')
      /\ reliable_count' \in Nat /\ reliable_size' \in Nat /\ idgen_reliable_send' \in Nat \ {0}
      /\ before'.n \in Nat \ {0} /\ before'.x \in Seq(Message)
      /\ DOMAIN before'.R \subseteq 1 .. (before'.n - 1)
      /\ Moved(before'.R, a, before'.n, before'.x, OutgoingIn(reliable'),
               idgen_reliable_send' - before'.n)
      /\ extra_reliables' = RestOf(before'.x, idgen_reliable_send' - before'.n)
  BY Zenon DEF InMove
<1>2. extra_reliables' \in Seq(Message)
  <2>1. idgen_reliable_send' - before'.n \in 0 .. Len(before'.x)
    BY <1>1 DEF Moved
  <2>2. RestOf(before'.x, idgen_reliable_send' - before'.n) \in Seq(Message)
    BY <1>1, <2>1 DEF RestOf
  <2> QED
    BY <1>1, <2>2, Zenon
<1>3. reliable' \in [Slots -> Record \cup {Unused}]
  BY <1>1 DEF Good
<1>4. TypeOK'
  BY <1>1, <1>2, <1>3 DEF TypeOK, LoopTypes, Record, Slots
<1>5. InLoop(reliable', reliable_count', reliable_size', extra_reliables',
             idgen_reliable_send', loop', before')
  BY <1>1, Zenon DEF InLoop, Freed, RestOf
<1> QED
  BY <1>1, <1>4, <1>5, AfterStep

(* What a step in the loop starts from.                                           *)
LEMMA InMoveNow ==
  ASSUME IInv, loop.at # "unlocked"
  PROVE  /\ InMove(reliable, reliable_count, reliable_size, extra_reliables,
                   idgen_reliable_send, loop.ack, before)
         /\ loop \in LoopTypes /\ idgen_packet_send \in Nat \ {0}
         /\ \A i \in UsedIn(reliable) : SentBefore(reliable[i], loop.ack) => loop.i <= i
         /\ loop.at = "fill" =>
              /\ Freed(reliable, before)
              /\ FillMore(reliable_count, extra_reliables, reliable_size)
              /\ loop.i \in UsedIn(reliable) /\ ~SentBefore(reliable[loop.i], loop.ack)
              /\ 0 .. (loop.rel - 1) \subseteq UsedIn(reliable)
         /\ ~Freed(reliable, before) => idgen_reliable_send - before.n = 0
         /\ loop.at = "scan" /\ Freed(reliable, before) =>
              ~FillMore(reliable_count, extra_reliables, reliable_size)
<1>1. /\ TypeOK /\ Good(reliable, idgen_reliable_send)
      /\ Counted(reliable, reliable_count, reliable_size)
      /\ InLoop(reliable, reliable_count, reliable_size, extra_reliables,
                idgen_reliable_send, loop, before)
  BY AtStep
<1>2. /\ loop \in LoopTypes /\ idgen_packet_send \in Nat \ {0}
      /\ reliable_count \in Nat /\ reliable_size \in Nat /\ idgen_reliable_send \in Nat \ {0}
  BY <1>1 DEF TypeOK, LoopTypes
<1>3. "scan" # "fill"
  OBVIOUS
<1> QED
  BY <1>1, <1>2, <1>3, Zenon DEF InLoop, InMove, Freed, RestOf

LEMMA FreeSlotStep ==
  ASSUME IInv, FreeSlot
  PROVE  IInv'
<1> DEFINE i == loop.i
           a == loop.ack
           g == idgen_reliable_send
           q == [reliable EXCEPT ![i] = Unused]
           c == reliable_count - 1
           size == reliable_size - Bytes1(reliable[i].body)
           queue == extra_reliables
           m == Head(queue)
<1>0. /\ loop.at = "scan" /\ i \in UsedIn(reliable) /\ SentBefore(reliable[i], a)
      /\ UNCHANGED <<idgen_packet_send, before>> /\ i \in Slots /\ i \in Nat
  <2>1. Used = UsedIn(reliable)
    BY InArrays
  <2> QED
    BY <2>1, SlotAssumption DEF FreeSlot, UsedIn, Slots
<1>1. /\ InMove(reliable, reliable_count, reliable_size, queue, g, a, before)
      /\ loop \in LoopTypes /\ idgen_packet_send \in Nat \ {0}
      /\ \A j \in UsedIn(reliable) : SentBefore(reliable[j], a) => i <= j
  BY <1>0, InMoveNow
<1>2. OneSet(reliable, q, i, Unused)
  BY DEF OneSet
<1>3. InMove(q, c, size, queue, g, a, before) /\ WasCleared(reliable, q, i, g) /\ Freed(q, before)
  <2> HIDE DEF q, i, a
  <2> QED
    BY <1>0, <1>1, <1>2, FreeKeepsMove
<1>4. UsedIn(q) = UsedIn(reliable) \ {i} /\ \A j \in UsedIn(q) : q[j] = reliable[j]
  <2> HIDE DEF q, i
  <2> QED
    BY <1>3, Zenon DEF WasCleared
<1>5. \A j \in UsedIn(q) : SentBefore(q[j], a) => i + 1 <= j
  <2> SUFFICES ASSUME NEW j \in UsedIn(q), SentBefore(q[j], a) PROVE i + 1 <= j
    OBVIOUS
  <2> HIDE DEF q
  <2>1. j \in UsedIn(reliable) /\ q[j] = reliable[j] /\ j # i
    BY <1>4
  <2>2. i <= j /\ j \in Nat
    BY <1>1, <2>1, SlotAssumption DEF UsedIn, Slots
  <2> QED
    BY <1>0, <2>1, <2>2
<1>6. /\ NextSlot.at = "scan" /\ NextSlot.i = i + 1 /\ NextSlot.ack = a
      /\ NextSlot \in LoopTypes
  <2>1. TypeOK
    BY AtStep
  <2> QED
    BY <1>0, <2>1, NextSlotType DEF LoopTypes
<1>a. TypeOK /\ reliable_count \in Nat /\ reliable_count <= MAXMSG /\ c < MAXMSG
  <2>1. Counted(reliable, reliable_count, reliable_size) /\ TypeOK
    BY AtStep
  <2> QED
    BY <2>1, FreeSlots, SlotAssumption
<1>7. CASE ~QueueFits(queue, size)
  <2>1. /\ reliable' = q /\ reliable_size' = size /\ reliable_count' = c /\ loop' = NextSlot
        /\ UNCHANGED <<extra_reliables, idgen_reliable_send>>
    BY <1>7 DEF FreeSlot
  <2>2. ~FillMore(reliable_count', extra_reliables', reliable_size')
    BY <1>7, <2>1 DEF FillMore
  <2>3. loop'.at = "scan" /\ loop'.i = i + 1 /\ loop'.ack = a /\ loop' \in LoopTypes
    BY <1>6, <2>1
  <2>4. /\ InMove(reliable', reliable_count', reliable_size', extra_reliables',
                  idgen_reliable_send', a, before')
        /\ Freed(reliable', before')
        /\ \A j \in UsedIn(reliable') : SentBefore(reliable'[j], a) => loop'.i <= j
    <3> HIDE DEF q, c, size, a, i
    <3> QED
      BY <1>0, <1>3, <1>5, <2>1, <2>3
  <2>5. idgen_packet_send' \in Nat \ {0}
    BY <1>0, <1>1
  <2> HIDE DEF q, c, size, a, i
  <2> QED
    BY <2>2, <2>3, <2>4, <2>5, MoveInvariant
<1>8. CASE QueueFits(queue, size)
  <2>1. /\ reliable' = [reliable EXCEPT ![i] = NewRecord(g, m)]
        /\ reliable_size' = size + Bytes1(m) /\ reliable_count' = reliable_count
        /\ extra_reliables' = Tail(queue) /\ idgen_reliable_send' = g + 1
        /\ loop' = IF FillMore(reliable_count, extra_reliables', reliable_size')
                   THEN [loop EXCEPT !.at = "fill", !.rel = 0] ELSE NextSlot
    BY <1>8 DEF FreeSlot
  <2>2. OneSet(q, reliable', i, NewRecord(g, m))
    <3>1. reliable \in [Slots -> Record \cup {Unused}]
      BY <1>a DEF TypeOK, Record
    <3> QED
      BY <1>0, <2>1, <3>1 DEF OneSet
  <2>3. i \in Slots \ UsedIn(q) /\ c + 1 = reliable_count
    <3>1. i \notin UsedIn(q)
      <4> HIDE DEF q, i
      <4> QED
        BY <1>4
    <3>2. c + 1 = reliable_count
      BY <1>a
    <3> HIDE DEF q, c, i
    <3> QED
      BY <1>0, <3>1, <3>2
  <2>4. /\ InMove(reliable', c + 1, size + Bytes1(m), Tail(queue), g + 1, a, before)
        /\ WasSet(q, reliable', i, g, m) /\ Freed(reliable', before)
    <3> HIDE DEF q, c, size, a, i
    <3> QED
      BY <1>3, <1>8, <1>a, <2>2, <2>3, FillKeepsMove
  <2>5. InMove(reliable', reliable_count', reliable_size', extra_reliables',
               idgen_reliable_send', a, before') /\ Freed(reliable', before')
    <3> HIDE DEF q, c, size, a, i
    <3> QED
      BY <1>0, <2>1, <2>3, <2>4
  <2>6. /\ UsedIn(reliable') = UsedIn(q) \cup {i} /\ reliable'[i] = NewRecord(g, m)
        /\ \A j \in UsedIn(q) : reliable'[j] = q[j]
    <3> HIDE DEF q, i
    <3> QED
      BY <2>4, Zenon DEF WasSet
  <2>7. ~SentBefore(reliable'[i], a)
    BY <2>6 DEF SentBefore, NewRecord
  <2>8. \A j \in UsedIn(reliable') : SentBefore(reliable'[j], a) => i + 1 <= j
    <3> HIDE DEF q, i, a
    <3> QED
      BY <1>5, <2>6, <2>7
  <2>9. idgen_packet_send' \in Nat \ {0}
    BY <1>0, <1>1
  <2>10. CASE FillMore(reliable_count, extra_reliables', reliable_size')
    <3>1. /\ loop'.at = "fill" /\ loop'.i = i /\ loop'.ack = a /\ loop'.rel = 0
          /\ loop' \in LoopTypes
      <4>1. loop' = [loop EXCEPT !.at = "fill", !.rel = 0]
        BY <2>1, <2>10
      <4>2. 0 \in Slots
        BY SlotAssumption DEF Slots
      <4> QED
        BY <1>1, <4>1, <4>2 DEF LoopTypes
    <3>2. 0 .. (loop'.rel - 1) = {} /\ i \in UsedIn(reliable')
      BY <2>6, <3>1
    <3>3. \A j \in UsedIn(reliable') : SentBefore(reliable'[j], a) => i <= j
      <4> SUFFICES ASSUME NEW j \in UsedIn(reliable'), SentBefore(reliable'[j], a) PROVE i <= j
        OBVIOUS
      <4>1. i + 1 <= j /\ j \in Nat
        BY <2>8, SlotAssumption DEF UsedIn, Slots
      <4> QED
        BY <1>0, <4>1
    <3> HIDE DEF q, c, size, a, i
    <3> QED
      BY <2>1, <2>5, <2>7, <2>9, <2>10, <3>1, <3>2, <3>3, MoveInvariant
  <2>11. CASE ~FillMore(reliable_count, extra_reliables', reliable_size')
    <3>1. loop'.at = "scan" /\ loop'.i = i + 1 /\ loop'.ack = a /\ loop' \in LoopTypes
      BY <1>6, <2>1, <2>11
    <3> HIDE DEF q, c, size, a, i
    <3> QED
      BY <2>1, <2>5, <2>8, <2>9, <2>11, <3>1, MoveInvariant
  <2> QED
    BY <2>10, <2>11
<1> QED
  BY <1>7, <1>8

LEMMA FillSlotStep ==
  ASSUME IInv, FillSlot
  PROVE  IInv'
<1> DEFINE i == loop.i
           a == loop.ack
           rel == loop.rel
           g == idgen_reliable_send
           queue == extra_reliables
           m == Head(queue)
           next == IF rel + 1 < MAXMSG THEN [loop EXCEPT !.rel = rel + 1] ELSE NextSlot
<1>0. /\ loop.at = "fill" /\ UNCHANGED <<idgen_packet_send, before>>
  BY DEF FillSlot
<1>1. /\ InMove(reliable, reliable_count, reliable_size, queue, g, a, before)
      /\ loop \in LoopTypes /\ idgen_packet_send \in Nat \ {0}
      /\ \A j \in UsedIn(reliable) : SentBefore(reliable[j], a) => i <= j
      /\ Freed(reliable, before) /\ FillMore(reliable_count, queue, reliable_size)
      /\ i \in UsedIn(reliable) /\ ~SentBefore(reliable[i], a)
      /\ 0 .. (rel - 1) \subseteq UsedIn(reliable)
  BY <1>0, InMoveNow
<1>2. i \in Slots /\ i \in Nat /\ rel \in Slots /\ rel \in Nat /\ TypeOK /\ Used = UsedIn(reliable)
  <2>1. i \in Slots /\ rel \in Slots
    BY <1>1 DEF UsedIn, LoopTypes
  <2> QED
    BY <2>1, AtStep, InArrays, SlotAssumption DEF Slots
<1>3. /\ NextSlot.at = "scan" /\ NextSlot.i = i + 1 /\ NextSlot.ack = a
      /\ NextSlot \in LoopTypes
  BY <1>2, NextSlotType DEF LoopTypes
<1>4. ASSUME rel + 1 < MAXMSG
      PROVE  /\ next.at = "fill" /\ next.i = i /\ next.ack = a /\ next.rel = rel + 1
             /\ next \in LoopTypes
  <2>1. rel + 1 \in Slots
    BY <1>2, <1>4, SlotAssumption DEF Slots
  <2> QED
    BY <1>0, <1>1, <1>4, <2>1 DEF LoopTypes
<1>5. 0 .. rel = 0 .. (rel - 1) \cup {rel}
  BY <1>2
<1>6. CASE rel \in UsedIn(reliable)
  <2>1. /\ loop' = next
        /\ UNCHANGED <<reliable, reliable_count, reliable_size, extra_reliables,
                       idgen_reliable_send>>
    BY <1>2, <1>6 DEF FillSlot
  <2>2. 0 .. rel \subseteq UsedIn(reliable)
    BY <1>1, <1>5, <1>6
  <2>3. rel + 1 < MAXMSG
    <3>1. Counted(reliable, reliable_count, reliable_size)
      BY AtStep
    <3> QED
      BY <1>1, <1>2, <2>2, <3>1, SlotsAhead
  <2>4. /\ loop'.at = "fill" /\ loop'.i = i /\ loop'.ack = a /\ loop'.rel = rel + 1
        /\ loop' \in LoopTypes /\ loop'.rel - 1 = rel
    BY <1>2, <1>4, <2>1, <2>3
  <2> HIDE DEF i, a, rel, next
  <2> QED
    BY <1>0, <1>1, <2>1, <2>2, <2>4, MoveInvariant
<1>7. CASE rel \notin UsedIn(reliable)
  <2>1. /\ reliable' = [reliable EXCEPT ![rel] = NewRecord(g, m)]
        /\ reliable_count' = reliable_count + 1
        /\ reliable_size' = reliable_size + Bytes1(m)
        /\ extra_reliables' = Tail(queue) /\ idgen_reliable_send' = g + 1
        /\ loop' = IF FillMore(reliable_count', extra_reliables', reliable_size')
                   THEN next ELSE NextSlot
    BY <1>2, <1>7 DEF FillSlot
  <2>2. OneSet(reliable, reliable', rel, NewRecord(g, m)) /\ rel \in Slots \ UsedIn(reliable)
        /\ reliable_count < MAXMSG /\ QueueFits(queue, reliable_size)
    BY <1>1, <1>2, <1>7, <2>1 DEF OneSet, FillMore
  <2>3. /\ InMove(reliable', reliable_count + 1, reliable_size + Bytes1(m), Tail(queue), g + 1,
                  a, before)
        /\ WasSet(reliable, reliable', rel, g, m) /\ Freed(reliable', before)
    <3> HIDE DEF rel, a
    <3> QED
      BY <1>1, <2>2, FillKeepsMove
  <2>4. InMove(reliable', reliable_count', reliable_size', extra_reliables',
               idgen_reliable_send', a, before') /\ Freed(reliable', before')
    <3> HIDE DEF rel, a
    <3> QED
      BY <1>0, <2>1, <2>3
  <2>5. /\ UsedIn(reliable') = UsedIn(reliable) \cup {rel} /\ reliable'[rel] = NewRecord(g, m)
        /\ \A j \in UsedIn(reliable) : reliable'[j] = reliable[j]
    <3> HIDE DEF rel
    <3> QED
      BY <2>3, Zenon DEF WasSet
  <2>6. ~SentBefore(reliable'[rel], a) /\ i \in UsedIn(reliable') /\ ~SentBefore(reliable'[i], a)
    BY <1>1, <2>5 DEF SentBefore, NewRecord
  <2>7. \A j \in UsedIn(reliable') : SentBefore(reliable'[j], a) => i + 1 <= j
    <3> SUFFICES ASSUME NEW j \in UsedIn(reliable'), SentBefore(reliable'[j], a) PROVE i + 1 <= j
      OBVIOUS
    <3>1. j # rel /\ j # i
      BY <2>6
    <3>2. j \in UsedIn(reliable) /\ SentBefore(reliable[j], a)
      BY <2>5, <3>1
    <3>3. i <= j /\ j \in Nat
      BY <1>1, <3>2, SlotAssumption DEF UsedIn, Slots
    <3> QED
      BY <1>2, <3>1, <3>3
  <2>8. idgen_packet_send' \in Nat \ {0}
    BY <1>0, <1>1
  <2>9. CASE FillMore(reliable_count', extra_reliables', reliable_size')
    <3>1. 0 .. rel \subseteq UsedIn(reliable')
      BY <1>1, <1>5, <2>5
    <3>2. Counted(reliable', reliable_count', reliable_size')
      BY <2>4 DEF InMove
    <3>3. rel + 1 < MAXMSG
      BY <1>2, <2>9, <3>1, <3>2, SlotsAhead
    <3>4. /\ loop'.at = "fill" /\ loop'.i = i /\ loop'.ack = a /\ loop'.rel = rel + 1
          /\ loop' \in LoopTypes /\ loop'.rel - 1 = rel
      BY <1>2, <1>4, <2>1, <2>9, <3>3
    <3>5. \A j \in UsedIn(reliable') : SentBefore(reliable'[j], a) => i <= j
      <4> SUFFICES ASSUME NEW j \in UsedIn(reliable'), SentBefore(reliable'[j], a) PROVE i <= j
        OBVIOUS
      <4>1. i + 1 <= j /\ j \in Nat
        BY <2>7, SlotAssumption DEF UsedIn, Slots
      <4> QED
        BY <1>2, <4>1
    <3> HIDE DEF i, a, rel, next
    <3> QED
      BY <2>4, <2>6, <2>8, <2>9, <3>1, <3>4, <3>5, MoveInvariant
  <2>10. CASE ~FillMore(reliable_count', extra_reliables', reliable_size')
    <3>1. loop'.at = "scan" /\ loop'.i = i + 1 /\ loop'.ack = a /\ loop' \in LoopTypes
      BY <1>3, <2>1, <2>10
    <3> HIDE DEF i, a, rel, next
    <3> QED
      BY <2>4, <2>7, <2>8, <2>10, <3>1, MoveInvariant
  <2> QED
    BY <2>9, <2>10
<1> QED
  BY <1>6, <1>7

LEMMA NextPreservesIInv == IInv /\ [Next]_vars => IInv'
<1> SUFFICES ASSUME IInv, [Next]_vars PROVE IInv'
  OBVIOUS
<1>1. CASE UNCHANGED vars
  <2>1. /\ UNCHANGED <<reliable, reliable_count, reliable_size, extra_reliables>>
        /\ UNCHANGED <<idgen_reliable_send, idgen_packet_send, loop, before>>
    BY <1>1 DEF vars
  <2>2. TypeOK'
    BY <2>1, AtStep DEF TypeOK, Slots
  <2> QED
    BY <2>1, <2>2, AtStep, AfterStep
<1>2. CASE \E m \in Message : Writer(m)
  BY <1>2, WriterStep
<1>3. CASE SendPacket
  BY <1>3, SendPacketStep
<1>4. CASE \E a \in 0 .. (idgen_packet_send - 1) : BeginAck(a)
  BY <1>4, BeginAckStep
<1>5. CASE KeepSlot
  BY <1>5, KeepSlotStep
<1>6. CASE FreeSlot
  BY <1>6, FreeSlotStep
<1>7. CASE FillSlot
  BY <1>7, FillSlotStep
<1>8. CASE EndAck
  BY <1>8, EndAckStep
<1> QED
  BY <1>1, <1>2, <1>3, <1>4, <1>5, <1>6, <1>7, <1>8 DEF Next

(* The inductive invariant holds in every reachable state.                        *)
THEOREM Invariance == Spec => []IInv
BY InitEstablishesIInv, NextPreservesIInv, PTL DEF Spec

(* reliable_count and reliable_size, kept by hand in writer and in both levels of *)
(* the ack loop, agree with the slots in every state.                             *)
THEOREM CountersAreRight == Spec => []CountersMatchSlots
<1>1. IInv => CountersMatchSlots
  BY DEF IInv
<1> QED
  BY <1>1, Invariance, PTL

LEMMA LoopEnds == IInv => LoopReleasesAcked
<1> SUFFICES ASSUME IInv, loop.at = "scan", loop.i = MAXMSG
             PROVE  LET R == Unacked(before.R, loop.ack) IN
               \E k \in 0 .. Len(before.x) :
                 /\ IF DOMAIN R = DOMAIN before.R THEN k = 0 ELSE FillsTo(R, before.n, before.x, k)
                 /\ Outgoing = AddFirst(R, before.n, before.x, k)
                 /\ idgen_reliable_send = before.n + k
                 /\ extra_reliables = SubSeq(before.x, k + 1, Len(before.x))
  BY DEF LoopReleasesAcked
<1> DEFINE B == before.R
           a == loop.ack
           n == before.n
           x == before.x
           O == OutgoingIn(reliable)
           g == idgen_reliable_send
           k == g - n
           R == Unacked(B, a)
<1>1. /\ InMove(reliable, reliable_count, reliable_size, extra_reliables, g, a, before)
      /\ \A i \in UsedIn(reliable) : SentBefore(reliable[i], a) => loop.i <= i
      /\ ~Freed(reliable, before) => k = 0
      /\ Freed(reliable, before) => ~FillMore(reliable_count, extra_reliables, reliable_size)
  BY InMoveNow
<1>2. /\ Good(reliable, g) /\ Counted(reliable, reliable_count, reliable_size)
      /\ g \in Nat \ {0} /\ n \in Nat \ {0} /\ x \in Seq(Message) /\ DOMAIN B \subseteq 1 .. (n - 1)
      /\ Moved(B, a, n, x, O, k) /\ extra_reliables = RestOf(x, k)
  BY <1>1, Zenon DEF InMove
<1>3. k \in 0 .. Len(x) /\ g = n + k /\ k \in Nat
  BY <1>2 DEF Moved
<1>4. \A id \in DOMAIN O : ~SentBefore(O[id], a)
  <2> SUFFICES ASSUME NEW id \in DOMAIN O, SentBefore(O[id], a) PROVE FALSE
    OBVIOUS
  <2>1. PICK i \in UsedIn(reliable) : reliable[i].id = id
    BY SlotOfOutgoing
  <2>2. O[id] = [body |-> reliable[i].body, sent |-> reliable[i].sent]
    BY <1>2, <2>1, OutgoingOfSlot
  <2>3. SentBefore(reliable[i], a)
    BY <2>2 DEF SentBefore
  <2>4. MAXMSG <= i /\ i \in 0 .. (MAXMSG - 1)
    BY <1>1, <2>3 DEF UsedIn, Slots
  <2> QED
    BY <2>4, SlotAssumption
<1>5. O = [id \in DOMAIN O |-> O[id]]
  BY DEF OutgoingIn
<1>6. O = AddFirst(R, n, x, k)
  <2> HIDE DEF O, B, a, n, x, k
  <2> QED
    BY <1>2, <1>4, <1>5, MovedAll
<1>7. CASE DOMAIN R = DOMAIN B
  <2>1. ~Freed(reliable, before)
    BY <1>2, <1>7 DEF Freed, Moved
  <2> QED
    BY <1>1, <1>2, <1>3, <1>6, <1>7, <2>1, InArrays DEF RestOf
<1>8. CASE DOMAIN R # DOMAIN B
  <2>1. Freed(reliable, before)
    <3>1. PICK id \in DOMAIN B : SentBefore(B[id], a)
      BY <1>8 DEF Unacked
    <3>2. id \notin DOMAIN O
      <4> SUFFICES ASSUME id \in DOMAIN O PROVE FALSE
        OBVIOUS
      <4>1. id \notin n .. (n + k - 1)
        BY <1>2
      <4>2. O[id] = B[id]
        BY <1>2, <4>1 DEF Moved
      <4> QED
        BY <1>4, <3>1, <4>2
    <3> QED
      BY <3>1, <3>2 DEF Freed
  <2>2. ASSUME k < Len(x) PROVE ~HasRoom(AddFirst(R, n, x, k), x[k + 1])
    <3>1. RestOf(x, k) # <<>> /\ Head(RestOf(x, k)) = x[k + 1]
      BY <1>2, <1>3, <2>2, RestOfQueue
    <3>2. ~(reliable_count < MAXMSG /\ FitsBy(reliable_size, x[k + 1]))
      <4>1. extra_reliables # <<>> /\ Head(extra_reliables) = x[k + 1]
        BY <1>2, <3>1
      <4> QED
        BY <1>1, <2>1, <4>1, Zenon DEF FillMore, QueueFits
    <3>3. ~HasRoom(OutgoingIn(reliable), x[k + 1])
      BY <1>2, <3>2, RoomByCounters
    <3> QED
      BY <1>6, <3>3, Zenon
  <2>3. FillsTo(R, n, x, k)
    BY <1>2, <2>2 DEF FillsTo, Moved
  <2> QED
    BY <1>2, <1>3, <1>6, <1>8, <2>3, InArrays DEF RestOf
<1> QED
  BY <1>7, <1>8

(* However acks, slots and the queue fall together, the loop that frees and       *)
(* refills the slots one by one ends where ReleaseAcked of Rudp does in one step. *)
THEOREM LoopIsReleaseAcked == Spec => []LoopReleasesAcked
BY LoopEnds, Invariance, PTL
================================================================================
