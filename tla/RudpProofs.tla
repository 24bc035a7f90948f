------------------------------- MODULE RudpProofs -------------------------------
(* Proofs about Rudp for every number of slots, window, packet size and bound.   *)
EXTENDS Rudp, RudpOutgoingProofs

(* Two ids less than a window apart never share a slot of the circular buffer.   *)
LEMMA IndexInjective ==
  ASSUME NEW c \in Nat \ {0}, NEW i \in Nat, NEW j \in Nat,
         c <= i, i < c + MAX_INCOMING_MESSAGES,
         c <= j, j < c + MAX_INCOMING_MESSAGES,
         Index(i) = Index(j)
  PROVE  i = j
<1> DEFINE W == MAX_INCOMING_MESSAGES
<1>1. W \in Nat \ {0}
  BY CapacityAssumption
<1> HIDE DEF W
<1>2. /\ i - 1 = W * ((i - 1) \div W) + ((i - 1) % W)
      /\ j - 1 = W * ((j - 1) \div W) + ((j - 1) % W)
  BY <1>1
<1>3. (i - 1) % W = (j - 1) % W
  BY DEF Index, W
<1> DEFINE q == (i - 1) \div W  r == (j - 1) \div W
<1>4. q \in Int /\ r \in Int
  BY <1>1
<1>5. i - j = W * (q - r)
  <2> HIDE DEF q, r
  <2>1. i - j = W * q - W * r
    BY <1>2, <1>3, <1>1, <1>4, SMT DEF q, r
  <2> QED
    BY <2>1, <1>1, <1>4
<1>6. -W < i - j /\ i - j < W
  BY <1>1 DEF W
<1> HIDE DEF q, r
<1>7. q - r = 0
  BY <1>1, <1>4, <1>5, <1>6
<1>. QED
  BY <1>1, <1>4, <1>5, <1>7

(* An id's slot exists.                                                          *)
LEMMA IndexType ==
  ASSUME NEW i \in Nat \ {0}
  PROVE  Index(i) \in 0 .. (MAX_INCOMING_MESSAGES - 1)
BY CapacityAssumption DEF Index

--------------------------------------------------------------------------------
(* Operators on the outgoing slots.                                              *)

LEMMA PeerType ==
  \A s \in Station : Peer[s] \in Station /\ Peer[s] # s /\ Peer[Peer[s]] = s
BY StationAssumption

(* The slots never exceed MAXMSG, however many messages the queue moves.         *)
LEMMA FillsToCapacity ==
  ASSUME NEW R, IsFiniteSet(DOMAIN R), Cardinality(DOMAIN R) <= MAXMSG,
         NEW n \in Nat \ {0}, NEW x, NEW k \in Nat,
         \A j \in 0 .. (k - 1) : HasRoom(AddFirst(R, n, x, j), x[j + 1])
  PROVE  Cardinality(DOMAIN AddFirst(R, n, x, k)) <= MAXMSG
<1>1. CASE k = 0
  <2>1. n .. (n + k - 1) = {}
    BY <1>1
  <2>2. DOMAIN AddFirst(R, n, x, k) = DOMAIN R \cup n .. (n + k - 1)
    BY DEF AddFirst
  <2> QED
    BY <2>1, <2>2
<1>2. CASE k # 0
  <2> DEFINE D == DOMAIN AddFirst(R, n, x, k - 1)
  <2>1. D = DOMAIN R \cup n .. (n + (k - 1) - 1)
    BY DEF AddFirst
  <2>a. n .. (n + k - 1) = n .. (n + (k - 1) - 1) \cup {n + k - 1}
    BY <1>2
  <2>b. DOMAIN AddFirst(R, n, x, k) = DOMAIN R \cup n .. (n + k - 1)
    BY DEF AddFirst
  <2>2. DOMAIN AddFirst(R, n, x, k) = D \cup {n + k - 1}
    BY <2>1, <2>a, <2>b
  <2>3. IsFiniteSet(n .. (n + (k - 1) - 1))
    BY <1>2, FS_Interval
  <2>4. IsFiniteSet(D)
    BY <2>1, <2>3, FS_Union
  <2>5. HasRoom(AddFirst(R, n, x, k - 1), x[k - 1 + 1])
    BY <1>2
  <2>6. Cardinality(D) < MAXMSG
    BY <2>5 DEF HasRoom
  <2> HIDE DEF D
  <2>7. Cardinality(D) \in Nat
    BY <2>4, FS_CardinalityType
  <2>8. Cardinality(D \cup {n + k - 1}) \in {Cardinality(D), Cardinality(D) + 1}
    BY <2>4, FS_AddElement, Zenon
  <2> QED
    BY <2>2, <2>6, <2>7, <2>8, CapacityAssumption
<1> QED
  BY <1>1, <1>2

--------------------------------------------------------------------------------
(* Consequences of the inductive invariant.                                      *)

LEMMA SlotsAreFinite ==
  ASSUME TypeOK, NEW s \in Station, SlotsInv(s)
  PROVE  IsFiniteSet(DOMAIN reliable[s]) /\ Cardinality(DOMAIN reliable[s]) \in Nat
<1>1. DOMAIN reliable[s] \subseteq 1 .. (idgen_reliable_send[s] - 1)
  BY DEF SlotsInv
<1>2. IsFiniteSet(1 .. (idgen_reliable_send[s] - 1))
  BY FS_Interval DEF TypeOK
<1> QED
  BY <1>1, <1>2, FS_Subset, FS_CardinalityType

(* The ids in use end within MAXMSG of each other.                               *)
LEMMA UsedIdsAreClose ==
  ASSUME TypeOK, NEW s \in Station, SlotsInv(s), NEW i \in DOMAIN reliable[s]
  PROVE  idgen_reliable_send[s] - i <= MAXMSG
<1> DEFINE n == idgen_reliable_send[s]
           D == DOMAIN reliable[s]
<1>1. n \in Nat /\ i \in 1 .. (n - 1) /\ i .. (n - 1) \subseteq D /\ Cardinality(D) <= MAXMSG
  BY DEF TypeOK, SlotsInv
<1>2. IsFiniteSet(D) /\ Cardinality(D) \in Nat
  BY SlotsAreFinite
<1> HIDE DEF n, D
<1>3. IsFiniteSet(i .. (n - 1)) /\ Cardinality(i .. (n - 1)) = n - i
  BY <1>1, FS_Interval
<1>4. Cardinality(i .. (n - 1)) <= Cardinality(D)
  BY <1>1, <1>2, FS_Subset
<1> QED
  BY <1>1, <1>2, <1>3, <1>4, CapacityAssumption DEF n

(* A station that has nothing to read is at most MAXMSG messages behind.         *)
LEMMA DrainedIsClose ==
  ASSUME IInv, NEW s \in Station, ~Ready(s)
  PROVE  idgen_reliable_send[Peer[s]] - msg_current[s] <= MAX_INCOMING_MESSAGES
<1> DEFINE n == idgen_reliable_send[Peer[s]]
           cur == msg_current[s]
<1>0. Peer[s] \in Station /\ Peer[Peer[s]] = s
  BY PeerType
<1>1. n \in Nat \ {0} /\ cur \in Nat \ {0}
  BY <1>0 DEF IInv, TypeOK
<1>2. CASE cur <= n - 1
  <2>1. ~Got(s, cur)
    BY <1>1 DEF Got, Ready
  <2>2. cur \in DOMAIN reliable[Peer[s]]
    BY <2>1, <1>0, <1>1, <1>2 DEF IInv, AckedIsReceived
  <2>3. n - cur <= MAXMSG
    BY <2>2, <1>0, UsedIdsAreClose DEF IInv
  <2> QED
    BY <2>3, <1>1, CapacityAssumption
<1>3. CASE ~(cur <= n - 1)
  BY <1>3, <1>1, CapacityAssumption
<1> QED
  BY <1>2, <1>3

THEOREM RoomInWindow == IInv => WindowHasRoom
<1> SUFFICES ASSUME IInv, NEW s \in Station, ~Ready(s),
                    NEW p \in net[Peer[s]], NEW i \in DOMAIN p.msgs, i >= msg_current[s]
             PROVE  InWindow(s, i)
  BY DEF WindowHasRoom
<1>1. Peer[s] \in Station
  BY PeerType
<1>2. i \in 1 .. (idgen_reliable_send[Peer[s]] - 1)
  BY <1>1 DEF IInv, PacketsInv
<1>3. idgen_reliable_send[Peer[s]] \in Nat /\ msg_current[s] \in Nat
  BY <1>1 DEF IInv, TypeOK
<1> QED
  BY <1>2, <1>3, DrainedIsClose, CapacityAssumption DEF InWindow

(* Every packet and every message in it is what its sender wrote.                *)
LEMMA GotMessagesAreInWindow ==
  ASSUME IInv, NEW s \in Station, Ready(s)
  PROVE  /\ msg_current[s] < idgen_reliable_send[Peer[s]]
         /\ message[s][Index(msg_current[s])] = written[Peer[s]][msg_current[s]]
<1> DEFINE cur == msg_current[s]
<1>1. cur \in Nat \ {0}
  BY DEF IInv, TypeOK
<1>2. Index(cur) \in 0 .. (MAX_INCOMING_MESSAGES - 1)
  BY <1>1, IndexType
<1>3. PICK i \in WindowIds(s) : /\ Index(i) = Index(cur)
                                /\ i < idgen_reliable_send[Peer[s]]
                                /\ message[s][Index(cur)] = written[Peer[s]][i]
  <2>1. Index(cur) \in DOMAIN message[s]
    BY <1>2 DEF IInv, TypeOK
  <2>2. message[s][Index(cur)] # NoMessage
    BY DEF Ready
  <2> QED
    BY <2>1, <2>2 DEF IInv, SlotsHoldTheWindow
<1>4. i = cur
  BY <1>1, <1>3, IndexInjective, CapacityAssumption DEF WindowIds
<1> QED
  BY <1>3, <1>4

(* Every id that has been given out is the place of its message in written.      *)
LEMMA IdsAreWritten ==
  ASSUME TypeOK, NEW s \in Station, WrittenInv(s)
  PROVE  /\ Len(written[s]) \in Nat
         /\ idgen_reliable_send[s] - 1 <= Len(written[s])
         /\ idgen_reliable_send[s] - 1 \in Nat
BY DEF TypeOK, WrittenInv

LEMMA PacketTypes ==
  ASSUME TypeOK, NEW s \in Station, NEW p \in net[s]
  PROVE  /\ p.id \in Nat \ {0} /\ p.ack \in Nat
         /\ \A i \in DOMAIN p.msgs : p.msgs[i] \in Message
BY DEF TypeOK

(* The packet a station is processing came from the peer, with ids given out.    *)
LEMMA IncomingIds ==
  ASSUME TypeOK, NEW s \in Station, PacketsInv(Peer[s]),
         NEW c \in incoming[s]
  PROVE  /\ c.packet \in net[Peer[s]]
         /\ \A i \in DOMAIN c.packet.msgs :
              i \in Nat \ {0} /\ i < idgen_reliable_send[Peer[s]]
<1>1. c.packet \in net[Peer[s]]
  BY DEF TypeOK
<1>2. idgen_reliable_send[Peer[s]] \in Nat
  BY PeerType DEF TypeOK
<1> QED
  BY <1>1, <1>2 DEF PacketsInv

(* What the acks to t prove is kept by a step that touches none of them and      *)
(* keeps what each proves.                                                       *)
LEMMA AcksKept ==
  ASSUME TypeOK, NEW t \in Station, AcksInv(t),
         ack'[Peer[t]] = ack[Peer[t]],
         sending'[Peer[t]] = sending[Peer[t]],
         net'[Peer[t]] = net[Peer[t]],
         \A a \in Nat : AckProves(t, a) => AckProves(t, a)'
  PROVE  AcksInv(t)'
<1>1. Peer[t] \in Station
  BY PeerType
<1>2. AckProves(t, ack[Peer[t]])'
  BY <1>1 DEF TypeOK, AcksInv
<1>3. ASSUME NEW h \in sending[Peer[t]] PROVE AckProves(t, h.ack)'
  <2>1. h.ack \in Nat
    BY <1>1, <1>3 DEF TypeOK
  <2>2. AckProves(t, h.ack)
    BY <1>3 DEF AcksInv
  <2> QED
    BY <2>1, <2>2
<1>4. ASSUME NEW p \in net[Peer[t]] PROVE AckProves(t, p.ack)'
  <2>1. p.ack \in Nat
    BY <1>1, <1>4, PacketTypes
  <2>2. AckProves(t, p.ack)
    BY <1>4 DEF AcksInv
  <2> QED
    BY <2>1, <2>2
<1> QED
  BY <1>2, <1>3, <1>4 DEF AcksInv

(* A counter of the two stations stays positive when one of them adds one to it.  *)
LEMMA CounterStepsUp ==
  ASSUME NEW f \in [Station -> Nat \ {0}], NEW s \in Station
  PROVE  [f EXCEPT ![s] = f[s] + 1] \in [Station -> Nat \ {0}]
<1>1. f[s] + 1 \in Nat \ {0}
  OBVIOUS
<1> DEFINE n == f[s] + 1
<1> HIDE DEF n
<1>2. [f EXCEPT ![s] = n] \in [Station -> Nat \ {0}]
  BY <1>1 DEF n
<1> QED
  BY <1>2 DEF n

(* The message in a slot that an ack proves has reached the peer.                 *)
LEMMA AckedSlotIsGot ==
  ASSUME TypeOK, NEW t \in Station, SlotsInv(t), NEW a \in Nat, AckProves(t, a),
         NEW i \in DOMAIN reliable[t], SentBefore(reliable[t][i], a)
  PROVE  i \in Nat /\ Got(Peer[t], i)
<1>1. idgen_reliable_send[t] \in Nat
  BY DEF TypeOK
<1>2. i \in Nat
  BY <1>1 DEF SlotsInv
<1>3. Got(Peer[t], i)
  BY DEF AckProves
<1> QED
  BY <1>2, <1>3

--------------------------------------------------------------------------------
(* Each action preserves the inductive invariant.                                *)

LEMMA WriteReliableStep ==
  ASSUME IInv, NEW s \in Station, NEW m \in Message, WriteReliable(s, m)
  PROVE  IInv'
<1> DEFINE n == idgen_reliable_send[s]
           x == extra_reliables[s]
           w == written[s]
           Room == HasRoom(reliable[s], m) /\ x = <<>>
           R == AddFirst(reliable[s], n, <<m>>, 1)
<1>0. /\ TypeOK /\ n \in Nat \ {0} /\ Peer[s] \in Station
      /\ x \in Seq(Message) /\ w \in Seq(Message)
      /\ WrittenInv(s)
  BY PeerType DEF IInv, TypeOK
<1>1. DOMAIN R = DOMAIN reliable[s] \cup {n} /\ n \notin DOMAIN reliable[s]
  <2>1. n .. (n + 1 - 1) = {n}
    BY <1>0
  <2>2. n \notin DOMAIN reliable[s]
    BY <1>0 DEF IInv, SlotsInv
  <2> QED
    BY <2>1, <2>2 DEF AddFirst
<1>2. /\ R[n] = [body |-> m, sent |-> 0]
      /\ \A i \in DOMAIN reliable[s] : R[i] = reliable[s][i]
  BY <1>0, <1>1 DEF AddFirst
<1>3. R \in [DOMAIN R -> [body : Message, sent : Nat]]
  <2>1. R = [i \in DOMAIN R |-> R[i]]
    BY DEF AddFirst
  <2>2. R[n] \in [body : Message, sent : Nat]
    BY <1>2
  <2>3. \A i \in DOMAIN reliable[s] : reliable[s][i] \in [body : Message, sent : Nat]
    BY DEF IInv, TypeOK
  <2>4. \A i \in DOMAIN R : R[i] \in [body : Message, sent : Nat]
    BY <1>1, <1>2, <2>2, <2>3
  <2> QED
    BY <2>1, <2>4
<1>4. written' = [written EXCEPT ![s] = Append(@, m)]
  BY DEF WriteReliable
<1>5. UNCHANGED <<delivered, idgen_packet_send, ack, msg_current, message, sending,
                  incoming, net>>
  BY DEF WriteReliable, inVars
<1>6. /\ \A t \in Station : t # s => written'[t] = written[t]
      /\ written'[s] = Append(w, m)
  BY <1>0, <1>4 DEF TypeOK
<1>7. \A t \in Station : \A i \in 1 .. Len(written[t]) : written'[t][i] = written[t][i]
  <2>1. ASSUME NEW t \in Station, t # s, NEW i \in 1 .. Len(written[t])
        PROVE  written'[t][i] = written[t][i]
    BY <1>6, <2>1
  <2>2. ASSUME NEW i \in 1 .. Len(w) PROVE written'[s][i] = w[i]
    BY <1>0, <1>6
  <2> QED
    BY <2>1, <2>2
<1>8. written' \in [Station -> Seq(Message)]
  BY <1>0, <1>4 DEF TypeOK
<1>10. CASE Room
  <2>0. /\ reliable' = [reliable EXCEPT ![s] = R]
        /\ idgen_reliable_send' = [idgen_reliable_send EXCEPT ![s] = n + 1]
        /\ UNCHANGED extra_reliables
    BY <1>10 DEF WriteReliable, TakesSlot
  <2> HIDE DEF R
  <2>1. TypeOK'
    <3>1. DOMAIN reliable' = Station
      BY <1>0, <2>0 DEF TypeOK
    <3>2. idgen_reliable_send' \in [Station -> Nat \ {0}]
      BY <1>0, <2>0, CounterStepsUp DEF TypeOK
    <3>3. ASSUME NEW t \in Station
          PROVE  reliable'[t] \in [DOMAIN reliable'[t] -> [body : Message, sent : Nat]]
      BY <1>0, <1>3, <2>0 DEF TypeOK
    <3> QED
      BY <1>0, <1>5, <1>8, <2>0, <3>1, <3>2, <3>3 DEF TypeOK
  <2>a. \A t \in Station : t # s => /\ reliable'[t] = reliable[t]
                                    /\ idgen_reliable_send'[t] = idgen_reliable_send[t]
    BY <1>0, <2>0 DEF TypeOK
  <2>b. reliable'[s] = R /\ idgen_reliable_send'[s] = n + 1
    BY <1>0, <2>0 DEF TypeOK
  <2>c. \A t \in Station, i \in Nat : Got(t, i)' = Got(t, i)
    BY <1>5 DEF Got, WindowIds
  <2>d. \A t \in Station : /\ idgen_reliable_send[t] \in Nat \ {0}
                           /\ msg_current[t] \in Nat \ {0}
                           /\ idgen_reliable_send'[t] \in {idgen_reliable_send[t], idgen_reliable_send[t] + 1}
    BY <1>0, <2>a, <2>b DEF TypeOK
  <2>2. AckedIsReceived'
    <3> SUFFICES ASSUME NEW t \in Station, NEW i \in 1 .. (idgen_reliable_send'[t] - 1)
                 PROVE  i \in DOMAIN reliable'[t] \/ Got(Peer[t], i)'
      BY DEF AckedIsReceived
    <3>1. CASE t # s
      BY <2>a, <2>c, <3>1, PeerType DEF IInv, AckedIsReceived
    <3>2. CASE t = s /\ i = n
      BY <1>1, <2>b, <3>2
    <3>3. CASE t = s /\ i # n
      <4>1. i \in 1 .. (n - 1)
        BY <1>0, <2>b, <3>3
      <4>2. i \in DOMAIN reliable[s] \/ Got(Peer[s], i)
        BY <4>1 DEF IInv, AckedIsReceived
      <4> QED
        BY <1>0, <1>1, <2>b, <2>c, <3>3, <4>1, <4>2
    <3> QED
      BY <3>1, <3>2, <3>3
  <2>3. SlotsHoldTheWindow'
    <3> SUFFICES ASSUME NEW t \in Station, NEW k \in DOMAIN message[t],
                        message[t][k] # NoMessage
                 PROVE  \E i \in WindowIds(t) :
                          /\ Index(i) = k
                          /\ i < idgen_reliable_send'[Peer[t]]
                          /\ message[t][k] = written'[Peer[t]][i]
      BY <1>5 DEF SlotsHoldTheWindow, WindowIds
    <3>1. PICK i \in WindowIds(t) : /\ Index(i) = k
                                    /\ i < idgen_reliable_send[Peer[t]]
                                    /\ message[t][k] = written[Peer[t]][i]
      BY DEF IInv, SlotsHoldTheWindow
    <3>2. Peer[t] \in Station
      BY PeerType
    <3>3. i \in 1 .. Len(written[Peer[t]])
      <4>1. WrittenInv(Peer[t]) /\ msg_current[t] \in Nat \ {0}
        BY <3>2 DEF IInv, TypeOK
      <4>2. i \in Nat \ {0}
        BY <4>1, CapacityAssumption DEF WindowIds
      <4> QED
        <5>1. Len(written[Peer[t]]) \in Nat /\ idgen_reliable_send[Peer[t]] - 1 <= Len(written[Peer[t]])
          BY <1>0, <3>2, <4>1, IdsAreWritten
        <5> QED
          BY <2>d, <3>1, <3>2, <4>2, <5>1
    <3>4. i < idgen_reliable_send'[Peer[t]]
      <4>1. idgen_reliable_send[Peer[t]] \in Nat
        BY <1>0, <3>2 DEF TypeOK
      <4>2. idgen_reliable_send'[Peer[t]] \in {idgen_reliable_send[Peer[t]], idgen_reliable_send[Peer[t]] + 1}
        BY <2>a, <2>b, <3>2
      <4> QED
        BY <3>1, <3>3, <4>1, <4>2
    <3> QED
      BY <1>7, <3>1, <3>2, <3>3, <3>4
  <2>4. QueueWaitsForAcks'
    <3> SUFFICES ASSUME NEW t \in Station, extra_reliables[t] # <<>>
                 PROVE  /\ DOMAIN reliable'[t] # {}
                        /\ ~HasRoom(reliable'[t], Head(extra_reliables[t]))
      BY <2>0 DEF QueueWaitsForAcks
    <3>1. t # s
      BY <1>10
    <3> QED
      BY <2>a, <3>1 DEF IInv, QueueWaitsForAcks
  <2>5. ASSUME NEW t \in Station PROVE WrittenInv(t)'
    <3>1. CASE t = s
      <4>1. Len(w) = n - 1 /\ Len(x) = 0
        BY <1>0, <1>10 DEF WrittenInv
      <4>2. Len(Append(w, m)) = Len(w) + 1
        BY <1>0
      <4> QED
        BY <1>0, <1>6, <2>0, <3>1, <4>1, <4>2 DEF WrittenInv, TypeOK
    <3>2. CASE t # s
      <4>1. /\ idgen_reliable_send'[t] = idgen_reliable_send[t]
            /\ extra_reliables'[t] = extra_reliables[t]
            /\ written'[t] = written[t]
        BY <1>0, <1>6, <2>0, <3>2 DEF TypeOK
      <4>2. WrittenInv(t)
        BY DEF IInv
      <4> QED
        BY <4>1, <4>2 DEF WrittenInv
    <3> QED
      BY <3>1, <3>2
  <2>6. ASSUME NEW t \in Station PROVE SlotsInv(t)'
    <3>0. SlotsInv(t)
      BY DEF IInv
    <3>1. CASE t # s
      <4>1. /\ reliable'[t] = reliable[t] /\ written'[t] = written[t]
            /\ idgen_reliable_send'[t] = idgen_reliable_send[t]
        BY <1>6, <2>a, <3>1
      <4> QED
        BY <1>5, <3>0, <4>1 DEF SlotsInv
    <3>2. CASE t = s
      <4>1. Cardinality(DOMAIN R) <= MAXMSG
        <5>1. IsFiniteSet(DOMAIN reliable[s]) /\ Cardinality(DOMAIN reliable[s]) \in Nat
          BY <1>0, <3>0, <3>2, SlotsAreFinite
        <5>2. Cardinality(DOMAIN reliable[s]) < MAXMSG
          BY <1>10 DEF HasRoom
        <5>3. Cardinality(DOMAIN R) = Cardinality(DOMAIN reliable[s]) + 1
          BY <1>1, <5>1, FS_AddElement
        <5> QED
          BY <5>1, <5>2, <5>3, CapacityAssumption
      <4>2. ASSUME NEW i \in DOMAIN R
            PROVE  /\ i \in 1 .. n
                   /\ i .. n \subseteq DOMAIN R
                   /\ R[i].body = written'[s][i]
                   /\ R[i].sent < idgen_packet_send[s]
                   /\ \A h \in sending[s] : R[i].sent < h.id
        <5>1. CASE i = n
          <6>1. R[i].body = written'[s][n]
            <7>1. Len(w) = n - 1
              BY <1>0, <1>10 DEF WrittenInv
            <7> QED
              BY <1>0, <1>2, <1>6, <5>1, <7>1
          <6>2. n .. n = {n} /\ n \in 1 .. n
            BY <1>0
          <6>3. 0 < idgen_packet_send[s] /\ \A h \in sending[s] : 0 < h.id
            <7>1. idgen_packet_send[s] \in Nat \ {0} /\ sending[s] \subseteq [id : Nat \ {0}, ack : Nat]
              BY <1>0 DEF TypeOK
            <7> QED
              BY <7>1
          <6> QED
            BY <1>1, <1>2, <5>1, <6>1, <6>2, <6>3
        <5>2. CASE i # n
          <6>1. i \in DOMAIN reliable[s] /\ R[i] = reliable[s][i]
            BY <1>1, <1>2, <5>2
          <6>2. i \in 1 .. (n - 1) /\ i .. (n - 1) \subseteq DOMAIN reliable[s]
            BY <3>0, <3>2, <6>1 DEF SlotsInv
          <6>3. i \in 1 .. n /\ i .. n = i .. (n - 1) \cup {n}
            BY <1>0, <6>2
          <6>4. R[i].body = written'[s][i]
            <7>1. i \in 1 .. Len(w)
              BY <1>0, <6>2, IdsAreWritten
            <7> QED
              BY <1>7, <3>0, <3>2, <6>1, <7>1 DEF SlotsInv
          <6> QED
            BY <1>1, <3>0, <3>2, <6>1, <6>2, <6>3, <6>4 DEF SlotsInv
        <5> QED
          BY <5>1, <5>2
      <4>3. ASSUME NEW i \in DOMAIN R, NEW j \in DOMAIN R, i < j, R[j].sent # 0
            PROVE  SentBefore(R[i], R[j].sent)
        <5>1. j # n
          BY <1>2, <4>3
        <5>2. j \in DOMAIN reliable[s] /\ j < n /\ R[j] = reliable[s][j]
          BY <1>0, <1>1, <1>2, <3>0, <3>2, <5>1 DEF SlotsInv
        <5>3. i \in DOMAIN reliable[s] /\ R[i] = reliable[s][i]
          BY <1>0, <1>1, <1>2, <3>0, <3>2, <4>3, <5>2 DEF SlotsInv
        <5> QED
          BY <3>0, <3>2, <4>3, <5>2, <5>3 DEF SlotsInv
      <4> QED
        BY <1>0, <1>5, <2>b, <3>2, <4>1, <4>2, <4>3 DEF SlotsInv
    <3> QED
      BY <3>1, <3>2
  <2>7. ASSUME NEW t \in Station PROVE PacketsInv(t)'
    <3>0. PacketsInv(t) /\ WrittenInv(t)
      BY DEF IInv
    <3>1. ASSUME NEW p \in net[t], NEW i \in DOMAIN p.msgs
          PROVE  /\ i \in 1 .. (idgen_reliable_send'[t] - 1)
                 /\ p.msgs[i] = written'[t][i]
      <4>1. /\ i \in 1 .. (idgen_reliable_send[t] - 1)
            /\ p.msgs[i] = written[t][i]
        BY <3>0 DEF PacketsInv
      <4>2. idgen_reliable_send'[t] \in {idgen_reliable_send[t], idgen_reliable_send[t] + 1}
        BY <2>a, <2>b
      <4>3. idgen_reliable_send[t] \in Nat
        BY <1>0 DEF TypeOK
      <4>4. i \in 1 .. Len(written[t])
        BY <1>0, <3>0, <4>1, IdsAreWritten
      <4> QED
        BY <1>7, <4>1, <4>2, <4>3, <4>4
    <3>2. ASSUME NEW p \in net[t], NEW i \in DOMAIN reliable'[t], SentBefore(reliable'[t][i], p.id)
          PROVE  i \in DOMAIN p.msgs
      <4>1. i \in DOMAIN reliable[t] /\ SentBefore(reliable[t][i], p.id)
        BY <1>1, <1>2, <2>a, <2>b, <3>2 DEF SentBefore
      <4> QED
        BY <3>0, <4>1 DEF PacketsInv
    <3> QED
      BY <1>5, <3>0, <3>1, <3>2 DEF PacketsInv
  <2>8. ASSUME NEW t \in Station PROVE AcksInv(t)'
    <3>0. AcksInv(t)
      BY DEF IInv
    <3>1. ASSUME NEW a \in Nat, AckProves(t, a) PROVE AckProves(t, a)'
      <4>1. ASSUME NEW i \in DOMAIN reliable'[t], SentBefore(reliable'[t][i], a)
            PROVE  i \in DOMAIN reliable[t] /\ SentBefore(reliable[t][i], a)
        BY <1>1, <1>2, <2>a, <2>b, <4>1 DEF SentBefore
      <4>2. ASSUME NEW i \in DOMAIN reliable'[t], SentBefore(reliable'[t][i], a)
            PROVE  Got(Peer[t], i)'
        <5>1. i \in Nat /\ Got(Peer[t], i)
          BY <1>0, <3>1, <4>1, <4>2, AckedSlotIsGot DEF IInv
        <5> QED
          BY <2>c, <5>1, PeerType
      <4> QED
        BY <1>5, <3>1, <4>2 DEF AckProves
    <3> QED
      BY <1>0, <1>5, <3>0, <3>1, AcksKept
  <2>9. ASSUME NEW t \in Station PROVE ReceiverInv(t)'
    <3>0. ReceiverInv(t) /\ Peer[t] \in Station /\ WrittenInv(Peer[t])
      BY PeerType DEF IInv
    <3>1. msg_current[t] <= idgen_reliable_send'[Peer[t]]
      BY <2>d, <3>0 DEF ReceiverInv
    <3>2. \A i \in 1 .. (msg_current[t] - 1) : delivered[t][i] = written'[Peer[t]][i]
      <4>1. 1 .. (msg_current[t] - 1) \subseteq 1 .. Len(written[Peer[t]])
        <5>1. Len(written[Peer[t]]) \in Nat /\ idgen_reliable_send[Peer[t]] - 1 <= Len(written[Peer[t]])
          BY <1>0, <3>0, IdsAreWritten
        <5> QED
          BY <2>d, <3>0, <5>1 DEF ReceiverInv
      <4> QED
        BY <1>7, <3>0, <4>1 DEF ReceiverInv
    <3>3. ASSUME NEW c \in incoming[t], NEW i \in DOMAIN c.packet.msgs
          PROVE  Got(t, i)'
      <4>1. i \in Nat /\ Got(t, i)
        <5>1. PacketsInv(Peer[t])
          BY <3>0 DEF IInv
        <5>2. i \in Nat
          BY <1>0, <5>1, IncomingIds
        <5> QED
          BY <3>0, <5>2 DEF ReceiverInv
      <4> QED
        BY <2>c, <4>1
    <3> QED
      BY <1>5, <3>0, <3>1, <3>2, <3>3 DEF ReceiverInv
  <2> QED
    BY <2>1, <2>2, <2>3, <2>4, <2>5, <2>6, <2>7, <2>8, <2>9 DEF IInv
<1>11. CASE ~Room
  <2>0. /\ extra_reliables' = [extra_reliables EXCEPT ![s] = Append(@, m)]
        /\ UNCHANGED <<reliable, idgen_reliable_send>>
    BY <1>11 DEF WriteReliable, TakesSlot
  <2>1. TypeOK'
    <3>1. extra_reliables' \in [Station -> Seq(Message)]
      BY <1>0, <2>0 DEF TypeOK
    <3> QED
      BY <1>0, <1>5, <1>8, <2>0, <3>1 DEF TypeOK
  <2>c. \A t \in Station, i \in Nat : Got(t, i)' = Got(t, i)
    BY <1>5 DEF Got, WindowIds
  <2>d. \A t \in Station : \A i \in 1 .. (idgen_reliable_send[t] - 1) : written'[t][i] = written[t][i]
    <3> SUFFICES ASSUME NEW t \in Station PROVE 1 .. (idgen_reliable_send[t] - 1) \subseteq 1 .. Len(written[t])
      BY <1>7
    <3>1. WrittenInv(t)
      BY DEF IInv
    <3> QED
      BY <1>0, <3>1, IdsAreWritten
  <2>2. AckedIsReceived'
    <3> SUFFICES ASSUME NEW t \in Station, NEW i \in 1 .. (idgen_reliable_send[t] - 1)
                 PROVE  i \in DOMAIN reliable[t] \/ Got(Peer[t], i)'
      BY <2>0 DEF AckedIsReceived
    <3>1. i \in DOMAIN reliable[t] \/ Got(Peer[t], i)
      BY DEF IInv, AckedIsReceived
    <3> QED
      BY <2>c, <3>1, PeerType
  <2>3. SlotsHoldTheWindow'
    <3> SUFFICES ASSUME NEW t \in Station, NEW k \in DOMAIN message[t],
                        message[t][k] # NoMessage
                 PROVE  \E i \in WindowIds(t) :
                          /\ Index(i) = k
                          /\ i < idgen_reliable_send[Peer[t]]
                          /\ message[t][k] = written'[Peer[t]][i]
      BY <1>5, <2>0 DEF SlotsHoldTheWindow, WindowIds
    <3>1. PICK i \in WindowIds(t) : /\ Index(i) = k
                                    /\ i < idgen_reliable_send[Peer[t]]
                                    /\ message[t][k] = written[Peer[t]][i]
      BY DEF IInv, SlotsHoldTheWindow
    <3>2. /\ Peer[t] \in Station /\ msg_current[t] \in Nat \ {0}
          /\ idgen_reliable_send[Peer[t]] \in Nat
      BY <1>0, PeerType DEF TypeOK
    <3>3. i \in 1 .. (idgen_reliable_send[Peer[t]] - 1)
      BY <3>1, <3>2, CapacityAssumption DEF WindowIds
    <3> QED
      BY <2>d, <3>1, <3>2, <3>3
  <2>4. QueueWaitsForAcks'
    <3>1. ASSUME NEW t \in Station, t # s, extra_reliables'[t] # <<>>
          PROVE  DOMAIN reliable[t] # {} /\ ~HasRoom(reliable[t], Head(extra_reliables'[t]))
      <4>1. extra_reliables'[t] = extra_reliables[t]
        BY <1>0, <2>0, <3>1 DEF TypeOK
      <4> QED
        BY <3>1, <4>1 DEF IInv, QueueWaitsForAcks
    <3>2. DOMAIN reliable[s] # {} /\ ~HasRoom(reliable[s], Head(extra_reliables'[s]))
      <4>1. extra_reliables'[s] = Append(x, m)
        BY <1>0, <2>0 DEF TypeOK
      <4>2. CASE x = <<>>
        <5>1. ~HasRoom(reliable[s], m) /\ Head(Append(x, m)) = m
          BY <1>0, <1>11, <4>2
        <5>2. DOMAIN reliable[s] # {}
          <6>1. Cardinality({}) < MAXMSG
            BY FS_EmptySet, CapacityAssumption
          <6> QED
            BY <5>1, <6>1, Zenon DEF HasRoom, CanAdd
        <5> QED
          BY <4>1, <5>1, <5>2
      <4>3. CASE x # <<>>
        <5>1. Head(Append(x, m)) = Head(x)
          BY <1>0, <4>3
        <5> QED
          BY <4>1, <4>3, <5>1 DEF IInv, QueueWaitsForAcks
      <4> QED
        BY <4>2, <4>3
    <3> QED
      BY <2>0, <3>1, <3>2 DEF QueueWaitsForAcks
  <2>5. ASSUME NEW t \in Station PROVE WrittenInv(t)'
    <3>0. WrittenInv(t)
      BY DEF IInv
    <3>1. CASE t # s
      BY <1>0, <1>6, <2>0, <3>0, <3>1 DEF WrittenInv, TypeOK
    <3>2. CASE t = s
      <4>1. extra_reliables'[s] = Append(x, m)
        BY <1>0, <2>0 DEF TypeOK
      <4>2. Len(Append(x, m)) = Len(x) + 1 /\ Len(Append(w, m)) = Len(w) + 1
        BY <1>0
      <4>3. Len(w) = n - 1 + Len(x) /\ Len(x) \in Nat /\ Len(w) \in Nat /\ n \in Nat \ {0}
        BY <1>0 DEF WrittenInv
      <4>4. ASSUME NEW j \in 1 .. (Len(x) + 1)
            PROVE  Append(x, m)[j] = Append(w, m)[n - 1 + j]
        <5>1. CASE j = Len(x) + 1
          <6>1. n - 1 + j = Len(w) + 1
            <7> HIDE DEF n, x, w
            <7> QED
              BY <4>3, <5>1
          <6>2. Append(x, m)[Len(x) + 1] = m /\ Append(w, m)[Len(w) + 1] = m
            BY <1>0
          <6> QED
            BY <5>1, <6>1, <6>2
        <5>2. CASE j # Len(x) + 1
          <6>1. j \in 1 .. Len(x) /\ n - 1 + j \in 1 .. Len(w)
            <7> HIDE DEF n, x, w
            <7> QED
              BY <4>3, <5>2
          <6>2. Append(x, m)[j] = x[j] /\ Append(w, m)[n - 1 + j] = w[n - 1 + j]
            BY <1>0, <6>1
          <6> QED
            BY <1>0, <6>1, <6>2 DEF WrittenInv
        <5> QED
          BY <5>1, <5>2
      <4> QED
        <5>1. Len(Append(w, m)) = n - 1 + Len(Append(x, m))
          <6> HIDE DEF n, x, w
          <6> QED
            BY <4>2, <4>3
        <5>2. \A j \in 1 .. Len(Append(x, m)) : Append(x, m)[j] = Append(w, m)[n - 1 + j]
          BY <4>2, <4>4
        <5> QED
          BY <1>6, <2>0, <3>2, <4>1, <5>1, <5>2 DEF WrittenInv
    <3> QED
      BY <3>1, <3>2
  <2>6. ASSUME NEW t \in Station PROVE SlotsInv(t)'
    BY <1>5, <2>0, <2>d DEF IInv, SlotsInv
  <2>7. ASSUME NEW t \in Station PROVE PacketsInv(t)'
    BY <1>5, <2>0, <2>d DEF IInv, PacketsInv
  <2>8. ASSUME NEW t \in Station PROVE AcksInv(t)'
    <3>1. AcksInv(t) /\ SlotsInv(t) /\ Peer[t] \in Station
      BY PeerType DEF IInv
    <3>2. ASSUME NEW a \in Nat, AckProves(t, a) PROVE AckProves(t, a)'
      <4>1. ASSUME NEW i \in DOMAIN reliable[t], SentBefore(reliable[t][i], a) PROVE Got(Peer[t], i)'
        <5>1. i \in Nat /\ Got(Peer[t], i)
          BY <1>0, <3>1, <3>2, <4>1, AckedSlotIsGot
        <5> QED
          BY <2>c, <3>1, <5>1
      <4> QED
        BY <1>5, <2>0, <3>2, <4>1 DEF AckProves
    <3> QED
      BY <1>0, <1>5, <3>1, <3>2, AcksKept
  <2>9. ASSUME NEW t \in Station PROVE ReceiverInv(t)'
    <3>0. ReceiverInv(t) /\ Peer[t] \in Station /\ PacketsInv(Peer[t])
      BY PeerType DEF IInv
    <3>1. \A i \in 1 .. (msg_current[t] - 1) : delivered[t][i] = written'[Peer[t]][i]
      <4>1. 1 .. (msg_current[t] - 1) \subseteq 1 .. (idgen_reliable_send[Peer[t]] - 1)
        <5>1. msg_current[t] \in Nat /\ idgen_reliable_send[Peer[t]] \in Nat
          BY <1>0, <3>0 DEF TypeOK
        <5> QED
          BY <3>0, <5>1 DEF ReceiverInv
      <4> QED
        BY <2>d, <3>0, <4>1 DEF ReceiverInv
    <3>2. ASSUME NEW c \in incoming[t], NEW i \in DOMAIN c.packet.msgs
          PROVE  Got(t, i)'
      <4>1. i \in Nat
        BY <1>0, <3>0, IncomingIds
      <4> QED
        BY <2>c, <3>0, <4>1 DEF ReceiverInv
    <3> QED
      BY <1>5, <2>0, <3>0, <3>1, <3>2 DEF ReceiverInv
  <2> QED
    BY <2>1, <2>2, <2>3, <2>4, <2>5, <2>6, <2>7, <2>8, <2>9 DEF IInv
<1> QED
  BY <1>10, <1>11

LEMMA SendBeginStep ==
  ASSUME IInv, NEW s \in Station, SendBegin(s)
  PROVE  IInv'
<1> DEFINE h == [id |-> idgen_packet_send[s], ack |-> ack[s]]
<1>0. TypeOK /\ idgen_packet_send[s] \in Nat \ {0} /\ sending[s] = {} /\ Peer[s] \in Station
  BY PeerType DEF IInv, TypeOK, SendBegin
<1>1. /\ \A t \in Station : t # s => /\ sending'[t] = sending[t]
                                     /\ idgen_packet_send'[t] = idgen_packet_send[t]
      /\ sending'[s] = {h}
      /\ idgen_packet_send'[s] = idgen_packet_send[s] + 1
  BY <1>0 DEF SendBegin, TypeOK
<1>2. UNCHANGED <<written, delivered, idgen_reliable_send, reliable, extra_reliables, ack,
                  msg_current, message, incoming, net>>
  BY DEF SendBegin, outVars, inVars
<1>3. \A t \in Station, i \in Nat : Got(t, i)' = Got(t, i)
  BY <1>2 DEF Got, WindowIds
<1>4. TypeOK'
  <2>1. sending' \in [Station -> SUBSET [id : Nat \ {0}, ack : Nat]]
    BY <1>0 DEF SendBegin, TypeOK
  <2>2. idgen_packet_send' = [idgen_packet_send EXCEPT ![s] = idgen_packet_send[s] + 1]
    BY DEF SendBegin
  <2>3. idgen_packet_send' \in [Station -> Nat \ {0}]
    BY <1>0, <2>2, CounterStepsUp DEF TypeOK
  <2> QED
    BY <1>0, <1>2, <2>1, <2>3 DEF TypeOK
<1>5. AckedIsReceived' /\ SlotsHoldTheWindow' /\ QueueWaitsForAcks'
  BY <1>2 DEF IInv, AckedIsReceived, SlotsHoldTheWindow, QueueWaitsForAcks, Got, WindowIds
<1>6. ASSUME NEW t \in Station PROVE WrittenInv(t)' /\ ReceiverInv(t)'
  BY <1>2 DEF IInv, WrittenInv, ReceiverInv, Got, WindowIds
<1>7. ASSUME NEW t \in Station PROVE SlotsInv(t)'
  <2>0. SlotsInv(t)
    BY DEF IInv
  <2>1. CASE t # s
    BY <1>1, <1>2, <2>0, <2>1 DEF SlotsInv
  <2>2. CASE t = s
    <3>1. \A i \in DOMAIN reliable[s] : /\ reliable[s][i].sent < idgen_packet_send[s] + 1
                                        /\ reliable[s][i].sent < h.id
      BY <1>0, <2>0, <2>2 DEF SlotsInv, TypeOK
    <3> QED
      BY <1>1, <1>2, <2>0, <2>2, <3>1 DEF SlotsInv
  <2> QED
    BY <2>1, <2>2
<1>8. ASSUME NEW t \in Station PROVE PacketsInv(t)'
  <2>0. PacketsInv(t)
    BY DEF IInv
  <2>1. CASE t # s
    BY <1>1, <1>2, <2>0, <2>1 DEF PacketsInv
  <2>2. CASE t = s
    <3>1. h.id < idgen_packet_send[s] + 1
      BY <1>0
    <3>2. ASSUME NEW p \in net[s]
          PROVE  p.id < idgen_packet_send[s] + 1 /\ p.id < h.id
      <4>1. p.id \in Nat
        BY <1>0, <3>2, PacketTypes
      <4>2. p.id < idgen_packet_send[s]
        BY <2>0, <2>2 DEF PacketsInv
      <4> QED
        BY <1>0, <4>1, <4>2
    <3> QED
      BY <1>1, <1>2, <2>0, <2>2, <3>1, <3>2 DEF PacketsInv
  <2> QED
    BY <2>1, <2>2
<1>9. ASSUME NEW t \in Station PROVE AcksInv(t)'
  <2>0. AcksInv(t) /\ SlotsInv(t) /\ Peer[t] \in Station
    BY PeerType DEF IInv
  <2>1. ASSUME NEW a \in Nat, AckProves(t, a) PROVE AckProves(t, a)'
    <3>1. \A i \in DOMAIN reliable[t] : SentBefore(reliable[t][i], a) => Got(Peer[t], i)'
      <4>1. \A i \in DOMAIN reliable[t] : i \in Nat
        BY <1>0, <2>0 DEF SlotsInv, TypeOK
      <4> QED
        BY <1>3, <2>0, <2>1, <4>1 DEF AckProves
    <3>2. a < idgen_packet_send'[t] /\ \A g \in sending'[t] : a < g.id
      <4>1. idgen_packet_send[t] \in Nat
        BY <1>0 DEF TypeOK
      <4> QED
        BY <1>1, <2>1, <4>1 DEF AckProves
    <3> QED
      BY <1>2, <3>1, <3>2 DEF AckProves
  <2>2. /\ ack[Peer[t]] \in Nat
        /\ \A g \in sending[Peer[t]] : g.ack \in Nat
        /\ \A p \in net[Peer[t]] : p.ack \in Nat
    <3>1. ack[Peer[t]] \in Nat
      BY <1>0, <2>0 DEF TypeOK
    <3>2. \A g \in sending[Peer[t]] : g.ack \in Nat
      BY <1>0, <2>0 DEF TypeOK
    <3>3. \A p \in net[Peer[t]] : p.ack \in Nat
      BY <1>0, <2>0 DEF TypeOK
    <3> QED
      BY <3>1, <3>2, <3>3
  <2>3. AckProves(t, ack[Peer[t]])'
    BY <1>2, <2>0, <2>1, <2>2 DEF AcksInv
  <2>4. ASSUME NEW g \in sending'[Peer[t]] PROVE AckProves(t, g.ack)'
    <3>1. CASE Peer[t] = s
      BY <1>1, <1>2, <2>3, <3>1
    <3>2. CASE Peer[t] # s
      BY <1>1, <2>0, <2>1, <2>2, <3>2 DEF AcksInv
    <3> QED
      BY <3>1, <3>2
  <2>5. ASSUME NEW p \in net'[Peer[t]] PROVE AckProves(t, p.ack)'
    BY <1>2, <2>0, <2>1, <2>2 DEF AcksInv
  <2> QED
    BY <2>3, <2>4, <2>5 DEF AcksInv
<1> QED
  BY <1>4, <1>5, <1>6, <1>7, <1>8, <1>9 DEF IInv

LEMMA SendFinishStep ==
  ASSUME IInv, NEW s \in Station, NEW h \in sending[s], SendFinish(s, h)
  PROVE  IInv'
<1> DEFINE R == reliable[s]
           Q == [i \in DOMAIN R |->
                  [body |-> R[i].body, sent |-> IF R[i].sent = 0 THEN h.id ELSE R[i].sent]]
           p == [id |-> h.id, ack |-> h.ack, msgs |-> [i \in DOMAIN R |-> R[i].body]]
<1>0. TypeOK /\ SlotsInv(s) /\ PacketsInv(s) /\ Peer[s] \in Station
  BY PeerType DEF IInv
<1>1. /\ h.id \in Nat \ {0} /\ h.ack \in Nat
      /\ h.id < idgen_packet_send[s] /\ idgen_packet_send[s] \in Nat
  BY <1>0 DEF TypeOK, PacketsInv
<1>2. UNCHANGED <<written, delivered, idgen_reliable_send, idgen_packet_send, extra_reliables,
                  ack, msg_current, message, incoming>>
  BY DEF SendFinish, inVars
<1>3. /\ reliable' = [reliable EXCEPT ![s] = Q]
      /\ net' = [net EXCEPT ![s] = @ \cup {p}]
      /\ sending' = [sending EXCEPT ![s] = {}]
  BY DEF SendFinish
<1>4. /\ \A t \in Station : t # s => /\ reliable'[t] = reliable[t]
                                     /\ net'[t] = net[t]
                                     /\ sending'[t] = sending[t]
      /\ reliable'[s] = Q /\ net'[s] = net[s] \cup {p} /\ sending'[s] = {}
  BY <1>0, <1>3 DEF TypeOK
<1>5. /\ \A t \in Station : DOMAIN reliable'[t] = DOMAIN reliable[t]
      /\ \A t \in Station : sending'[t] \subseteq sending[t]
  BY <1>4
<1>6. \A i \in DOMAIN R : R[i].sent \in Nat /\ R[i].sent < h.id /\ R[i] \in [body : Message, sent : Nat]
  BY <1>0 DEF SlotsInv, TypeOK
<1>7. \A i \in DOMAIN R : Q[i].body = R[i].body /\ Q[i].sent = (IF R[i].sent = 0 THEN h.id ELSE R[i].sent)
  OBVIOUS
<1>8. \A t \in Station, i \in Nat : Got(t, i)' = Got(t, i)
  BY <1>2 DEF Got, WindowIds
<1>9. p.id = h.id /\ p.ack = h.ack /\ DOMAIN p.msgs = DOMAIN R /\ \A i \in DOMAIN R : p.msgs[i] = R[i].body
  OBVIOUS
<1>10. Q \in [DOMAIN Q -> [body : Message, sent : Nat]] /\ DOMAIN Q = DOMAIN R
  BY <1>1, <1>6
<1> HIDE DEF p, Q
<1>11. TypeOK'
  <2>1. sending' \in [Station -> SUBSET [id : Nat \ {0}, ack : Nat]]
    BY <1>0, <1>3 DEF TypeOK
  <2>2. DOMAIN reliable' = Station /\ DOMAIN net' = Station
    BY <1>0, <1>3 DEF TypeOK
  <2>3. ASSUME NEW t \in Station
        PROVE  reliable'[t] \in [DOMAIN reliable'[t] -> [body : Message, sent : Nat]]
    BY <1>0, <1>4, <1>10 DEF TypeOK
  <2>4. ASSUME NEW t \in Station, NEW q \in net'[t]
        PROVE  /\ q.id \in Nat \ {0} /\ q.ack \in Nat
               /\ \A i \in DOMAIN q.msgs : q.msgs[i] \in Message
    <3>1. CASE q = p
      BY <1>1, <1>6, <1>9, <3>1
    <3>2. CASE q # p
      <4>1. q \in net[t]
        BY <1>4, <3>2
      <4> QED
        BY <1>0, <4>1 DEF TypeOK
    <3> QED
      BY <3>1, <3>2
  <2>5. ASSUME NEW t \in Station, NEW c \in incoming[t]
        PROVE  c.packet \in net'[Peer[t]] /\ c.next \in {"ack", "release"}
    <3>1. c.packet \in net[Peer[t]] /\ c.next \in {"ack", "release"} /\ Peer[t] \in Station
      BY <1>0, PeerType DEF TypeOK
    <3> QED
      BY <1>4, <3>1
  <2> QED
    BY <1>0, <1>2, <2>1, <2>2, <2>3, <2>4, <2>5 DEF TypeOK
<1>12. AckedIsReceived' /\ SlotsHoldTheWindow'
  BY <1>2, <1>5 DEF IInv, AckedIsReceived, SlotsHoldTheWindow, Got, WindowIds
<1>13. QueueWaitsForAcks'
  <2>1. Bytes(Q) = Bytes(R)
    BY <1>7, <1>10 DEF Bytes
  <2>2. ASSUME NEW m PROVE HasRoom(Q, m) = HasRoom(R, m)
    BY <1>10, <2>1 DEF HasRoom, CanAdd
  <2>3. ASSUME NEW t \in Station, extra_reliables[t] # <<>>
        PROVE  DOMAIN reliable'[t] # {} /\ ~HasRoom(reliable'[t], Head(extra_reliables[t]))
    <3>1. DOMAIN reliable[t] # {} /\ ~HasRoom(reliable[t], Head(extra_reliables[t]))
      BY <2>3 DEF IInv, QueueWaitsForAcks
    <3> QED
      BY <1>4, <1>5, <2>2, <3>1
  <2> QED
    BY <1>2, <2>3 DEF QueueWaitsForAcks
<1>14. ASSUME NEW t \in Station PROVE WrittenInv(t)' /\ ReceiverInv(t)'
  BY <1>2 DEF IInv, WrittenInv, ReceiverInv, Got, WindowIds
<1>15. ASSUME NEW t \in Station PROVE SlotsInv(t)'
  <2>0. SlotsInv(t)
    BY DEF IInv
  <2>1. CASE t # s
    BY <1>2, <1>4, <2>0, <2>1 DEF SlotsInv
  <2>2. CASE t = s
    <3>1. ASSUME NEW i \in DOMAIN R PROVE Q[i].sent < idgen_packet_send[s]
      BY <1>0, <1>1, <1>6, <1>7 DEF SlotsInv
    <3>2. ASSUME NEW i \in DOMAIN R, NEW j \in DOMAIN R, i < j PROVE SentBefore(Q[i], Q[j].sent)
      <4>1. R[j].sent # 0 => R[i].sent # 0 /\ R[i].sent <= R[j].sent
        BY <1>0, <3>2 DEF SlotsInv, SentBefore
      <4> QED
        BY <1>1, <1>6, <1>7, <4>1 DEF SentBefore
    <3> QED
      BY <1>0, <1>2, <1>4, <1>7, <1>10, <2>2, <3>1, <3>2 DEF SlotsInv
  <2> QED
    BY <2>1, <2>2
<1>16. ASSUME NEW t \in Station PROVE PacketsInv(t)'
  <2>0. PacketsInv(t)
    BY DEF IInv
  <2>1. CASE t # s
    BY <1>2, <1>4, <2>0, <2>1 DEF PacketsInv
  <2>2. CASE t = s
    <3>1. ASSUME NEW q \in net[s], NEW i \in DOMAIN R, SentBefore(Q[i], q.id)
          PROVE  i \in DOMAIN q.msgs
      <4>1. q.id < h.id /\ q.id \in Nat
        BY <1>0 DEF PacketsInv, TypeOK
      <4>2. SentBefore(R[i], q.id)
        BY <1>1, <1>6, <1>7, <3>1, <4>1 DEF SentBefore
      <4> QED
        BY <1>0, <4>2 DEF PacketsInv
    <3>2. /\ p.id < idgen_packet_send[s]
          /\ \A i \in DOMAIN p.msgs : /\ i \in 1 .. (idgen_reliable_send[s] - 1)
                                      /\ p.msgs[i] = written[s][i]
      BY <1>0, <1>1, <1>9 DEF SlotsInv
    <3>3. \A i \in DOMAIN Q : i \in DOMAIN p.msgs
      BY <1>9, <1>10
    <3> QED
      BY <1>0, <1>2, <1>4, <1>10, <2>2, <3>1, <3>2, <3>3 DEF PacketsInv
  <2> QED
    BY <2>1, <2>2
<1>17. ASSUME NEW t \in Station PROVE AcksInv(t)'
  <2>0. AcksInv(t) /\ SlotsInv(t) /\ Peer[t] \in Station
    BY PeerType DEF IInv
  <2>1. ASSUME NEW a \in Nat, AckProves(t, a) PROVE AckProves(t, a)'
    <3>1. ASSUME NEW i \in DOMAIN reliable[t], SentBefore(reliable'[t][i], a)
          PROVE  Got(Peer[t], i)'
      <4>1. SentBefore(reliable[t][i], a)
        <5>1. CASE t # s
          BY <1>4, <3>1, <5>1
        <5>2. CASE t = s
          <6>1. a < h.id
            BY <2>1, <5>2 DEF AckProves
          <6> QED
            BY <1>1, <1>4, <1>6, <1>7, <3>1, <5>2, <6>1 DEF SentBefore
        <5> QED
          BY <5>1, <5>2
      <4>2. i \in Nat /\ Got(Peer[t], i)
        BY <1>0, <2>0, <2>1, <4>1, AckedSlotIsGot
      <4> QED
        BY <1>8, <2>0, <4>2
    <3> QED
      BY <1>2, <1>5, <2>1, <3>1 DEF AckProves
  <2>2. AckProves(t, ack[Peer[t]])'
    <3>1. ack[Peer[t]] \in Nat
      BY <1>0, <2>0 DEF TypeOK
    <3> QED
      BY <1>2, <2>0, <2>1, <3>1 DEF AcksInv
  <2>3. ASSUME NEW g \in sending[Peer[t]] PROVE AckProves(t, g.ack)'
    <3>1. g.ack \in Nat
      <4>1. sending[Peer[t]] \subseteq [id : Nat \ {0}, ack : Nat]
        BY <1>0, <2>0 DEF TypeOK
      <4> QED
        BY <4>1
    <3> QED
      BY <2>0, <2>1, <3>1 DEF AcksInv
  <2>4. ASSUME NEW q \in net[Peer[t]] PROVE AckProves(t, q.ack)'
    <3>1. q.ack \in Nat
      BY <1>0, <2>0, PacketTypes
    <3> QED
      BY <2>0, <2>1, <3>1 DEF AcksInv
  <2>5. ASSUME NEW q \in net'[Peer[t]] PROVE AckProves(t, q.ack)'
    <3>1. CASE q \in net[Peer[t]]
      BY <2>4, <3>1
    <3>2. CASE q \notin net[Peer[t]]
      <4>1. Peer[t] = s /\ q = p
        BY <1>4, <2>0, <3>2
      <4> QED
        BY <1>9, <2>3, <4>1
    <3> QED
      BY <3>1, <3>2
  <2> QED
    BY <1>5, <2>0, <2>2, <2>3, <2>5 DEF AcksInv
<1> QED
  BY <1>11, <1>12, <1>13, <1>14, <1>15, <1>16, <1>17 DEF IInv

LEMMA StorePacketStep ==
  ASSUME IInv, NEW s \in Station, NEW p \in net[Peer[s]], StorePacket(s, p)
  PROVE  IInv'
<1> DEFINE c == [packet |-> p, next |-> "ack"]
           cur == msg_current[s]
           Slots == 0 .. (MAX_INCOMING_MESSAGES - 1)
           Candidate(k, i) == i \in DOMAIN p.msgs /\ InWindow(s, i) /\ Index(i) = k
<1>0. /\ TypeOK /\ PacketsInv(Peer[s]) /\ Peer[s] \in Station /\ Peer[Peer[s]] = s
      /\ cur \in Nat \ {0} /\ message[s] \in [Slots -> Message \cup {NoMessage}]
      /\ ~Ready(s) /\ incoming[s] = {}
  BY PeerType DEF IInv, TypeOK, StorePacket
<1>1. UNCHANGED <<written, delivered, idgen_reliable_send, idgen_packet_send, reliable,
                  extra_reliables, ack, msg_current, sending, net>>
  BY DEF StorePacket, outVars
<1>2. /\ \A t \in Station : t # s => message'[t] = message[t] /\ incoming'[t] = incoming[t]
      /\ incoming'[s] = {c}
  BY <1>0 DEF StorePacket, TypeOK
<1>3. message'[s] = [k \in Slots |->
        IF message[s][k] = NoMessage /\ \E i : Candidate(k, i)
        THEN p.msgs[CHOOSE i \in DOMAIN p.msgs : InWindow(s, i) /\ Index(i) = k]
        ELSE message[s][k]]
  BY <1>0, Zenon DEF StorePacket, TypeOK
<1>4. \A i \in DOMAIN p.msgs : /\ i \in Nat \ {0} /\ i < idgen_reliable_send[Peer[s]]
                               /\ p.msgs[i] \in Message /\ p.msgs[i] = written[Peer[s]][i]
  <2>1. idgen_reliable_send[Peer[s]] \in Nat
    BY <1>0 DEF TypeOK
  <2>2. \A i \in DOMAIN p.msgs : p.msgs[i] \in Message
    BY <1>0, PacketTypes
  <2> QED
    BY <1>0, <2>1, <2>2 DEF PacketsInv
<1>5. ASSUME NEW k \in Slots, message[s][k] = NoMessage, \E i : Candidate(k, i)
      PROVE  \E i : Candidate(k, i) /\ message'[s][k] = p.msgs[i]
  BY <1>3, <1>5, Zenon
<1>6. ASSUME NEW k \in Slots, message[s][k] # NoMessage \/ ~\E i : Candidate(k, i)
      PROVE  message'[s][k] = message[s][k]
  BY <1>3, <1>6, Zenon
<1>7. message'[s] \in [Slots -> Message \cup {NoMessage}]
  <2>1. message'[s] = [k \in Slots |-> message'[s][k]]
    BY <1>3
  <2>2. ASSUME NEW k \in Slots PROVE message'[s][k] \in Message \cup {NoMessage}
    BY <1>0, <1>4, <1>5, <1>6
  <2> QED
    BY <2>1, <2>2
<1>8. \A t \in Station : \A i \in Nat : Got(t, i) => Got(t, i)'
  <2> SUFFICES ASSUME NEW t \in Station, NEW i \in Nat, i \in WindowIds(t),
                      message[t][Index(i)] # NoMessage
               PROVE  message'[t][Index(i)] # NoMessage
    BY <1>1 DEF Got, WindowIds
  <2>1. CASE t # s
    BY <1>2, <2>1
  <2>2. CASE t = s
    <3>1. i \in Nat \ {0}
      BY <1>0, <2>2 DEF WindowIds
    <3> QED
      BY <1>6, <2>2, <3>1, IndexType
  <2> QED
    BY <2>1, <2>2
<1>9. \A i \in DOMAIN p.msgs : Got(s, i)'
  <2> SUFFICES ASSUME NEW i \in DOMAIN p.msgs, i >= cur PROVE Got(s, i)'
    BY <1>0, <1>1, <1>4 DEF Got
  <2>1. InWindow(s, i)
    BY <1>0, RoomInWindow DEF WindowHasRoom
  <2>2. i \in WindowIds(s)' /\ Index(i) \in Slots
    BY <1>0, <1>1, <1>4, <2>1, IndexType, CapacityAssumption DEF WindowIds, InWindow
  <2>3. Candidate(Index(i), i)
    BY <2>1
  <2>4. message'[s][Index(i)] # NoMessage
    <3>1. CASE message[s][Index(i)] = NoMessage
      BY <1>4, <1>5, <2>2, <2>3, <3>1, MessageAssumption
    <3>2. CASE message[s][Index(i)] # NoMessage
      BY <1>6, <2>2, <3>2
    <3> QED
      BY <3>1, <3>2
  <2> QED
    BY <2>2, <2>4 DEF Got
<1>10. TypeOK'
  <2>1. message' \in [Station -> [Slots -> Message \cup {NoMessage}]]
    BY <1>0, <1>2, <1>7 DEF StorePacket, TypeOK
  <2>2. DOMAIN incoming' = Station
    BY <1>0 DEF StorePacket, TypeOK
  <2>3. ASSUME NEW t \in Station, NEW d \in incoming'[t]
        PROVE  d.packet \in net[Peer[t]] /\ d.next \in {"ack", "release"}
    <3>1. CASE t = s
      BY <1>2, <3>1
    <3>2. CASE t # s
      BY <1>0, <1>2, <3>2 DEF TypeOK
    <3> QED
      BY <3>1, <3>2
  <2> QED
    BY <1>0, <1>1, <2>1, <2>2, <2>3 DEF TypeOK
<1>11. AckedIsReceived'
  <2> SUFFICES ASSUME NEW t \in Station, NEW i \in 1 .. (idgen_reliable_send[t] - 1)
               PROVE  i \in DOMAIN reliable[t] \/ Got(Peer[t], i)'
    BY <1>1 DEF AckedIsReceived
  <2> QED
    BY <1>8, PeerType DEF IInv, AckedIsReceived
<1>12. SlotsHoldTheWindow'
  <2> SUFFICES ASSUME NEW t \in Station, NEW k \in DOMAIN message'[t], message'[t][k] # NoMessage
               PROVE  \E i \in WindowIds(t) : /\ Index(i) = k
                                              /\ i < idgen_reliable_send[Peer[t]]
                                              /\ message'[t][k] = written[Peer[t]][i]
    BY <1>1 DEF SlotsHoldTheWindow, WindowIds
  <2>1. CASE t # s
    BY <1>2, <2>1 DEF IInv, SlotsHoldTheWindow
  <2>2. CASE t = s /\ message'[s][k] = message[s][k]
    <3>1. k \in DOMAIN message[s]
      BY <1>0, <1>3, <2>2
    <3> QED
      BY <2>2, <3>1 DEF IInv, SlotsHoldTheWindow
  <2>3. CASE t = s /\ message'[s][k] # message[s][k]
    <3>1. k \in Slots
      BY <1>3, <2>3
    <3>2. PICK i : Candidate(k, i) /\ message'[s][k] = p.msgs[i]
      BY <1>5, <1>6, <2>3, <3>1
    <3>3. i \in WindowIds(s)
      BY <1>0, <1>4, <3>2, CapacityAssumption DEF InWindow, WindowIds
    <3> QED
      BY <1>4, <2>3, <3>2, <3>3
  <2> QED
    BY <2>1, <2>2, <2>3
<1>13. QueueWaitsForAcks'
  BY <1>1 DEF IInv, QueueWaitsForAcks
<1>14. ASSUME NEW t \in Station PROVE WrittenInv(t)' /\ SlotsInv(t)' /\ PacketsInv(t)'
  BY <1>1 DEF IInv, WrittenInv, SlotsInv, PacketsInv
<1>15. ASSUME NEW t \in Station PROVE AcksInv(t)'
  <2>0. AcksInv(t) /\ SlotsInv(t) /\ Peer[t] \in Station
    BY PeerType DEF IInv
  <2>1. ASSUME NEW a \in Nat, AckProves(t, a) PROVE AckProves(t, a)'
    <3>1. ASSUME NEW i \in DOMAIN reliable[t], SentBefore(reliable[t][i], a) PROVE Got(Peer[t], i)'
      <4>1. i \in Nat /\ Got(Peer[t], i)
        BY <1>0, <2>0, <2>1, <3>1, AckedSlotIsGot
      <4> QED
        BY <1>8, <2>0, <4>1
    <3> QED
      BY <1>1, <2>1, <3>1 DEF AckProves
  <2> QED
    BY <1>0, <1>1, <2>0, <2>1, AcksKept
<1>16. ASSUME NEW t \in Station PROVE ReceiverInv(t)'
  <2>0. ReceiverInv(t) /\ PacketsInv(Peer[t])
    BY PeerType DEF IInv
  <2>1. ASSUME NEW d \in incoming'[t], NEW i \in DOMAIN d.packet.msgs PROVE Got(t, i)'
    <3>1. CASE t = s
      BY <1>2, <1>9, <2>1, <3>1
    <3>2. CASE t # s
      <4>1. d \in incoming[t]
        BY <1>2, <3>2
      <4>2. i \in Nat
        BY <1>0, <2>0, <4>1, IncomingIds
      <4> QED
        BY <1>8, <2>0, <4>1, <4>2 DEF ReceiverInv
    <3> QED
      BY <3>1, <3>2
  <2> QED
    BY <1>1, <2>0, <2>1 DEF ReceiverInv
<1> QED
  BY <1>10, <1>11, <1>12, <1>13, <1>14, <1>15, <1>16 DEF IInv

LEMMA AckPacketStep ==
  ASSUME IInv, NEW s \in Station, NEW c \in incoming[s], AckPacket(s, c)
  PROVE  IInv'
<1> DEFINE p == c.packet
           d == [packet |-> p, next |-> "release"]
<1>0. /\ TypeOK /\ ReceiverInv(s) /\ PacketsInv(Peer[s]) /\ Peer[s] \in Station
      /\ Peer[Peer[s]] = s /\ SlotsInv(Peer[s])
  BY PeerType DEF IInv
<1>1. p \in net[Peer[s]] /\ p.id \in Nat
  BY <1>0, IncomingIds, PacketTypes
<1>2. UNCHANGED <<written, delivered, idgen_reliable_send, idgen_packet_send, reliable,
                  extra_reliables, msg_current, message, sending, net>>
  BY DEF AckPacket, outVars, inVars
<1>3. /\ \A t \in Station : t # s => ack'[t] = ack[t] /\ incoming'[t] = incoming[t]
      /\ ack'[s] = p.id /\ incoming'[s] = {d}
  BY <1>0 DEF AckPacket, TypeOK
<1>4. d.packet = p /\ d.next = "release"
  OBVIOUS
<1>5. \A t \in Station, i \in Nat : Got(t, i)' = Got(t, i)
  BY <1>2 DEF Got, WindowIds
<1> HIDE DEF d
<1>6. TypeOK'
  <2>1. ack' \in [Station -> Nat] /\ DOMAIN incoming' = Station
    BY <1>0, <1>1 DEF AckPacket, TypeOK
  <2>2. ASSUME NEW t \in Station, NEW e \in incoming'[t]
        PROVE  e.packet \in net[Peer[t]] /\ e.next \in {"ack", "release"}
    <3>1. CASE t = s
      BY <1>1, <1>3, <1>4, <3>1
    <3>2. CASE t # s
      BY <1>0, <1>3, <3>2 DEF TypeOK
    <3> QED
      BY <3>1, <3>2
  <2> QED
    BY <1>0, <1>2, <2>1, <2>2 DEF TypeOK
<1>7. AckedIsReceived' /\ SlotsHoldTheWindow' /\ QueueWaitsForAcks'
  BY <1>2 DEF IInv, AckedIsReceived, SlotsHoldTheWindow, QueueWaitsForAcks, Got, WindowIds
<1>8. ASSUME NEW t \in Station PROVE WrittenInv(t)' /\ SlotsInv(t)' /\ PacketsInv(t)'
  BY <1>2 DEF IInv, WrittenInv, SlotsInv, PacketsInv
<1>9. AckProves(Peer[s], p.id)
  <2>1. ASSUME NEW i \in DOMAIN reliable[Peer[s]], SentBefore(reliable[Peer[s]][i], p.id)
        PROVE  Got(s, i)
    BY <1>0, <1>1, <2>1 DEF PacketsInv, ReceiverInv
  <2> QED
    BY <1>0, <1>1, <2>1 DEF AckProves, PacketsInv
<1>10. ASSUME NEW t \in Station PROVE AcksInv(t)'
  <2>0. AcksInv(t)
    BY DEF IInv
  <2>1. ASSUME NEW a PROVE AckProves(t, a)' = AckProves(t, a)
    BY <1>2 DEF AckProves, Got, WindowIds
  <2>2. CASE Peer[t] = s
    <3>1. AckProves(t, p.id)
      BY <1>9, <2>2, PeerType
    <3> QED
      BY <1>2, <1>3, <2>0, <2>1, <2>2, <3>1 DEF AcksInv
  <2>3. CASE Peer[t] # s
    BY <1>2, <1>3, <2>0, <2>1, <2>3, PeerType DEF AcksInv
  <2> QED
    BY <2>2, <2>3
<1>11. ASSUME NEW t \in Station PROVE ReceiverInv(t)'
  <2>0. ReceiverInv(t)
    BY DEF IInv
  <2>1. CASE t = s
    <3>1. \A e \in incoming'[s] : e.packet = p
      BY <1>3, <1>4
    <3>2. \A i \in DOMAIN p.msgs : Got(s, i)'
      BY <1>0, <1>2 DEF ReceiverInv, Got, WindowIds
    <3> QED
      BY <1>2, <2>0, <2>1, <3>1, <3>2 DEF ReceiverInv
  <2>2. CASE t # s
    BY <1>2, <1>3, <2>0, <2>2 DEF ReceiverInv, Got, WindowIds
  <2> QED
    BY <2>1, <2>2
<1> QED
  BY <1>6, <1>7, <1>8, <1>10, <1>11 DEF IInv

LEMMA ReadReliableStep ==
  ASSUME IInv, NEW s \in Station, ReadReliable(s)
  PROVE  IInv'
<1> DEFINE cur == msg_current[s]
           k0 == Index(cur)
           Slots == 0 .. (MAX_INCOMING_MESSAGES - 1)
           m == message[s][k0]
<1>0. /\ TypeOK /\ ReceiverInv(s) /\ WrittenInv(Peer[s])
      /\ Peer[s] \in Station /\ Peer[Peer[s]] = s
      /\ cur \in Nat \ {0} /\ k0 \in Slots /\ Ready(s)
      /\ message[s] \in [Slots -> Message \cup {NoMessage}]
      /\ delivered[s] \in Seq(Message)
      /\ incoming[s] = {}
  BY PeerType, IndexType DEF IInv, TypeOK, ReadReliable
<1>1. UNCHANGED <<written, idgen_reliable_send, idgen_packet_send, reliable,
                  extra_reliables, ack, sending, incoming, net>>
  BY DEF ReadReliable, outVars
<1>2. /\ \A t \in Station : t # s => /\ message'[t] = message[t]
                                     /\ msg_current'[t] = msg_current[t]
                                     /\ delivered'[t] = delivered[t]
      /\ message'[s] = [message[s] EXCEPT ![k0] = NoMessage]
      /\ msg_current'[s] = cur + 1
      /\ delivered'[s] = Append(delivered[s], m)
  BY <1>0 DEF ReadReliable, TypeOK
<1>3. /\ message'[s] \in [Slots -> Message \cup {NoMessage}]
      /\ message'[s][k0] = NoMessage
      /\ \A k \in Slots \ {k0} : message'[s][k] = message[s][k]
  BY <1>0, <1>2
<1>4. cur < idgen_reliable_send[Peer[s]] /\ m = written[Peer[s]][cur] /\ m \in Message
  BY <1>0, GotMessagesAreInWindow DEF Ready
<1>5. ASSUME NEW i \in WindowIds(s), i # cur
      PROVE  i \in WindowIds(s)' /\ Index(i) \in Slots \ {k0}
  <2>1. i \in Nat \ {0} /\ cur <= i /\ i < cur + MAX_INCOMING_MESSAGES
    BY <1>0, CapacityAssumption DEF WindowIds
  <2>2. Index(i) # k0
    <3>1. cur < cur + MAX_INCOMING_MESSAGES
      BY <1>0, CapacityAssumption
    <3>2. Index(i) = Index(cur) => i = cur
      BY <1>0, <2>1, <3>1, IndexInjective
    <3> QED
      BY <1>5, <3>2
  <2>3. Index(i) \in Slots
    BY <2>1, IndexType
  <2>4. i \in WindowIds(s)'
    <3>1. cur + 1 <= i /\ i <= cur + 1 + MAX_INCOMING_MESSAGES
      BY <1>0, <1>5, <2>1, CapacityAssumption
    <3> QED
      BY <1>0, <1>2, <1>5, <2>1, CapacityAssumption DEF WindowIds
  <2> QED
    BY <2>2, <2>3, <2>4
<1>6. \A t \in Station : \A i \in Nat : Got(t, i) => Got(t, i)'
  <2> SUFFICES ASSUME NEW t \in Station, NEW i \in Nat, Got(t, i) PROVE Got(t, i)'
    OBVIOUS
  <2>1. CASE t # s
    BY <1>2, <2>1 DEF Got, WindowIds
  <2>2. CASE t = s /\ i <= cur
    BY <1>0, <1>2, <2>2 DEF Got
  <2>3. CASE t = s /\ i > cur
    <3>1. i \in WindowIds(s) /\ message[s][Index(i)] # NoMessage
      BY <1>0, <2>3 DEF Got
    <3> QED
      BY <1>0, <1>3, <1>5, <2>3, <3>1 DEF Got
  <2> QED
    BY <1>0, <2>1, <2>2, <2>3
<1>7. TypeOK'
  <2>1. message' \in [Station -> [Slots -> Message \cup {NoMessage}]]
    BY <1>0, <1>2, <1>3 DEF ReadReliable, TypeOK
  <2>2. msg_current' \in [Station -> Nat \ {0}]
    <3>1. msg_current' = [msg_current EXCEPT ![s] = cur + 1]
      BY DEF ReadReliable
    <3>2. msg_current \in [Station -> Nat \ {0}]
      BY <1>0 DEF TypeOK
    <3>3. cur + 1 \in Nat \ {0}
      BY <1>0
    <3> QED
      BY <3>1, <3>2, <3>3
  <2>3. delivered' \in [Station -> Seq(Message)]
    BY <1>0, <1>2, <1>4 DEF ReadReliable, TypeOK
  <2> QED
    BY <1>0, <1>1, <2>1, <2>2, <2>3 DEF TypeOK
<1>8. AckedIsReceived'
  <2> SUFFICES ASSUME NEW t \in Station, NEW i \in 1 .. (idgen_reliable_send[t] - 1)
               PROVE  i \in DOMAIN reliable[t] \/ Got(Peer[t], i)'
    BY <1>1 DEF AckedIsReceived
  <2> QED
    BY <1>6, PeerType DEF IInv, AckedIsReceived
<1>9. SlotsHoldTheWindow'
  <2> SUFFICES ASSUME NEW t \in Station, NEW k \in DOMAIN message'[t], message'[t][k] # NoMessage
               PROVE  \E i \in WindowIds(t)' : /\ Index(i) = k
                                               /\ i < idgen_reliable_send[Peer[t]]
                                               /\ message'[t][k] = written[Peer[t]][i]
    BY <1>1 DEF SlotsHoldTheWindow
  <2>1. CASE t # s
    BY <1>2, <2>1 DEF IInv, SlotsHoldTheWindow, WindowIds
  <2>2. CASE t = s
    <3>1. k \in Slots \ {k0} /\ message[s][k] = message'[s][k] /\ k \in DOMAIN message[s]
      BY <1>0, <1>3, <2>2
    <3>2. PICK i \in WindowIds(s) : /\ Index(i) = k
                                    /\ i < idgen_reliable_send[Peer[s]]
                                    /\ message[s][k] = written[Peer[s]][i]
      BY <2>2, <3>1 DEF IInv, SlotsHoldTheWindow
    <3>3. i # cur
      BY <3>1, <3>2
    <3> QED
      BY <1>5, <2>2, <3>1, <3>2, <3>3
  <2> QED
    BY <2>1, <2>2
<1>10. QueueWaitsForAcks'
  BY <1>1 DEF IInv, QueueWaitsForAcks
<1>11. ASSUME NEW t \in Station PROVE WrittenInv(t)' /\ SlotsInv(t)' /\ PacketsInv(t)'
  BY <1>1 DEF IInv, WrittenInv, SlotsInv, PacketsInv
<1>12. ASSUME NEW t \in Station PROVE AcksInv(t)'
  <2>0. AcksInv(t) /\ SlotsInv(t) /\ Peer[t] \in Station
    BY PeerType DEF IInv
  <2>1. ASSUME NEW a \in Nat, AckProves(t, a) PROVE AckProves(t, a)'
    <3>1. ASSUME NEW i \in DOMAIN reliable[t], SentBefore(reliable[t][i], a) PROVE Got(Peer[t], i)'
      <4>1. i \in Nat /\ Got(Peer[t], i)
        BY <1>0, <2>0, <2>1, <3>1, AckedSlotIsGot
      <4> QED
        BY <1>6, <2>0, <4>1
    <3> QED
      BY <1>1, <2>1, <3>1 DEF AckProves
  <2> QED
    BY <1>0, <1>1, <2>0, <2>1, AcksKept
<1>13. ASSUME NEW t \in Station PROVE ReceiverInv(t)'
  <2>0. ReceiverInv(t) /\ PacketsInv(Peer[t])
    BY PeerType DEF IInv
  <2>1. ASSUME NEW c \in incoming[t], NEW i \in DOMAIN c.packet.msgs PROVE Got(t, i)'
    <3>1. i \in Nat
      BY <1>0, <2>0, IncomingIds
    <3> QED
      BY <1>6, <2>0, <3>1 DEF ReceiverInv
  <2>2. CASE t # s
    BY <1>1, <1>2, <2>0, <2>1, <2>2 DEF ReceiverInv
  <2>3. CASE t = s
    <3>1. Len(delivered[s]) = cur - 1 /\ Len(Append(delivered[s], m)) = cur
      BY <1>0, <1>4 DEF ReceiverInv
    <3>2. cur + 1 <= idgen_reliable_send[Peer[s]]
      <4>1. idgen_reliable_send[Peer[s]] \in Nat
        BY <1>0 DEF TypeOK
      <4> QED
        BY <1>0, <1>4, <4>1
    <3>3. ASSUME NEW i \in 1 .. cur PROVE Append(delivered[s], m)[i] = written[Peer[s]][i]
      <4>1. CASE i = cur
        BY <1>0, <1>4, <3>1, <4>1
      <4>2. CASE i # cur
        <5>1. i \in 1 .. (cur - 1)
          BY <1>0, <4>2
        <5>2. Append(delivered[s], m)[i] = delivered[s][i]
          BY <1>0, <3>1, <5>1
        <5> QED
          BY <1>0, <5>1, <5>2 DEF ReceiverInv
      <4> QED
        BY <4>1, <4>2
    <3> QED
      <4>1. msg_current'[t] - 1 = cur
        BY <1>0, <1>2, <2>3
      <4>2. Len(delivered'[t]) = cur /\ \A i \in 1 .. cur : delivered'[t][i] = written[Peer[s]][i]
        BY <1>2, <2>3, <3>1, <3>3
      <4>3. msg_current'[t] <= idgen_reliable_send[Peer[s]]
        BY <1>2, <2>3, <3>2
      <4> HIDE DEF cur
      <4> QED
        BY <1>1, <2>1, <2>3, <4>1, <4>2, <4>3 DEF ReceiverInv
  <2> QED
    BY <2>2, <2>3
<1> QED
  BY <1>7, <1>8, <1>9, <1>10, <1>11, <1>12, <1>13 DEF IInv

LEMMA ReleaseAckedStep ==
  ASSUME IInv, NEW s \in Station, NEW c \in incoming[s], ReleaseAcked(s, c)
  PROVE  IInv'
<1> DEFINE a == c.packet.ack
           R == Unacked(reliable[s], a)
           n == idgen_reliable_send[s]
           x == extra_reliables[s]
<1>0. /\ TypeOK /\ SlotsInv(s) /\ WrittenInv(s) /\ AcksInv(s) /\ PacketsInv(Peer[s])
      /\ Peer[s] \in Station /\ n \in Nat \ {0} /\ x \in Seq(Message) /\ Len(x) \in Nat
  <2>1. TypeOK
    BY DEF IInv
  <2>2. n \in Nat \ {0} /\ x \in Seq(Message)
    BY <2>1 DEF TypeOK
  <2> QED
    BY <2>1, <2>2, PeerType DEF IInv
<1>1. PICK k \in 0 .. Len(x) :
        /\ IF DOMAIN R = DOMAIN reliable[s] THEN k = 0 ELSE FillsTo(R, n, x, k)
        /\ reliable' = [reliable EXCEPT ![s] = AddFirst(R, n, x, k)]
        /\ idgen_reliable_send' = [idgen_reliable_send EXCEPT ![s] = n + k]
        /\ extra_reliables' = [extra_reliables EXCEPT ![s] = SubSeq(x, k + 1, Len(x))]
  BY DEF ReleaseAcked
<1> DEFINE Q == AddFirst(R, n, x, k)
           y == SubSeq(x, k + 1, Len(x))
<1>2. UNCHANGED <<written, delivered, idgen_packet_send, ack, msg_current, message, sending, net>>
  BY DEF ReleaseAcked, inVars
<1>3. /\ \A t \in Station : t # s => /\ reliable'[t] = reliable[t]
                                     /\ idgen_reliable_send'[t] = idgen_reliable_send[t]
                                     /\ extra_reliables'[t] = extra_reliables[t]
                                     /\ incoming'[t] = incoming[t]
      /\ reliable'[s] = Q /\ idgen_reliable_send'[s] = n + k
      /\ extra_reliables'[s] = y /\ incoming'[s] = {}
  BY <1>0, <1>1 DEF ReleaseAcked, TypeOK
<1>4. /\ DOMAIN R \subseteq DOMAIN reliable[s]
      /\ \A i \in DOMAIN R : R[i] = reliable[s][i] /\ ~SentBefore(R[i], a)
      /\ \A i \in DOMAIN reliable[s] \ DOMAIN R : SentBefore(reliable[s][i], a)
  BY DEF Unacked
<1>5. /\ DOMAIN Q = DOMAIN R \cup n .. (n + k - 1)
      /\ \A i \in DOMAIN R : Q[i] = reliable[s][i]
      /\ \A i \in n .. (n + k - 1) : Q[i] = [body |-> x[i - n + 1], sent |-> 0]
  <2>1. \A i \in n .. (n + k - 1) : i \notin DOMAIN R
    BY <1>0, <1>4 DEF SlotsInv
  <2> QED
    BY <1>0, <1>4, <2>1 DEF AddFirst
<1>6. \A i \in DOMAIN reliable[s] : /\ i \in 1 .. (n - 1)
                                    /\ reliable[s][i] \in [body : Message, sent : Nat]
  BY <1>0 DEF SlotsInv, TypeOK
<1>7. /\ y \in Seq(Message) /\ Len(y) = Len(x) - k
      /\ \A j \in 1 .. (Len(x) - k) : y[j] = x[k + j]
  BY <1>0
<1>8. ASSUME NEW i \in n .. (n + k - 1)
      PROVE  /\ i - n + 1 \in 1 .. Len(x)
             /\ x[i - n + 1] \in Message /\ x[i - n + 1] = written[s][i]
  <2> DEFINE j == i - n + 1
  <2>1. j \in 1 .. Len(x) /\ n - 1 + j = i
    BY <1>0
  <2>2. x[j] \in Message
    BY <1>0, <2>1
  <2>3. x[j] = written[s][n - 1 + j]
    BY <1>0, <2>1 DEF WrittenInv
  <2> QED
    BY <2>1, <2>2, <2>3
<1>9. a \in Nat /\ AckProves(s, a)
  BY <1>0, IncomingIds, PacketTypes DEF AcksInv
<1>10. \A t \in Station, i \in Nat : Got(t, i)' = Got(t, i)
  BY <1>2 DEF Got, WindowIds
<1>a. Q = AddFirst(R, n, x, k) /\ Q = [i \in DOMAIN Q |-> Q[i]] /\ R = [i \in DOMAIN R |-> reliable[s][i]]
  BY DEF AddFirst, Unacked
<1>b. k \in Nat /\ k <= Len(x)
  BY <1>0
<1>c. IF DOMAIN R = DOMAIN reliable[s] THEN k = 0 ELSE FillsTo(R, n, x, k)
  BY <1>1
<1> HIDE DEF Q, y, R
<1>d. \A t \in Station : /\ idgen_reliable_send[t] \in Nat \ {0}
                         /\ idgen_reliable_send'[t] \in Nat \ {0}
                         /\ idgen_reliable_send[t] <= idgen_reliable_send'[t]
  <2>1. ASSUME NEW t \in Station PROVE idgen_reliable_send[t] \in Nat \ {0}
    BY <1>0 DEF TypeOK
  <2>2. n + k \in Nat \ {0} /\ n <= n + k
    BY <1>0, <1>b
  <2> QED
    BY <1>3, <2>1, <2>2
<1>f. ASSUME NEW i \in n .. (n + k - 1) PROVE Q[i].body = x[i - n + 1] /\ Q[i].sent = 0
  <2>1. Q[i] = [body |-> x[i - n + 1], sent |-> 0]
    BY <1>5, Zenon
  <2> QED
    BY <2>1
<1>e. \A t \in Station : \A i \in DOMAIN reliable'[t] : reliable'[t][i].sent # 0 =>
        i \in DOMAIN reliable[t] /\ reliable'[t][i] = reliable[t][i]
  <2>1. \A i \in DOMAIN Q : Q[i].sent # 0 => i \in DOMAIN reliable[s] /\ Q[i] = reliable[s][i]
    BY <1>4, <1>5, <1>f
  <2> QED
    BY <1>3, <2>1
<1>11. TypeOK'
  <2>1. Q \in [DOMAIN Q -> [body : Message, sent : Nat]]
    <3>1. ASSUME NEW i \in DOMAIN Q PROVE Q[i] \in [body : Message, sent : Nat]
      <4>1. CASE i \in DOMAIN R
        BY <1>4, <1>5, <1>6, <4>1
      <4>2. CASE i \in n .. (n + k - 1)
        <5>1. Q[i] = [body |-> x[i - n + 1], sent |-> 0]
          BY <1>5, <4>2, Zenon
        <5>2. x[i - n + 1] \in Message
          BY <1>8, <4>2
        <5> QED
          BY <5>1, <5>2
      <4> QED
        BY <1>5, <4>1, <4>2
    <3> QED
      BY <1>a, <3>1
  <2>2. /\ DOMAIN reliable' = Station /\ DOMAIN incoming' = Station
        /\ extra_reliables' \in [Station -> Seq(Message)]
    BY <1>0, <1>1, <1>3, <1>7 DEF ReleaseAcked, TypeOK
  <2>3. idgen_reliable_send' \in [Station -> Nat \ {0}]
    <3>1. idgen_reliable_send \in [Station -> Nat \ {0}]
      BY <1>0 DEF TypeOK
    <3>2. n + k \in Nat \ {0}
      BY <1>0, <1>b
    <3> QED
      BY <1>1, <3>1, <3>2
  <2>4. ASSUME NEW t \in Station
        PROVE  reliable'[t] \in [DOMAIN reliable'[t] -> [body : Message, sent : Nat]]
    BY <1>0, <1>3, <2>1 DEF TypeOK
  <2>5. ASSUME NEW t \in Station, NEW d \in incoming'[t]
        PROVE  d.packet \in net[Peer[t]] /\ d.next \in {"ack", "release"}
    BY <1>0, <1>3 DEF TypeOK
  <2> QED
    BY <1>0, <1>2, <2>2, <2>3, <2>4, <2>5 DEF TypeOK
<1>12. AckedIsReceived'
  <2> SUFFICES ASSUME NEW t \in Station, NEW i \in 1 .. (idgen_reliable_send'[t] - 1)
               PROVE  i \in DOMAIN reliable'[t] \/ Got(Peer[t], i)'
    BY DEF AckedIsReceived
  <2>1. CASE t # s
    BY <1>3, <1>10, <2>1, PeerType DEF IInv, AckedIsReceived
  <2>2. CASE t = s /\ i \in 1 .. (n - 1)
    <3>1. i \in DOMAIN reliable[s] \/ Got(Peer[s], i)
      BY <2>2 DEF IInv, AckedIsReceived
    <3>2. i \in DOMAIN reliable[s] \ DOMAIN R => Got(Peer[s], i)
      BY <1>4, <1>9 DEF AckProves
    <3> QED
      BY <1>0, <1>3, <1>5, <1>10, <2>2, <3>1, <3>2
  <2>3. CASE t = s /\ i \notin 1 .. (n - 1)
    <3>1. i \in n .. (n + k - 1)
      BY <1>0, <1>3, <1>b, <2>3
    <3> QED
      BY <1>3, <1>5, <2>3, <3>1
  <2> QED
    BY <2>1, <2>2, <2>3
<1>13. SlotsHoldTheWindow'
  <2> SUFFICES ASSUME NEW t \in Station, NEW j \in DOMAIN message[t], message[t][j] # NoMessage
               PROVE  \E i \in WindowIds(t) : /\ Index(i) = j
                                              /\ i < idgen_reliable_send'[Peer[t]]
                                              /\ message[t][j] = written[Peer[t]][i]
    BY <1>2 DEF SlotsHoldTheWindow, WindowIds
  <2>1. PICK i \in WindowIds(t) : /\ Index(i) = j
                                  /\ i < idgen_reliable_send[Peer[t]]
                                  /\ message[t][j] = written[Peer[t]][i]
    BY DEF IInv, SlotsHoldTheWindow
  <2>2. Peer[t] \in Station /\ i \in Int
    BY <1>0, PeerType, CapacityAssumption DEF TypeOK, WindowIds
  <2> QED
    BY <1>d, <2>1, <2>2
<1>14. QueueWaitsForAcks'
  <2>1. ASSUME NEW t \in Station, t # s, extra_reliables'[t] # <<>>
        PROVE  DOMAIN reliable'[t] # {} /\ ~HasRoom(reliable'[t], Head(extra_reliables'[t]))
    BY <1>3, <2>1 DEF IInv, QueueWaitsForAcks
  <2>2. ASSUME y # <<>> PROVE DOMAIN Q # {} /\ ~HasRoom(Q, Head(y))
    <3>1. k < Len(x) /\ Head(y) = x[k + 1]
      BY <1>0, <1>7, <1>b, <2>2
    <3>2. CASE DOMAIN R = DOMAIN reliable[s]
      <4>1. k = 0 /\ R = reliable[s] /\ R \in [DOMAIN R -> [body : Message, sent : Nat]]
        BY <1>0, <1>a, <1>c, <3>2 DEF TypeOK
      <4>2. Q = reliable[s]
        <5> HIDE DEF R, n, x
        <5>0. k = 0
          BY <4>1
        <5>1. Q = AddFirst(R, n, x, 0)
          BY <5>0 DEF Q
        <5>2. AddFirst(R, n, x, 0) = R
          BY <1>0, <4>1, AddNone
        <5> QED
          BY <4>1, <5>1, <5>2, Zenon
      <4>3. x # <<>> /\ Head(y) = Head(x)
        BY <1>0, <3>1, <4>1
      <4> QED
        BY <4>2, <4>3 DEF IInv, QueueWaitsForAcks
    <3>3. CASE DOMAIN R # DOMAIN reliable[s]
      <4>1. ~HasRoom(Q, Head(y))
        BY <1>a, <1>c, <3>1, <3>3 DEF FillsTo
      <4>2. Cardinality({}) < MAXMSG
        BY FS_EmptySet, CapacityAssumption
      <4> QED
        BY <4>1, <4>2, Zenon DEF HasRoom, CanAdd
    <3> QED
      BY <3>2, <3>3
  <2> QED
    BY <1>3, <2>1, <2>2 DEF QueueWaitsForAcks
<1>15. ASSUME NEW t \in Station PROVE WrittenInv(t)'
  <2>0. WrittenInv(t)
    BY DEF IInv
  <2>1. CASE t # s
    BY <1>2, <1>3, <2>0, <2>1 DEF WrittenInv
  <2>2. CASE t = s
    <3>1. Len(written[s]) = n + k - 1 + Len(y)
      <4>1. Len(written[s]) = n - 1 + Len(x)
        BY <1>0 DEF WrittenInv
      <4>2. Len(y) = Len(x) - k /\ k \in Nat
        BY <1>7
      <4>3. n \in Nat /\ Len(x) \in Nat
        BY <1>0
      <4> HIDE DEF n, x, y
      <4> QED
        BY <4>1, <4>2, <4>3
    <3>2. ASSUME NEW j \in 1 .. Len(y) PROVE y[j] = written[s][n + k - 1 + j]
      <4>1. k + j \in 1 .. Len(x) /\ n + k - 1 + j = n - 1 + (k + j)
        <5>1. n \in Nat /\ Len(x) \in Nat /\ k \in Nat /\ j \in 1 .. (Len(x) - k)
          BY <1>0, <1>7, <1>b
        <5> HIDE DEF n, x
        <5> QED
          BY <5>1
      <4>2. x[k + j] = written[s][n - 1 + (k + j)]
        BY <1>0, <4>1 DEF WrittenInv
      <4> QED
        BY <1>7, <4>1, <4>2
    <3> QED
      <4>1. written'[t] = written[s] /\ idgen_reliable_send'[t] = n + k /\ extra_reliables'[t] = y
        BY <1>2, <1>3, <2>2
      <4>2. n \in Nat /\ k \in Nat
        BY <1>0, <1>b
      <4> HIDE DEF n
      <4> QED
        BY <3>1, <3>2, <4>1, <4>2 DEF WrittenInv
  <2> QED
    BY <2>1, <2>2
<1>16. ASSUME NEW t \in Station PROVE SlotsInv(t)'
  <2>0. SlotsInv(t)
    BY DEF IInv
  <2>1. CASE t # s
    BY <1>2, <1>3, <2>0, <2>1 DEF SlotsInv
  <2>2. CASE t = s
    <3>1. Cardinality(DOMAIN Q) <= MAXMSG
      <4>1. IsFiniteSet(DOMAIN reliable[s]) /\ Cardinality(DOMAIN reliable[s]) \in Nat
        BY <1>0, SlotsAreFinite
      <4>2. IsFiniteSet(DOMAIN R) /\ Cardinality(DOMAIN R) <= Cardinality(DOMAIN reliable[s])
        BY <1>4, <4>1, FS_Subset
      <4>3. Cardinality(DOMAIN R) \in Nat
        BY <4>2, FS_CardinalityType
      <4>4. Cardinality(DOMAIN R) <= MAXMSG
        BY <1>0, <4>1, <4>2, <4>3, CapacityAssumption DEF SlotsInv
      <4>5. \A j \in 0 .. (k - 1) : HasRoom(AddFirst(R, n, x, j), x[j + 1])
        <5>1. CASE k = 0
          <6>1. 0 .. (k - 1) = {}
            BY <5>1
          <6> QED
            BY <6>1
        <5>2. CASE k # 0
          BY <1>c, <5>2 DEF FillsTo
        <5> QED
          BY <5>1, <5>2
      <4> QED
        BY <1>0, <1>a, <1>b, <4>2, <4>4, <4>5, FillsToCapacity
    <3>2. ASSUME NEW i \in DOMAIN R, NEW j \in i .. (n - 1) PROVE j \in DOMAIN R
      <4>1. i \in DOMAIN reliable[s] /\ j \in DOMAIN reliable[s]
        BY <1>0, <1>4 DEF SlotsInv
      <4>2. CASE j = i
        BY <4>2
      <4>3. CASE j # i
        <5>1. i < j
          BY <1>6, <4>1, <4>3
        <5>2. SUFFICES ASSUME SentBefore(reliable[s][j], a) PROVE FALSE
          BY <1>4, <4>1
        <5>3. SentBefore(reliable[s][i], reliable[s][j].sent)
          BY <1>0, <4>1, <5>1, <5>2 DEF SlotsInv, SentBefore
        <5>4. reliable[s][i].sent \in Nat /\ reliable[s][j].sent \in Nat
          BY <1>6, <4>1
        <5>5. SentBefore(reliable[s][i], a)
          BY <1>9, <5>2, <5>3, <5>4 DEF SentBefore
        <5> QED
          BY <1>4, <5>5
      <4> QED
        BY <4>2, <4>3
    <3>3. ASSUME NEW i \in DOMAIN Q
          PROVE  /\ i \in 1 .. (n + k - 1)
                 /\ i .. (n + k - 1) \subseteq DOMAIN Q
                 /\ Q[i].body = written[s][i]
                 /\ Q[i].sent < idgen_packet_send[s]
                 /\ \A h \in sending[s] : Q[i].sent < h.id
      <4>1. CASE i \in DOMAIN R
        <5>1. i \in 1 .. (n - 1) /\ Q[i] = reliable[s][i] /\ i \in DOMAIN reliable[s]
          BY <1>4, <1>5, <1>6, <4>1
        <5>2. i \in 1 .. (n + k - 1) /\ i .. (n + k - 1) \subseteq i .. (n - 1) \cup n .. (n + k - 1)
          BY <1>0, <1>b, <5>1
        <5>3. i .. (n - 1) \subseteq DOMAIN R
          BY <3>2, <4>1
        <5> QED
          BY <1>0, <1>5, <5>1, <5>2, <5>3 DEF SlotsInv
      <4>2. CASE i \in n .. (n + k - 1)
        <5>1. Q[i].body = written[s][i] /\ Q[i].sent = 0
          BY <1>2, <1>8, <1>f, <4>2
        <5>2. i \in 1 .. (n + k - 1) /\ i .. (n + k - 1) \subseteq n .. (n + k - 1)
          BY <1>0, <1>b, <4>2
        <5>3. 0 < idgen_packet_send[s] /\ \A h \in sending[s] : 0 < h.id
          <6>1. idgen_packet_send[s] \in Nat \ {0} /\ sending[s] \subseteq [id : Nat \ {0}, ack : Nat]
            BY <1>0 DEF TypeOK
          <6> QED
            BY <6>1
        <5> QED
          BY <1>5, <5>1, <5>2, <5>3
      <4> QED
        BY <1>5, <4>1, <4>2
    <3>4. ASSUME NEW i \in DOMAIN Q, NEW j \in DOMAIN Q, i < j, Q[j].sent # 0
          PROVE  SentBefore(Q[i], Q[j].sent)
      <4>1. j \in DOMAIN R /\ j \in 1 .. (n - 1)
        BY <1>4, <1>5, <1>6, <1>f, <3>4
      <4>2. i \in DOMAIN R
        BY <1>0, <1>5, <3>3, <3>4, <4>1
      <4> QED
        BY <1>0, <1>4, <1>5, <3>4, <4>1, <4>2 DEF SlotsInv
    <3> QED
      <4>1. /\ reliable'[t] = Q /\ idgen_reliable_send'[t] = n + k
            /\ written'[t] = written[s] /\ sending'[t] = sending[s]
            /\ idgen_packet_send'[t] = idgen_packet_send[s]
        BY <1>2, <1>3, <2>2
      <4>2. n \in Nat /\ k \in Nat
        BY <1>0, <1>b
      <4> HIDE DEF n
      <4> QED
        BY <3>1, <3>3, <3>4, <4>1, <4>2 DEF SlotsInv
  <2> QED
    BY <2>1, <2>2
<1>17. ASSUME NEW t \in Station PROVE PacketsInv(t)'
  <2>0. PacketsInv(t)
    BY DEF IInv
  <2>1. ASSUME NEW p \in net[t], NEW i \in DOMAIN p.msgs
        PROVE  i \in 1 .. (idgen_reliable_send'[t] - 1) /\ p.msgs[i] = written[t][i]
    BY <1>d, <2>0 DEF PacketsInv
  <2>2. ASSUME NEW p \in net[t], NEW i \in DOMAIN reliable'[t], SentBefore(reliable'[t][i], p.id)
        PROVE  i \in DOMAIN p.msgs
    BY <1>e, <2>0, <2>2 DEF PacketsInv, SentBefore
  <2> QED
    BY <1>2, <2>0, <2>1, <2>2 DEF PacketsInv
<1>18. ASSUME NEW t \in Station PROVE AcksInv(t)'
  <2>0. AcksInv(t) /\ SlotsInv(t) /\ Peer[t] \in Station
    BY PeerType DEF IInv
  <2>1. ASSUME NEW b \in Nat, AckProves(t, b) PROVE AckProves(t, b)'
    <3>1. ASSUME NEW i \in DOMAIN reliable'[t], SentBefore(reliable'[t][i], b) PROVE Got(Peer[t], i)'
      <4>1. i \in DOMAIN reliable[t] /\ SentBefore(reliable[t][i], b)
        BY <1>e, <3>1 DEF SentBefore
      <4>2. i \in Nat /\ Got(Peer[t], i)
        BY <1>0, <2>0, <2>1, <4>1, AckedSlotIsGot
      <4> QED
        BY <1>10, <2>0, <4>2
    <3> QED
      BY <1>2, <2>1, <3>1 DEF AckProves
  <2> QED
    BY <1>0, <1>2, <2>0, <2>1, AcksKept
<1>19. ASSUME NEW t \in Station PROVE ReceiverInv(t)'
  <2>0. ReceiverInv(t) /\ PacketsInv(Peer[t]) /\ Peer[t] \in Station /\ msg_current[t] \in Nat
    BY <1>0, PeerType DEF IInv, TypeOK
  <2>1. ASSUME NEW d \in incoming'[t], NEW i \in DOMAIN d.packet.msgs PROVE Got(t, i)'
    <3>1. d \in incoming[t]
      BY <1>3
    <3>2. i \in Nat
      BY <1>0, <2>0, <3>1, IncomingIds
    <3> QED
      BY <1>10, <2>0, <3>1, <3>2 DEF ReceiverInv
  <2>2. msg_current[t] <= idgen_reliable_send'[Peer[t]]
    BY <1>d, <2>0 DEF ReceiverInv
  <2> QED
    BY <1>2, <2>0, <2>1, <2>2 DEF ReceiverInv
<1> QED
  BY <1>11, <1>12, <1>13, <1>14, <1>15, <1>16, <1>17, <1>18, <1>19 DEF IInv

--------------------------------------------------------------------------------
(* The theorems.                                                                 *)

LEMMA InitEstablishesIInv == Init => IInv
<1> SUFFICES ASSUME Init PROVE IInv
  OBVIOUS
<1>0. /\ \A s \in Station : /\ written[s] = <<>> /\ delivered[s] = <<>>
                            /\ idgen_reliable_send[s] = 1 /\ idgen_packet_send[s] = 1
                            /\ reliable[s] = <<>> /\ extra_reliables[s] = <<>>
                            /\ ack[s] = 0 /\ msg_current[s] = 1
                            /\ message[s] = [k \in 0 .. (MAX_INCOMING_MESSAGES - 1) |-> NoMessage]
                            /\ sending[s] = {} /\ incoming[s] = {} /\ net[s] = {}
  BY DEF Init
<1>1. \A s \in Station : DOMAIN reliable[s] = {}
  BY <1>0
<1>2. TypeOK
  BY <1>0, <1>1 DEF Init, TypeOK
<1>3. AckedIsReceived /\ QueueWaitsForAcks
  BY <1>0 DEF AckedIsReceived, QueueWaitsForAcks
<1>4. SlotsHoldTheWindow
  <2>1. \A s \in Station : \A k \in DOMAIN message[s] : message[s][k] = NoMessage
    BY <1>0
  <2> QED
    BY <2>1 DEF SlotsHoldTheWindow
<1>5. ASSUME NEW s \in Station PROVE WrittenInv(s) /\ PacketsInv(s)
  BY <1>0, <1>1 DEF WrittenInv, PacketsInv
<1>6. ASSUME NEW s \in Station PROVE SlotsInv(s)
  <2>1. Cardinality({}) <= MAXMSG
    BY FS_EmptySet, CapacityAssumption
  <2> QED
    BY <1>1, <2>1 DEF SlotsInv
<1>7. ASSUME NEW s \in Station PROVE AcksInv(s)
  BY <1>0, <1>1, PeerType DEF AcksInv, AckProves
<1>8. ASSUME NEW s \in Station PROVE ReceiverInv(s)
  BY <1>0, PeerType DEF ReceiverInv
<1> QED
  BY <1>2, <1>3, <1>4, <1>5, <1>6, <1>7, <1>8 DEF IInv

LEMMA NextPreservesIInv == IInv /\ [Next]_vars => IInv'
<1> SUFFICES ASSUME IInv, [Next]_vars PROVE IInv'
  OBVIOUS
<1>1. CASE Next
  <2> SUFFICES ASSUME NEW s \in Station,
                      \/ \E m \in Message : WriteReliable(s, m)
                      \/ SendBegin(s)
                      \/ \E h \in sending[s] : SendFinish(s, h)
                      \/ \E p \in net[Peer[s]] : StorePacket(s, p)
                      \/ \E c \in incoming[s] : AckPacket(s, c) \/ ReleaseAcked(s, c)
                      \/ ReadReliable(s)
               PROVE  IInv'
    BY <1>1 DEF Next
  <2> QED
    BY WriteReliableStep, SendBeginStep, SendFinishStep, StorePacketStep, AckPacketStep,
       ReleaseAckedStep, ReadReliableStep
<1>2. CASE UNCHANGED vars
  <2>1. UNCHANGED <<written, delivered, idgen_reliable_send, idgen_packet_send, reliable,
                    extra_reliables, ack, msg_current, message, sending, incoming, net>>
    BY <1>2 DEF vars
  <2>2. TypeOK' = TypeOK
    BY <2>1 DEF TypeOK
  <2>3. /\ AckedIsReceived' = AckedIsReceived
        /\ SlotsHoldTheWindow' = SlotsHoldTheWindow
        /\ QueueWaitsForAcks' = QueueWaitsForAcks
    BY <2>1 DEF AckedIsReceived, SlotsHoldTheWindow, QueueWaitsForAcks, Got, WindowIds
  <2>4. ASSUME NEW s \in Station
        PROVE  /\ WrittenInv(s)' = WrittenInv(s)
               /\ SlotsInv(s)' = SlotsInv(s)
               /\ PacketsInv(s)' = PacketsInv(s)
    BY <2>1 DEF WrittenInv, SlotsInv, PacketsInv
  <2>5. ASSUME NEW s \in Station
        PROVE  AcksInv(s)' = AcksInv(s) /\ ReceiverInv(s)' = ReceiverInv(s)
    BY <2>1 DEF AcksInv, AckProves, ReceiverInv, Got, WindowIds
  <2> QED
    BY <2>2, <2>3, <2>4, <2>5, Zenon DEF IInv
<1> QED
  BY <1>1, <1>2

(* The inductive invariant holds in every reachable state.                       *)
THEOREM Invariance == Spec => []IInv
BY InitEstablishesIInv, NextPreservesIInv, PTL DEF Spec

(* All state has its type.                                                       *)
THEOREM TypeCorrect == Spec => []TypeOK
<1>1. IInv => TypeOK
  BY DEF IInv
<1> QED
  BY <1>1, Invariance, PTL

(* No acked message is lost, whatever the network loses, repeats or reorders.    *)
THEOREM NoMessageIsLost == Spec => []AckedIsReceived
<1>1. IInv => AckedIsReceived
  BY DEF IInv
<1> QED
  BY <1>1, Invariance, PTL

(* The receiver never drops a message it still needs for want of window.         *)
THEOREM NothingIsDropped == Spec => []WindowHasRoom
BY RoomInWindow, Invariance, PTL

(* A slot of the circular buffer never holds a message of an earlier lap.        *)
THEOREM NothingIsStale == Spec => []SlotsHoldTheWindow
<1>1. IInv => SlotsHoldTheWindow
  BY DEF IInv
<1> QED
  BY <1>1, Invariance, PTL

(* A queued message always has an acknowledgement to wait for.                   *)
THEOREM NothingIsStranded == Spec => []QueueWaitsForAcks
<1>1. IInv => QueueWaitsForAcks
  BY DEF IInv
<1> QED
  BY <1>1, Invariance, PTL

(* The nAssert in msgrec::send never fails.                                      *)
THEOREM AssertionHolds == Spec => []SentIsEarlier
<1>1. IInv => SentIsEarlier
  BY DEF IInv, SlotsInv, SentIsEarlier
<1> QED
  BY <1>1, Invariance, PTL

--------------------------------------------------------------------------------
(* Datagrams.                                                                     *)

LEMMA SlotsAreSized ==
  ASSUME NEW R, NEW n \in Nat, DOMAIN R \subseteq 1 .. n, \A i \in DOMAIN R : R[i].body \in Message
  PROVE  Sized(R)
<1>1. IsFiniteSet(1 .. n)
  BY FS_Interval
<1>2. IsFiniteSet(DOMAIN R)
  BY <1>1, FS_Subset
<1> QED
  BY <1>2, SizeAssumption DEF Sized

LEMMA NextKeepsDatagramsBounded ==
  ASSUME IInv, IInv', DatagramBounded, [Next]_vars
  PROVE  DatagramBounded'
<1> SUFFICES ASSUME NEW t \in Station PROVE Bounded(reliable'[t])
  BY DEF DatagramBounded, Bounded
<1>0. TypeOK /\ Bounded(reliable[t]) /\ Sized(reliable[t]) /\ Sized(reliable'[t])
  <2>1. Bounded(reliable[t])
    BY DEF DatagramBounded, Bounded
  <2>2. TypeOK /\ SlotsInv(t) /\ TypeOK' /\ SlotsInv(t)'
    BY DEF IInv
  <2>3. Sized(reliable[t])
    <3>1. /\ idgen_reliable_send[t] - 1 \in Nat
          /\ DOMAIN reliable[t] \subseteq 1 .. (idgen_reliable_send[t] - 1)
          /\ \A i \in DOMAIN reliable[t] : reliable[t][i].body \in Message
      BY <2>2 DEF TypeOK, SlotsInv
    <3> QED
      BY <3>1, SlotsAreSized
  <2>4. Sized(reliable'[t])
    <3>1. /\ idgen_reliable_send'[t] - 1 \in Nat
          /\ DOMAIN reliable'[t] \subseteq 1 .. (idgen_reliable_send'[t] - 1)
          /\ \A i \in DOMAIN reliable'[t] : reliable'[t][i].body \in Message
      BY <2>2 DEF TypeOK, SlotsInv
    <3> QED
      BY <3>1, SlotsAreSized
  <2> QED
    BY <2>1, <2>2, <2>3, <2>4
<1>1. ASSUME NEW s \in Station, NEW m \in Message, WriteReliable(s, m)
      PROVE  Bounded(reliable'[t])
  <2>1. CASE s = t /\ TakesSlot(s, m)
    <3> DEFINE n == idgen_reliable_send[s]
    <3>1. reliable'[t] = AddFirst(reliable[t], n, <<m>>, 1)
      BY <1>0, <1>1, <2>1 DEF WriteReliable, TypeOK
    <3>2. n \in Nat \ {0} /\ n \notin DOMAIN reliable[t]
      BY <1>0, <2>1 DEF TypeOK, IInv, SlotsInv
    <3>3. n .. (n + 1 - 1) = {n} /\ n - n + 1 = 1 /\ <<m>>[1] = m
      BY <3>2
    <3>4. DOMAIN reliable'[t] = DOMAIN reliable[t] \cup {n} /\ reliable'[t][n].body = m
      BY <3>1, <3>2, <3>3 DEF AddFirst
    <3>5. \A i \in DOMAIN reliable[t] : reliable'[t][i].body = reliable[t][i].body
      BY <3>1 DEF AddFirst
    <3>6. HasRoom(reliable[t], m)
      BY <2>1 DEF TakesSlot
    <3> HIDE DEF n
    <3> QED
      BY <1>0, <3>2, <3>4, <3>5, <3>6, AddedStaysBounded, SizeAssumption
  <2>2. CASE ~(s = t /\ TakesSlot(s, m))
    <3>1. reliable'[t] = reliable[t]
      BY <1>0, <1>1, <2>2 DEF WriteReliable, TypeOK
    <3> QED
      BY <1>0, <3>1
  <2> QED
    BY <2>1, <2>2
<1>2. ASSUME NEW s \in Station, NEW h \in sending[s], SendFinish(s, h)
      PROVE  Bounded(reliable'[t])
  <2>1. /\ DOMAIN reliable'[t] = DOMAIN reliable[t]
        /\ \A i \in DOMAIN reliable[t] : reliable'[t][i].body = reliable[t][i].body
    BY <1>0, <1>2 DEF SendFinish, TypeOK
  <2> QED
    BY <1>0, <2>1, FewerStayBounded, SizeAssumption
<1>3. ASSUME NEW s \in Station, NEW c \in incoming[s], ReleaseAcked(s, c)
      PROVE  Bounded(reliable'[t])
  <2>1. CASE s # t
    <3>1. reliable'[t] = reliable[t]
      BY <1>0, <1>3, <2>1 DEF ReleaseAcked, TypeOK
    <3> QED
      BY <1>0, <3>1
  <2>2. CASE s = t
    <3> DEFINE R == Unacked(reliable[t], c.packet.ack)
               n == idgen_reliable_send[t]
               x == extra_reliables[t]
    <3>1. PICK k \in 0 .. Len(x) :
            /\ IF DOMAIN R = DOMAIN reliable[t] THEN k = 0 ELSE FillsTo(R, n, x, k)
            /\ reliable' = [reliable EXCEPT ![t] = AddFirst(R, n, x, k)]
      BY <1>3, <2>2 DEF ReleaseAcked
    <3>2. reliable'[t] = AddFirst(R, n, x, k)
      BY <1>0, <3>1 DEF TypeOK
    <3>3. /\ DOMAIN R \subseteq DOMAIN reliable[t]
          /\ \A i \in DOMAIN R : R[i].body = reliable[t][i].body
      BY DEF Unacked
    <3>4. n \in Nat \ {0} /\ \A i \in DOMAIN R : i < n
      <4>1. n \in Nat \ {0} /\ SlotsInv(t)
        BY <1>0 DEF TypeOK, IInv
      <4> HIDE DEF R
      <4> QED
        BY <4>1, <3>3 DEF SlotsInv
    <3>5. Sized(R) /\ Bounded(R)
      <4> HIDE DEF R
      <4> QED
        BY <1>0, <3>3, FewerStayBounded, BytesOfMore, SizeAssumption
    <3>6. k \in Nat /\ (k = 0 \/ \A j \in 0 .. (k - 1) : HasRoom(AddFirst(R, n, x, j), x[j + 1]))
      <4>1. k \in Nat
        BY <1>0, <3>1 DEF TypeOK
      <4>2. k = 0 \/ FillsTo(R, n, x, k)
        BY <3>1
      <4> QED
        BY <4>1, <4>2 DEF FillsTo
    <3>7. Sized(AddFirst(R, n, x, k))
      BY <1>0, <3>2
    <3> HIDE DEF R, n, x
    <3>8. Bounded(AddFirst(R, n, x, k))
      BY <3>4, <3>5, <3>6, <3>7, FilledStaysBounded, SizeAssumption
    <3> QED
      BY <3>2, <3>8
  <2> QED
    BY <2>1, <2>2
<1>4. CASE UNCHANGED reliable
  BY <1>0, <1>4
<1>5. ASSUME NEW s \in Station, NEW c \in incoming[s], AckPacket(s, c)
      PROVE  UNCHANGED reliable
  BY <1>5 DEF AckPacket, outVars
<1>6. ASSUME NEW s \in Station, SendBegin(s) \/ ReadReliable(s)
      PROVE  UNCHANGED reliable
  BY <1>6 DEF SendBegin, ReadReliable, outVars
<1>7. ASSUME NEW s \in Station, NEW p \in net[Peer[s]], StorePacket(s, p)
      PROVE  UNCHANGED reliable
  BY <1>7 DEF StorePacket, outVars
<1> QED
  BY <1>1, <1>2, <1>3, <1>4, <1>5, <1>6, <1>7 DEF Next, vars

(* The reliable part of a datagram stays within a record header of                *)
(* MAX_PACKET_SIZE, however writes and acks fill the slots, unless it is one      *)
(* message alone: can_add_reliable keeps what msgrec::send will send bounded.     *)
THEOREM DatagramsAreBounded == Spec => []DatagramBounded
<1>1. Init => DatagramBounded
  <2> SUFFICES ASSUME Init, NEW s \in Station PROVE Bytes(reliable[s]) < MAX_PACKET_SIZE + RecordHeader
    BY DEF DatagramBounded
  <2>1. DOMAIN reliable[s] = {}
    BY DEF Init
  <2>2. Bytes(reliable[s]) = 0
    BY <2>1, BytesOfNone
  <2> QED
    BY <2>2, SizeAssumption DEF RecordHeader
<1> QED
  BY <1>1, NextKeepsDatagramsBounded, Invariance, PTL DEF Spec

(* Each step of the stations is a step of the reliable FIFO channel, or hidden.  *)
THEOREM Refinement == Spec => ImplementsFifoChannel
<1>1. Init => Channel!ChanInit
  BY DEF Init, Channel!ChanInit
<1>2. IInv /\ [Next]_vars => [Channel!ChanNext]_(Channel!chanVars)
  <2> SUFFICES ASSUME IInv, [Next]_vars
               PROVE  Channel!ChanNext \/ UNCHANGED <<written, delivered>>
    BY DEF Channel!chanVars
  <2>1. ASSUME NEW s \in Station, NEW m \in Message, WriteReliable(s, m)
        PROVE  Channel!ChanNext
    BY <2>1 DEF WriteReliable, Channel!ChanNext, Channel!ChanWrite
  <2>2. ASSUME NEW s \in Station, ReadReliable(s)
        PROVE  Channel!ChanNext
    <3> DEFINE cur == msg_current[s]
    <3>0. Peer[s] \in Station /\ TypeOK /\ WrittenInv(Peer[s]) /\ ReceiverInv(s) /\ Ready(s)
      BY <2>2, PeerType DEF IInv, ReadReliable
    <3>1. cur \in Nat \ {0} /\ Len(delivered[s]) + 1 = cur
      BY <3>0 DEF TypeOK, ReceiverInv
    <3>2. cur < idgen_reliable_send[Peer[s]] /\ message[s][Index(cur)] = written[Peer[s]][cur]
      BY <3>0, GotMessagesAreInWindow
    <3>3. cur <= Len(written[Peer[s]])
      <4>1. Len(written[Peer[s]]) \in Nat /\ idgen_reliable_send[Peer[s]] - 1 <= Len(written[Peer[s]])
        BY <3>0, IdsAreWritten
      <4>2. idgen_reliable_send[Peer[s]] \in Nat
        BY <3>0 DEF TypeOK
      <4> QED
        BY <3>1, <3>2, <4>1, <4>2
    <3>4. /\ delivered' = [delivered EXCEPT ![s] = Append(@, written[Peer[s]][cur])]
          /\ UNCHANGED written
      BY <2>2, <3>2 DEF ReadReliable
    <3>5. Channel!ChanRead(s)
      BY <3>1, <3>3, <3>4 DEF Channel!ChanRead
    <3> QED
      BY <3>5 DEF Channel!ChanNext
  <2>3. ASSUME NEW s \in Station,
               \/ SendBegin(s)
               \/ \E h \in sending[s] : SendFinish(s, h)
               \/ \E p \in net[Peer[s]] : StorePacket(s, p)
               \/ \E c \in incoming[s] : AckPacket(s, c) \/ ReleaseAcked(s, c)
        PROVE  UNCHANGED <<written, delivered>>
    BY <2>3 DEF SendBegin, SendFinish, StorePacket, AckPacket, ReleaseAcked
  <2>4. CASE UNCHANGED vars
    BY <2>4 DEF vars
  <2> QED
    BY <2>1, <2>2, <2>3, <2>4 DEF Next
<1> QED
  BY <1>1, <1>2, Invariance, PTL DEF Spec, ImplementsFifoChannel, Channel!ChanSpec
================================================================================
