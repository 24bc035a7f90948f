---------------------------------- MODULE Rudp ----------------------------------
(* leetnet/rudp.cpp: two station_ci objects, one per end of a connection, and    *)
(* the UDP network between them.  Every packet carries an id, the id of the      *)
(* latest packet received (the ack) and all reliable messages not yet acked.     *)
(*                                                                               *)
(* Threads.  At each end one thread writes messages and sends packets (the game  *)
(* thread) and another processes packets and reads the messages they completed   *)
(* (the server's slave thread of the client, the client's reader thread).        *)
(* relmsg_mutex makes WriteReliable, SendFinish and ReleaseAcked atomic; the     *)
(* packet header is written and ack is assigned outside it.                      *)
(*                                                                               *)
(* The network is the set of all packets ever sent: a packet may be processed    *)
(* never (lost), once, again (duplicated) and in any order (reordered).          *)
EXTENDS RudpOutgoing

CONSTANTS Station,              \* the two ends
          Peer,                 \* Peer[s]: the other one
          Message,              \* message contents
          NoMessage,            \* an empty incoming slot, message_size == -1
          MAX_INCOMING_MESSAGES,\* incoming window
          MaxWrites,            \* bound: messages station s writes
          MaxPackets            \* bound: packets station s sends

ASSUME StationAssumption ==
  /\ Peer \in [Station -> Station]
  /\ \A s \in Station : Peer[s] # s /\ Peer[Peer[s]] = s

ASSUME CapacityAssumption ==
  /\ MAXMSG \in Nat \ {0}
  /\ MAX_INCOMING_MESSAGES \in Nat
  /\ MAXMSG <= MAX_INCOMING_MESSAGES

ASSUME MessageAssumption == NoMessage \notin Message

ASSUME SizeAssumption == Size \in [Message -> Nat] /\ MAX_PACKET_SIZE \in Nat

VARIABLES
  written, delivered, \* histories of writer() and read_reliable() of each station
  idgen_reliable_send,\* next message id
  idgen_packet_send,  \* next packet id
  reliable,           \* used outgoing slots: message id -> [body, sent]
  extra_reliables,    \* queue of messages that have no slot and no id yet
  ack,                \* id of the packet received last
  msg_current,        \* id of the next message to read
  message,            \* circular buffer of messages received and not read
  sending,            \* {} or the one header of the packet being built
  incoming,           \* {} or the one packet being processed and its next step
  net                 \* net[s]: the packets s has sent

outVars == <<idgen_reliable_send, reliable, extra_reliables>>
inVars == <<msg_current, message>>
vars == <<written, delivered, idgen_reliable_send, idgen_packet_send, reliable,
          extra_reliables, ack, msg_current, message, sending, incoming, net>>

--------------------------------------------------------------------------------
(* The incoming side.                                                            *)
Index(id) == (id - 1) % MAX_INCOMING_MESSAGES

Ready(s) == message[s][Index(msg_current[s])] # NoMessage

(* Mutant: an old message is stored again.                                       *)
InWindowOrOld(s, id) == id - msg_current[s] < MAX_INCOMING_MESSAGES

(* process_incoming_message accepts ids that are neither old nor out of window.  *)
InWindow(s, id) == id >= msg_current[s] /\ id - msg_current[s] < MAX_INCOMING_MESSAGES

--------------------------------------------------------------------------------
Init ==
  /\ written = [s \in Station |-> <<>>]
  /\ delivered = [s \in Station |-> <<>>]
  /\ idgen_reliable_send = [s \in Station |-> 1]
  /\ idgen_packet_send = [s \in Station |-> 1]
  /\ reliable = [s \in Station |-> <<>>]
  /\ extra_reliables = [s \in Station |-> <<>>]
  /\ ack = [s \in Station |-> 0]
  /\ msg_current = [s \in Station |-> 1]
  /\ message = [s \in Station |-> [k \in 0 .. (MAX_INCOMING_MESSAGES - 1) |-> NoMessage]]
  /\ sending = [s \in Station |-> {}]
  /\ incoming = [s \in Station |-> {}]
  /\ net = [s \in Station |-> {}]

(* writer uses a slot if there is room and no older message waits for one.       *)
TakesSlotWhileOthersWait(s, m) == HasRoom(reliable[s], m) \* mutant: overtakes the queue

TakesSlot(s, m) == HasRoom(reliable[s], m) /\ extra_reliables[s] = <<>>

(* writer: a slot, else the queue.                                               *)
WriteReliable(s, m) ==
  /\ Len(written[s]) < MaxWrites[s]
  /\ written' = [written EXCEPT ![s] = Append(@, m)]
  /\ IF TakesSlot(s, m)
     THEN /\ reliable' = [reliable EXCEPT
                 ![s] = AddFirst(@, idgen_reliable_send[s], <<m>>, 1)]
          /\ idgen_reliable_send' = [idgen_reliable_send EXCEPT ![s] = @ + 1]
          /\ UNCHANGED extra_reliables
     ELSE /\ extra_reliables' = [extra_reliables EXCEPT ![s] = Append(@, m)]
          /\ UNCHANGED <<reliable, idgen_reliable_send>>
  /\ UNCHANGED <<delivered, idgen_packet_send, ack, inVars, sending, incoming, net>>

(* Mutant: every packet has the same id.                                         *)
SendBeginSameId(s) ==
  /\ sending[s] = {}
  /\ idgen_packet_send[s] <= MaxPackets[s]
  /\ sending' = [sending EXCEPT ![s] = {[id |-> idgen_packet_send[s], ack |-> ack[s]]}]
  /\ UNCHANGED <<written, delivered, outVars, idgen_packet_send, ack, inVars, incoming, net>>

(* send_packet up to relmsg_mutex.lock(): the id and the ack of the packet.      *)
SendBegin(s) ==
  /\ sending[s] = {}
  /\ idgen_packet_send[s] <= MaxPackets[s]
  /\ sending' = [sending EXCEPT ![s] = {[id |-> idgen_packet_send[s], ack |-> ack[s]]}]
  /\ idgen_packet_send' = [idgen_packet_send EXCEPT ![s] = @ + 1]
  /\ UNCHANGED <<written, delivered, outVars, ack, inVars, incoming, net>>

(* The rest of send_packet: every used slot goes into the packet, those that go  *)
(* for the first time remember its id.                                           *)
SendFinish(s, h) ==
  /\ net' = [net EXCEPT ![s] = @ \cup
       {[id |-> h.id, ack |-> h.ack,
         msgs |-> [i \in DOMAIN reliable[s] |-> reliable[s][i].body]]}]
  /\ reliable' = [reliable EXCEPT ![s] = [i \in DOMAIN @ |->
       [body |-> @[i].body, sent |-> IF @[i].sent = 0 THEN h.id ELSE @[i].sent]]]
  /\ sending' = [sending EXCEPT ![s] = {}]
  /\ UNCHANGED <<written, delivered, idgen_reliable_send, idgen_packet_send,
                 extra_reliables, ack, inVars, incoming>>

(* process_incoming_packet, first part: store the messages that are new and in   *)
(* the window.  The thread has read all messages it can before the next packet.  *)
StorePacket(s, p) ==
  /\ incoming[s] = {}
  /\ ~Ready(s)
  /\ message' = [message EXCEPT ![s] = [k \in DOMAIN @ |->
       IF @[k] = NoMessage /\ \E i \in DOMAIN p.msgs : InWindow(s, i) /\ Index(i) = k
       THEN p.msgs[CHOOSE i \in DOMAIN p.msgs : InWindow(s, i) /\ Index(i) = k]
       ELSE @[k]]]
  /\ incoming' = [incoming EXCEPT ![s] = {[packet |-> p, next |-> "ack"]}]
  /\ UNCHANGED <<written, delivered, outVars, idgen_packet_send, ack, msg_current,
                 sending, net>>

(* Mutant: acknowledges the packet that it expects next, like TCP.               *)
AckPacketNext(s, c) ==
  /\ c.next = "ack"
  /\ ack' = [ack EXCEPT ![s] = c.packet.id + 1]
  /\ incoming' = [incoming EXCEPT ![s] = {[packet |-> c.packet, next |-> "release"]}]
  /\ UNCHANGED <<written, delivered, outVars, idgen_packet_send, inVars, sending, net>>

(* Second part: this packet is what the next ones sent will acknowledge.         *)
AckPacket(s, c) ==
  /\ c.next = "ack"
  /\ ack' = [ack EXCEPT ![s] = c.packet.id]
  /\ incoming' = [incoming EXCEPT ![s] = {[packet |-> c.packet, next |-> "release"]}]
  /\ UNCHANGED <<written, delivered, outVars, idgen_packet_send, inVars, sending, net>>

(* Third part, under relmsg_mutex: free the slots of the acked messages; the     *)
(* queue moves on into the freed room.                                           *)
ReleaseAcked(s, c) ==
  /\ c.next = "release"
  /\ LET R == Unacked(reliable[s], c.packet.ack)
         n == idgen_reliable_send[s]
         x == extra_reliables[s]
     IN \E k \in 0 .. Len(x) :
          /\ IF DOMAIN R = DOMAIN reliable[s] THEN k = 0 ELSE FillsTo(R, n, x, k)
          /\ reliable' = [reliable EXCEPT ![s] = AddFirst(R, n, x, k)]
          /\ idgen_reliable_send' = [idgen_reliable_send EXCEPT ![s] = @ + k]
          /\ extra_reliables' = [extra_reliables EXCEPT ![s] = SubSeq(@, k + 1, Len(@))]
  /\ incoming' = [incoming EXCEPT ![s] = {}]
  /\ UNCHANGED <<written, delivered, idgen_packet_send, ack, inVars, sending, net>>

(* read_reliable, called until it has nothing by the thread that processed the   *)
(* packet.                                                                       *)
ReadReliable(s) ==
  /\ incoming[s] = {}
  /\ Ready(s)
  /\ delivered' = [delivered EXCEPT ![s] = Append(@, message[s][Index(msg_current[s])])]
  /\ message' = [message EXCEPT ![s][Index(msg_current[s])] = NoMessage]
  /\ msg_current' = [msg_current EXCEPT ![s] = @ + 1]
  /\ UNCHANGED <<written, outVars, idgen_packet_send, ack, sending, incoming, net>>

Next == \E s \in Station :
  \/ \E m \in Message : WriteReliable(s, m)
  \/ SendBegin(s)
  \/ \E h \in sending[s] : SendFinish(s, h)
  \/ \E p \in net[Peer[s]] : StorePacket(s, p)
  \/ \E c \in incoming[s] : AckPacket(s, c) \/ ReleaseAcked(s, c)
  \/ ReadReliable(s)

Spec == Init /\ [][Next]_vars

--------------------------------------------------------------------------------
(* Properties.                                                                   *)

(* The id of the message that slot k of the window holds when it is used.        *)
WindowIds(s) == msg_current[s] .. (msg_current[s] + MAX_INCOMING_MESSAGES - 1)

(* Station s has read message i or holds it in its window.                       *)
Got(s, i) == i < msg_current[s] \/ (i \in WindowIds(s) /\ message[s][Index(i)] # NoMessage)

(* Type invariant: every variable of the two stations and the network.           *)
TypeOK ==
  /\ written \in [Station -> Seq(Message)]
  /\ delivered \in [Station -> Seq(Message)]
  /\ idgen_reliable_send \in [Station -> Nat \ {0}]
  /\ idgen_packet_send \in [Station -> Nat \ {0}]
  /\ extra_reliables \in [Station -> Seq(Message)]
  /\ ack \in [Station -> Nat]
  /\ msg_current \in [Station -> Nat \ {0}]
  /\ message \in [Station -> [0 .. (MAX_INCOMING_MESSAGES - 1) -> Message \cup {NoMessage}]]
  /\ sending \in [Station -> SUBSET [id : Nat \ {0}, ack : Nat]]
  /\ DOMAIN reliable = Station /\ DOMAIN incoming = Station /\ DOMAIN net = Station
  /\ \A s \in Station :
       /\ reliable[s] \in [DOMAIN reliable[s] -> [body : Message, sent : Nat]]
       /\ \A p \in net[s] : /\ p.id \in Nat \ {0} /\ p.ack \in Nat
                            /\ \A i \in DOMAIN p.msgs : p.msgs[i] \in Message
       /\ \A c \in incoming[s] : c.packet \in net[Peer[s]] /\ c.next \in {"ack", "release"}

(* No message is lost: one whose slot was freed, having been acked by whatever   *)
(* packets got through, has been read by the peer or waits in its window.        *)
AckedIsReceived == \A s \in Station : \A i \in 1 .. (idgen_reliable_send[s] - 1) :
  i \in DOMAIN reliable[s] \/ Got(Peer[s], i)

(* The receiver's window never overflows: when a station is about to store a     *)
(* packet, no message in any packet on the network is beyond the window, so the  *)
(* "just drop it" of process_incoming_message never drops (and its packet, acked *)
(* as a whole, never loses) a message that is still needed.                      *)
WindowHasRoom == \A s \in Station : incoming[s] = {} /\ ~Ready(s) =>
  \A p \in net[Peer[s]] : \A i \in DOMAIN p.msgs :
    i >= msg_current[s] => InWindow(s, i)

(* A used slot of the circular buffer holds the message of the one id that maps  *)
(* to it: an old message never survives into, or blocks, a later lap.            *)
SlotsHoldTheWindow == \A s \in Station : \A k \in DOMAIN message[s] :
  message[s][k] # NoMessage =>
    \E i \in WindowIds(s) : /\ Index(i) = k
                            /\ i < idgen_reliable_send[Peer[s]]
                            /\ message[s][k] = written[Peer[s]][i]

(* No message is stranded: the queue is moved only when an ack arrives, so a     *)
(* message waits in it only behind messages that are yet to be acked, and only   *)
(* when there is no room for it.                                                 *)
QueueWaitsForAcks == \A s \in Station : extra_reliables[s] # <<>> =>
  /\ DOMAIN reliable[s] # {}
  /\ ~HasRoom(reliable[s], Head(extra_reliables[s]))

(* A datagram's reliable part stays below MAX_PACKET_SIZE plus one record header *)
(* unless it is one large message.                                               *)
DatagramBounded == \A s \in Station :
  Bytes(reliable[s]) < MAX_PACKET_SIZE + RecordHeader \/ Cardinality(DOMAIN reliable[s]) = 1

(* The nAssert of msgrec::send: a message is sent first with an earlier packet   *)
(* than the one being built.                                                     *)
SentIsEarlier == \A s \in Station : \A h \in sending[s] :
  \A i \in DOMAIN reliable[s] : reliable[s][i].sent < h.id

(* The pair of stations implements a reliable FIFO channel in each direction.    *)
Channel == INSTANCE FifoChannel WITH
  Station <- Station, Peer <- Peer, Message <- Message,
  written <- written, delivered <- delivered
ImplementsFifoChannel == Channel!ChanSpec

--------------------------------------------------------------------------------
(* The inductive invariant behind them.                                          *)

(* The messages written are those with ids, in the order of the ids, and then    *)
(* those in the queue.                                                           *)
WrittenInv(s) ==
  /\ Len(written[s]) = idgen_reliable_send[s] - 1 + Len(extra_reliables[s])
  /\ \A j \in 1 .. Len(extra_reliables[s]) :
       extra_reliables[s][j] = written[s][idgen_reliable_send[s] - 1 + j]

(* The used slots hold the latest ids without a gap, and were first sent in the  *)
(* order of their ids.                                                           *)
SlotsInv(s) ==
  /\ Cardinality(DOMAIN reliable[s]) <= MAXMSG
  /\ \A i \in DOMAIN reliable[s] :
       /\ i \in 1 .. (idgen_reliable_send[s] - 1)
       /\ i .. (idgen_reliable_send[s] - 1) \subseteq DOMAIN reliable[s]
       /\ reliable[s][i].body = written[s][i]
       /\ reliable[s][i].sent < idgen_packet_send[s]
       /\ \A h \in sending[s] : reliable[s][i].sent < h.id
  /\ \A i, j \in DOMAIN reliable[s] : i < j /\ reliable[s][j].sent # 0 =>
       SentBefore(reliable[s][i], reliable[s][j].sent)

(* Packet ids are fresh; a packet holds written messages, and every message that *)
(* had been sent by then and still waits for its ack.                            *)
PacketsInv(s) ==
  /\ \A h \in sending[s] : h.id < idgen_packet_send[s]
  /\ \A p \in net[s] :
       /\ p.id < idgen_packet_send[s]
       /\ \A h \in sending[s] : p.id < h.id
       /\ \A i \in DOMAIN p.msgs : /\ i \in 1 .. (idgen_reliable_send[s] - 1)
                                   /\ p.msgs[i] = written[s][i]
       /\ \A i \in DOMAIN reliable[s] :
            SentBefore(reliable[s][i], p.id) => i \in DOMAIN p.msgs

(* An ack a of packets of s is never ahead of them, and proves that the messages *)
(* first sent with packet a or an earlier one have been received.                *)
AckProves(s, a) ==
  /\ a < idgen_packet_send[s]
  /\ \A h \in sending[s] : a < h.id
  /\ \A i \in DOMAIN reliable[s] : SentBefore(reliable[s][i], a) => Got(Peer[s], i)

AcksInv(s) ==
  /\ AckProves(s, ack[Peer[s]])
  /\ \A h \in sending[Peer[s]] : AckProves(s, h.ack)
  /\ \A p \in net[Peer[s]] : AckProves(s, p.ack)

(* What s has read is what its peer wrote first; the messages of the packet that *)
(* s is processing are read or in its window.                                    *)
ReceiverInv(s) ==
  /\ Len(delivered[s]) = msg_current[s] - 1
  /\ msg_current[s] <= idgen_reliable_send[Peer[s]]
  /\ \A i \in 1 .. (msg_current[s] - 1) : delivered[s][i] = written[Peer[s]][i]
  /\ \A c \in incoming[s] : \A i \in DOMAIN c.packet.msgs : Got(s, i)

(* The inductive invariant.                                                      *)
IInv == /\ TypeOK /\ AckedIsReceived /\ SlotsHoldTheWindow /\ QueueWaitsForAcks
        /\ \A s \in Station : /\ WrittenInv(s) /\ SlotsInv(s) /\ PacketsInv(s)
                              /\ AcksInv(s) /\ ReceiverInv(s)
================================================================================
