------------------------------- MODULE RudpSlots -------------------------------
(* The outgoing side of one station_ci as the code keeps it: the array reliable[] *)
(* with its counters, and the loop that frees the acked slots and refills them    *)
(* from extra_reliables, one iteration per step.  The peer's acks are arbitrary.  *)
(* relmsg_mutex is held while loop.at # "unlocked"; writer and send_packet take   *)
(* it for their whole work.                                                       *)
EXTENDS RudpOutgoing, FiniteSetsExt

CONSTANTS Message,    \* message contents
          Unused,     \* a clear msgrec
          MaxWrites,  \* bound: messages written
          MaxPackets  \* bound: packets sent

ASSUME SlotAssumption == MAXMSG \in Nat \ {0}

ASSUME MessageAssumption == Unused \notin [id : Nat, body : Message, sent : Nat]

ASSUME SizeAssumption == Size \in [Message -> Nat] /\ MAX_PACKET_SIZE \in Nat

VARIABLES reliable, reliable_count, reliable_size, extra_reliables,
          idgen_reliable_send, idgen_packet_send,
          loop,   \* where process_incoming_packet is: [at, i, rel, ack]
          before  \* history: the station when the loop began

vars == <<reliable, reliable_count, reliable_size, extra_reliables,
          idgen_reliable_send, idgen_packet_send, loop, before>>

Slots == 0 .. (MAXMSG - 1)
Used == {i \in Slots : reliable[i] # Unused}
BytesOfData(m) == Size[m] \* mutant: the record header is forgotten

Bytes1(m) == Size[m] + RecordHeader

(* The array as the partial function of RudpOutgoing.                             *)
Outgoing == [id \in {reliable[i].id : i \in Used} |->
  LET i == CHOOSE j \in Used : reliable[j].id = id
  IN  [body |-> reliable[i].body, sent |-> reliable[i].sent]]

(* can_add_reliable, from the running total.                                      *)
FitsBy(size, m) == size = 0 \/ size + Size[m] < MAX_PACKET_SIZE

QueueFits(x, size) == x # <<>> /\ FitsBy(size, Head(x))

(* The ack loop goes on filling while there are free slots and the queue fits.    *)
FillNoMore(count, x, size) == FALSE \* mutant: one message per freed slot

FillMore(count, x, size) == count < MAXMSG /\ QueueFits(x, size)

(* msgrec::set.                                                                   *)
NewRecord(id, m) == [id |-> id, body |-> m, sent |-> 0]

Init ==
  /\ reliable = [i \in Slots |-> Unused]
  /\ reliable_count = 0 /\ reliable_size = 0 /\ extra_reliables = <<>>
  /\ idgen_reliable_send = 1 /\ idgen_packet_send = 1
  /\ loop = [at |-> "unlocked", i |-> 0, rel |-> 0, ack |-> 0]
  /\ before = [R |-> <<>>, n |-> 1, x |-> <<>>]

(* writer: the first unused slot, or the queue.                                   *)
Writer(m) ==
  /\ loop.at = "unlocked"
  /\ idgen_reliable_send + Len(extra_reliables) <= MaxWrites
  /\ IF reliable_count < MAXMSG /\ FitsBy(reliable_size, m) /\ extra_reliables = <<>>
     THEN /\ reliable' = [reliable EXCEPT
                 ![Min(Slots \ Used)] = NewRecord(idgen_reliable_send, m)]
          /\ reliable_count' = reliable_count + 1
          /\ reliable_size' = reliable_size + Bytes1(m)
          /\ idgen_reliable_send' = idgen_reliable_send + 1
          /\ UNCHANGED extra_reliables
     ELSE /\ extra_reliables' = Append(extra_reliables, m)
          /\ UNCHANGED <<reliable, reliable_count, reliable_size, idgen_reliable_send>>
  /\ UNCHANGED <<idgen_packet_send, loop, before>>

(* send_packet's loop over the slots: msgrec::send.                               *)
SendPacket ==
  /\ loop.at = "unlocked"
  /\ idgen_packet_send <= MaxPackets
  /\ reliable' = [i \in Slots |->
       IF i \in Used /\ reliable[i].sent = 0
       THEN [reliable[i] EXCEPT !.sent = idgen_packet_send] ELSE reliable[i]]
  /\ idgen_packet_send' = idgen_packet_send + 1
  /\ UNCHANGED <<reliable_count, reliable_size, extra_reliables, idgen_reliable_send,
                 loop, before>>

(* process_incoming_packet takes the mutex with an ack of a packet sent.          *)
BeginAck(a) ==
  /\ loop.at = "unlocked"
  /\ loop' = [at |-> "scan", i |-> 0, rel |-> 0, ack |-> a]
  /\ before' = [R |-> Outgoing, n |-> idgen_reliable_send, x |-> extra_reliables]
  /\ UNCHANGED <<reliable, reliable_count, reliable_size, extra_reliables,
                 idgen_reliable_send, idgen_packet_send>>

NextSlot == [loop EXCEPT !.at = "scan", !.i = @ + 1]

(* One iteration over a slot that is unused or not acked.                         *)
KeepSlot ==
  /\ loop.at = "scan" /\ loop.i \in Slots
  /\ loop.i \in Used => ~SentBefore(reliable[loop.i], loop.ack)
  /\ loop' = NextSlot
  /\ UNCHANGED <<reliable, reliable_count, reliable_size, extra_reliables,
                 idgen_reliable_send, idgen_packet_send, before>>

(* One iteration over an acked slot: free it, give it to the head of the queue if *)
(* that fits now, and then look for more free slots if the next one fits too.     *)
FreeSlot ==
  /\ loop.at = "scan" /\ loop.i \in Used
  /\ SentBefore(reliable[loop.i], loop.ack)
  /\ LET size == reliable_size - Bytes1(reliable[loop.i].body) IN
     IF QueueFits(extra_reliables, size)
     THEN LET m == Head(extra_reliables) IN
          /\ reliable' = [reliable EXCEPT ![loop.i] = NewRecord(idgen_reliable_send, m)]
          /\ reliable_size' = size + Bytes1(m)
          /\ extra_reliables' = Tail(extra_reliables)
          /\ idgen_reliable_send' = idgen_reliable_send + 1
          /\ loop' = IF FillMore(reliable_count, extra_reliables', reliable_size')
                     THEN [loop EXCEPT !.at = "fill", !.rel = 0] ELSE NextSlot
          /\ UNCHANGED reliable_count
     ELSE /\ reliable' = [reliable EXCEPT ![loop.i] = Unused]
          /\ reliable_size' = size
          /\ reliable_count' = reliable_count - 1
          /\ loop' = NextSlot
          /\ UNCHANGED <<extra_reliables, idgen_reliable_send>>
  /\ UNCHANGED <<idgen_packet_send, before>>

(* One iteration of the inner loop: skip a used slot, fill an unused one.         *)
FillSlot ==
  /\ loop.at = "fill"
  /\ LET next == IF loop.rel + 1 < MAXMSG THEN [loop EXCEPT !.rel = @ + 1] ELSE NextSlot IN
     IF loop.rel \in Used
     THEN /\ loop' = next
          /\ UNCHANGED <<reliable, reliable_count, reliable_size, extra_reliables,
                         idgen_reliable_send>>
     ELSE LET m == Head(extra_reliables) IN
          /\ reliable' = [reliable EXCEPT ![loop.rel] = NewRecord(idgen_reliable_send, m)]
          /\ reliable_count' = reliable_count + 1
          /\ reliable_size' = reliable_size + Bytes1(m)
          /\ extra_reliables' = Tail(extra_reliables)
          /\ idgen_reliable_send' = idgen_reliable_send + 1
          /\ loop' = IF FillMore(reliable_count', extra_reliables', reliable_size')
                     THEN next ELSE NextSlot
  /\ UNCHANGED <<idgen_packet_send, before>>

(* The end of the loop: relmsg_mutex.unlock().                                    *)
EndAck ==
  /\ loop.at = "scan" /\ loop.i = MAXMSG
  /\ loop' = [loop EXCEPT !.at = "unlocked"]
  /\ UNCHANGED <<reliable, reliable_count, reliable_size, extra_reliables,
                 idgen_reliable_send, idgen_packet_send, before>>

Next == \/ \E m \in Message : Writer(m)
        \/ SendPacket
        \/ \E a \in 0 .. (idgen_packet_send - 1) : BeginAck(a)
        \/ KeepSlot \/ FreeSlot \/ FillSlot \/ EndAck

Spec == Init /\ [][Next]_vars

--------------------------------------------------------------------------------
(* The two running counters, which are never recomputed, always agree with the    *)
(* array: reliable_count is written into packets as the number of messages that   *)
(* follow, and the nAsserts of writer and of the ack loop rest on both.           *)
CountersMatchSlots ==
  /\ reliable_count = Cardinality(Used)
  /\ reliable_size = Bytes(Outgoing)

(* When the ack loop ends it has done, slot by slot and with the queue refilling  *)
(* slots in between, what "free every acked slot, then move all that fits" does:  *)
(* the step ReleaseAcked of Rudp.                                                 *)
LoopReleasesAcked == loop.at = "scan" /\ loop.i = MAXMSG =>
  LET R == Unacked(before.R, loop.ack) IN
  \E k \in 0 .. Len(before.x) :
    /\ IF DOMAIN R = DOMAIN before.R THEN k = 0 ELSE FillsTo(R, before.n, before.x, k)
    /\ Outgoing = AddFirst(R, before.n, before.x, k)
    /\ idgen_reliable_send = before.n + k
    /\ extra_reliables = SubSeq(before.x, k + 1, Len(before.x))

--------------------------------------------------------------------------------
(* The inductive invariant behind them.                                           *)
TypeOK ==
  /\ reliable \in [Slots -> [id : Nat \ {0}, body : Message, sent : Nat] \cup {Unused}]
  /\ reliable_count \in Nat /\ reliable_size \in Nat
  /\ extra_reliables \in Seq(Message)
  /\ idgen_reliable_send \in Nat \ {0} /\ idgen_packet_send \in Nat \ {0}
  /\ loop \in [at : {"unlocked", "scan", "fill"}, i : Slots \cup {MAXMSG}, rel : Slots, ack : Nat]

(* Every id is older than the next one, and in one slot.                          *)
IdsInv == \A i \in Used :
  /\ reliable[i].id < idgen_reliable_send
  /\ \A j \in Used : reliable[j].id = reliable[i].id => j = i

(* The slots O that an ack a can have made of the slots B, by freeing acked ones  *)
(* and moving the first k messages of the queue x into slots, with ids from n on: *)
(* each of them fits into what is left when all acked ones are freed.             *)
Moved(B, a, n, x, O, k) ==
  /\ k \in 0 .. Len(x) /\ n .. (n + k - 1) \subseteq DOMAIN O
  /\ DOMAIN Unacked(B, a) \subseteq DOMAIN O
  /\ \A id \in DOMAIN O :
       \/ id \in DOMAIN B /\ O[id] = B[id]
       \/ id \in n .. (n + k - 1) /\ O[id] = [body |-> x[id - n + 1], sent |-> 0]
  /\ \A j \in 0 .. (k - 1) : HasRoom(AddFirst(Unacked(B, a), n, x, j), x[j + 1])

(* Where the loop is: the acked slots are ahead of it; it fills while it can, and *)
(* has not begun to fill before it has freed a slot.                              *)
LoopInv == loop.at # "unlocked" =>
  LET k == idgen_reliable_send - before.n
      freed == ~(DOMAIN before.R \subseteq DOMAIN Outgoing)
  IN
  /\ before.n \in Nat \ {0} /\ before.x \in Seq(Message)
  /\ DOMAIN before.R \subseteq 1 .. (before.n - 1)
  /\ Moved(before.R, loop.ack, before.n, before.x, Outgoing, k)
  /\ extra_reliables = SubSeq(before.x, k + 1, Len(before.x))
  /\ \A i \in Used : SentBefore(reliable[i], loop.ack) => loop.i <= i
  /\ ~freed => k = 0 /\ loop.at = "scan"
  /\ freed => (loop.at = "fill" <=> FillMore(reliable_count, extra_reliables, reliable_size))
  /\ loop.at = "fill" => /\ loop.i \in Used
                         /\ ~SentBefore(reliable[loop.i], loop.ack)
                         /\ 0 .. (loop.rel - 1) \subseteq Used

IInv == TypeOK /\ IdsInv /\ CountersMatchSlots /\ LoopInv
================================================================================
