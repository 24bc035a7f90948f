------------------------------ MODULE RudpOutgoing ------------------------------
(* The outgoing slots of a station_ci as a function R from the ids of the unacked *)
(* messages to [body, sent], and the queue x of the messages that wait for a slot *)
(* and an id, n being the next id.                                                *)
EXTENDS Integers, Sequences, FiniteSets, Functions

CONSTANTS Size,            \* Size[m]: bytes of message m, data.size()
          MAXMSG,          \* outgoing slots
          MAX_PACKET_SIZE  \* bytes of reliable messages in one packet

RecordHeader == 6 \* message id (4 bytes) and message size (2 bytes)

SumOf(f) == FoldFunction(LAMBDA x, y : x + y, 0, f)

Bytes(R) == SumOf([i \in DOMAIN R |-> Size[R[i].body] + RecordHeader])

CanAddAny(R, m) == TRUE \* mutant: packets of any size

(* can_add_reliable: a lone message may have any size. *)
CanAdd(R, m) == DOMAIN R = {} \/ Bytes(R) + Size[m] < MAX_PACKET_SIZE

HasRoomUncounted(R, m) == CanAdd(R, m) \* mutant: more messages than slots

HasRoom(R, m) == Cardinality(DOMAIN R) < MAXMSG /\ CanAdd(R, m)

(* msgrec::set on k free slots: the k oldest queued messages get ids n, n+1...   *)
AddFirst(R, n, x, k) ==
  [i \in DOMAIN R \cup n .. (n + k - 1) |->
     IF i \in DOMAIN R THEN R[i] ELSE [body |-> x[i - n + 1], sent |-> 0]]

(* Mutant: a message that was never sent counts as sent.                         *)
SentBeforeUnset(rec, id) == rec.sent <= id

(* msgrec::sentBefore: the first packet with the message is no later than id.    *)
SentBefore(rec, id) == rec.sent # 0 /\ rec.sent <= id

Unacked(R, id) == [i \in {j \in DOMAIN R : ~SentBefore(R[j], id)} |-> R[i]]

(* Mutant: one ack moves at most one message.                                    *)
FillsToOne(R, n, x, k) ==
  IF x # <<>> /\ HasRoom(R, x[1]) THEN k = 1 ELSE k = 0

(* k messages are all that the queue can move to the slots R, one after another. *)
FillsTo(R, n, x, k) ==
  /\ \A j \in 0 .. (k - 1) : HasRoom(AddFirst(R, n, x, j), x[j + 1])
  /\ k < Len(x) => ~HasRoom(AddFirst(R, n, x, k), x[k + 1])

================================================================================
