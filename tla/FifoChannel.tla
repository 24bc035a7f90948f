------------------------------ MODULE FifoChannel ------------------------------
(* What leetnet's reliable messages promise their users, in both directions of  *)
(* one connection: every message a station writes is read by its peer at most   *)
(* once, in the order of the writes, and nothing else is read.  Network loss,   *)
(* duplication, reordering and retransmission are all invisible here.           *)
EXTENDS Naturals, Sequences

CONSTANTS Station, \* the two ends of the connection
          Peer,    \* the other end of each
          Message  \* message contents

VARIABLES written,  \* written[s]: every message the user of s has written
          delivered \* delivered[s]: every message the user of s has read

chanVars == <<written, delivered>>

ChanInit == /\ written = [s \in Station |-> <<>>]
            /\ delivered = [s \in Station |-> <<>>]

ChanWrite(s, m) == /\ written' = [written EXCEPT ![s] = Append(@, m)]
                   /\ UNCHANGED delivered

(* The next message read is the oldest unread one of the peer.                  *)
ChanRead(s) ==
  LET n == Len(delivered[s]) + 1 IN
  /\ n <= Len(written[Peer[s]])
  /\ delivered' = [delivered EXCEPT ![s] = Append(@, written[Peer[s]][n])]
  /\ UNCHANGED written

ChanNext == \E s \in Station : ChanRead(s) \/ \E m \in Message : ChanWrite(s, m)

ChanSpec == ChanInit /\ [][ChanNext]_chanVars
================================================================================
