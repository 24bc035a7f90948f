------------------------------ MODULE MCRudpSlots ------------------------------
(* RudpSlots for TLC: three slots, two message sizes; a packet has room for three *)
(* small messages or one big one.                                                 *)
EXTENDS RudpSlots, TLC

CONSTANTS small, big

MCMessage == {small, big}
MCSize == (small :> 1) @@ (big :> 13)
================================================================================
