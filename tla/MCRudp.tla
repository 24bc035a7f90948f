--------------------------------- MODULE MCRudp ---------------------------------
(* Small instances of Rudp for TLC.                                              *)
EXTENDS Rudp, TLC

CONSTANTS client, server, small, big

MCStation == {client, server}
MCPeer == (client :> server) @@ (server :> client)
MCMessage == {small, big}

(* MAX_PACKET_SIZE 20: two small messages fit in a packet, a big one only alone. *)
MCSize == (small :> 2) @@ (big :> 14)

(* Both write; the server's message travels with its acknowledgements.           *)
MCMaxWrites == (client :> 3) @@ (server :> 1)
MCMaxPackets == (client :> 3) @@ (server :> 1)
================================================================================
