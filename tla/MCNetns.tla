------------------------------- MODULE MCNetns -------------------------------
(* Two families, a TCP connection and two UDP flows, one of them DNS, for two *)
(* slots.  A key gets a second flow after its first, and a one-packet channel *)
(* overflows at the second packet.                                            *)
EXTENDS Netns

CONSTANTS v4, v6, web, quic, lookup

MCFamilies == <<v4, v6>>
MCFamilyOf == [x \in Conns \cup Keys |-> IF x = lookup THEN v6 ELSE v4]
=============================================================================
