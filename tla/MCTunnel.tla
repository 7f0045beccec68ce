------------------------------ MODULE MCTunnel ------------------------------
(* Tunnels of every kind with one-chunk buffers: the second chunk of a source  *)
(* meets a full buffer, so every blocking read and write happens, and sources  *)
(* may send for ever.                                                          *)
EXTENDS Tunnel

AllKinds ==
    [wire : {"h1", "h2"}, network : {"tcp", "udp"}] \cup [wire : {"ingress"}, network : {"tcp"}]
H2Kinds  == [wire : {"h2"}, network : {"tcp", "udp"}]
=============================================================================
