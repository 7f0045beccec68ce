----------------------------- MODULE MCAdapters -----------------------------
(* One flow of each kind and fewer sessions than flows: a flow meets a full    *)
(* budget, a free slot again after a release, and an engine that is closing.   *)
(* Both programs around it.                                                    *)
EXTENDS Adapters

CONSTANTS web, quic, lookup

MCProto == [f \in {web, quic, lookup} |-> CASE f = web    -> "tcp"
                                          [] f = quic   -> "udp"
                                          [] f = lookup -> "dns"]
=============================================================================
