---------------------------- MODULE MCVirtualDNS ----------------------------
(* Small instances of VirtualDNS: pools of a few addresses, so that eviction *)
(* and exhaustion both happen, and more names than the memory holds.         *)
EXTENDS VirtualDNS, TLC

CONSTANTS v4, v6

MCPoolSize == [f \in Families |-> IF f = v4 THEN 6 ELSE 4]
MCReserved == [f \in Families |-> IF f = v4 THEN 5 ELSE 3]

NameSymmetry == Permutations(Names)
=============================================================================
