----------------------------- MODULE MCEgress -----------------------------
(* A resolver that remembers one name of three and forgets the others while  *)
(* the guest keeps their addresses, and a policy that lists one of them, n1. *)
(* n3 is n1 with a percent escape.                                           *)
EXTENDS Egress

CONSTANTS v4, pub, priv, n1, n2, n3

MCPoolSize == [f \in {v4} |-> 6]
MCReserved == [f \in {v4} |-> 5]

MCAddresses == [fam : {v4}, off : 0 .. 5] \cup {pub, priv}
MCSpecial   == [fam : {v4}, off : 0 .. 5] \cup {priv}

Blank == [id |-> "", name |-> Absent, suffix |-> Absent, ip |-> Absent, cidr |-> Absent,
          depth |-> 0, ports |-> Absent, transports |-> Absent, resolve |-> Absent]

MCDescriptor ==
    [header |-> "valid", udp |-> TRUE, resolved |-> <<>>,
     rules |-> <<[Blank EXCEPT !.id = "one", !.name = NameText(n1), !.ports = {<<2, 2>>},
                               !.transports = {"tcp", "udp"}],
                 [Blank EXCEPT !.id = "net", !.cidr = {pub, priv}]>>]

MCUnescaped == (n3 :> n1)

MCAnswers == {Absent, <<[addr |-> priv, zone |-> FALSE], [addr |-> pub, zone |-> FALSE]>>}
=============================================================================
