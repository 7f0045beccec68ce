----------------------------- MODULE MCBoundary -----------------------------
(* A boundary with a budget smaller than the number of clients and a policy   *)
(* under which every kind of verdict occurs.                                  *)
EXTENDS Boundary, TLC

CONSTANTS pub, priv, link

Addr(a) == [kind |-> "addr", addr |-> a, zone |-> FALSE, dot |-> FALSE]
Name(n) == [kind |-> "name", labels |-> <<n>>, raw |-> FALSE]

Blank == [id |-> "", name |-> Absent, suffix |-> Absent, ip |-> Absent, cidr |-> Absent,
          depth |-> 0, ports |-> Absent, transports |-> Absent, resolve |-> Absent]

MCDescriptor(udp) ==
    [header |-> "valid", udp |-> udp,
     rules |-> <<[Blank EXCEPT !.id = "web", !.name = Name("web"), !.ports = {<<1, 1>>}],
                 [Blank EXCEPT !.id = "svc", !.name = Name("svc"),
                               !.resolve = <<Addr(priv), Addr(pub)>>, !.transports = {"tcp", "udp"}],
                 [Blank EXCEPT !.id = "db", !.ip = Addr(link), !.ports = {<<2, 2>>}]>>,
     resolved |-> <<[cidr |-> {link}, ports |-> {<<1, 1>>}]>>]

MCDescriptors == {MCDescriptor(TRUE), MCDescriptor(FALSE)}

Ask(host, port, network) == [defect |-> Absent, host |-> host, port |-> port, network |-> network]

MCRequests == {
    Ask(Name("web"), 1, "tcp"), Ask(Addr(link), 2, "tcp"), Ask(Name("svc"), 1, "udp"),
    [Ask(Name("web"), 1, "tcp") EXCEPT !.defect = "malformed-target"]}

Bare(a) == [addr |-> a, zone |-> FALSE]

MCAnswers == {Absent, <<Bare(priv)>>, <<Bare(priv), Bare(link)>>}

ConnSymmetry == Permutations(Conns)
=============================================================================
