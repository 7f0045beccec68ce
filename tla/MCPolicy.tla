------------------------------- MODULE MCPolicy -------------------------------
(* Descriptors of up to two rules over four addresses (one public, three      *)
(* special-purpose), names of up to three labels and four ports.  Requests    *)
(* are the clients' for every destination, and variants of some of them with  *)
(* one part of the head changed.                                              *)
EXTENDS PolicyCheck

CONSTANTS pub, priv, syn, loop

Addr(a) == [kind |-> "addr", addr |-> a, zone |-> FALSE, dot |-> FALSE]
Name(l) == [kind |-> "name", labels |-> l, raw |-> FALSE]

Blank == [id |-> "", name |-> Absent, suffix |-> Absent, ip |-> Absent, cidr |-> Absent,
          depth |-> 0, ports |-> Absent, transports |-> Absent, resolve |-> Absent]

ex  == <<"ex">>
aex == <<"a", "ex">>
bex == <<"b", "a", "ex">>

MCRuleEntries == {
    [Blank EXCEPT !.id = "exact", !.name = Name(aex), !.ports = {<<2, 3>>}],
    [Blank EXCEPT !.id = "pinned", !.name = [Name(aex) EXCEPT !.raw = TRUE],
                  !.resolve = <<Addr(priv)>>, !.transports = {"tcp", "udp"}],
    [Blank EXCEPT !.id = "star", !.name = [kind |-> "star"], !.transports = {"udp"}],
    [Blank EXCEPT !.id = "suffix", !.suffix = Name(ex), !.ports = {<<1, 1>>, <<4, 4>>}],
    [Blank EXCEPT !.id = "shallow", !.suffix = Name(ex), !.depth = 1],
    [Blank EXCEPT !.id = "ip", !.ip = Addr(priv), !.ports = {<<2, 2>>}],
    [Blank EXCEPT !.id = "net", !.cidr = {priv, syn}, !.transports = {"udp"}],
    [Blank EXCEPT !.id = "all", !.cidr = {pub, priv, syn}, !.ports = {<<3, 4>>}],
    \* entries the loader refuses
    [Blank EXCEPT !.name = Name(ex), !.ip = Addr(pub)],
    [Blank EXCEPT !.name = Name(ex), !.ports = {<<3, 2>>}],
    [Blank EXCEPT !.name = [kind |-> "star"], !.resolve = <<Addr(pub)>>],
    [Blank EXCEPT !.name = Name(ex), !.depth = 1],
    [Blank EXCEPT !.id = LongID, !.name = Name(ex)]}

MCExceptionEntries == {
    [cidr |-> {syn}, ports |-> Absent],
    [cidr |-> {priv, syn}, ports |-> {<<2, 2>>}],
    [cidr |-> {pub, priv}, ports |-> Absent],
    [cidr |-> {syn}, ports |-> Absent, transports |-> {"udp"}]}

ScopedPub == [Addr(pub) EXCEPT !.zone = TRUE]

HostNames  == {Name(ex), [Name(aex) EXCEPT !.raw = TRUE], Name(bex)}
OtherHosts == {Addr(priv), Addr(syn), ScopedPub,
               [Addr(pub) EXCEPT !.dot = TRUE], [kind |-> "bad"]}

Bare(a) == [addr |-> a, zone |-> FALSE]

Answers == {Absent, <<Bare(pub)>>, <<Bare(priv)>>, <<Bare(syn), Bare(pub)>>,
            <<[addr |-> pub, zone |-> TRUE]>>}

At(host, port) == [host |-> host, port |-> port, layers |-> 0]

\* The heads the adapter's clients send.
Connect(target) ==
    [wire |-> "h1", line |-> "ok", method |-> "CONNECT", version |-> "1.1", fields |-> "ok",
     hosts |-> <<target>>, upgrade |-> "none", connection |-> FALSE, target |-> target]

Upgrade(target) ==
    [Connect([target EXCEPT !.layers = 1]) EXCEPT
        !.method = "GET", !.upgrade = "connect-udp", !.connection = TRUE, !.hosts = <<Absent>>]

Plain(hosts) == UNION {{Connect(At(x, n)), Upgrade(At(x, n))} : x \in hosts, n \in 0 .. 5}

\* Heads like them with one thing changed.
Variants(h) ==
    {h}
    \cup {[h EXCEPT !.line = x] : x \in {"malformed", "large", "short"}}
    \cup {[h EXCEPT !.fields = x] : x \in {"malformed", "badname", "large", "short"}}
    \cup {[h EXCEPT !.version = x] : x \in {"1.0", "1.2", "2.0", "none"}}
    \cup {[h EXCEPT !.version = "1.0", !.hosts = <<>>], [h EXCEPT !.target = Absent]}
    \cup {[h EXCEPT !.method = x] : x \in {"CONNECT", "GET", "POST"}}
    \cup {[h EXCEPT !.upgrade = x] : x \in {"none", "connect-udp", "websocket"}}
    \cup {[h EXCEPT !.connection = FALSE]}
    \cup {[h EXCEPT !.hosts = x] : x \in {<<>>, <<Absent>>, <<At(Name(aex), 2)>>, <<At(Name(aex), 3)>>,
              <<At(Name(ex), 2)>>, <<At(Addr(priv), 2)>>, <<At(Addr(loop), 2)>>,
              <<At([Addr(priv) EXCEPT !.dot = TRUE], 2)>>, <<Absent, Absent>>}}
    \cup (IF h.upgrade = "none" THEN {} ELSE {[h EXCEPT !.target.layers = n] : n \in 0 .. 3})

\* Scoped addresses over UDP, encoded once, twice and three times.
Scoped == {[Upgrade(At(ScopedPub, 2)) EXCEPT !.target.layers = n] : n \in 1 .. 3}

Basic == {Connect(At([Name(aex) EXCEPT !.raw = TRUE], 2)), Connect(At(Addr(priv), 2)),
          Upgrade(At(Name(aex), 2))}

Ingress == {[Connect(At(x, n)) EXCEPT !.wire = "ingress"] :
               x \in {Addr(loop), Addr(priv), Name(ex)}, n \in {0, 2, 3}}

H2(h) == [h EXCEPT !.wire = "h2", !.hosts = <<>>, !.method = "CONNECT"]

Odd == UNION {Variants(h) : h \in Basic \cup Ingress}
       \cup Scoped \cup {H2(h) : h \in Scoped}
       \cup {[H2(h) EXCEPT !.target.layers = 2] : h \in {Upgrade(At(Name(aex), 2))}}
       \cup {[H2(h) EXCEPT !.method = "GET"] : h \in Basic}
       \cup {[H2(h) EXCEPT !.upgrade = "websocket"] : h \in Basic}
       \cup {[H2(h) EXCEPT !.target = Absent] : h \in Basic}
       \cup {H2(h) : h \in Basic} \cup {H2(Connect(At(Name(aex), n))) : n \in {0, 5}}

\* The resolver is asked for names only.
MCHeadRequests ==
    {[head |-> h, answer |-> a] : h \in Plain(HostNames), a \in Answers}
    \cup {[head |-> h, answer |-> <<Bare(pub)>>] : h \in Odd \cup Plain(OtherHosts)}

MCLoopbackTexts == {Addr(loop)}
=============================================================================
