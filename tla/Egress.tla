------------------------------- MODULE Egress -------------------------------
(***************************************************************************)
(* One connection from end to end: the guest asks the adapter's resolver   *)
(* for a name, dials an address it holds, the adapter turns the address    *)
(* back into a host (sdk/pkg/tun2connect/forwarder.go), its client writes  *)
(* the host into a request (connect.go, connect_h2.go), and the boundary   *)
(* parses the request and decides.  Composes VirtualDNS, RequestHead and   *)
(* Policy.                                                                 *)
(*                                                                         *)
(* The guest may dial any address, and above all one that it was given     *)
(* long ago: what VirtualDNS remembers as `issued` is what a guest may     *)
(* still have in a cache.                                                  *)
(***************************************************************************)
EXTENDS RequestHead

CONSTANTS
    Families, Names, Root, PoolSize, Reserved, MaxNames,    \* of VirtualDNS
    Unescaped,  \* the names with percent escapes, and what decoding makes of them
    Descriptor, \* the boundary's policy descriptor
    Literals,   \* addresses outside the synthetic pools that guests dial
    Ports,      \* destination ports
    Answers     \* what the boundary's resolver may say

VARIABLES
    last, names, reverse, order, reply, issued, fresher,    \* of VirtualDNS
    flow        \* the connection made last: destination, host and verdict

dnsVars == <<last, names, reverse, order, reply, issued, fresher>>
vars    == <<dnsVars, flow>>

D == INSTANCE VirtualDNS WITH Nil <- Absent

\* The hosts the adapter writes, and the targets a request has then.
AddrText(a) == [kind |-> "addr", addr |-> a, zone |-> FALSE, dot |-> FALSE]
NameText(n) == IF n \in DOMAIN Unescaped THEN [kind |-> "escaped", name |-> Unescaped[n]]
               ELSE [kind |-> "name", labels |-> <<n>>, raw |-> FALSE]
Texts   == {AddrText(a) : a \in Addresses} \cup {NameText(n) : n \in Names}
Targets == [host : Texts, port : Ports] \cup [host : Texts, port : Ports, layers : {1, 2}]

ASSUME EgressAssumption ==
    /\ D!Addrs \subseteq Special /\ Literals \subseteq Addresses \ D!Addrs
    /\ DOMAIN Unescaped \subseteq Names
    /\ \A n \in DOMAIN Unescaped : Unescaped[n] \in Names \ DOMAIN Unescaped
    /\ PoolSize \in [Families -> Nat] /\ Ports \subseteq 0 .. MaxPort
    /\ Absent \notin Names \cup D!Binding \cup Targets

\* The boundary has a descriptor that loads, or it would not have started, and
\* entries, hosts and answers have the shape they have in module Policy.
ASSUME DescriptorAssumption ==
    /\ loadDescriptor(Descriptor) # Absent
    /\ Descriptor.rules \in Seq(Range(Descriptor.rules))
    /\ Descriptor.resolved \in Seq(Range(Descriptor.resolved))
    /\ \A dr \in Range(Descriptor.rules) : IsEntry(dr)
    /\ \A t \in Texts : IsText(t)
    /\ \A answer \in Answers : IsAnswer(answer)

NoFlow == [dest |-> Absent, network |-> Absent, host |-> Absent, verdict |-> Absent]

Init == D!Init /\ flow = NoFlow

\* The guest resolves a name.
Query(q) == D!HandleQuery(q) /\ UNCHANGED flow

\* targetHost: the name the address was handed out for while the resolver
\* remembers it, the address itself otherwise.
targetHost(r) == IF r.kind = "name" THEN NameText(r.name) ELSE AddrText(r.addr)

\* The clients' DialTCP on either wire: the host as it is, the port and nothing
\* else.  Over HTTP/2 the library makes :authority of it.
ConnectHead(w, host, port) ==
    LET target == [host |-> host, port |-> port] IN
    [wire |-> w, line |-> "ok", method |-> "CONNECT", version |-> "1.1", fields |-> "ok",
     hosts |-> IF w = "h1" THEN <<target>> ELSE <<>>,
     upgrade |-> "none", connection |-> FALSE, target |-> target]

\* udpProxyURL: the host is percent-encoded, once more if it has escapes.
udpTarget(host, port) ==
    IF host.kind = "escaped" THEN [host |-> NameText(host.name), port |-> port, layers |-> 2]
    ELSE [host |-> host, port |-> port, layers |-> 1]

\* The clients' DialUDP: an upgrade, or an extended CONNECT.
ConnectUDPHead(w, host, port) ==
    [ConnectHead(w, host, port) EXCEPT
        !.method = IF w = "h1" THEN "GET" ELSE "CONNECT",
        !.upgrade = "connect-udp", !.connection = (w = "h1"), !.target = udpTarget(host, port)]

loadedPolicy == loadDescriptor(Descriptor)

\* The boundary parses what the client sent and decides.
BoundaryDecides(a, head, answer) ==
    LET asks == Parse(head) IN
    flow' = [dest |-> a, network |-> asks.network, host |-> asks.host,
             verdict |-> IF asks.network = "udp" /\ ~loadedPolicy.udp THEN Denied(403, "udp-disabled")
                         ELSE authorize(loadedPolicy, asks.host, asks.port, asks.network, answer)]

\* DialTCP and DialUDP for one host.
Forward(a, host, port, answer) ==
    \E w \in {"h1", "h2"} :
        \/ BoundaryDecides(a, ConnectHead(w, host, port), answer)
        \/ BoundaryDecides(a, ConnectUDPHead(w, host, port), answer)

\* A connection to an address of a pool.
DialSynthetic(d, port, answer) ==
    /\ port # 0
    /\ D!Reverse(d)
    /\ Forward(d.addr, targetHost(reply'), port, answer)

\* The same for an address that no pool has: no name is known for it.
DialLiteral(a, port, answer) ==
    /\ port # 0
    /\ Forward(a, AddrText(a), port, answer)
    /\ UNCHANGED dnsVars

\* Port 0 is refused before the resolver or the boundary is asked.
DialInvalid ==
    /\ 0 \in Ports
    /\ flow' = NoFlow
    /\ UNCHANGED dnsVars

Next ==
    \/ \E q \in D!Queries : Query(q)
    \/ \E port \in Ports, answer \in Answers :
        \/ \E d \in D!Destinations : DialSynthetic(d, port, answer)
        \/ \E a \in Literals : DialLiteral(a, port, answer)
    \/ DialInvalid

Spec == Init /\ [][Next]_vars

-----------------------------------------------------------------------------
(* Properties *)

\* The flow is over UDP and for a name with percent escapes, which the boundary
\* decodes once more than wire.md Section 8 says: it decides about another name
\* then, and the two properties below do not hold.
DecodedTwice ==
    /\ flow.dest \in D!Addrs /\ flow.network = "udp"
    /\ issued[flow.dest] \in DOMAIN Unescaped

\* However old the guest's copy of an address is, and on either wire, the
\* boundary decides about the name it was handed out for or about the bare
\* address: never about another name, unless that name has percent escapes and
\* the flow is over UDP.
NeverAnotherName ==
    flow.dest # Absent /\ flow.host.kind = "name" /\ ~DecodedTwice =>
        flow.host.labels = <<issued[flow.dest]>>

\* adapters.md: a connection to a synthetic address whose name the adapter no
\* longer knows is forwarded as a literal "and the boundary denies it, because
\* synthetic ranges are special-purpose".
StaleIsDenied ==
    flow.dest \in D!Addrs /\ issued[flow.dest] # Absent /\ flow.host.kind = "addr" =>
        ~Allows(flow.verdict)

\* A name that the descriptor's rules do not list is not reached through any
\* address that was ever handed out for it: what is allowed is allowed by a
\* rule for the very name the guest asked for, again unless that name has
\* percent escapes and the flow is over UDP.
OnlyListedNames ==
    flow.dest \in D!Addrs /\ Allows(flow.verdict) /\ ~DecodedTwice =>
        \E r \in Range(Descriptor.rules) : r.name # Absent /\ r.name.labels = <<issued[flow.dest]>>
=============================================================================
