----------------------------- MODULE PolicyCheck -----------------------------
(***************************************************************************)
(* RequestHead and Policy against their specification: a controller loads  *)
(* a descriptor, a request arrives, its head is parsed, the resolver       *)
(* answers and authorize decides.  The outcome is compared with what       *)
(* spec/draft/wire.md Section 2 and spec/draft/ingress.md say of heads,    *)
(* and spec/draft/policy.md and wire.md Section 5.2 of the rules of the    *)
(* descriptor, seen as a set.                                              *)
(***************************************************************************)
EXTENDS RequestHead

CONSTANTS
    RuleEntries,        \* the entries a descriptor's rules are taken from
    ExceptionEntries,   \* the entries of resolved_addresses
    MaxRules,           \* bound: rules per descriptor
    MaxExceptions,      \* bound: entries of resolved_addresses
    HeadRequests        \* the requests: a head and what the resolver says

ASSUME CheckAssumption ==
    /\ MaxRules \in Nat /\ MaxExceptions \in Nat
    /\ \A dr \in RuleEntries : IsEntry(dr)
    /\ Absent \notin HeadRequests
    /\ \A r \in HeadRequests : IsHead(r.head) /\ IsAnswer(r.answer)

VARIABLES loaded, policy, request, verdict

checkVars == <<loaded, policy, request, verdict>>

Loadable ==
    [header : {"valid", "invalid"}, udp : BOOLEAN,
     rules : UNION {[1 .. n -> RuleEntries] : n \in 0 .. MaxRules},
     resolved : UNION {[1 .. n -> ExceptionEntries] : n \in 0 .. MaxExceptions}]

CheckInit == loaded = Absent /\ policy = Absent /\ request = Absent /\ verdict = Absent

\* main: a boundary with an invalid descriptor refuses to start.
Load(d) ==
    /\ loaded = Absent /\ request = Absent
    /\ loaded' = d
    /\ policy' = loadDescriptor(d)
    /\ UNCHANGED <<request, verdict>>

\* The boundary: a head that does not parse never reaches the policy.
Decide(r) ==
    LET named == Parse(r.head) IN
    /\ policy # Absent /\ request = Absent /\ r.head.wire \in {"h1", "h2"}
    /\ request' = r
    /\ verdict' = IF named.reason # NoReason THEN Denied(named.status, named.reason)
                  ELSE IF named.network = "udp" /\ ~policy.udp THEN Denied(403, "udp-disabled")
                  ELSE authorize(policy, named.host, named.port, named.network, r.answer)
    /\ UNCHANGED <<loaded, policy>>

\* The ingress channel of the launcher, which has no policy but its ports.
DecideIngress(r) ==
    LET named == Parse(r.head) IN
    /\ loaded = Absent /\ request = Absent /\ r.head.wire = "ingress"
    /\ request' = r
    /\ verdict' = IF named.reason # NoReason THEN Denied(named.status, named.reason)
                  ELSE [Denied(200, NoReason) EXCEPT !.addresses = <<named.host.addr>>]
    /\ UNCHANGED <<loaded, policy>>

CheckNext ==
    \/ \E d \in Loadable : Load(d)
    \/ \E r \in HeadRequests : Decide(r) \/ DecideIngress(r)

CheckSpec == CheckInit /\ [][CheckNext]_checkVars

-----------------------------------------------------------------------------
(* What the specification says of heads *)

\* wire.md Section 2: Host field and target "name the same destination", after
\* the normalisation of names and addresses.
SameDestination(a, b) ==
    /\ a.port = b.port /\ a.host.kind = b.host.kind
    /\ a.host.kind = "name" => a.host.labels = b.host.labels
    /\ a.host.kind = "addr" => a.host.addr = b.host.addr /\ a.host.zone = b.host.zone

\* A head of HTTP/1.x that every parser reads alike.
Unambiguous(h) ==
    /\ h.line = "ok" /\ h.fields = "ok"
    /\ h.version \in {"1.0", "1.1"} \/ (h.version = "1.2" /\ h.wire = "h1")
    /\ Len(h.hosts) <= 1 /\ (h.version # "1.0" => Len(h.hosts) = 1)

\* The head asks for a UDP tunnel.
AsksUDP(h) ==
    h.upgrade = "connect-udp" /\ <<h.wire, h.method>> \in {<<"h1", "GET">>, <<"h2", "CONNECT">>}

\* The head asks for a tunnel as wire.md Section 2 and ingress.md Section 2 want
\* it: an ingress channel carries HTTP/1.1 only.
Conforms(h) ==
    /\ h.wire # "h2" => Unambiguous(h)
    /\ h.target # Absent
    /\ CASE h.wire = "ingress" ->
              /\ h.method = "CONNECT" /\ h.version = "1.1" /\ h.hosts = <<h.target>>
              /\ h.target.host \in LoopbackTexts /\ h.target.port \in PinnedPorts
         [] h.wire = "h1" /\ h.method = "CONNECT" ->
              /\ h.target.port \in 1 .. MaxPort
              /\ \A a \in Range(h.hosts) : a # Absent /\ SameDestination(a, h.target)
         [] h.wire = "h2" /\ h.upgrade = "none" -> h.method = "CONNECT" /\ h.target.port \in 1 .. MaxPort
         [] OTHER ->
              AsksUDP(h) /\ (h.wire = "h1" => h.connection)

\* The destination a conforming head names: of a connect-udp request, "each
\* component is percent-decoded exactly once" (wire.md Section 8).
Destination(r) ==
    [host    |-> IF AsksUDP(r.head) THEN Decoded(r.head.target, 1) ELSE r.head.target.host,
     port    |-> r.head.target.port,
     network |-> IF AsksUDP(r.head) THEN "udp" ELSE "tcp",
     answer  |-> r.answer]

\* The heads that the code is known to treat otherwise than those documents ask:
\*   - a CONNECT with an empty Host field, which connectTarget takes for none;
\*   - HTTP/1.0 on the ingress channel, which ingressTarget accepts;
\*   - a host that is encoded twice, which masqueTarget decodes twice;
\*   - a zone that is encoded once, as it should be, for which masqueTarget
\*     refuses the request as malformed and not with scoped-ip.
Deviates(h) ==
    \/ h.wire = "h1" /\ h.method = "CONNECT" /\ h.hosts = <<Absent>>
    \/ h.wire = "ingress" /\ h.version = "1.0"
    \/ /\ AsksUDP(h) /\ h.target # Absent
       /\ IF Zoned(h.target.host) THEN h.target.layers < 2 ELSE h.target.layers = 2

-----------------------------------------------------------------------------
(* What it says of the rules of the descriptor *)

Entries(d) == Range(d.rules)

\* The entry is a literal rule for address a.
ListsAddress(dr, a) == (dr.ip # Absent /\ dr.ip.addr = a) \/ (dr.cidr # Absent /\ a \in dr.cidr)

\* wire.md Section 6, and Section 5.2 for literals.
MatchesHost(dr, host) ==
    IF host.kind = "addr" THEN ListsAddress(dr, host.addr)
    ELSE \/ dr.name # Absent /\ (dr.name.kind = "star" \/ dr.name.labels = host.labels)
         \/ /\ dr.suffix # Absent
            /\ \E k \in 1 .. Len(host.labels) - 1 :
                /\ SubSeq(host.labels, k + 1, Len(host.labels)) = dr.suffix.labels
                /\ dr.depth = 0 \/ k <= dr.depth

CoversPort(dr, port) == dr.ports = Absent \/ \E x \in dr.ports : port \in x[1] .. x[2]

CoversTransport(dr, network) ==
    IF dr.transports = Absent THEN network = "tcp" ELSE network \in dr.transports

\* The rules of descriptor d that match the request, its port and its transport.
Permitting(d, r) ==
    {dr \in Entries(d) : MatchesHost(dr, r.host) /\ CoversPort(dr, r.port)
                            /\ CoversTransport(dr, r.network)}

\* The request is well formed: it reaches the rules.
WellFormed(r) ==
    /\ r.port \in 1 .. MaxPort
    /\ r.host.kind = "name" \/ (r.host.kind = "addr" /\ ~r.host.zone /\ ~r.host.dot)

Resolution(dr, r) ==
    IF dr.resolve # Absent THEN {t.addr : t \in Range(dr.resolve)}
    ELSE IF r.answer = Absent THEN {}
    ELSE {t.addr : t \in {x \in Range(r.answer) : ~x.zone}}

\* wire.md Section 5.2: the addresses rule dr admits for request r.
Admitted(d, dr, r) ==
    IF r.host.kind = "addr" THEN {r.host.addr}
    ELSE {a \in Resolution(dr, r) :
            \/ dr.resolve # Absent
            \/ \E l \in Entries(d) : ListsAddress(l, a) /\ CoversPort(l, r.port)
            \/ \E e \in Range(d.resolved) : a \in e.cidr /\ CoversPort(e, r.port)
            \/ a \notin Special}

ExpectedReason(d, r) ==
    LET matching == {dr \in Entries(d) : MatchesHost(dr, r.host)} IN
    IF \E dr \in matching : CoversPort(dr, r.port) THEN "transport-not-allowed"
    ELSE IF matching # {} THEN "port-not-allowed"
    ELSE IF r.host.kind = "addr" THEN "ip-not-on-allowlist" ELSE "not-on-allowlist"

-----------------------------------------------------------------------------
(* Properties *)

\* The boundary has decided a conforming request, none of those above.
Decided ==
    /\ verdict # Absent /\ request.head.wire # "ingress"
    /\ Conforms(request.head) /\ ~Deviates(request.head)

\* A request that does not conform, in the boundary or on the ingress channel,
\* is never allowed: it is refused as malformed, not as a policy decision, or
\* the connection ends.  One that does gets as far as the policy, and on the
\* ingress channel is let through.  The four kinds of heads that Deviates lists
\* are excepted, and which status of those below a malformed head gets is left
\* open (the ingress channel also answers 405 and 505 where ingress.md asks for
\* 400).
HeadsAreChecked ==
    verdict # Absent /\ ~Deviates(request.head) =>
        IF Conforms(request.head)
        THEN /\ verdict.status \in {200, 403, 400}
             /\ verdict.status = 400 => ~WellFormed(Destination(request))
             /\ request.head.wire = "ingress" => Allows(verdict)
        ELSE /\ ~Allows(verdict)
             /\ verdict.status = 403 => verdict.reason = "port-not-permitted"
             /\ verdict.status \in {0, 400, 403, 405, 431, 505}

\* authorize never lets the boundary dial an address that no rule of the
\* descriptor admits for this host, port and transport, whatever the resolver
\* answers: in particular a special-purpose address needs its own permission,
\* and resolved_addresses never admits a literal.
AllowedByARule ==
    Decided /\ Allows(verdict) =>
        \E dr \in Permitting(loaded, Destination(request)) :
            Range(verdict.addresses) \subseteq Admitted(loaded, dr, Destination(request))

\* A request that no rule permits is refused, with the reason the rules imply
\* in whatever order they are listed; without features.udp no UDP request
\* reaches them.
RefusedAsSpecified ==
    Decided =>
        LET r == Destination(request) IN
        IF r.network = "udp" /\ ~loaded.udp THEN verdict.reason = "udp-disabled"
        ELSE IF ~WellFormed(r)
        THEN verdict.reason \in {"malformed-port", "malformed-target", "scoped-ip", "authority-mismatch"}
        ELSE Permitting(loaded, r) = {} <=> verdict.reason = ExpectedReason(loaded, r)

\* A request that every permitting rule admits an address for is allowed.
AllowedWhenAllAdmit ==
    Decided =>
        LET r == Destination(request) IN
        /\ WellFormed(r) /\ (r.network = "udp" => loaded.udp) /\ Permitting(loaded, r) # {}
        /\ \A dr \in Permitting(loaded, r) : Admitted(loaded, dr, r) # {}
        => Allows(verdict)

\* policy.md: "Rules are unordered, and a request is allowed when any rule
\* allows it."
AnyRuleAllows ==
    Decided =>
        LET r == Destination(request) IN
        /\ WellFormed(r) /\ (r.network = "udp" => loaded.udp)
        /\ \E dr \in Permitting(loaded, r) : Admitted(loaded, dr, r) # {}
        => Allows(verdict)
=============================================================================
