----------------------------- MODULE RequestHead -----------------------------
(***************************************************************************)
(* How a request becomes a destination before any policy is asked:         *)
(* readHead, connectTarget, upgradeTarget and masqueTarget of              *)
(* sdk/cmd/connect-proxy/main.go for HTTP/1.x, serveH2 for HTTP/2, and     *)
(* ingressTarget of sdk/cmd/tun2connect/run.go for the reverse channel.    *)
(* Operators only, on the texts of Policy.                                 *)
(*                                                                         *)
(* A head is a record:                                                     *)
(*   wire        "h1", "h2" or "ingress"                                   *)
(*   line        the request line: "ok", "malformed", "large" (over the    *)
(*               limit), "short" (the peer ends or stalls)                 *)
(*   method, version                                                       *)
(*   fields      the header block, like line; "badname" when only the name *)
(*               of a field is wrong                                       *)
(*   hosts       the Host fields, each an authority or Absent when empty   *)
(*   upgrade     Upgrade has connect-udp; over HTTP/2, the :protocol; or   *)
(*               "none"                                                    *)
(*   connection  Connection has Upgrade, and the target is a URI without   *)
(*               user information (a zone that is not encoded makes it     *)
(*               none)                                                     *)
(*   target      Absent when it cannot be taken apart, or [host, port],    *)
(*               with `layers`, the times the host is percent-encoded      *)
(***************************************************************************)
EXTENDS Policy

CONSTANTS
    LoopbackTexts,  \* "127.0.0.1" and "::1"
    PinnedPorts     \* the ports of -ingress-port

\* What a head is refused for.
HeadReasons ==
    {"no-answer", "head-too-large", "malformed-request-line", "unsupported-version",
     "malformed-header", "duplicate-host", "missing-host", "malformed-target", "malformed-port",
     "authority-mismatch", "malformed-template", "malformed-upgrade", "unsupported-protocol",
     "connect-only", "port-not-permitted"}

ASSUME HeadAssumption ==
    /\ PinnedPorts \subseteq 1 .. MaxPort
    /\ Absent \notin [status : Nat, reason : HeadReasons]

\* The shape of a head.
IsHead(h) ==
    /\ h.wire \in {"h1", "h2", "ingress"}
    /\ h.line \in {"ok", "malformed", "large", "short"}
    /\ h.fields \in {"ok", "badname", "malformed", "large", "short"}
    /\ h.hosts \in Seq(Range(h.hosts)) /\ h.connection \in BOOLEAN
    /\ h.target # Absent => IsText(h.target.host)
    /\ h.target # Absent /\ h.upgrade = "connect-udp" => h.target.layers \in Nat

Refused(status, reason) == [status |-> status, reason |-> reason]
Asks(network, host, port) ==
    [status |-> 0, reason |-> NoReason, network |-> network, host |-> host, port |-> port]

\* The connection is closed without an answer.
NoAnswer == Refused(0, "no-answer")

\* The first check that fails decides; Absent when none does.
FirstFailure(checks) ==
    LET failing == {i \in DOMAIN checks : checks[i].fails}
    IN  IF failing = {} THEN Absent ELSE checks[Min(failing)].result

Check(fails, result) == [fails |-> fails, result |-> result]

-----------------------------------------------------------------------------
(* HTTP/1.x at the boundary *)

\* The limit on the bytes of a head is boundedReader's.  Any version 1.x will
\* do: "1.2" stands for the later ones.
HeadChecks(h) == <<
    Check(h.line = "short", NoAnswer),
    Check(h.line = "large", Refused(431, "head-too-large")),
    Check(h.line = "malformed", Refused(400, "malformed-request-line")),
    Check(h.version \notin {"1.0", "1.1", "1.2"}, Refused(505, "unsupported-version")),
    Check(h.fields = "short", NoAnswer),
    Check(h.fields = "large", Refused(431, "head-too-large")),
    Check(h.fields = "malformed", Refused(400, "malformed-header")),
    Check(Len(h.hosts) > 1, Refused(400, "duplicate-host")),
    Check(h.fields = "badname", Refused(400, "malformed-header")),
    Check(h.version # "1.0" /\ h.hosts = <<>>, Refused(400, "missing-host"))>>

readHead(h) == FirstFailure(HeadChecks(h))

\* Two texts that are equal but for case and one final dot.
EqualFold(s, t) ==
    /\ s.kind = t.kind
    /\ CASE s.kind = "name" -> s.labels = t.labels
         [] s.kind = "addr" -> s.addr = t.addr /\ s.zone = t.zone
         [] OTHER -> TRUE

\* Mutant: the ports are not compared.
sameAuthorityAnyPort(a, b) ==
    IF ParsesAsAddr(a.host)
    THEN ParsesAsAddr(b.host) /\ a.host.addr = b.host.addr /\ a.host.zone = b.host.zone
    ELSE EqualFold(a.host, b.host)

\* sameAuthority: an address is compared as one if the Host field holds one.
sameAuthority(a, b) ==
    /\ a.port = b.port
    /\ IF ParsesAsAddr(a.host)
       THEN ParsesAsAddr(b.host) /\ a.host.addr = b.host.addr /\ a.host.zone = b.host.zone
       ELSE EqualFold(a.host, b.host)

\* An empty Host field is not compared.
TargetChecks(h) == <<
    Check(h.target = Absent, Refused(400, "malformed-target")),
    Check(h.target # Absent /\ ~ParsesAsPort(h.target.port), Refused(400, "malformed-port")),
    Check(/\ h.target # Absent /\ h.hosts # <<>> /\ Head(h.hosts) # Absent
          /\ ~sameAuthority(Head(h.hosts), h.target),
          Refused(400, "authority-mismatch"))>>

connectTarget(h) ==
    LET failure == FirstFailure(TargetChecks(h))
    IN  IF failure # Absent THEN failure ELSE Asks("tcp", h.target.host, h.target.port)

\* The host is an address with a zone, "fe80::1%eth0".
Zoned(host) == host.kind = "addr" /\ host.zone

\* The host that n decodings leave of a target: one that is still encoded is no
\* host, but for a zone, in which any text will do.
Decoded(target, n) ==
    IF target.layers > n /\ ~Zoned(target.host) THEN [kind |-> "bad"] ELSE target.host

\* url.ParseRequestURI or the HTTP/2 server has decoded the path once already,
\* PathUnescape decodes the segment again.  The percent sign of a zone that the
\* first decoding has laid bare, or a slash, spoils the template.
masqueTarget(target) ==
    IF target = Absent \/ (Zoned(target.host) /\ target.layers < 2)
    THEN Refused(400, "malformed-template")
    ELSE Asks("udp", Decoded(target, 2), target.port)

\* upgradeTarget
handleConnectUDP(h) ==
    IF ~h.connection THEN Refused(400, "malformed-upgrade") ELSE masqueTarget(h.target)

\* serve
ServeH1(h) ==
    IF readHead(h) # Absent THEN readHead(h)
    ELSE IF h.method = "CONNECT" THEN connectTarget(h)
    ELSE IF h.method = "GET" /\ h.upgrade = "connect-udp" THEN handleConnectUDP(h)
    ELSE Refused(405, "connect-only")

-----------------------------------------------------------------------------
(* HTTP/2 at the boundary: the server library has checked the head *)

H2Checks(h) == <<
    Check(h.method # "CONNECT", Refused(405, "connect-only")),
    Check(h.upgrade \notin {"none", "connect-udp"}, Refused(400, "unsupported-protocol")),
    Check(h.upgrade = "none" /\ h.target = Absent, Refused(400, "malformed-target")),
    Check(h.upgrade = "none" /\ h.target # Absent /\ ~ParsesAsPort(h.target.port),
          Refused(400, "malformed-port"))>>

ServeH2(h) ==
    LET failure == FirstFailure(H2Checks(h))
    IN  IF failure # Absent THEN failure
        ELSE IF h.upgrade = "connect-udp" THEN masqueTarget(h.target)
        ELSE Asks("tcp", h.target.host, h.target.port)

-----------------------------------------------------------------------------
(* The ingress channel *)

\* ingressTarget: the texts of target and Host field must be the same.
IngressChecks(h) == <<
    Check(h.line # "ok", Refused(400, "malformed-request-line")),
    Check(h.version = "none", Refused(400, "malformed-request-line")),
    Check(h.version \notin {"1.0", "1.1"}, Refused(505, "unsupported-version")),
    Check(h.fields # "ok", Refused(400, "malformed-header")),
    Check(Len(h.hosts) > 1, Refused(400, "duplicate-host")),
    Check(h.method # "CONNECT", Refused(405, "connect-only")),
    Check(h.version = "1.1" /\ h.hosts = <<>>, Refused(400, "missing-host")),
    Check(h.target = Absent, Refused(400, "malformed-target")),
    Check(h.target # Absent /\ h.target.host \notin LoopbackTexts, Refused(400, "malformed-target")),
    Check(h.target # Absent /\ ~ParsesAsPort(h.target.port), Refused(400, "malformed-port")),
    Check(h.hosts # <<>> /\ Head(h.hosts) # h.target, Refused(400, "authority-mismatch")),
    Check(h.target # Absent /\ h.target.port \notin PinnedPorts, Refused(403, "port-not-permitted"))>>

ServeIngress(h) ==
    LET failure == FirstFailure(IngressChecks(h))
    IN  IF failure # Absent THEN failure ELSE Asks("tcp", h.target.host, h.target.port)

Parse(h) ==
    CASE h.wire = "h1" -> ServeH1(h) [] h.wire = "h2" -> ServeH2(h) [] OTHER -> ServeIngress(h)
=============================================================================
