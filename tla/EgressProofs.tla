---------------------------- MODULE EgressProofs ----------------------------
(***************************************************************************)
(* Theorems about the whole path from a guest's query to the boundary's    *)
(* decision (module Egress): the composition is a resolver, and a          *)
(* connection arrives under the name its address was handed out for or     *)
(* under none, a name with percent escapes over UDP excepted.              *)
(*                                                                         *)
(* What the path needs of the resolver is little: an address leads to the  *)
(* name it was issued for (StaleFailsClosed), which stays true because a   *)
(* new address lies beyond every issued one (IssuedUpToLast).  Of the      *)
(* clients and the boundary's parsers it needs that a head written by one  *)
(* is read by the other as the same destination (lemmas ConnectIsParsed    *)
(* and ConnectUDPIsParsed), and of the policy that what it allows matches  *)
(* an entry of the descriptor (AllowedFacts, from PolicyProofs).           *)
(***************************************************************************)
EXTENDS Egress, PolicyProofs

ResolverInv ==
    /\ last \in [Families -> Nat]
    /\ reverse \in [D!Addrs -> D!Binding \cup {Absent}]
    /\ issued \in [D!Addrs -> Names \cup {Absent}]
    /\ D!IssuedUpToLast
    /\ D!StaleFailsClosed

\* The name that the boundary decides about for address a, the exception
\* included: a name with escapes, decoded once more, over UDP.
DecidedAs(a, network) ==
    IF network = "udp" /\ issued[a] \in DOMAIN Unescaped THEN Unescaped[issued[a]] ELSE issued[a]

\* A connection that arrived under a name went to an address that was issued,
\* and for that name; later queries must not change that.
FlowIsNamed ==
    flow.dest # Absent /\ flow.host.kind = "name" =>
        /\ flow.dest \in D!Addrs /\ issued[flow.dest] \in Names
        /\ flow.host.labels = <<DecidedAs(flow.dest, flow.network)>>

\* A connection that arrived under an address went to it, and one that was
\* allowed matches an entry of the descriptor.
FlowIsDecided ==
    flow.dest # Absent =>
        /\ flow.host.kind = "addr" => flow.host.addr = flow.dest
        /\ Allows(flow.verdict) =>
            /\ flow.host.kind \in {"name", "addr"}
            /\ \E dr \in Range(Descriptor.rules) : MatchesHost(dr, flow.host)

EgressInv == ResolverInv /\ FlowIsNamed /\ FlowIsDecided

\* What the last two theorems ask of the descriptor: that no literal rule lists
\* an address of a pool, and that every rule for names is for one name.
PoolsAreUnlisted ==
    \A dr \in Range(Descriptor.rules), a \in D!Addrs : ~ListsAddress(dr, a)

NamesAreExact ==
    \A dr \in Range(Descriptor.rules) :
        dr.suffix = Absent /\ (dr.name # Absent => dr.name.kind # "star")

-----------------------------------------------------------------------------
(* The boundary reads what the clients write *)

\* A list of checks none of which fails.
LEMMA NothingFails ==
    ASSUME NEW checks, \A i \in DOMAIN checks : ~checks[i].fails
    PROVE  FirstFailure(checks) = Absent
  BY DEF FirstFailure

\* The hosts of the adapter are addresses without a zone, names, and names
\* with percent escapes.
LEMMA TextFacts ==
    ASSUME NEW t \in Texts
    PROVE  \/ t.kind = "addr" /\ t.zone = FALSE /\ t.dot = FALSE
           \/ t.kind = "name"
           \/ t.kind = "escaped" /\ t.name \in Names \ DOMAIN Unescaped
  BY EgressAssumption DEF Texts, AddrText, NameText

\* No target is missing.
LEMMA TargetFacts ==
    ASSUME NEW t \in Texts, NEW port \in Ports
    PROVE  /\ [host |-> t, port |-> port] # Absent
           /\ udpTarget(t, port) # Absent
           /\ udpTarget(t, port).layers \in {1, 2} /\ udpTarget(t, port).port = port
           /\ udpTarget(t, port).host = IF t.kind = "escaped" THEN NameText(t.name) ELSE t
           /\ udpTarget(t, port).host \in Texts
  <1>1. [host |-> t, port |-> port] # Absent
    BY EgressAssumption DEF Targets
  <1> DEFINE u == IF t.kind = "escaped" THEN NameText(t.name) ELSE t
  <1>2. u \in Texts
    BY TextFacts DEF Texts
  <1>3. PICK l \in {1, 2} : udpTarget(t, port) = [host |-> u, port |-> port, layers |-> l]
    BY DEF udpTarget
  <1> HIDE DEF u
  <1>4. [host |-> u, port |-> port, layers |-> l] # Absent
    BY <1>2, EgressAssumption DEF Targets
  <1>5. udpTarget(t, port).layers = l /\ udpTarget(t, port).port = port /\ udpTarget(t, port).host = u
    BY <1>3
  <1> QED  BY <1>1, <1>2, <1>3, <1>4, <1>5 DEF u

\* A port that is not 0 is one.
LEMMA PortFacts ==
    ASSUME NEW port \in Ports \ {0}
    PROVE  port \in Ports /\ ParsesAsPort(port)
  <1>1. Ports \subseteq 0 .. MaxPort /\ MaxPort \in Nat
    BY EgressAssumption, PolicyAssumption
  <1> QED  BY <1>1 DEF ParsesAsPort

\* readHead accepts a head with one Host field.
LEMMA HeadIsRead ==
    ASSUME NEW h, h.line = "ok", h.version = "1.1", h.fields = "ok", NEW t, h.hosts = <<t>>
    PROVE  readHead(h) = Absent
  <1>1. ~(Len(h.hosts) > 1) /\ h.hosts # <<>>
    OBVIOUS
  <1> DEFINE checks == HeadChecks(h)
  <1>2. DOMAIN checks = 1 .. 10
    BY DEF HeadChecks
  <1>3. \A i \in 1 .. 10 : ~checks[i].fails
    <2>1. ~checks[1].fails /\ ~checks[2].fails /\ ~checks[3].fails
      BY DEF Check, HeadChecks
    <2>4. ~checks[4].fails
      BY DEF Check, HeadChecks
    <2>5. ~checks[5].fails /\ ~checks[6].fails /\ ~checks[7].fails /\ ~checks[9].fails
      BY DEF Check, HeadChecks
    <2>8. ~checks[8].fails
      BY <1>1 DEF Check, HeadChecks
    <2>10. ~checks[10].fails
      BY <1>1 DEF Check, HeadChecks
    <2> HIDE DEF checks
    <2> QED  BY <2>1, <2>4, <2>5, <2>8, <2>10
  <1>4. readHead(h) = FirstFailure(checks)
    BY DEF readHead
  <1> HIDE DEF checks
  <1> QED  BY <1>2, <1>3, <1>4, NothingFails

\* connectTarget finds the target and the Host field equal.
LEMMA TargetIsTaken ==
    ASSUME NEW h, NEW t \in Texts, NEW port \in Ports \ {0},
           h.target = [host |-> t, port |-> port], h.hosts = <<h.target>>
    PROVE  connectTarget(h) = Asks("tcp", t, port)
  <1>1. h.target # Absent /\ h.target.host = t /\ h.target.port = port /\ Head(h.hosts) = h.target
    BY TargetFacts
  <1>2. ParsesAsPort(h.target.port)
    BY <1>1, PortFacts
  <1>3. sameAuthority(Head(h.hosts), h.target)
    <2>1. EqualFold(t, t)
      BY DEF EqualFold
    <2> QED  BY <1>1, <2>1, Zenon DEF sameAuthority
  <1> DEFINE checks == TargetChecks(h)
  <1>4. DOMAIN checks = 1 .. 3
    BY DEF TargetChecks
  <1>5. \A i \in 1 .. 3 : ~checks[i].fails
    <2>1. ~checks[1].fails
      BY <1>1 DEF Check, TargetChecks
    <2>2. ~checks[2].fails
      BY <1>2 DEF Check, TargetChecks
    <2>3. ~checks[3].fails
      BY <1>3 DEF Check, TargetChecks
    <2> HIDE DEF checks
    <2> QED  BY <2>1, <2>2, <2>3
  <1>6. FirstFailure(checks) = Absent =>
            connectTarget(h) = Asks("tcp", h.target.host, h.target.port)
    BY DEF connectTarget
  <1> HIDE DEF checks
  <1> QED  BY <1>1, <1>4, <1>5, <1>6, NothingFails

\* masqueTarget decodes the host that the client has encoded.
LEMMA MasqueIsTaken ==
    ASSUME NEW t \in Texts, NEW port \in Ports
    PROVE  masqueTarget(udpTarget(t, port)) = Asks("udp", udpTarget(t, port).host, port)
  <1> DEFINE u == udpTarget(t, port)
  <1>1. u # Absent /\ u.layers \in {1, 2} /\ u.port = port /\ u.host \in Texts
    BY TargetFacts
  <1> HIDE DEF u
  <1>2. ~(u.host.kind = "addr" /\ u.host.zone)
    BY <1>1, TextFacts
  <1>3. ~(u.layers > 2)
    BY <1>1
  <1>4. masqueTarget(u) = Asks("udp", u.host, port)
    BY <1>1, <1>2, <1>3 DEF masqueTarget, Decoded, Zoned
  <1> QED  BY <1>4 DEF u

\* serveH2 finds the target of a CONNECT and of an extended CONNECT.
LEMMA H2IsServed ==
    ASSUME NEW h, h.method = "CONNECT", h.upgrade = "none" \/ h.upgrade = "connect-udp",
           h.upgrade = "none" => h.target # Absent /\ ParsesAsPort(h.target.port)
    PROVE  ServeH2(h) = IF h.upgrade = "connect-udp" THEN masqueTarget(h.target)
                        ELSE Asks("tcp", h.target.host, h.target.port)
  <1> DEFINE checks == H2Checks(h)
  <1>1. DOMAIN checks = 1 .. 4
    BY ONLY TRUE DEF H2Checks
  <1>2. ~checks[1].fails /\ ~checks[2].fails /\ ~checks[3].fails /\ ~checks[4].fails
    BY Zenon DEF Check, H2Checks
  <1>3. FirstFailure(checks) = Absent =>
            ServeH2(h) = IF h.upgrade = "connect-udp" THEN masqueTarget(h.target)
                         ELSE Asks("tcp", h.target.host, h.target.port)
    BY Zenon DEF ServeH2
  <1> HIDE DEF checks
  <1>4. \A i \in 1 .. 4 : ~checks[i].fails
    BY ONLY <1>2
  <1>5. FirstFailure(checks) = Absent
    BY <1>1, <1>4, NothingFails, Zenon
  <1> QED  BY <1>3, <1>5, Zenon

\* A TCP destination arrives at the boundary as it was written, on both wires.
LEMMA ConnectIsParsed ==
    ASSUME NEW w \in {"h1", "h2"}, NEW t \in Texts, NEW port \in Ports \ {0}
    PROVE  Parse(ConnectHead(w, t, port)) = Asks("tcp", t, port)
  <1> DEFINE h == ConnectHead(w, t, port)
  <1>1. /\ h.wire = w /\ h.line = "ok" /\ h.method = "CONNECT" /\ h.version = "1.1" /\ h.fields = "ok"
        /\ h.hosts = IF w = "h1" THEN <<[host |-> t, port |-> port]>> ELSE <<>>
        /\ h.upgrade = "none" /\ h.target = [host |-> t, port |-> port]
    BY DEF ConnectHead
  <1> HIDE DEF h
  <1>2. CASE w = "h1"
    <2>1. readHead(h) = Absent
      BY <1>1, <1>2, HeadIsRead
    <2>2. connectTarget(h) = Asks("tcp", t, port)
      BY <1>1, <1>2, TargetIsTaken
    <2>3. Parse(h) = Asks("tcp", t, port)
      BY <1>1, <1>2, <2>1, <2>2 DEF Parse, ServeH1
    <2> QED  BY <2>3 DEF h
  <1>3. CASE w = "h2"
    <2> DEFINE target == [host |-> t, port |-> port]
    <2>0. target # Absent /\ target.host = t /\ target.port = port
      BY ONLY PortFacts, TargetFacts, t \in Texts, port \in Ports \ {0}
    <2> HIDE DEF target
    <2>1. h.target = target /\ ParsesAsPort(port)
      BY <1>1, PortFacts DEF target
    <2>2. ServeH2(h) = Asks("tcp", t, port)
      BY <1>1, <2>0, <2>1, H2IsServed, Zenon
    <2>3. Parse(h) = Asks("tcp", t, port)
      BY <1>1, <1>3, <2>2, Zenon DEF Parse
    <2> QED  BY <2>3 DEF h
  <1> QED  BY <1>2, <1>3

\* A UDP destination arrives with its escapes decoded.
LEMMA ConnectUDPIsParsed ==
    ASSUME NEW w \in {"h1", "h2"}, NEW t \in Texts, NEW port \in Ports \ {0}
    PROVE  Parse(ConnectUDPHead(w, t, port)) = Asks("udp", udpTarget(t, port).host, port)
  <1> DEFINE h == ConnectUDPHead(w, t, port)
  <1>1. /\ h.wire = w /\ h.line = "ok" /\ h.version = "1.1" /\ h.fields = "ok"
        /\ h.method = IF w = "h1" THEN "GET" ELSE "CONNECT"
        /\ h.hosts = IF w = "h1" THEN <<[host |-> t, port |-> port]>> ELSE <<>>
        /\ h.upgrade = "connect-udp" /\ h.connection = (w = "h1") /\ h.target = udpTarget(t, port)
    BY DEF ConnectUDPHead, ConnectHead
  <1> HIDE DEF h
  <1>2. CASE w = "h1"
    <2>1. readHead(h) = Absent
      BY <1>1, <1>2, HeadIsRead
    <2>2. masqueTarget(h.target) = Asks("udp", udpTarget(t, port).host, port)
      BY <1>1, MasqueIsTaken
    <2>3. Parse(h) = Asks("udp", udpTarget(t, port).host, port)
      BY <1>1, <1>2, <2>1, <2>2 DEF Parse, ServeH1, handleConnectUDP
    <2> QED  BY <2>3 DEF h
  <1>3. CASE w = "h2"
    <2>1. ServeH2(h) = Asks("udp", udpTarget(t, port).host, port)
      BY <1>1, <1>3, H2IsServed, MasqueIsTaken, PortFacts, Zenon
    <2>2. Parse(h) = Asks("udp", udpTarget(t, port).host, port)
      BY <1>1, <1>3, <2>1 DEF Parse
    <2> QED  BY <2>2 DEF h
  <1> QED  BY <1>2, <1>3

\* authorize allows a host only if an entry of the descriptor matches it.
LEMMA AllowedFacts ==
    ASSUME NEW t \in Texts, NEW port, NEW network, NEW answer \in Answers,
           Allows(authorize(loadedPolicy, t, port, network, answer))
    PROVE  t.kind \in {"name", "addr"} /\ \E dr \in Range(Descriptor.rules) : MatchesHost(dr, t)
  <1> DEFINE q == [host |-> t, port |-> port, network |-> network, answer |-> answer]
             w == authorize(loadedPolicy, q.host, q.port, q.network, q.answer)
  <1>1. LoadsAs(Descriptor, loadedPolicy)
    BY DescriptorAssumption DEF LoadsAs, loadedPolicy
  <1>2. q.host = t /\ q.port = port /\ q.network = network /\ q.answer = answer
    OBVIOUS
  <1>3. IsText(q.host) /\ IsAnswer(q.answer)
    BY <1>2, DescriptorAssumption
  <1> HIDE DEF q
  <1>4. w.reason = NoReason /\ ~w.err
    BY <1>2 DEF Allows
  <1>5. IF WellFormed(q) THEN w.status = 403 /\ Outcome(Descriptor, q, w)
        ELSE w.reason \in {"malformed-port", "malformed-target", "scoped-ip"}
    BY <1>1, <1>3, AuthorizeFacts
  <1> HIDE DEF w
  <1>6. WellFormed(q) /\ Outcome(Descriptor, q, w)
    BY <1>4, <1>5, ReasonFacts
  <1>7. ExpectedReason(Descriptor, q) # NoReason
    BY ReasonFacts DEF ExpectedReason
  <1>8. PICK dr \in Permitting(Descriptor, q) : TRUE
    BY <1>4, <1>6, <1>7 DEF Outcome
  <1>9. dr \in Range(Descriptor.rules) /\ MatchesHost(dr, t)
    BY <1>2, <1>8 DEF Permitting, Entries
  <1> QED  BY <1>2, <1>6, <1>9 DEF WellFormed

\* So the connection the boundary decides about is the one the adapter was
\* asked for, over TCP or over UDP, and an allowed one matches an entry.
LEMMA ForwardFacts ==
    ASSUME NEW a, NEW t \in Texts, NEW port \in Ports \ {0}, NEW answer \in Answers,
           Forward(a, t, port, answer)
    PROVE  /\ flow'.dest = a
           /\ \/ flow'.network = "tcp" /\ flow'.host = t
              \/ flow'.network = "udp" /\ flow'.host = IF t.kind = "escaped" THEN NameText(t.name) ELSE t
           /\ Allows(flow'.verdict) =>
                /\ flow'.host.kind \in {"name", "addr"}
                /\ \E dr \in Range(Descriptor.rules) : MatchesHost(dr, flow'.host)
  <1>1. PICK w \in {"h1", "h2"} : \/ BoundaryDecides(a, ConnectHead(w, t, port), answer)
                                  \/ BoundaryDecides(a, ConnectUDPHead(w, t, port), answer)
    BY DEF Forward
  <1>2. ASSUME NEW head, BoundaryDecides(a, head, answer)
        PROVE  /\ flow'.dest = a /\ flow'.network = Parse(head).network /\ flow'.host = Parse(head).host
               /\ Parse(head).host \in Texts /\ Allows(flow'.verdict) =>
                    /\ flow'.host.kind \in {"name", "addr"}
                    /\ \E dr \in Range(Descriptor.rules) : MatchesHost(dr, flow'.host)
    <2> DEFINE asks == Parse(head)
               v == authorize(loadedPolicy, asks.host, asks.port, asks.network, answer)
               u == Denied(403, "udp-disabled")
    <2>1. /\ flow'.dest = a /\ flow'.network = asks.network /\ flow'.host = asks.host
          /\ flow'.verdict = u \/ flow'.verdict = v
      BY <1>2 DEF BoundaryDecides
    <2>2. ~Allows(u)
      BY DeniedFacts, ReasonFacts
    <2> HIDE DEF asks, u
    <2>3. ASSUME asks.host \in Texts, Allows(v)
          PROVE  /\ asks.host.kind \in {"name", "addr"}
                 /\ \E dr \in Range(Descriptor.rules) : MatchesHost(dr, asks.host)
      BY <2>3, AllowedFacts
    <2> HIDE DEF v
    <2> QED  BY <2>1, <2>2, <2>3 DEF asks
  <1>3. \A network, host : Asks(network, host, port).network = network
                           /\ Asks(network, host, port).host = host
    BY DEF Asks
  <1>4. CASE BoundaryDecides(a, ConnectHead(w, t, port), answer)
    BY <1>2, <1>3, <1>4, ConnectIsParsed
  <1>5. CASE BoundaryDecides(a, ConnectUDPHead(w, t, port), answer)
    BY <1>2, <1>3, <1>5, ConnectUDPIsParsed, TargetFacts
  <1> QED  BY <1>1, <1>4, <1>5

-----------------------------------------------------------------------------
(* The resolver *)

\* The addresses of the pools.
LEMMA PoolFacts ==
    /\ \A a \in D!Addrs : a.fam \in Families /\ a.off \in Nat /\ a = [fam |-> a.fam, off |-> a.off]
    /\ \A f \in Families, k \in Nat : k < PoolSize[f] => [fam |-> f, off |-> k] \in D!Addrs
  <1>1. PoolSize \in [Families -> Nat]
    BY EgressAssumption
  <1>2. ASSUME NEW a \in D!Addrs
        PROVE  a.fam \in Families /\ a.off \in Nat /\ a = [fam |-> a.fam, off |-> a.off]
    <2>1. PICK f \in Families : a \in [fam : {f}, off : 0 .. PoolSize[f] - 1]
      BY DEF D!Addrs
    <2> QED  BY <1>1, <2>1
  <1>3. ASSUME NEW f \in Families, NEW k \in Nat, k < PoolSize[f]
        PROVE  [fam |-> f, off |-> k] \in D!Addrs
    <2>1. [fam |-> f, off |-> k] \in [fam : {f}, off : 0 .. PoolSize[f] - 1]
      BY <1>1, <1>3
    <2> QED  BY <2>1 DEF D!Addrs
  <1> QED  BY <1>2, <1>3

\* A new name gets an address that was never issued.
LEMMA NewKeepsResolver ==
    ASSUME ResolverInv, NEW f \in Families, NEW n \in Names, D!ResolveNew(f, n)
    PROVE  /\ ResolverInv'
           /\ \A a \in D!Addrs : issued[a] # Absent => issued'[a] = issued[a]
  <1> DEFINE addr == [fam |-> f, off |-> last[f] + 1]
             b    == [name |-> n, addr |-> addr]
  <1>1. last[f] \in Nat /\ last[f] + 1 < PoolSize[f]
    BY DEF ResolverInv, D!ResolveNew, D!Usable
  <1>2. addr \in D!Addrs /\ addr.fam = f /\ addr.off = last[f] + 1
    BY <1>1, PoolFacts
  <1>3. issued[addr] = Absent
    BY <1>1, <1>2 DEF ResolverInv, D!IssuedUpToLast
  <1>4. b \in D!Binding /\ b.name = n
    BY <1>2 DEF D!Binding
  <1>5. last' = [last EXCEPT ![f] = last[f] + 1] /\ issued' = [issued EXCEPT ![addr] = n]
    BY <1>2 DEF D!ResolveNew
  <1>6. /\ DOMAIN reverse' = D!Addrs /\ reverse' = [a \in D!Addrs |-> reverse'[a]]
        /\ reverse'[addr] = b
        /\ \A a \in D!Addrs \ {addr} : reverse'[a] = Absent \/ reverse'[a] = reverse[a]
    BY <1>2 DEF D!ResolveNew
  <1> HIDE DEF addr, b
  <1>7. /\ issued' \in [D!Addrs -> Names \cup {Absent}] /\ issued'[addr] = n
        /\ \A a \in D!Addrs \ {addr} : issued'[a] = issued[a]
    BY <1>2, <1>5 DEF ResolverInv
  <1>8. /\ last' \in [Families -> Nat] /\ last'[f] = last[f] + 1
        /\ \A g \in Families \ {f} : last'[g] = last[g]
    BY <1>1, <1>5 DEF ResolverInv
  <1>9. reverse' \in [D!Addrs -> D!Binding \cup {Absent}]
    BY <1>2, <1>4, <1>6 DEF ResolverInv
  <1>10. (D!IssuedUpToLast)'
    <2> SUFFICES ASSUME NEW a \in D!Addrs, issued'[a] # Absent
                 PROVE  0 < a.off /\ a.off <= last'[a.fam]
      BY DEF D!IssuedUpToLast
    <2>1. CASE a = addr
      BY <1>1, <1>2, <1>8, <2>1
    <2>2. CASE a # addr
      <3>1. 0 < a.off /\ a.off <= last[a.fam] /\ a.fam \in Families /\ a.off \in Nat
        BY <1>7, <2>2, PoolFacts DEF ResolverInv, D!IssuedUpToLast
      <3>2. last'[a.fam] = last[a.fam] \/ last'[a.fam] = last[a.fam] + 1
        BY <1>8, <3>1
      <3> QED  BY <3>1, <3>2 DEF ResolverInv
    <2> QED  BY <2>1, <2>2
  <1>11. (D!StaleFailsClosed)'
    BY <1>2, <1>4, <1>6, <1>7 DEF ResolverInv, D!StaleFailsClosed
  <1>12. \A a \in D!Addrs : issued[a] # Absent => issued'[a] = issued[a]
    BY <1>3, <1>7
  <1> QED  BY <1>7, <1>8, <1>9, <1>10, <1>11, <1>12 DEF ResolverInv

\* No other step of the resolver issues or binds an address.
LEMMA StillKeepsResolver ==
    ASSUME ResolverInv, UNCHANGED <<last, reverse, issued>>
    PROVE  ResolverInv'
  BY DEF ResolverInv, D!IssuedUpToLast, D!StaleFailsClosed

\* A query keeps what was issued.
LEMMA QueryKeepsResolver ==
    ASSUME ResolverInv, NEW q \in D!Queries, D!HandleQuery(q)
    PROVE  /\ ResolverInv'
           /\ \A a \in D!Addrs : issued[a] # Absent => issued'[a] = issued[a]
  <1>1. CASE UNCHANGED <<last, reverse, issued>>
    BY <1>1, StillKeepsResolver
  <1>2. ASSUME NEW f \in Families, NEW n \in Names, D!ResolveNew(f, n)
        PROVE  /\ ResolverInv'
               /\ \A a \in D!Addrs : issued[a] # Absent => issued'[a] = issued[a]
    BY <1>2, NewKeepsResolver
  <1>3. q.name.name \in Names \cup {Root}
    BY DEF D!Queries, D!Spellings
  <1>4. UNCHANGED <<last, reverse, issued>> \/ \E f \in Families, n \in Names : D!ResolveNew(f, n)
    <2> USE DEF D!state, D!history
    <2>1. CASE q.class = "IN" /\ q.type \in Families /\ D!Resolve(q.type, q.name)
      <3>1. CASE D!canonical(q.name) = Root
        BY <2>1, <3>1 DEF D!Resolve, D!ResolveEmpty
      <3>2. CASE D!canonical(q.name) # Root
        <4>1. D!canonical(q.name) \in Names
          BY <1>3, <3>2 DEF D!canonical
        <4> QED  BY <2>1, <3>2, <4>1 DEF D!Resolve, D!ResolveHit, D!ResolveExhausted
      <3> QED  BY <3>1, <3>2
    <2>2. CASE UNCHANGED <<D!state, D!history>>
      BY <2>2
    <2> QED  BY <2>1, <2>2 DEF D!HandleQuery
  <1> QED  BY <1>1, <1>2, <1>4

\* What targetHost writes for an address that a guest dials: the name it was
\* issued for, or the address.
LEMMA ReverseFacts ==
    ASSUME ResolverInv, NEW d \in D!Destinations, D!Reverse(d)
    PROVE  /\ UNCHANGED <<last, reverse, issued>>
           /\ d.addr \in D!Addrs
           /\ \/ targetHost(reply') = AddrText(d.addr)
              \/ issued[d.addr] \in Names /\ targetHost(reply') = NameText(issued[d.addr])
  <1>1. d.addr \in D!Addrs
    BY DEF D!Destinations
  <1>2. CASE D!ReverseHit(d.addr)
    <2>1. reverse[d.addr] \in D!Binding /\ reverse[d.addr].name = issued[d.addr]
      BY <1>1, <1>2 DEF D!ReverseHit, ResolverInv, D!StaleFailsClosed
    <2>2. issued[d.addr] \in Names
      BY <2>1 DEF D!Binding
    <2>3. reply'.kind = "name" /\ reply'.name = issued[d.addr]
      BY <1>2, <2>1 DEF D!ReverseHit
    <2>4. UNCHANGED <<last, reverse, issued>>
      BY <1>2 DEF D!ReverseHit
    <2> QED  BY <1>1, <2>2, <2>3, <2>4 DEF targetHost
  <1>3. CASE D!ReverseMiss(d.addr)
    <2>1. reply'.kind = "literal" /\ reply'.addr = d.addr
      BY <1>3 DEF D!ReverseMiss
    <2>2. UNCHANGED <<last, reverse, issued>>
      BY <1>3 DEF D!ReverseMiss, D!state, D!history
    <2> QED  BY <1>1, <2>1, <2>2 DEF targetHost
  <1> QED  BY <1>2, <1>3 DEF D!Reverse, D!Unmap

-----------------------------------------------------------------------------
(* Theorems *)

\* Guests and adapters together use the resolver as its module says, so what
\* is proved of VirtualDNS holds here too.
THEOREM EgressUsesResolver == Spec => D!Spec
  <1>1. Init => D!Init
    BY DEF Init
  <1>2. [Next]_vars => [D!Next]_(D!vars)
    <2> SUFFICES ASSUME [Next]_vars PROVE D!Next \/ UNCHANGED D!vars
      OBVIOUS
    <2>1. ASSUME NEW q \in D!Queries, Query(q) PROVE D!Next
      BY <2>1 DEF Query, D!Next
    <2>2. ASSUME NEW port \in Ports, NEW answer \in Answers, NEW d \in D!Destinations,
                 DialSynthetic(d, port, answer)
          PROVE  D!Next
      BY <2>2 DEF DialSynthetic, D!Next
    <2>3. CASE UNCHANGED dnsVars
      BY <2>3 DEF dnsVars, D!vars, D!state, D!history
    <2> QED  BY <2>1, <2>2, <2>3 DEF Next, vars, DialLiteral, DialInvalid
  <1> QED  BY <1>1, <1>2, PTL DEF Spec, D!Spec

\* The invariant holds in every state.
THEOREM EgressInvariance == Spec => []EgressInv
  <1>1. Init => EgressInv
    <2> SUFFICES ASSUME Init PROVE EgressInv
      OBVIOUS
    <2>1. ResolverInv
      BY DEF Init, D!Init, ResolverInv, D!IssuedUpToLast, D!StaleFailsClosed
    <2>2. FlowIsNamed /\ FlowIsDecided
      BY DEF Init, NoFlow, FlowIsNamed, FlowIsDecided
    <2> QED  BY <2>1, <2>2 DEF EgressInv
  <1>2. EgressInv /\ [Next]_vars => EgressInv'
    <2> SUFFICES ASSUME EgressInv, [Next]_vars PROVE EgressInv'
      OBVIOUS
    <2>1. ASSUME NEW q \in D!Queries, Query(q) PROVE EgressInv'
      <3>1. ResolverInv' /\ \A a \in D!Addrs : issued[a] # Absent => issued'[a] = issued[a]
        BY <2>1, QueryKeepsResolver DEF Query, EgressInv
      <3>2. FlowIsNamed'
        <4> SUFFICES ASSUME flow.dest # Absent, flow.host.kind = "name"
                     PROVE  /\ flow.dest \in D!Addrs /\ issued'[flow.dest] \in Names
                            /\ flow.host.labels = <<DecidedAs(flow.dest, flow.network)'>>
          BY <2>1 DEF Query, FlowIsNamed, DecidedAs
        <4>1. /\ flow.dest \in D!Addrs /\ issued[flow.dest] \in Names
              /\ flow.host.labels = <<DecidedAs(flow.dest, flow.network)>>
          BY DEF EgressInv, FlowIsNamed
        <4>2. issued'[flow.dest] = issued[flow.dest]
          BY <3>1, <4>1, EgressAssumption
        <4>3. flow' = flow
          BY <2>1 DEF Query
        <4> QED  BY <4>1, <4>2, <4>3 DEF DecidedAs
      <3>3. FlowIsDecided'
        BY <2>1 DEF Query, EgressInv, FlowIsDecided
      <3> QED  BY <3>1, <3>2, <3>3 DEF EgressInv
    <2>2. ASSUME NEW port \in Ports, NEW answer \in Answers, NEW d \in D!Destinations,
                 DialSynthetic(d, port, answer)
          PROVE  EgressInv'
      <3> DEFINE a == d.addr
                 t == targetHost(reply')
      <3>1. /\ UNCHANGED <<last, reverse, issued>> /\ a \in D!Addrs
            /\ t = AddrText(a) \/ (issued[a] \in Names /\ t = NameText(issued[a]))
        BY <2>2, ReverseFacts DEF DialSynthetic, EgressInv
      <3>2. t \in Texts
        BY <3>1, EgressAssumption, PolicyAssumption DEF Texts
      <3>3. Forward(a, t, port, answer) /\ port \in Ports \ {0}
        BY <2>2 DEF DialSynthetic
      <3> HIDE DEF t, a
      <3>4. /\ flow'.dest = a
            /\ \/ flow'.network = "tcp" /\ flow'.host = t
               \/ flow'.network = "udp"
                   /\ flow'.host = IF t.kind = "escaped" THEN NameText(t.name) ELSE t
            /\ Allows(flow'.verdict) =>
                /\ flow'.host.kind \in {"name", "addr"}
                /\ \E dr \in Range(Descriptor.rules) : MatchesHost(dr, flow'.host)
        BY <3>2, <3>3, ForwardFacts
      <3>5. FlowIsNamed'
        <4>1. CASE t = AddrText(a)
          BY <3>4, <4>1 DEF AddrText, FlowIsNamed
        <4>2. CASE issued[a] \in Names /\ t = NameText(issued[a]) /\ issued[a] \notin DOMAIN Unescaped
          <5>1. t.kind = "name" /\ t.labels = <<issued[a]>>
            BY <4>2 DEF NameText
          <5>2. flow'.dest = a /\ flow'.host = t /\ issued' = issued
            BY <3>1, <3>4, <5>1
          <5>3. DecidedAs(a, flow.network)' = issued[a]
            BY <4>2, <3>1 DEF DecidedAs
          <5> QED  BY <3>1, <4>2, <5>1, <5>2, <5>3 DEF FlowIsNamed, DecidedAs
        <4>3. CASE issued[a] \in DOMAIN Unescaped /\ t = NameText(issued[a])
          <5>1. t.kind = "escaped" /\ t.name = Unescaped[issued[a]] /\ t.name \notin DOMAIN Unescaped
            BY <4>3, EgressAssumption DEF NameText
          <5>2. NameText(t.name).labels = <<t.name>>
            BY <5>1 DEF NameText
          <5>3. issued' = issued /\ issued[a] \in Names
            BY <3>1, <4>3, EgressAssumption
          <5>4. CASE flow'.network = "tcp" /\ flow'.host = t
            BY <5>1, <5>4 DEF FlowIsNamed
          <5>5. CASE flow'.network = "udp" /\ flow'.host = NameText(t.name)
            BY <3>1, <3>4, <4>3, <5>1, <5>2, <5>3, <5>5 DEF FlowIsNamed, DecidedAs
          <5> QED  BY <3>4, <5>1, <5>4, <5>5
        <4> QED  BY <3>1, <4>1, <4>2, <4>3
      <3>6. flow'.host.kind = "addr" => flow'.host.addr = a
        <4>1. CASE t = AddrText(a)
          BY <3>4, <4>1 DEF AddrText
        <4>2. CASE issued[a] \in Names /\ t = NameText(issued[a])
          <5>1. \A n : NameText(n).kind # "addr"
            BY DEF NameText
          <5> QED  BY <3>4, <4>2, <5>1
        <4> QED  BY <3>1, <4>1, <4>2
      <3>7. FlowIsDecided'
        BY <3>4, <3>6 DEF FlowIsDecided
      <3> QED  BY <3>1, <3>5, <3>7, StillKeepsResolver DEF EgressInv
    <2>3. ASSUME NEW port \in Ports, NEW answer \in Answers, NEW a \in Literals,
                 DialLiteral(a, port, answer)
          PROVE  EgressInv'
      <3>1. AddrText(a) \in Texts /\ AddrText(a).kind = "addr"
        BY EgressAssumption DEF Texts, AddrText
      <3>2. /\ flow'.dest = a /\ flow'.host = AddrText(a)
            /\ Allows(flow'.verdict) =>
                /\ flow'.host.kind \in {"name", "addr"}
                /\ \E dr \in Range(Descriptor.rules) : MatchesHost(dr, flow'.host)
        BY <2>3, <3>1, ForwardFacts DEF DialLiteral
      <3>3. FlowIsNamed'
        BY <3>1, <3>2 DEF FlowIsNamed
      <3>4. FlowIsDecided'
        <4>1. AddrText(a).addr = a
          BY DEF AddrText
        <4> QED  BY <3>2, <4>1 DEF FlowIsDecided
      <3> QED  BY <2>3, <3>3, <3>4, StillKeepsResolver DEF EgressInv, DialLiteral, dnsVars
    <2>4. CASE DialInvalid
      <3>1. FlowIsNamed' /\ FlowIsDecided'
        BY <2>4 DEF DialInvalid, NoFlow, FlowIsNamed, FlowIsDecided
      <3> QED  BY <2>4, <3>1, StillKeepsResolver DEF EgressInv, DialInvalid, dnsVars
    <2>5. CASE UNCHANGED vars
      BY <2>5, StillKeepsResolver DEF vars, dnsVars, EgressInv, FlowIsNamed, FlowIsDecided, DecidedAs
    <2> QED  BY <2>1, <2>2, <2>3, <2>4, <2>5 DEF Next
  <1> QED  BY <1>1, <1>2, PTL DEF Spec

\* Resolver, forwarder, clients and parsers together: whatever address a guest
\* still holds, on either wire and over TCP or UDP, the boundary decides about
\* the name that address was handed out for, or about the bare address.  Only
\* a flow over UDP for a name with percent escapes is excepted.
THEOREM EgressNeverReachesAnotherName == Spec => []NeverAnotherName
  <1>1. EgressInv => NeverAnotherName
    BY DEF EgressInv, FlowIsNamed, NeverAnotherName, DecodedTwice, DecidedAs
  <1> QED  BY <1>1, EgressInvariance, PTL

\* Once the resolver has forgotten the name of an address, a connection to the
\* address is denied, unless the descriptor lists the address itself: that
\* synthetic ranges are special-purpose does not matter to a literal.
THEOREM EgressDeniesStale ==
    ASSUME PoolsAreUnlisted
    PROVE  Spec => []StaleIsDenied
  <1>1. EgressInv => StaleIsDenied
    <2> SUFFICES ASSUME EgressInv, flow.dest \in D!Addrs, flow.host.kind = "addr",
                        Allows(flow.verdict)
                 PROVE  FALSE
      BY DEF StaleIsDenied
    <2>1. flow.dest # Absent
      BY EgressAssumption, PolicyAssumption
    <2>2. PICK dr \in Range(Descriptor.rules) : ListsAddress(dr, flow.dest)
      BY <2>1 DEF EgressInv, FlowIsDecided, MatchesHost
    <2> QED  BY <2>2 DEF PoolsAreUnlisted
  <1> QED  BY <1>1, EgressInvariance, PTL

\* An address of a pool leads to no name but those the descriptor lists, when it
\* lists names only one by one; a flow over UDP for a name with percent escapes
\* is excepted.
THEOREM EgressReachesOnlyListedNames ==
    ASSUME PoolsAreUnlisted, NamesAreExact
    PROVE  Spec => []OnlyListedNames
  <1>1. EgressInv => OnlyListedNames
    <2> SUFFICES ASSUME EgressInv, flow.dest \in D!Addrs, Allows(flow.verdict), ~DecodedTwice
                 PROVE  \E r \in Range(Descriptor.rules) :
                            r.name # Absent /\ r.name.labels = <<issued[flow.dest]>>
      BY DEF OnlyListedNames
    <2>1. flow.dest # Absent
      BY EgressAssumption, PolicyAssumption
    <2>2. PICK dr \in Range(Descriptor.rules) : MatchesHost(dr, flow.host)
      BY <2>1 DEF EgressInv, FlowIsDecided
    <2>3. CASE flow.host.kind = "addr"
      <3>1. ListsAddress(dr, flow.dest)
        BY <2>1, <2>2, <2>3 DEF EgressInv, FlowIsDecided, MatchesHost
      <3> QED  BY <3>1 DEF PoolsAreUnlisted
    <2>4. CASE flow.host.kind = "name"
      <3>1. flow.host.labels = <<issued[flow.dest]>>
        BY <2>1, <2>4 DEF EgressInv, FlowIsNamed, DecodedTwice, DecidedAs
      <3>2. dr.name # Absent /\ dr.name.labels = flow.host.labels
        BY <2>2, <2>4 DEF MatchesHost, NamesAreExact
      <3> QED  BY <3>1, <3>2
    <2> QED  BY <2>1, <2>3, <2>4 DEF EgressInv, FlowIsDecided
  <1> QED  BY <1>1, EgressInvariance, PTL
=============================================================================
