------------------------------ MODULE Boundary ------------------------------
(***************************************************************************)
(* The reference boundary, sdk/cmd/connect-proxy/main.go: the accept loop  *)
(* and its connection budget, one handler per request, the decision, the   *)
(* dial of checked addresses and the audit record of each decision.  What  *)
(* happens inside an open tunnel is module Tunnel; here a tunnel only ends *)
(* some time.                                                              *)
(*                                                                         *)
(* A handler is a connection and a stream.  On the HTTP/1.1 wire a         *)
(* connection has one stream and ends with it; an HTTP/2 session runs its  *)
(* streams' handlers concurrently and ends when its client goes away.      *)
(***************************************************************************)
EXTENDS Policy, FiniteSets

CONSTANTS
    Conns,          \* client connections
    Streams,        \* streams of a connection: at most maxStreams at a time
    FirstStream,    \* the only stream of an HTTP/1.1 connection
    MaxConnections, \* -max-connections
    Wires,          \* the wires a boundary may speak: "h1", or "h2" with -h2
    UseTLS,         \* -tls-cert
    Descriptors,    \* the policy descriptors a boundary may be started with
    Requests,       \* the requests of clients
    Answers         \* what the resolver may say, Absent for a failure

ASSUME BoundaryAssumption ==
    /\ MaxConnections \in Nat \ {0}
    /\ Wires \subseteq {"h1", "h2"} /\ UseTLS \in BOOLEAN
    /\ FirstStream \in Streams
    /\ IsFiniteSet(Conns)
    /\ \A d \in Descriptors : /\ d.rules \in Seq(Range(d.rules))
                              /\ d.resolved \in Seq(Range(d.resolved))
                              /\ \A dr \in Range(d.rules) : IsEntry(dr)
    /\ Absent \notin Requests
    /\ \A r \in Requests : r.defect = Absent => IsText(r.host)
    /\ \A answer \in Answers : IsAnswer(answer)

Handlers == Conns \X Streams

VARIABLES
    wire,       \* the listener's wire, fixed
    descriptor, \* what the policy was loaded from, fixed
    current,    \* the listener's policy
    conn,       \* conn[c]: where a client connection is
    slots,      \* slots in use
    pc,         \* pc[h]: where a handler is
    req,        \* req[h]: its request
    pending,    \* pending[h]: the checked addresses it has yet to dial
    upstream,   \* upstream[h]: the address of its open upstream connection
    log,        \* log[h]: the audit records of its request
    sessionLog, \* sessionLog[c]: the records of the connection itself
    tried       \* history: tried[h] are the addresses it has dialed

connVars    == <<conn, slots, sessionLog>>
handlerVars == <<pc, req, pending, upstream, log, tried>>
config      == <<wire, descriptor, current>>
vars        == <<config, connVars, handlerVars>>

\* The streams a connection can have.
StreamsOf(c) == IF wire = "h2" THEN {c} \X Streams ELSE {<<c, FirstStream>>}

Record(decision, reason, address, rule) ==
    [decision |-> decision, reason |-> reason, address |-> address, rule |-> rule]

Refusal(decision, reason) == Record(decision, reason, Absent, Absent)

\* main starts the listener with a policy; serveListener itself runs without
\* one too and then answers policy-unavailable.
Init ==
    /\ wire \in Wires
    /\ descriptor \in Descriptors
    /\ current \in {loadDescriptor(descriptor), Absent}
    /\ conn = [c \in Conns |-> "away"]
    /\ slots = 0
    /\ sessionLog = [c \in Conns |-> <<>>]
    /\ pc = [h \in Handlers |-> "idle"]
    /\ req = [h \in Handlers |-> Absent]
    /\ pending = [h \in Handlers |-> <<>>]
    /\ upstream = [h \in Handlers |-> Absent]
    /\ log = [h \in Handlers |-> <<>>]
    /\ tried = [h \in Handlers |-> {}]

-----------------------------------------------------------------------------
(* serveListener *)

\* A client connects; the connection waits in the listen queue.
Arrive(c) ==
    /\ conn[c] = "away"
    /\ conn' = [conn EXCEPT ![c] = "arrived"]
    /\ UNCHANGED <<config, slots, sessionLog, handlerVars>>

\* Accept, a slot is free: a goroutine takes the connection over.
AcceptWithin(c) ==
    /\ conn[c] = "arrived" /\ slots < MaxConnections
    /\ slots' = slots + 1
    /\ conn' = [conn EXCEPT ![c] = "accepted"]
    /\ UNCHANGED <<config, sessionLog, handlerVars>>

\* Accept, over budget: the connection is recorded, refused and closed before
\* its request is read (a TLS client gets no response).
AcceptBusy(c) ==
    /\ conn[c] = "arrived" /\ slots >= MaxConnections
    /\ conn' = [conn EXCEPT ![c] = "gone"]
    /\ sessionLog' = [sessionLog EXCEPT ![c] = Append(@, Refusal("fail", "busy"))]
    /\ UNCHANGED <<config, slots, handlerVars>>

\* sessionPeer: the TLS handshake, if there is one, succeeds.
Open(c) ==
    /\ conn[c] = "accepted"
    /\ conn' = [conn EXCEPT ![c] = "open"]
    /\ UNCHANGED <<config, slots, sessionLog, handlerVars>>

\* Mutant: the early return of a failed handshake keeps the slot.
HandshakeFailureLeaks(c) ==
    /\ conn[c] = "accepted" /\ UseTLS
    /\ conn' = [conn EXCEPT ![c] = "gone"]
    /\ sessionLog' = [sessionLog EXCEPT ![c] = Append(@, Refusal("fail", "tls-failed"))]
    /\ UNCHANGED <<config, slots, handlerVars>>

HandshakeFails(c) ==
    /\ conn[c] = "accepted" /\ UseTLS
    /\ conn' = [conn EXCEPT ![c] = "closed"]
    /\ sessionLog' = [sessionLog EXCEPT ![c] = Append(@, Refusal("fail", "tls-failed"))]
    /\ UNCHANGED <<config, slots, handlerVars>>

\* The HTTP/1.1 request head never arrives whole, or the client of an HTTP/2
\* session goes away.  Neither is a decision, so neither is recorded.
ClientGone(c) ==
    /\ conn[c] = "open"
    /\ wire = "h2" \/ pc[<<c, FirstStream>>] = "idle"
    /\ conn' = [conn EXCEPT ![c] = "closed"]
    /\ UNCHANGED <<config, slots, sessionLog, handlerVars>>

\* serve returns after its request: the connection is closed.
ServeReturns(c) ==
    /\ conn[c] = "open" /\ wire = "h1" /\ pc[<<c, FirstStream>>] = "done"
    /\ conn' = [conn EXCEPT ![c] = "closed"]
    /\ UNCHANGED <<config, slots, sessionLog, handlerVars>>

\* The connection's goroutine ends: its deferred function frees the slot.  An
\* HTTP/2 session does not wait for its streams' handlers.
Release(c) ==
    /\ conn[c] = "closed"
    /\ conn' = [conn EXCEPT ![c] = "gone"]
    /\ slots' = slots - 1
    /\ UNCHANGED <<config, sessionLog, handlerVars>>

-----------------------------------------------------------------------------
(* handleConnect, handleConnectUDP, serveH2 *)

\* A decision ends the handler: one record, one response, nothing dialed is
\* left open.
Refuse(h, record) ==
    /\ log' = [log EXCEPT ![h] = Append(@, record)]
    /\ pc' = [pc EXCEPT ![h] = "done"]

\* A request arrives on a stream.  One that is malformed, or no CONNECT, is
\* refused before it reaches the policy.
ReceiveRequest(h, r) ==
    /\ conn[h[1]] = "open" /\ h \in StreamsOf(h[1]) /\ pc[h] = "idle"
    /\ req' = [req EXCEPT ![h] = r]
    /\ IF r.defect # Absent
       THEN Refuse(h, Refusal("block", r.defect))
       ELSE pc' = [pc EXCEPT ![h] = "decide"] /\ UNCHANGED log
    /\ UNCHANGED <<config, connVars, pending, upstream, tried>>

\* connectUpstream without a policy, or for UDP under a policy without it.
RefuseOutright(h) ==
    /\ pc[h] = "decide"
    /\ \/ current = Absent /\ Refuse(h, Refusal("fail", "policy-unavailable"))
       \/ /\ current # Absent /\ req[h].network = "udp" /\ ~current.udp
          /\ Refuse(h, Refusal("block", "udp-disabled"))
    /\ UNCHANGED <<config, connVars, req, pending, upstream, tried>>

\* connectUpstream up to the verdict: refused, failed to resolve, or the
\* checked addresses are to be dialed.
Authorize(h, answer) ==
    LET r == req[h]
        v == authorize(current, r.host, r.port, r.network, answer)
    IN  /\ pc[h] = "decide"
        /\ current # Absent /\ ~(r.network = "udp" /\ ~current.udp)
        /\ \/ /\ v.reason # NoReason
              /\ Refuse(h, Refusal("block", v.reason)) /\ UNCHANGED pending
           \/ /\ v.err
              /\ Refuse(h, Refusal("fail", "resolve-failed")) /\ UNCHANGED pending
           \/ /\ Allows(v)
              /\ pending' = [pending EXCEPT ![h] = v.addresses]
              /\ pc' = [pc EXCEPT ![h] = "dial"]
              /\ UNCHANGED log
        /\ UNCHANGED <<config, connVars, req, upstream, tried>>

\* Mutant: a request whose dials all failed is answered and not recorded.
DialFailureUnrecorded(h) ==
    /\ pc[h] = "dial"
    /\ tried' = [tried EXCEPT ![h] = @ \cup {Head(pending[h])}]
    /\ pending' = [pending EXCEPT ![h] = Tail(@)]
    /\ pc' = [pc EXCEPT ![h] = IF Len(pending[h]) = 1 THEN "done" ELSE @]
    /\ UNCHANGED <<config, connVars, req, upstream, log>>

\* dialAuthorized: the checked addresses in turn; when the last one fails the
\* request fails.
DialFails(h) ==
    /\ pc[h] = "dial"
    /\ tried' = [tried EXCEPT ![h] = @ \cup {Head(pending[h])}]
    /\ pending' = [pending EXCEPT ![h] = Tail(@)]
    /\ IF Len(pending[h]) = 1
       THEN Refuse(h, Refusal("fail", "dial-failed"))
       ELSE UNCHANGED <<log, pc>>
    /\ UNCHANGED <<config, connVars, req, upstream>>

\* The first address that answers: the record names it, then the response
\* opens the tunnel.
DialSucceeds(h) ==
    LET a == Head(pending[h]) IN
    /\ pc[h] = "dial"
    /\ tried' = [tried EXCEPT ![h] = @ \cup {a}]
    /\ upstream' = [upstream EXCEPT ![h] = a]
    /\ log' = [log EXCEPT ![h] = Append(@, Record("allow", NoReason, a,
            \* the id of the rule that authorize selected
            IF ParsesAsAddr(req[h].host)
            THEN selectRule(LiteralCandidates(current, req[h].host.addr),
                            req[h].port, req[h].network).rule.id
            ELSE selectRule(NameCandidates(current, normalizeName(req[h].host)),
                            req[h].port, req[h].network).rule.id))]
    /\ pc' = [pc EXCEPT ![h] = "tunnel"]
    /\ UNCHANGED <<config, connVars, req, pending>>

\* relay or pumpUDP returns: the deferred Close ends the upstream connection.
TunnelEnds(h) ==
    /\ pc[h] = "tunnel"
    /\ upstream' = [upstream EXCEPT ![h] = Absent]
    /\ pc' = [pc EXCEPT ![h] = "done"]
    /\ UNCHANGED <<config, connVars, req, pending, log, tried>>

-----------------------------------------------------------------------------
Accept(c) == AcceptWithin(c) \/ AcceptBusy(c)

ConnStep(c) == Open(c) \/ HandshakeFails(c) \/ ServeReturns(c) \/ Release(c)

Handle(h) ==
    \/ RefuseOutright(h)
    \/ \E answer \in Answers : Authorize(h, answer)
    \/ DialFails(h)
    \/ DialSucceeds(h)
    \/ TunnelEnds(h)

Next ==
    \/ \E c \in Conns : Arrive(c) \/ Accept(c) \/ ConnStep(c) \/ ClientGone(c)
    \/ \E h \in Handlers : Handle(h) \/ \E r \in Requests : ReceiveRequest(h, r)

Spec == Init /\ [][Next]_vars

-----------------------------------------------------------------------------
(* Properties *)

\* Types; in particular, only addresses are dialed.
TypeOK ==
    /\ conn \in [Conns -> {"away", "arrived", "accepted", "open", "closed", "gone"}]
    /\ pc \in [Handlers -> {"idle", "decide", "dial", "tunnel", "done"}]
    /\ req \in [Handlers -> Requests \cup {Absent}]
    /\ upstream \in [Handlers -> Addresses \cup {Absent}]
    /\ tried \in [Handlers -> SUBSET Addresses]

\* The channel of slots counts the connections whose goroutine is running, on
\* every path through it, and never more than the budget: none is leaked, none
\* is freed twice.
SlotsCountConnections ==
    /\ slots \in 0 .. MaxConnections
    /\ slots = Cardinality({c \in Conns : conn[c] \in {"accepted", "open", "closed"}})

\* One record per decision, and a true one, on every path: a request leaves
\* exactly one when it is refused, failed or let through; a blocked request has
\* reached no upstream; an upstream connection is open only under an allow
\* record that names its address, and only while its tunnel runs; a connection
\* that is turned away is recorded once and serves nothing.
RecordsAreTrue ==
    /\ \A h \in Handlers :
        /\ Len(log[h]) = IF pc[h] \in {"tunnel", "done"} THEN 1 ELSE 0
        /\ log[h] # <<>> /\ log[h][1].decision = "block" => tried[h] = {}
        /\ upstream[h] # Absent =>
            /\ pc[h] = "tunnel"
            /\ log[h][1].decision = "allow" /\ log[h][1].address = upstream[h]
    /\ \A c \in Conns : sessionLog[c] # <<>> =>
        /\ Len(sessionLog[c]) = 1
        /\ \A h \in {c} \X Streams : pc[h] = "idle"

\* Whatever the resolver answers, a special-purpose address is dialed only for
\* a request that some entry of the descriptor admits it for: a literal rule
\* or a resolved_addresses entry that covers the port, or the static list of
\* a rule for that very name.
SpecialDialsAreListed ==
    /\ TypeOK
    /\ \A h \in Handlers : \A a \in tried[h] \cap Special :
        \/ \E dr \in Range(descriptor.rules) :
            /\ permits(dr.ports, req[h].port)
            /\ \/ dr.ip # Absent /\ dr.ip.addr = a
               \/ dr.cidr # Absent /\ a \in dr.cidr
               \/ /\ dr.resolve # Absent /\ dr.name.labels = normalizeName(req[h].host)
                  /\ \E t \in Range(dr.resolve) : t.addr = a
        \/ \E e \in Range(descriptor.resolved) :
            ~ParsesAsAddr(req[h].host) /\ a \in e.cidr /\ permits(e.ports, req[h].port)
=============================================================================
