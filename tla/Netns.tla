-------------------------------- MODULE Netns --------------------------------
(***************************************************************************)
(* The network-namespace adapter, sdk/pkg/netnsproxy: New, which opens     *)
(* listeners and installs an nftables table, routes and rules one by one   *)
(* and undoes them when a later one fails; Run, with one goroutine per     *)
(* listener; the TCP workers; the table of UDP flows with its two          *)
(* goroutines per flow; and Close.                                         *)
(*                                                                         *)
(* What a worker does between its dial and its end is the Forwarder's      *)
(* business, which Engine details: here a relay is one step that ends it.  *)
(* A packet is a unit of a queue; of its contents only the flow it belongs *)
(* to matters.                                                             *)
(***************************************************************************)
EXTENDS Integers, FiniteSets, Sequences

CONSTANTS
    Families,       \* the address families in the order New takes them
    Conns,          \* the guest's TCP connections
    Keys,           \* the guest's UDP flows: peer and destination
    FamilyOf,       \* the family of a connection or key
    IsDNS,          \* the keys whose destination port is 53
    EnableUDP,      \* cfg.EnableUDP
    MaxConnections, \* the session budget
    QueueSize,      \* packets a flow's channel holds, 16
    FlowIds,        \* bound: the flow objects alive at a time
    MaxPackets,     \* bound: packets the guest sends to the UDP listeners
    None            \* no flow

ASSUME NetnsAssumption ==
    /\ Len(Families) \in Nat \ {0} /\ DOMAIN Families = 1 .. Len(Families)
    /\ IsDNS \subseteq Keys /\ None \notin FlowIds
    /\ FamilyOf \in [Conns \cup Keys -> {Families[i] : i \in DOMAIN Families}]
    /\ MaxConnections \in Nat \ {0} /\ QueueSize \in Nat \ {0} /\ MaxPackets \in Nat
    /\ EnableUDP \in BOOLEAN

FamilySet == {Families[i] : i \in DOMAIN Families}
Listeners == {"tcp", "udp"} \X FamilySet

\* What New changes in the namespace: the table, then per family a route and
\* a rule.
Table     == <<"table", "inet">>
Resources == {Table} \cup ({"route", "rule"} \X FamilySet)

\* The steps of New that can fail, in order.  For every family installRoutes
\* first looks for a rule that conflicts.
StepsOf(kinds) ==
    [i \in 1 .. Len(kinds) * Len(Families) |->
        <<kinds[((i - 1) % Len(kinds)) + 1], Families[((i - 1) \div Len(kinds)) + 1]>>]

SetupSteps ==
    StepsOf(<<"tcp", "udp">>) \o <<Table>> \o StepsOf(<<"check", "route", "rule">>)

VARIABLES
    \* New
    step,       \* the step of New that comes next; Len(SetupSteps) + 1: done
    setup,      \* "new", "undo", "failed", "ready"
    namespace,  \* namespace[r]: whose resource r is: "none", "foreign", "own"
    found,      \* history: namespace as New found it
    residue,    \* history: the cleanup itself could not delete everything
    open,       \* the listeners that are open
    \* the proxy
    closer,     \* where closeOnce is: "idle", "begun", "canceled", "closed"
    slots,      \* slots taken in the channel
    serving,    \* serving[l]: where the goroutine of listener l is
    workers,    \* workers[l]: its WaitGroup's counter
    running,    \* Run: "no", "yes", "returned"
    \* TCP
    conn,       \* conn[c]: where the connection's worker is
    \* UDP
    flows,      \* flows[k]: the table entry of key k
    flow,       \* flow[i]: the flow object, its channel and its goroutines
    current,    \* current[l]: the flow a UDP listener is about to hand a packet
    sent        \* packets the guest has sent to the UDP listeners

setupVars == <<step, setup, namespace, found, residue, open>>
udpVars   == <<flows, flow, current, sent>>
proxyVars == <<closer, slots, serving, workers, running>>
vars      == <<setupVars, proxyVars, conn, udpVars>>

\* No object, or one whose goroutines have both ended: nobody reads its
\* channel again.
NoFlow == [key |-> None, worker |-> "none", reader |-> "none", done |-> TRUE, queued |-> 0]

\* A namespace may hold anything when New is called: other tables are not
\* modelled, an earlier proxy's table, routes and rules are.
Init ==
    /\ step = 1 /\ setup = "new"
    /\ namespace \in [Resources -> {"none", "foreign"}]
    /\ found = namespace /\ residue = FALSE
    /\ open = {} /\ closer = "idle" /\ slots = 0
    /\ serving = [l \in Listeners |-> "off"]
    /\ workers = [l \in Listeners |-> 0]
    /\ running = "no"
    /\ conn = [c \in Conns |-> "away"]
    /\ flows = [k \in Keys |-> None] /\ flow = [i \in FlowIds |-> NoFlow]
    /\ current = [l \in Listeners |-> None] /\ sent = 0

-----------------------------------------------------------------------------
(* New *)

Current == SetupSteps[step]

\* The step cannot succeed: the table, the route or a rule with the reserved
\* table, mark or priority is there already.
Conflicts ==
    LET r == IF Current[1] = "check" THEN <<"rule", Current[2]>> ELSE Current
    IN  r \in Resources /\ namespace[r] # "none"

SetupStep ==
    /\ setup = "new" /\ ~Conflicts
    /\ step' = step + 1
    /\ open' = IF Current \in Listeners THEN open \cup {Current} ELSE open
    /\ namespace' = IF Current \in Resources
                    THEN [namespace EXCEPT ![Current] = "own"] ELSE namespace
    /\ setup' = IF step = Len(SetupSteps) THEN "ready" ELSE "new"
    /\ UNCHANGED <<found, residue, proxyVars, conn, udpVars>>

\* A step fails, because it conflicts or for a reason of its own.
SetupFails ==
    /\ setup = "new"
    /\ setup' = "undo"
    /\ UNCHANGED <<step, namespace, found, residue, open, proxyVars, conn, udpVars>>

Own == {r \in Resources : namespace[r] = "own"}

\* Mutant: what the step ran into is removed with what the call has added.
SetupUndoesConflict ==
    /\ setup = "undo"
    /\ \E kept \in SUBSET Own :
        /\ namespace' = [r \in Resources |->
              IF r \in Own \ kept \/ (Own # {} /\ r = Current) THEN "none" ELSE namespace[r]]
        /\ residue' = (kept # {})
    /\ open' = {} /\ closer' = "closed" /\ setup' = "failed"
    /\ UNCHANGED <<step, found, slots, serving, workers, running, conn, udpVars>>

\* installRoutes deletes the rules, then the routes it has added, and ignores
\* errors; New deletes the table, which may fail too, and closes the proxy.
\* Before there is a table only the listeners have to be closed.
SetupUndo ==
    /\ setup = "undo"
    /\ \E kept \in SUBSET Own :
        /\ namespace' = [r \in Resources |-> IF r \in Own \ kept THEN "none" ELSE namespace[r]]
        /\ residue' = (kept # {})
    /\ open' = {} /\ closer' = "closed" /\ setup' = "failed"
    /\ UNCHANGED <<step, found, slots, serving, workers, running, conn, udpVars>>

New == SetupStep \/ SetupFails \/ SetupUndo

-----------------------------------------------------------------------------
(* Close and Run *)

\* closeOnce begins: Close is called, the context of Run ends, or a listener
\* fails and its goroutine calls Close.  That goroutine accepts nothing more,
\* like one whose guests are silent.
CallClose ==
    /\ setup = "ready" /\ closer = "idle"
    /\ closer' = "begun"
    /\ UNCHANGED <<setupVars, slots, serving, workers, running, conn, udpVars>>

\* The context is canceled, then the listeners are closed; rules and routes
\* stay.
CloseProceeds ==
    \/ /\ closer = "begun"
       /\ closer' = "canceled"
       /\ UNCHANGED <<setupVars, slots, serving, workers, running, conn, udpVars>>
    \/ /\ closer = "canceled"
       /\ closer' = "closed" /\ open' = {}
       /\ UNCHANGED <<step, setup, namespace, found, residue, slots, serving, workers, running, conn, udpVars>>

\* Mutant: Close only closes the listeners.
NeverCanceled == FALSE

\* p.ctx has ended.
Canceled == closer \in {"canceled", "closed"}

\* Run starts a goroutine for every listener; a second call fails.
RunStarts ==
    /\ setup = "ready" /\ running = "no"
    /\ running' = "yes"
    /\ serving' = [l \in Listeners |-> "accept"]
    /\ UNCHANGED <<setupVars, closer, slots, workers, conn, udpVars>>

\* Mutant: the listener's goroutine does not wait for its workers.
ServeReturnsEarly(l) ==
    /\ serving[l] = "accept" /\ current[l] = None
    /\ closer = "closed"
    /\ serving' = [serving EXCEPT ![l] = "done"]
    /\ UNCHANGED <<setupVars, closer, slots, workers, running, conn, udpVars>>

\* Accept fails on the closed listener: the deferred p.Close returns when
\* closeOnce has run, then workers.Wait when the counter is zero.
ServeReturns(l) ==
    /\ serving[l] = "accept" /\ current[l] = None
    /\ closer = "closed" /\ workers[l] = 0
    /\ serving' = [serving EXCEPT ![l] = "done"]
    /\ UNCHANGED <<setupVars, closer, slots, workers, running, conn, udpVars>>

\* Run has received a result from every goroutine.
RunReturns ==
    /\ running = "yes" /\ \A l \in Listeners : serving[l] = "done"
    /\ running' = "returned"
    /\ UNCHANGED <<setupVars, closer, slots, serving, workers, conn, udpVars>>

-----------------------------------------------------------------------------
(* serveTCP *)

TCP(c) == <<"tcp", FamilyOf[c]>>

\* A connection is accepted within the budget or reset at once.
AcceptTCP(c) ==
    /\ serving[TCP(c)] = "accept" /\ TCP(c) \in open /\ conn[c] = "away"
    /\ IF slots < MaxConnections
       THEN /\ slots' = slots + 1
            /\ workers' = [workers EXCEPT ![TCP(c)] = @ + 1]
            /\ conn' = [conn EXCEPT ![c] = "dial"]
       ELSE /\ conn' = [conn EXCEPT ![c] = "ended"]
            /\ UNCHANGED <<slots, workers>>
    /\ UNCHANGED <<setupVars, closer, serving, running, udpVars>>

\* originalDestination or DialTCP fails: the connection will be reset.
DialTCPFails(c) ==
    /\ conn[c] = "dial"
    /\ conn' = [conn EXCEPT ![c] = "close"]
    /\ UNCHANGED <<setupVars, proxyVars, udpVars>>

DialTCP(c) ==
    /\ conn[c] = "dial"
    /\ conn' = [conn EXCEPT ![c] = "relay"]
    /\ UNCHANGED <<setupVars, proxyVars, udpVars>>

\* RelayTCP returns: both directions have ended, or the ended context has closed
\* the guest's connection and the upstream's.
RelayTCPEnds(c) ==
    /\ conn[c] = "relay"
    /\ conn' = [conn EXCEPT ![c] = "close"]
    /\ UNCHANGED <<setupVars, proxyVars, udpVars>>

\* The worker's deferred calls: close, give the slot back, count out.
EndTCP(c) ==
    /\ conn[c] = "close" /\ slots > 0
    /\ conn' = [conn EXCEPT ![c] = "ended"]
    /\ slots' = slots - 1
    /\ workers' = [workers EXCEPT ![TCP(c)] = @ - 1]
    /\ UNCHANGED <<setupVars, closer, serving, running, udpVars>>

-----------------------------------------------------------------------------
(* serveUDP: the listener's goroutine *)

UDP(k)    == <<"udp", FamilyOf[k]>>
Unused    == {i \in FlowIds : flow[i].worker = "none" /\ \A l \in Listeners : current[l] # i}
Start(k)  == IF k \in IsDNS THEN "serve" ELSE "dial"

\* The listener reads a packet of key k.
Reads(k) ==
    /\ serving[UDP(k)] = "accept" /\ UDP(k) \in open /\ current[UDP(k)] = None
    /\ sent < MaxPackets /\ sent' = sent + 1

\* The packet is truncated or carries no destination, its port is not served
\* (53 always is, others only with EnableUDP), the budget is used up or the
\* reply socket cannot be made: it is dropped, and a slot taken for it is given
\* back.
DropPacket(k) ==
    /\ Reads(k)
    /\ UNCHANGED <<setupVars, proxyVars, conn, flows, flow, current>>

\* Mutant: a flow that is closed but still in the table is replaced.
KnownFlowReplacesClosed(k) ==
    /\ Reads(k)
    /\ flows[k] # None
    /\ IF flow[flows[k]].done
       THEN \E i \in Unused :
            /\ slots < MaxConnections /\ slots' = slots + 1
            /\ workers' = [workers EXCEPT ![UDP(k)] = @ + 2]
            /\ flow' = [flow EXCEPT ![i] = 
                  [key |-> k, worker |-> Start(k), reader |-> "read", done |-> FALSE, queued |-> 0]]
            /\ flows' = [flows EXCEPT ![k] = i]
            /\ current' = [current EXCEPT ![UDP(k)] = i]
            /\ UNCHANGED <<setupVars, closer, serving, running, conn>>
       ELSE /\ current' = [current EXCEPT ![UDP(k)] = flows[k]]
            /\ UNCHANGED <<setupVars, proxyVars, conn, flows, flow>>

\* Under mu: the key has a flow.
KnownFlow(k) ==
    /\ Reads(k)
    /\ flows[k] # None
    /\ current' = [current EXCEPT ![UDP(k)] = flows[k]]
    /\ UNCHANGED <<setupVars, proxyVars, conn, flows, flow>>

\* Under mu: a slot, a reply socket and two goroutines for a new flow.
NewFlow(k) ==
    /\ Reads(k)
    /\ k \in IsDNS \/ EnableUDP
    /\ flows[k] = None /\ slots < MaxConnections
    /\ \E i \in Unused :
        /\ \A j \in Unused : i <= j
        /\ flow' = [flow EXCEPT ![i] =
              [key |-> k, worker |-> Start(k), reader |-> "read", done |-> FALSE, queued |-> 0]]
        /\ flows' = [flows EXCEPT ![k] = i]
        /\ current' = [current EXCEPT ![UDP(k)] = i]
    /\ slots' = slots + 1
    /\ workers' = [workers EXCEPT ![UDP(k)] = @ + 2]
    /\ UNCHANGED <<setupVars, closer, serving, running, conn>>

\* A send to the flow's channel that never blocks: queued when there is room,
\* dropped when the channel is full or the flow done.
Offer(i) ==
    \/ /\ flow[i].queued < QueueSize /\ flow[i] # NoFlow
       /\ flow' = [flow EXCEPT ![i].queued = @ + 1]
    \/ /\ flow[i].done \/ flow[i].queued = QueueSize
       /\ UNCHANGED flow

\* After mu is unlocked: the flow may have ended meanwhile.
HandOver(l) ==
    /\ current[l] # None
    /\ Offer(current[l])
    /\ current' = [current EXCEPT ![l] = None]
    /\ UNCHANGED <<setupVars, proxyVars, conn, flows, sent>>

-----------------------------------------------------------------------------
(* The goroutines of a flow *)

\* The reply socket is connected to the guest's peer: later packets of the
\* flow may arrive there.
ReplySocketReads(i) ==
    /\ flow[i].reader = "read" /\ ~flow[i].done
    /\ sent < MaxPackets /\ sent' = sent + 1
    /\ Offer(i)
    /\ UNCHANGED <<setupVars, proxyVars, conn, flows, current>>

\* A goroutine of flow i ends: workers.Done.
CountOut(i, goroutine, done) ==
    LET left == [flow[i] EXCEPT ![goroutine] = "ended", !.done = done]
    IN  /\ workers' = [workers EXCEPT ![UDP(flow[i].key)] = @ - 1]
        /\ flow' = [flow EXCEPT ![i] =
               IF left.worker = "ended" /\ left.reader = "ended" THEN NoFlow ELSE left]

\* The socket was closed, or an ICMP error came back: the flow is closed.
ReaderFails(i) ==
    /\ flow[i].reader = "read"
    /\ CountOut(i, "reader", TRUE)
    /\ UNCHANGED <<setupVars, closer, slots, serving, running, conn, flows, current, sent>>

DialUDP(i) ==
    /\ flow[i].worker = "dial"
    /\ flow' = [flow EXCEPT ![i].worker = "relay"]
    /\ UNCHANGED <<setupVars, proxyVars, conn, flows, current, sent>>

DialUDPFails(i) ==
    /\ flow[i].worker = "dial"
    /\ flow' = [flow EXCEPT ![i].worker = "close"]
    /\ UNCHANGED <<setupVars, proxyVars, conn, flows, current, sent>>

\* packetFlow.Read takes a packet.  ServeDNS answers it, RelayUDP writes it to
\* the session.
TakePacket(i) ==
    /\ flow[i].worker \in {"serve", "relay"} /\ flow[i].queued > 0
    /\ flow' = [flow EXCEPT ![i].queued = @ - 1,
                            ![i].worker = IF @ = "relay" THEN "write" ELSE @]
    /\ UNCHANGED <<setupVars, proxyVars, conn, flows, current, sent>>

\* WriteDatagram returns when the boundary takes the datagram.
WriteReturns(i) ==
    /\ flow[i].worker = "write"
    /\ flow' = [flow EXCEPT ![i].worker = "relay"]
    /\ UNCHANGED <<setupVars, proxyVars, conn, flows, current, sent>>

\* ServeDNS or RelayUDP returns and has closed the flow: a write failed, the
\* session ended or the context closed both.
SessionEnds(i) ==
    /\ flow[i].worker \in {"serve", "relay", "write"}
    /\ flow' = [flow EXCEPT ![i].worker = "close", ![i].done = TRUE]
    /\ UNCHANGED <<setupVars, proxyVars, conn, flows, current, sent>>

\* Mutant: packetFlow.Read waits for packets without a timer.
ReadWithoutTimer(i) ==
    /\ flow[i].worker \in {"serve", "relay"} /\ flow[i].done
    /\ SessionEnds(i)

\* packetFlow.Read fails: the flow is done, or its deadline passes without a
\* packet.
ReadFails(i) ==
    /\ flow[i].worker \in {"serve", "relay"}
    /\ flow[i].done \/ flow[i].queued = 0
    /\ SessionEnds(i)

\* The function that the ended context runs closes the flow.
HookUDP(i) ==
    /\ Canceled /\ flow[i].worker \in {"serve", "relay", "write"} /\ ~flow[i].done
    /\ flow' = [flow EXCEPT ![i].done = TRUE]
    /\ UNCHANGED <<setupVars, proxyVars, conn, flows, current, sent>>

\* Mutant: a flow that its reader has closed gives no slot back.
EndUDPLeaks(i) ==
    \/ /\ flow[i].worker = "close"
       /\ flows' = [flows EXCEPT ![flow[i].key] = None]
       /\ flow' = [flow EXCEPT ![i].worker = "release", ![i].done = TRUE]
       /\ UNCHANGED <<setupVars, proxyVars, conn, current, sent>>
    \/ /\ flow[i].worker = "release"
       /\ slots' = IF flow[i].reader = "read" THEN slots - 1 ELSE slots
       /\ CountOut(i, "worker", TRUE)
       /\ UNCHANGED <<setupVars, closer, serving, running, conn, flows, current, sent>>

\* The worker's deferred calls: close the flow and take it out of the table
\* under mu; give the slot back and count out.
EndUDP(i) ==
    \/ /\ flow[i].worker = "close"
       /\ flows' = [flows EXCEPT ![flow[i].key] = None]
       /\ flow' = [flow EXCEPT ![i].worker = "release", ![i].done = TRUE]
       /\ UNCHANGED <<setupVars, proxyVars, conn, current, sent>>
    \/ /\ flow[i].worker = "release" /\ slots > 0
       /\ slots' = slots - 1
       /\ CountOut(i, "worker", TRUE)
       /\ UNCHANGED <<setupVars, closer, serving, running, conn, flows, current, sent>>

-----------------------------------------------------------------------------
\* What a worker does without waiting for a peer: dials end within their
\* timeout, a relay ends once its context has closed its connections.
WorkTCP(c) ==
    DialTCP(c) \/ DialTCPFails(c) \/ (Canceled /\ RelayTCPEnds(c)) \/ EndTCP(c)

WorkUDP(i) ==
    \/ DialUDP(i) \/ DialUDPFails(i) \/ TakePacket(i) \/ ReadFails(i)
    \/ Canceled /\ SessionEnds(i)
    \/ EndUDP(i)

\* The flow's Close has closed the socket the reader reads.
ReadReply(i) == flow[i].done /\ ReaderFails(i)

Serve(l) == HandOver(l) \/ ServeReturns(l)

\* What the program does by itself.
Program ==
    \/ New \/ RunReturns \/ CloseProceeds
    \/ \E l \in Listeners : Serve(l)
    \/ \E c \in Conns : WorkTCP(c)
    \/ \E i \in FlowIds : WorkUDP(i) \/ ReadReply(i) \/ HookUDP(i)

\* What the caller, the guest, the boundary and the kernel do.
Environment ==
    \/ RunStarts \/ CallClose
    \/ \E c \in Conns : AcceptTCP(c) \/ RelayTCPEnds(c)
    \/ \E k \in Keys : DropPacket(k) \/ KnownFlow(k) \/ NewFlow(k)
    \/ \E i \in FlowIds :
        ReplySocketReads(i) \/ ReaderFails(i) \/ WriteReturns(i) \/ SessionEnds(i)

Next == Program \/ Environment

\* Goroutines are scheduled, timers fire and a context's functions run.  No
\* goroutine steps for ever without a packet, so that one condition on the
\* whole program gives each of them its turn.  The guest and the boundary owe
\* nothing, and nobody need call Close.
Spec == Init /\ [][Next]_vars /\ WF_vars(Program)

-----------------------------------------------------------------------------
(* Properties *)

HoldsSlotTCP == {c \in Conns : conn[c] \in {"dial", "relay", "close"}}
HoldsSlotUDP == {i \in FlowIds : flow[i].worker \in {"serve", "dial", "relay", "write", "close", "release"}}

\* TCP workers and UDP flows share one budget and every path gives its slot
\* back once: the failed dial, the flow that times out, the one whose reply
\* socket breaks first.
SlotsAreExact ==
    /\ slots = Cardinality(HoldsSlotTCP) + Cardinality(HoldsSlotUDP)
    /\ slots <= MaxConnections

\* The table has exactly the flows whose worker has not taken them out.  A
\* worker deletes by key, without a look at the entry: it must never find the
\* entry of a younger flow there.
TableIsExact ==
    /\ \A k \in Keys : flows[k] # None => flow[flows[k]].key = k
    /\ \A i \in FlowIds :
        flow[i].worker \in {"serve", "dial", "relay", "write", "close"} => flows[flow[i].key] = i

\* doc.go: "Run waits for active sessions to exit."  When Run has returned no
\* goroutine of it is left that could touch the namespace or hold a slot, and
\* no socket is open.
RunLeavesNothing ==
    running = "returned" =>
        /\ open = {} /\ slots = 0 /\ \A l \in Listeners : workers[l] = 0
        /\ \A c \in Conns : conn[c] \in {"away", "ended"}
        /\ \A i \in FlowIds : flow[i] = NoFlow
        /\ \A k \in Keys : flows[k] = None

\* doc.go: "New fails if its nftables table exists or its policy routing
\* resources conflict" and leaves what it found as it was; a New that fails
\* leaves nothing of its own either, unless the kernel refuses the clean-up.
\* A proxy that is ready has all it needs.
NamespaceIsRestored ==
    /\ \A r \in Resources : found[r] = "foreign" => namespace[r] = "foreign"
    /\ setup = "failed" => open = {} /\ (Own = {} \/ residue)
    /\ setup = "ready" => Own = Resources

\* Once Close is called, the context ends or a listener breaks, Run returns,
\* whatever guests and boundary are doing.
RunReturnsAfterClose == (running = "yes" /\ closer # "idle") ~> (running = "returned")

\* The guest's packets are bounded here, so it falls silent: every flow then
\* ends by its timeout and the slot comes back, though nobody closes it.  Only
\* a boundary that never takes a datagram holds its flow for ever: nothing
\* bounds WriteDatagram.
SilentFlowsEnd ==
    \A i \in FlowIds :
        (flow[i] # NoFlow) ~> (flow[i] = NoFlow \/ flow[i].worker = "write")
=============================================================================
