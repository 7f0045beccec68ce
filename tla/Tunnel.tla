------------------------------- MODULE Tunnel -------------------------------
(***************************************************************************)
(* An open tunnel of the boundary, sdk/cmd/connect-proxy/main.go: relay    *)
(* and pumpUDP with the idle watcher, and what the handlers around them    *)
(* close when they return; and a stream of the ingress channel, which      *)
(* serveIngress of sdk/cmd/tun2connect/run.go joins to the agent's         *)
(* listener in the same way but without a watcher.                         *)
(*                                                                         *)
(* Three goroutines share the two connections.  "up" copies from the       *)
(* client to the upstream, "down" is the handler itself and copies the     *)
(* other way, and the watcher ends a tunnel that carries nothing.  A       *)
(* direction's data is a stream of chunks without end, of which the state  *)
(* has those under way: sent and not yet read by the goroutine, read and   *)
(* not yet written, written and not yet taken by the destination.  The     *)
(* clients and upstreams of this module are the environment: they may stop *)
(* at any time, or go on for ever.                                         *)
(***************************************************************************)
EXTENDS Integers

CONSTANTS
    Kinds,      \* the kinds of tunnel: a wire and a network
    Buffer,     \* chunks a socket buffer or an HTTP/2 window holds
    Idle        \* -idle-timeout in ticks of the clock, 0 to disable

ASSUME TunnelAssumption ==
    /\ Kinds \subseteq 
        [wire : {"h1", "h2"}, network : {"tcp", "udp"}] \cup [wire : {"ingress"}, network : {"tcp"}]
    /\ Buffer \in Nat \ {0} /\ Idle \in Nat

Directions == {"up", "down"}
Ends       == {"client", "upstream"}

\* The end a direction reads from and the end it writes to.
Source(d) == IF d = "up" THEN "client" ELSE "upstream"
Sink(d)   == IF d = "up" THEN "upstream" ELSE "client"

VARIABLES
    kind,       \* the tunnel's kind, fixed
    flow,       \* flow[d]: the chunks of a direction not yet read, held, not yet taken
    peer,       \* peer[e]: "open", "eof" after a clean end, "gone" after a reset
    closed,     \* closed[e]: the boundary has closed its connection to e
    fin,        \* CloseWrite has been called on the upstream connection
    pc,         \* pc[d]: where the goroutine of direction d is
    watch,      \* where the watcher is
    canceled,   \* the watch's done channel is closed
    quiet       \* time since the last touch, up to Idle

vars == <<kind, flow, peer, closed, fin, pc, watch, canceled, quiet>>

\* The request head may have brought the first bytes of the tunnel with it.
Init ==
    /\ kind \in Kinds
    /\ \E early \in {0, 1} : flow = [d \in Directions |->
        [unread |-> IF d = "up" THEN early ELSE 0, held |-> 0, untaken |-> 0]]
    /\ peer = [e \in Ends |-> "open"]
    /\ closed = [e \in Ends |-> FALSE]
    /\ fin = FALSE
    /\ pc = [d \in Directions |-> "read"]
    /\ watch = IF Idle = 0 \/ kind.wire = "ingress" THEN "off" ELSE "on"
    /\ canceled = FALSE
    /\ quiet = 0

-----------------------------------------------------------------------------
(* The environment *)

\* A peer sends a chunk; what a full UDP socket buffer drops is never sent.
Send(d) ==
    /\ peer[Source(d)] = "open" /\ ~closed[Source(d)]
    /\ flow[d].unread < Buffer
    /\ flow' = [flow EXCEPT ![d].unread = @ + 1]
    /\ UNCHANGED <<kind, peer, closed, fin, pc, watch, canceled, quiet>>

\* A peer consumes a chunk.
Take(d) ==
    /\ peer[Sink(d)] # "gone" /\ flow[d].untaken > 0
    /\ flow' = [flow EXCEPT ![d].untaken = @ - 1]
    /\ UNCHANGED <<kind, peer, closed, fin, pc, watch, canceled, quiet>>

\* A peer ends its direction.  A UDP destination cannot.
Finish(e) ==
    /\ peer[e] = "open" /\ ~(e = "upstream" /\ kind.network = "udp")
    /\ peer' = [peer EXCEPT ![e] = "eof"]
    /\ UNCHANGED <<kind, flow, closed, fin, pc, watch, canceled, quiet>>

\* A peer resets the connection or the stream, or is lost; for a UDP
\* destination, an ICMP error comes back.
Vanish(e) ==
    /\ peer[e] # "gone"
    /\ peer' = [peer EXCEPT ![e] = "gone"]
    /\ UNCHANGED <<kind, flow, closed, fin, pc, watch, canceled, quiet>>

\* Time passes.
Tick ==
    /\ quiet < Idle
    /\ quiet' = quiet + 1
    /\ UNCHANGED <<kind, flow, peer, closed, fin, pc, watch, canceled>>

-----------------------------------------------------------------------------
(* io.Copy through an activityReader, or the two loops of pumpUDP *)

\* A read that brings data touches the watch.
Read(d) ==
    /\ pc[d] = "read" /\ ~closed[Source(d)]
    /\ flow[d].unread > 0
    /\ flow' = [flow EXCEPT ![d] = [unread |-> @.unread - 1, held |-> 1, untaken |-> @.untaken]]
    /\ pc' = [pc EXCEPT ![d] = "write"]
    /\ quiet' = 0
    /\ UNCHANGED <<kind, peer, closed, fin, watch, canceled>>

\* A read that ends the copy: the connection was closed here, the peer is
\* gone, or everything it sent before its EOF has been read.
ReadEnds(d) ==
    /\ pc[d] = "read"
    /\ \/ closed[Source(d)]
       \/ peer[Source(d)] = "gone"
       \/ peer[Source(d)] = "eof" /\ flow[d].unread = 0
    /\ pc' = [pc EXCEPT ![d] = "end"]
    /\ UNCHANGED <<kind, flow, peer, closed, fin, watch, canceled, quiet>>

\* A write blocks while the sink's buffer or window is full; a UDP socket
\* never blocks, and what finds the destination's buffer full is dropped there.
CanWrite(d) ==
    \/ flow[d].untaken < Buffer
    \/ d = "up" /\ kind.network = "udp"

Write(d) ==
    /\ pc[d] = "write" /\ ~closed[Sink(d)] /\ CanWrite(d)
    /\ flow' = [flow EXCEPT ![d] =
           [unread |-> @.unread, held |-> 0,
            untaken |-> IF @.untaken < Buffer THEN @.untaken + 1 ELSE Buffer]]
    /\ pc' = [pc EXCEPT ![d] = "read"]
    /\ UNCHANGED <<kind, peer, closed, fin, watch, canceled, quiet>>

WriteFails(d) ==
    /\ pc[d] = "write"
    /\ closed[Sink(d)] \/ peer[Sink(d)] = "gone"
    /\ pc' = [pc EXCEPT ![d] = "end"]
    /\ UNCHANGED <<kind, flow, peer, closed, fin, watch, canceled, quiet>>

\* Mutant: the client's EOF closes a TCP upstream instead of half-closing it.
UpClosesUpstream ==
    /\ pc["up"] = "end"
    /\ closed' = [closed EXCEPT !["upstream"] = TRUE]
    /\ pc' = [pc EXCEPT !["up"] = "done"]
    /\ UNCHANGED <<kind, flow, peer, fin, watch, canceled, quiet>>

\* The end of the goroutine "up": a TCP upstream is half-closed, a UDP one
\* closed.
UpEnds ==
    /\ pc["up"] = "end"
    /\ \/ /\ kind.network = "tcp"
          /\ fin' = (fin \/ ~closed["upstream"])
          /\ UNCHANGED closed
       \/ /\ kind.network = "udp"
          /\ closed' = [closed EXCEPT !["upstream"] = TRUE]
          /\ UNCHANGED fin
    /\ pc' = [pc EXCEPT !["up"] = "done"]
    /\ UNCHANGED <<kind, flow, peer, watch, canceled, quiet>>

\* Mutant: the handler returns without closing the client's connection.
DownKeepsClient ==
    \/ /\ pc["down"] = "end"
       /\ canceled' = TRUE
       /\ pc' = [pc EXCEPT !["down"] = "closeUpstream"]
       /\ UNCHANGED <<kind, flow, peer, closed, fin, watch, quiet>>
    \/ /\ pc["down"] = "closeUpstream"
       /\ closed' = [closed EXCEPT !["upstream"] = TRUE]
       /\ pc' = [pc EXCEPT !["down"] = "done"]
       /\ UNCHANGED <<kind, flow, peer, fin, watch, canceled, quiet>>

\* The end of the handler, its deferred calls in order: the watch is
\* canceled, the upstream closed, then the client's connection (the deferred
\* Close of serve or serveIngress) or stream (by the HTTP/2 server once the handler returns).
DownEnds ==
    \/ /\ pc["down"] = "end"
       /\ canceled' = TRUE
       /\ pc' = [pc EXCEPT !["down"] = "closeUpstream"]
       /\ UNCHANGED <<kind, flow, peer, closed, fin, watch, quiet>>
    \/ /\ pc["down"] = "closeUpstream"
       /\ closed' = [closed EXCEPT !["upstream"] = TRUE]
       /\ pc' = [pc EXCEPT !["down"] = "closeClient"]
       /\ UNCHANGED <<kind, flow, peer, fin, watch, canceled, quiet>>
    \/ /\ pc["down"] = "closeClient"
       /\ closed' = [closed EXCEPT !["client"] = TRUE]
       /\ pc' = [pc EXCEPT !["down"] = "done"]
       /\ UNCHANGED <<kind, flow, peer, fin, watch, canceled, quiet>>

-----------------------------------------------------------------------------
(* idleWatch *)

\* Mutant: the watch waits for more than the idle time, which never comes.
WatchFiresLate ==
    /\ watch = "on" /\ quiet > Idle
    /\ watch' = "stop"
    /\ UNCHANGED <<kind, flow, peer, closed, fin, pc, canceled, quiet>>

\* The ticker finds that the last touch is too long ago.
WatchFires ==
    /\ watch = "on" /\ quiet >= Idle
    /\ watch' = "stop"
    /\ UNCHANGED <<kind, flow, peer, closed, fin, pc, canceled, quiet>>

WatchCanceled ==
    /\ watch = "on" /\ canceled
    /\ watch' = "done"
    /\ UNCHANGED <<kind, flow, peer, closed, fin, pc, canceled, quiet>>

\* Mutant: the client is closed before the upstream.
WatchStopsClientFirst ==
    \/ /\ watch = "stop"
       /\ closed' = [closed EXCEPT !["client"] = @ \/ kind.wire = "h1"]
       /\ watch' = "stopClient"
       /\ UNCHANGED <<kind, flow, peer, fin, pc, canceled, quiet>>
    \/ /\ watch = "stopClient"
       /\ closed' = [closed EXCEPT !["upstream"] = TRUE]
       /\ watch' = "done"
       /\ UNCHANGED <<kind, flow, peer, fin, pc, canceled, quiet>>

\* Mutant: only the client is closed.
WatchStopsClientOnly ==
    /\ watch = "stop"
    /\ closed' = [closed EXCEPT !["client"] = @ \/ kind.wire = "h1"]
    /\ watch' = "done"
    /\ UNCHANGED <<kind, flow, peer, fin, pc, canceled, quiet>>

\* stop: the upstream is closed first, then closeClient is called, which
\* closes an HTTP/1.1 connection and does nothing on HTTP/2.
WatchStops ==
    \/ /\ watch = "stop"
       /\ closed' = [closed EXCEPT !["upstream"] = TRUE]
       /\ watch' = "stopClient"
       /\ UNCHANGED <<kind, flow, peer, fin, pc, canceled, quiet>>
    \/ /\ watch = "stopClient"
       /\ closed' = [closed EXCEPT !["client"] = @ \/ kind.wire = "h1"]
       /\ watch' = "done"
       /\ UNCHANGED <<kind, flow, peer, fin, pc, canceled, quiet>>

-----------------------------------------------------------------------------
Copy(d)   == Read(d) \/ ReadEnds(d) \/ Write(d) \/ WriteFails(d)
Up        == Copy("up") \/ UpEnds
Down      == Copy("down") \/ DownEnds
Watcher   == WatchFires \/ WatchCanceled \/ WatchStops
Peers     == (\E d \in Directions : Send(d) \/ Take(d)) \/ (\E e \in Ends : Finish(e) \/ Vanish(e))

Next == Up \/ Down \/ Watcher \/ Tick \/ Peers

\* The goroutines are scheduled and time passes; the peers owe nothing.
Spec ==
    /\ Init /\ [][Next]_vars
    /\ WF_vars(Up) /\ WF_vars(Down) /\ WF_vars(Watcher) /\ WF_vars(Tick)

-----------------------------------------------------------------------------
(* Properties *)

\* Types.
TypeOK ==
    /\ flow \in [Directions -> [unread : 0 .. Buffer, held : {0, 1}, untaken : 0 .. Buffer]]
    /\ peer \in [Ends -> {"open", "eof", "gone"}]
    /\ closed \in [Ends -> BOOLEAN]
    /\ pc \in [Directions -> {"read", "write", "end", "closeUpstream", "closeClient", "done"}]
    /\ watch \in {"off", "on", "stop", "stopClient", "done"}
    /\ quiet \in 0 .. Idle

\* The boundary has written all that the source of direction d has sent.
AllWritten(d) == flow[d].unread = 0 /\ flow[d].held = 0

\* "Client EOF is propagated to upstream as a half-close", and nothing else
\* is: an upstream that reads a clean end on a connection that is still open
\* has everything the client sent, unless the client was lost.  The idle
\* watcher must not turn a cut tunnel into such an end, which is why it closes
\* the upstream before the client.
HalfCloseIsComplete ==
    /\ TypeOK
    /\ fin /\ ~closed["upstream"] /\ peer["client"] # "gone" /\ peer["upstream"] # "gone" =>
        AllWritten("up")

\* The handler that returns because the upstream ended has passed on all the
\* upstream sent: the tail of a response survives the closing of the tunnel.
ResponseIsComplete ==
    /\ pc["down"] \notin {"read", "write"}
    /\ peer["upstream"] = "eof" /\ peer["client"] # "gone"
    /\ watch \in {"off", "on"}
    => AllWritten("down")

\* The copy of direction d is blocked on its write.
Blocked(d) == pc[d] = "write" /\ ~CanWrite(d)

\* From some time on nothing is read in either direction.
GoesQuiet == <>[](quiet = Idle)

\* The client's EOF reaches the upstream as a half-close or as the end of the
\* tunnel.  An upstream that has stopped reading for good may hold it up, but
\* only where there is no watch, as on the ingress channel, or while data is
\* read for ever, which after the EOF is the upstream's own: what one direction
\* carries keeps the watch from ending the other.
EOFReachesUpstream ==
    \/ (peer["client"] = "eof") ~> (fin \/ closed["upstream"])
    \/ <>[]Blocked("up") /\ ([](watch = "off") \/ ~GoesQuiet)

\* A tunnel that carries nothing for Idle ends, whatever its peers do.
IdleTunnelsEnd == GoesQuiet => <>(pc["down"] = "done")

\* What the code does guarantee: on HTTP/1.1 every tunnel that goes quiet ends;
\* an HTTP/2 one does unless the client's window stays full under the handler's
\* write.  An ingress stream ends when the agent's listener ends it.
IdleEndsUnlessBlocked ==
    GoesQuiet =>
        \/ <>(pc["down"] = "done")
        \/ [](watch = "off")
        \/ <>[](kind.wire = "h2" /\ Blocked("down"))

\* Nothing outlives the handler for good: not the copy that may be blocked on
\* either connection, not the watcher, not a connection.
NothingLeftBehind ==
    (pc["down"] = "done") ~>
        (pc["up"] = "done" /\ watch \in {"off", "done"} /\ \A e \in Ends : closed[e])
=============================================================================
