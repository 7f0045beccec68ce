------------------------------- MODULE Engine -------------------------------
(***************************************************************************)
(* The adapter's engine, sdk/pkg/tun2connect/engine.go, with the sessions  *)
(* it runs through the Forwarder (forwarder.go) and relay (relay.go): the  *)
(* session budget, one goroutine per flow, its dial and its relay, and     *)
(* Close, which cancels the sessions, waits for them and then tears the    *)
(* network stack down.                                                     *)
(*                                                                         *)
(* A session is one flow of the guest.  The copies of a relay and the      *)
(* function that a canceled context runs beside them are steps of their    *)
(* own; what the bytes are does not matter here.                           *)
(***************************************************************************)
EXTENDS Integers, FiniteSets

CONSTANTS
    Flows,          \* the flows of the guest
    Proto,          \* Proto[f]: what kind of flow it is
    MaxConnections, \* the session budget
    EnableUDP       \* tunnel UDP sessions

ASSUME EngineAssumption ==
    /\ MaxConnections \in Nat \ {0} /\ EnableUDP \in BOOLEAN
    /\ IsFiniteSet(Flows) /\ Proto \in [Flows -> {"tcp", "udp", "dns"}]

Copies == {"in", "out"}     \* to the guest, to the boundary

VARIABLES
    pc,         \* pc[f]: where the flow's handler or goroutine is
    sessions,   \* slots taken in the channel
    workers,    \* the WaitGroup's counter
    guest,      \* guest[f]: the guest's end of the flow
    upstream,   \* upstream[f]: the tunnel to the boundary
    copying,    \* copying[f]: the copies of the relay that still run
    hook,       \* hook[f]: the context.AfterFunc of the relay
    completed,  \* history: completed[f] is how often r.Complete was called
    closer,     \* where Close is
    closed,     \* e.closed
    canceled    \* e.ctx is done

flowVars == <<pc, guest, upstream, copying, hook, completed>>
vars     == <<flowVars, sessions, workers, closer, closed, canceled>>

Init ==
    /\ pc = [f \in Flows |-> "away"]
    /\ sessions = 0 /\ workers = 0
    /\ guest = [f \in Flows |-> "none"]
    /\ upstream = [f \in Flows |-> "none"]
    /\ copying = [f \in Flows |-> {}]
    /\ hook = [f \in Flows |-> "none"]
    /\ completed = [f \in Flows |-> 0]
    /\ closer = "idle" /\ closed = FALSE /\ canceled = FALSE

\* Where a flow ends up in the refusal that its protocol has: a TCP request is
\* completed with a reset, a UDP handler returns false.
Complete(f) == completed' = [completed EXCEPT ![f] = IF Proto[f] = "tcp" THEN @ + 1 ELSE @]
Goto(f, l)  == pc' = [pc EXCEPT ![f] = l]

-----------------------------------------------------------------------------
(* acquire and release *)

\* Mutant: a session is acquired without a look at e.closed.
AcquireUnchecked(f) ==
    /\ pc[f] = "away" /\ closer # "done"
    /\ sessions < MaxConnections
    /\ sessions' = sessions + 1 /\ workers' = workers + 1
    /\ Goto(f, IF Proto[f] = "tcp" THEN "dial" ELSE "endpoint")
    /\ UNCHANGED <<guest, upstream, copying, hook, completed, closer, closed, canceled>>

\* Mutant: the worker is counted and no slot taken.
AcquireWithoutSlot(f) ==
    /\ pc[f] = "away" /\ closer # "done"
    /\ ~closed /\ sessions < MaxConnections
    /\ workers' = workers + 1
    /\ Goto(f, IF Proto[f] = "tcp" THEN "dial" ELSE "endpoint")
    /\ UNCHANGED <<sessions, guest, upstream, copying, hook, completed, closer, closed, canceled>>

\* The first packet of a flow reaches handleTCP or handleUDP and a session is
\* free.
Acquire(f) ==
    /\ pc[f] = "away" /\ closer # "done"
    /\ ~closed /\ sessions < MaxConnections
    /\ sessions' = sessions + 1 /\ workers' = workers + 1
    /\ Goto(f, IF Proto[f] = "tcp" THEN "dial" ELSE "endpoint")
    /\ UNCHANGED <<guest, upstream, copying, hook, completed, closer, closed, canceled>>

\* The engine is closed or the budget used up.
AcquireFails(f) ==
    /\ pc[f] = "away" /\ closer # "done"
    /\ closed \/ sessions >= MaxConnections
    /\ Complete(f) /\ Goto(f, "refused")
    /\ UNCHANGED <<sessions, workers, guest, upstream, copying, hook, closer, closed, canceled>>

\* release: the slot goes back, a receive that would block on an empty channel,
\* before the worker is counted out.
ReleaseSlot(f) ==
    /\ pc[f] = "release" /\ sessions > 0
    /\ sessions' = sessions - 1
    /\ Goto(f, "done")
    /\ UNCHANGED <<workers, guest, upstream, copying, hook, completed, closer, closed, canceled>>

ReleaseWorker(f) ==
    /\ pc[f] = "done"
    /\ workers' = workers - 1
    /\ Goto(f, "ended")
    /\ UNCHANGED <<sessions, guest, upstream, copying, hook, completed, closer, closed, canceled>>

-----------------------------------------------------------------------------
(* handleTCP *)

\* Mutant: a refused TCP request is never completed.
DialFailsSilently(f) ==
    /\ pc[f] = "dial"
    /\ guest' = [guest EXCEPT ![f] = IF Proto[f] = "udp" THEN "closed" ELSE @]
    /\ Goto(f, "release")
    /\ UNCHANGED <<sessions, workers, upstream, copying, hook, completed, closer, closed, canceled>>

\* DialTCP and DialUDP: the boundary refuses, the dial fails or times out, or
\* the context is canceled.  A UDP flow's guest end is closed.
DialFails(f) ==
    /\ pc[f] = "dial"
    /\ Complete(f)
    /\ guest' = [guest EXCEPT ![f] = IF Proto[f] = "udp" THEN "closed" ELSE @]
    /\ Goto(f, "release")
    /\ UNCHANGED <<sessions, workers, upstream, copying, hook, closer, closed, canceled>>

\* RelayTCP and RelayUDP start with both ends open.
StartRelay(f) ==
    /\ Goto(f, "relay")
    /\ copying' = [copying EXCEPT ![f] = Copies]
    /\ hook' = [hook EXCEPT ![f] = "armed"]

DialSucceeds(f) ==
    /\ pc[f] = "dial"
    /\ upstream' = [upstream EXCEPT ![f] = "open"]
    /\ IF Proto[f] = "tcp"
       THEN Goto(f, "endpoint") /\ UNCHANGED <<copying, hook>>
       ELSE StartRelay(f)
    /\ UNCHANGED <<sessions, workers, guest, completed, closer, closed, canceled>>

\* CreateEndpoint for TCP, after the dial: the guest's handshake.
EndpointTCP(f) ==
    /\ pc[f] = "endpoint" /\ Proto[f] = "tcp"
    /\ guest' = [guest EXCEPT ![f] = "open"]
    /\ Complete(f)
    /\ StartRelay(f)
    /\ UNCHANGED <<sessions, workers, upstream, closer, closed, canceled>>

\* Mutant: the tunnel is left open when the guest's handshake fails.
EndpointTCPKeepsTunnel(f) ==
    /\ pc[f] = "endpoint" /\ Proto[f] = "tcp"
    /\ Complete(f)
    /\ Goto(f, "release")
    /\ UNCHANGED <<sessions, workers, guest, upstream, copying, hook, closer, closed, canceled>>

EndpointTCPFails(f) ==
    /\ pc[f] = "endpoint" /\ Proto[f] = "tcp"
    /\ upstream' = [upstream EXCEPT ![f] = "closed"]
    /\ Complete(f)
    /\ Goto(f, "release")
    /\ UNCHANGED <<sessions, workers, guest, copying, hook, closer, closed, canceled>>

-----------------------------------------------------------------------------
(* handleUDP *)

\* DNS is always served; other UDP only with EnableUDP.  The endpoint comes
\* before the dial.
EndpointUDP(f) ==
    /\ pc[f] = "endpoint"
    /\ Proto[f] = "dns" \/ (Proto[f] = "udp" /\ EnableUDP)
    /\ guest' = [guest EXCEPT ![f] = "open"]
    /\ Goto(f, IF Proto[f] = "dns" THEN "serve" ELSE "dial")
    /\ hook' = [hook EXCEPT ![f] = IF Proto[f] = "dns" THEN "armed" ELSE @]
    /\ UNCHANGED <<sessions, workers, upstream, copying, completed, closer, closed, canceled>>

\* Mutant: an early return of handleUDP without a release.
EndpointUDPLeaks(f) ==
    /\ pc[f] = "endpoint" /\ Proto[f] # "tcp"
    /\ Goto(f, "ended")
    /\ UNCHANGED <<sessions, workers, guest, upstream, copying, hook, completed, closer, closed, canceled>>

\* UDP is disabled, or CreateEndpoint fails: the handler itself releases.
EndpointUDPFails(f) ==
    /\ pc[f] = "endpoint" /\ Proto[f] # "tcp"
    /\ Goto(f, "release")
    /\ UNCHANGED <<sessions, workers, guest, upstream, copying, hook, completed, closer, closed, canceled>>

\* ServeDNS returns: its read times out after dnsIdleTimeout without a query,
\* or its guest end has been closed under it.
ServeDNSReturns(f) ==
    /\ pc[f] = "serve"
    /\ hook' = [hook EXCEPT ![f] = IF @ = "armed" THEN "stopped" ELSE @]
    /\ guest' = [guest EXCEPT ![f] = "closed"]
    /\ Goto(f, "release")
    /\ UNCHANGED <<sessions, workers, upstream, copying, completed, closer, closed, canceled>>

-----------------------------------------------------------------------------
(* RelayTCP, RelayUDP, relay *)

\* The context is canceled while the hook is armed: its function closes the
\* guest, then the tunnel.  It is a goroutine nobody waits for.
HookRuns(f) ==
    /\ canceled
    /\ \/ /\ hook[f] = "armed"
          /\ guest' = [guest EXCEPT ![f] = "closed"]
          /\ hook' = [hook EXCEPT ![f] = IF Proto[f] = "dns" THEN "ran" ELSE "closing"]
          /\ UNCHANGED upstream
       \/ /\ hook[f] = "closing"
          /\ upstream' = [upstream EXCEPT ![f] = "closed"]
          /\ hook' = [hook EXCEPT ![f] = "ran"]
          /\ UNCHANGED guest
    /\ UNCHANGED <<pc, copying, completed, sessions, workers, closer, closed, canceled>>

\* A copy ends, by EOF or by an error.  A TCP copy half-closes where it writes
\* and leaves both ends open for the other copy; a UDP copy closes both.
EndCopy(f, d) ==
    /\ pc[f] = "relay" /\ d \in copying[f]
    /\ copying' = [copying EXCEPT ![f] = @ \ {d}]
    /\ IF Proto[f] = "udp"
       THEN /\ guest' = [guest EXCEPT ![f] = "closed"]
            /\ upstream' = [upstream EXCEPT ![f] = "closed"]
       ELSE UNCHANGED <<guest, upstream>>
    /\ UNCHANGED <<pc, hook, completed, sessions, workers, closer, closed, canceled>>

\* The peer the copy reads from or writes to ended: it need not, ever.
CopyEnds(f) == \E d \in Copies : EndCopy(f, d)

\* The end it reads from or writes to has been closed here: it must.
CopyFails(f) ==
    \E d \in Copies :
        /\ guest[f] = "closed" /\ upstream[f] = "closed"
        /\ EndCopy(f, d)

\* Both copies are done: relay closes both ends, the hook is stopped if it has
\* not run.
RelayEnds(f) ==
    /\ pc[f] = "relay" /\ copying[f] = {}
    /\ guest' = [guest EXCEPT ![f] = "closed"]
    /\ upstream' = [upstream EXCEPT ![f] = "closed"]
    /\ hook' = [hook EXCEPT ![f] = IF @ = "armed" THEN "stopped" ELSE @]
    /\ Goto(f, "release")
    /\ UNCHANGED <<copying, completed, sessions, workers, closer, closed, canceled>>

-----------------------------------------------------------------------------
(* Close *)

CloseMarks ==
    /\ closer = "idle"
    /\ closed' = TRUE /\ closer' = "marked"
    /\ UNCHANGED <<flowVars, sessions, workers, canceled>>

\* Mutant: Close waits without canceling the context.
CloseForgetsCancel ==
    /\ closer = "marked"
    /\ closer' = "waiting"
    /\ UNCHANGED <<flowVars, sessions, workers, closed, canceled>>

CloseCancels ==
    /\ closer = "marked"
    /\ canceled' = TRUE /\ closer' = "waiting"
    /\ UNCHANGED <<flowVars, sessions, workers, closed>>

\* workers.Wait returns.
CloseWaits ==
    /\ closer = "waiting" /\ workers = 0
    /\ closer' = "waited"
    /\ UNCHANGED <<flowVars, sessions, workers, closed, canceled>>

\* stack.Close and stack.Wait: no packet reaches a handler any more.
CloseTearsDown ==
    /\ closer = "waited"
    /\ closer' = "done"
    /\ UNCHANGED <<flowVars, sessions, workers, closed, canceled>>

-----------------------------------------------------------------------------
Accept(f) == Acquire(f) \/ AcquireFails(f)

\* What the flow's own goroutine does without waiting for a peer of the flow:
\* a dial and a handshake end within their timeouts.
Work(f) ==
    \/ DialFails(f) \/ DialSucceeds(f)
    \/ EndpointTCP(f) \/ EndpointTCPFails(f) \/ EndpointUDP(f) \/ EndpointUDPFails(f)
    \/ guest[f] = "closed" /\ ServeDNSReturns(f)
    \/ CopyFails(f) \/ RelayEnds(f)
    \/ ReleaseSlot(f) \/ ReleaseWorker(f)

Close == CloseMarks \/ CloseCancels \/ CloseWaits \/ CloseTearsDown

Next ==
    \/ \E f \in Flows : Accept(f) \/ Work(f) \/ CopyEnds(f) \/ ServeDNSReturns(f) \/ HookRuns(f)
    \/ Close

\* The engine in any program; Adapters has the two that use it.  Goroutines are
\* scheduled.  Close need not be called, flows need not come and
\* their peers need not end.
Spec ==
    /\ Init /\ [][Next]_vars
    /\ \A f \in Flows : WF_vars(Work(f)) /\ WF_vars(HookRuns(f))
    /\ WF_vars(CloseCancels \/ CloseWaits \/ CloseTearsDown)

-----------------------------------------------------------------------------
(* Properties *)

HoldsSlot      == {"dial", "endpoint", "serve", "relay", "release"}
CountsAsWorker == HoldsSlot \cup {"done"}

\* Types.
TypeOK ==
    /\ pc \in [Flows -> CountsAsWorker \cup {"away", "refused", "ended"}]
    /\ sessions \in 0 .. MaxConnections /\ workers \in Nat
    /\ guest \in [Flows -> {"none", "open", "closed"}]
    /\ upstream \in [Flows -> {"none", "open", "closed"}]
    /\ copying \in [Flows -> SUBSET Copies]
    /\ hook \in [Flows -> {"none", "armed", "stopped", "closing", "ran"}]
    /\ completed \in [Flows -> Nat]
    /\ closer \in {"idle", "marked", "waiting", "waited", "done"}
    /\ closed \in BOOLEAN /\ canceled \in BOOLEAN

\* The slots and the WaitGroup count the flows that hold them on every path
\* through both handlers: no early return leaks one or gives one back twice,
\* and no more sessions than the budget are held.
CountsAreExact ==
    /\ TypeOK
    /\ sessions = Cardinality({f \in Flows : pc[f] \in HoldsSlot})
    /\ workers  = Cardinality({f \in Flows : pc[f] \in CountsAsWorker})

\* The stack is torn down under no session: one that acquired before Close took
\* the lock is waited for, and none acquires after it.
NoSessionOnClosedStack ==
    closer = "done" => \A f \in Flows : pc[f] \in {"away", "refused", "ended"}

\* A session that gives its slot back leaves no end of its flow open: not the
\* tunnel when the guest's endpoint fails, not the guest when the dial fails.
NothingLeftOpen ==
    \A f \in Flows : pc[f] \in {"release", "done", "ended"} =>
        guest[f] # "open" /\ upstream[f] # "open"

\* A TCP request is completed once it has been decided and only once, and the
\* guest's handshake completes only over a tunnel the boundary has granted: a
\* refusal is a failed connect, never a connection that is reset later.
CompletedOnce ==
    \A f \in Flows : Proto[f] = "tcp" =>
        /\ completed[f] = IF pc[f] \in {"away", "dial", "endpoint"} THEN 0 ELSE 1
        /\ guest[f] # "none" => upstream[f] # "none"

\* A session that gets no answer from its peers ends or is at least served: none
\* is stuck between its slot and its relay, and a slot is always given back.
SessionsProceed ==
    \A f \in Flows : (pc[f] \in CountsAsWorker) ~> (pc[f] \in {"relay", "serve", "ended"})
=============================================================================
