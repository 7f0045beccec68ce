# A verification of agents.net

TLA+ models of the agents.net SDK: the boundary that decides what a sandboxed
agent may reach, and the adapter that carries the agent's traffic to it. TLC
checks the models on small instances, and TLAPS proves every safety property that
the passing runs check, for every instance. `PROJECT.json` maps each definition to
the lines it models and lists the runs, mutants, hazards, findings and theorems.

To run one check: `tlc -config MCAdapters.cfg MCAdapters`. To check the proofs:
`tlapm VirtualDNSProofs.tla`, and the same for the other modules named `...Proofs`.

## 1. The system

An agent runs in a sandbox without a network. An *adapter* (tun2connect in the
sandbox, netnsproxy or qemuproxy outside) takes its packets, answers its DNS
queries with invented addresses, and opens one CONNECT or connect-udp tunnel
per flow to the *boundary* (connect-proxy), which applies the policy, resolves
the name and dials.

| component | state | operations | hard behaviour |
|---|---|---|---|
| Synthetic resolver, `dns.go` | per family: last address, name map, LRU list; one address map | `resolve`, `Reverse`, `HandleQuery` under one mutex | eviction against stale copies in the guest, exhaustion, three indices |
| Policy, `policy.go` | tables of a loaded descriptor | `loadDescriptor`, `authorize` | order of rules, special-purpose answers, boundaries of ports and depths |
| Boundary listener, `connect-proxy/main.go` | slots, policy pointer, audit stream | accept, handshake, handlers on two wires, dial | slots over early returns, one record per decision, concurrent streams |
| Boundary tunnel, `relay`, `pumpUDP`, `idleWatch` | two connections, three goroutines | copy, half-close, idle stop | order of closes, blocked writes, goroutines nobody waits for |
| Engine, `engine.go`, `forwarder.go`, `relay.go` | session channel, WaitGroup, context | handlers, relays, `Close` | Close against sessions in every phase |
| Launcher, `run.go` | set-up progress, child, signal channel | `runLauncher`, `runChild` | partial set-up, lost signals |
| CONNECT clients, `connect.go`, `connect_h2.go` | one connection per dial; one shared session | dial, round trip | cancellation mid-dial, a session that dies between check and use |
| Request heads, `connect-proxy/main.go`, `run.go` | none | `readHead`, `connectTarget`, `upgradeTarget`, `masqueTarget`, `serveH2`, `ingressTarget` | two fields that name a destination, order of checks, decoding |
| netnsproxy | flow table, slots, rules and routes of the namespace | `New`, `Run`, `serveTCP`, `serveUDP`, `Close` | flow removal against packets, rollback, full queues |
| qemuproxy and the tun2connect daemon | two frame pumps, a stream; a signal channel | `Run`, `main` | shutdown of both directions around `Engine.Close` |
| Ingress, `run.go` | listener, pinned ports | `serveIngress` | target parsing, half-close |
| Capsule codec, `capsule.go` | stream buffer | read and write datagrams | variable-length integers, limits |

Interactions: the Forwarder calls the resolver's `Reverse` on every dial and
`HandleQuery` on every query; it calls a client (both implement `Dialer`), which
speaks to the boundary over a byte stream; the boundary's handlers share the
policy pointer, the slots and the audit writer; Engine sessions share the session
channel and the context that `Close` cancels; netnsproxy drives the same
Forwarder from its own workers.

## 2. Modules

**VirtualDNS** — the resolver. One action per method and outcome (`ResolveHit`,
`ResolveExhausted`, `ResolveNew`, `ResolveEmpty`, `ReverseHit`, `ReverseMiss`),
because every method holds `d.mu` throughout. Addresses are offsets in a pool.
Two history variables: `issued` (what a guest may still have cached) and
`fresher` (which name was used after which).

**Policy** — the loader and `authorize` as operators. A prefix is the set of
its addresses, a name its labels; text is reduced to the cases the code tells
apart (an address with or without zone or final dot, a name, `*`, anything
else). An IPv4-mapped address is its address, since loader and `authorize` both
unmap. The loops of the code (`addRules`, `selectRule`, `Keep`) are recursive
functions of the turn.

**RequestHead** — from a request to a destination, before the policy: the checks
of `readHead` and the handlers in their order, for HTTP/1.x, HTTP/2 and the
ingress channel. A head is a record of what the checks tell apart; `layers` counts
how often a connect-udp host is percent-encoded. **PolicyCheck** is the machine
that loads any descriptor and decides any request, with wire.md's and ingress.md's
reading of heads (`Conforms`, `Destination`), the four kinds of heads that the code is
known to treat otherwise (`Deviates`), and the order-free reading of the rules
(`Permitting`, `Admitted`, `ExpectedReason`) to compare with.

**Boundary** — accept loop, budget, handshake, handlers, decision, dial, audit.
Extends Policy, so its decisions are those of `authorize`. A handler is a
(connection, stream) pair. A request carries a defect or a destination, the two
outcomes of RequestHead.

**Tunnel** — an open tunnel: `up` (client to upstream), `down` (the handler),
the idle watcher, and peers that may send, stop, end or reset at any time. The
relay of `serveIngress` is a fifth kind, without a watcher. A direction is a stream of
chunks without end, and the state has those under way: not yet read, held by the copy,
not yet taken; writes block when a buffer or a window is full. Every
deferred call is a step of its own, in the order Go runs them.

**Engine** — flows of the guest through `handleTCP` and `handleUDP`, the dial,
the relay with its two copies and the context hook, and `Close` in its four
steps. `release` is two steps, because the slot goes back before the worker is
counted out. **Adapters** extends it with the two programs that own an engine:
the daemon, which closes it on a signal, and `qemuproxy.Run`, which moves frames
with a goroutine per direction, ends when the first of them does, waits for the
second and then closes the engine.

**Dialer** — the abstract specification of a dial: what the Forwarder relies on,
whichever client makes the tunnel. **BoundaryClient** models both clients, call by
call, and is shown to implement it. A call's context, the function `AfterFunc`
registers for it (which may have started when `stop` is called) and the
connection's deadline are state; over HTTP/2 so are the mutex, the shared session
and the limit on its streams. The loss of a session's transport (`SessionLost`) and the
library's noticing it (`SessionNoticed`: the read loop fails, or the PING after
`ReadIdleTimeout` is not answered) are two steps; between them the session is handed
out as if it were sound, and nothing on it is answered. The refinement maps `pc` to `call` and the expired
contexts to `expired`; the tunnel and the verdict are the same in both.

**Netns** — netnsproxy. `New` is a sequence of steps, each of which may fail or
conflict with what the namespace holds, and its undoing; `Close` cancels, then
closes the listeners; a UDP flow is an object with a queue and two goroutines, and
the table entry is a reference to it that the listener uses after the mutex is
released. What a worker does between its dial and its end is Engine's matter.

**Launcher** — the set-up of `runLauncher`, any step of which may fail, then
`runChild` with the kernel's signals, the agent and two orphans. A fatal signal before
`signal.Notify` ends the launcher by the Go runtime's default (`killed`).

**Egress** — VirtualDNS (by INSTANCE) composed with RequestHead and Policy
through the Forwarder's `targetHost` and the heads the clients write: what the
boundary decides when the guest dials any address it ever held.

**VirtualDNSProofs**, **PolicyProofs**, **EgressProofs**, **BoundaryProofs**,
**TunnelProofs**, **BoundaryClientProofs**, **AdaptersProofs** and **NetnsProofs** hold
the theorems about the modules they extend (section 4). AdaptersProofs has the
launcher's as well. PolicyProofs is extended by the proofs about Boundary and Egress,
which rest on what `authorize` decides.

Definitions marked `Mutant` are plausible bugs of the definition that follows
them; no specification uses them. They show that each property can fail.

## 3. Runs

| run | bounds | what it shows |
|---|---|---|
| `resolver` | 3 names, memory of 2, pools of 4 and 2 usable addresses, both families | eviction, re-resolution of a forgotten name, exhaustion in one family while the other still allocates |
| `policy` | all descriptors of up to 2 of 13 entries (5 of them invalid) with any exception, over a public and three special-purpose addresses; 8 hosts, ports 0 to 5 with MaxPort 4, both transports, 5 answers for a name; 12 basic heads with every single change of a part | heads against the wire's rules, `authorize` against the order-free reading |
| `boundary` | 2 connections of 2 streams, budget 1, both wires, with and without policy and UDP | budget, records, dials |
| `tunnel` | all 5 kinds, 1-chunk buffers, any number of chunks each way, 1 tick of idle time | completeness of half-close and response, termination |
| `adapters` | one flow of each kind, 2 sessions, both programs | counting, leaks, shutdown |
| `launcher` | 2 orphans, a channel of 2 signals, 2 fatal signals | confinement, exit status, merged and dropped signals |
| `egress` | 3 names of which one is another percent-encoded, memory of 1, 4 usable addresses, both wires, both transports | name recovery to decision |
| `netns` | 2 families, a namespace with any of its 5 resources taken, 1 TCP connection and 2 UDP keys for 2 slots, a queue of 1, 3 packets | rollback, budget, flow table, shutdown, idle flows |
| `client` | either client, 2 calls, 2 transports, 1 interim response | refinement of Dialer, sharing, loss and replacement of the session, termination |

Why the bounds are enough. Two names beyond a memory of one or two give every
order of eviction and return. Two rules are the smallest descriptor in which
order can matter, and rules interact only in pairs (the selected one against
one examined before it). Two clients against one slot give refusal, release and
reuse. One-chunk buffers make the second chunk block. Three flows and two
sessions give a full budget and its release; flows of one kind differ only by
name. Three packets give a flow its first, a second that finds the queue full or
the flow ended, and one that makes the key's next flow; a table entry can only be
mistaken for a later one of the same key, so two flow objects suffice. Two calls
race for one mutex, and one transport may break so that a second is needed.

A type invariant is part of a module's first counting property (`TypeOK`, in
Launcher `LaunchTypeOK`, is a conjunct of `CountsAreExact`, `EndsWithAgentsStatus` and `HalfCloseIsComplete`, and in
Boundary of `SpecialDialsAreListed`, because what a handler may dial has a type only
by what `authorize` returns). The proofs of the other modules have their own.

Deadlock is checked where the system never stops (`resolver`, `egress`). The
other specifications describe objects that end: a decided request, a closed
connection, a finished tunnel, a program that has returned, an exited launcher,
a dial that is over.

Symmetry: names in `resolver`, connections in `boundary`; neither run has a
liveness property.

**Fairness.** *Tunnel*: weak fairness of each goroutine (Go's scheduler runs a
runnable goroutine) and of the clock; none for the peers. *Engine and Adapters*:
weak fairness of each session's own work, of the context hook, which context
cancellation starts, and of the main goroutine; a dial and a handshake end within
their timeouts, so they count as work. A frame's write ends by its deadline; a
read is owed an end only once the stream is closed. None for the flows' peers, the
machine or the signal. *Netns*: one condition on everything the program does by
itself. That is enough because no goroutine can step for ever without a packet, and
packets are bounded; a packet's arrival, an upstream's end, a write to the boundary
and the call of Close are the environment's. *BoundaryClient*: weak fairness of
each call, of its timeout (the Forwarder's 15 s) and of its hook, and of the notice of
a lost session (`ReadIdleTimeout` and the library's PING timeout); the boundary need not
answer. `DialsReturn` says that a dial ends, not when: a call that waits for the mutex
is held by another's dial, whatever its own context says.
*Launcher*: weak fairness of the launcher only; the agent need
not end. The other modules have safety properties only and no fairness.

### Runs that find a disagreement

- `policy_order`: "Rules are unordered, and a request is allowed when any rule
  allows it" (spec/draft/policy.md). The code lets the first permitting rule's
  resolution decide. What does hold, for every order, is in `policy`: nothing
  is allowed that no rule admits, and what all permitting rules admit is allowed.
- `tunnel_h2_idle`: the idle timeout does not end an HTTP/2 tunnel whose handler
  is blocked writing to a client that does not read; `closeClient` is empty
  there. `IdleEndsUnlessBlocked` in `tunnel` is exactly what remains.
- `launcher_early_exit`: an agent that ends before `signal.Notify` is never
  reaped. The run uses the code's buffer of 16, so the cause is not a full
  channel. `PendingSignalSuffices` in `launcher` is what remains.

### Divergences seen while modelling, without a run

- adapters.md says that the boundary denies a stale synthetic address because its
  range is special-purpose. Literals are not compared with the special-purpose
  table: they are denied because no rule lists them, and a `cidr` rule that covers
  the synthetic range admits them. `StaleIsDenied` is therefore checked, and proved, for
  descriptors without such a rule.
- wire.md wants each component of a connect-udp path "decoded exactly once". The
  path is decoded when it is parsed and the host segment again by `masqueTarget`
  (main.go:484 to 502), so that the boundary decides about another name when one
  decoding leaves an escape. `Destination` decodes once, as the document says;
  `HeadsAreChecked` excepts such heads, and `NeverAnotherName` and `OnlyListedNames`
  except such names over UDP (`DecodedTwice`). `egress` has a name of this kind: without
  the exception both fail on it.
- For the same reason an address with a zone that is encoded once, as it should be, is
  refused as a malformed template and not with `scoped-ip`; encoded twice it gets
  `scoped-ip`.
- A CONNECT with an empty Host field is accepted like one of HTTP/1.0 without the
  field; wire.md wants the field to name the target.
- The ingress channel accepts HTTP/1.0, and answers a wrong method with 405 and a wrong
  version with 505, where ingress.md asks for 400 `malformed-request-line`.
- Both directions of a tunnel touch one watch. A client's EOF, or its last chunks, may
  therefore never reach an upstream that has stopped reading as long as it goes on
  sending: `EOFReachesUpstream` states this exception, and without it the run fails.
- A fatal signal between `cmd.Start` and `signal.Notify` ends the launcher with a status
  of its own while the agent may be running; the comment on `runChild` says that it
  forwards signals and returns the child's status. `EndsWithAgentsStatus` excepts it.
- A lost HTTP/2 session is handed out until the library notices, up to `ReadIdleTimeout`
  and the PING timeout later; calls that get it end by their own timeout.
  `LostSessionsAreGivenUp` states what does hold.
- Nothing bounds `WriteDatagram` in `RelayUDP`: a boundary that takes no more data
  holds a UDP flow, and its slot, until the adapter closes. `SilentFlowsEnd` says so.

## 4. Proofs

Every theorem is of the form `Spec => []P`, `Spec => [][A]_vars` or
`Spec => Abstract!Spec` (PolicyCheck and Launcher have `CheckSpec` and `LaunchSpec`),
and holds for every value of the constants that satisfies
the module's assumption: any number of names, flows, connections, calls or keys, any
budget, buffer or queue. The pattern is the same everywhere: an inductive invariant
(`...Inv`), a lemma that each action keeps it, a theorem `...Invariance`, and from it
the property. Each invariant was checked by TLC on the instance of the run first.

| module | proved |
|---|---|
| VirtualDNSProofs | type invariant, `IndicesAgree`, `StaleFailsClosed`, `ReservedNeverIssued`, `LeastRecentForgotten`, `NeverReissued`, `BindingsStable` |
| PolicyProofs | `AllowedByARule`, `RefusedAsSpecified`, `AllowedWhenAllAdmit`, `HeadsAreChecked` |
| EgressProofs | the composition implements the resolver; `NeverAnotherName`, `StaleIsDenied`, `OnlyListedNames` |
| BoundaryProofs | `SlotsCountConnections`, `RecordsAreTrue`, `SpecialDialsAreListed` |
| TunnelProofs | `HalfCloseIsComplete`, `ResponseIsComplete` |
| BoundaryClientProofs | `SessionsAreShared`, `ImplementsDialer` |
| AdaptersProofs | `CountsAreExact`, `NothingLeftOpen`, `CompletedOnce`, `StackOutlivesUsers`; of the launcher `AgentIsConfined`, `EndsWithAgentsStatus` |
| NetnsProofs | `SlotsAreExact`, `TableIsExact`, `RunLeavesNothing`, `NamespaceIsRestored` |

**Resolver.** Assumptions: `SizesAssumption` (the memory holds at least one name; the
reserved top begins inside the pool above its base) and `NilAssumption` (an absent
entry is not a name, an address or a binding). `IInv` is `TypeOK`, `IndicesAgree`,
`StaleFailsClosed` and `LeastRecentForgotten` with two strengthenings.
`IssuedUpToLast` (an issued offset is not beyond `last`) makes the next address new,
hence `StaleFailsClosed`, `NeverReissued` and `ReservedNeverIssued`. `OrderedByUse`
(the list is sorted by use) makes the back of the list the stalest name, hence
`LeastRecentForgotten` over an eviction. The lemmas on `MoveToFront`, `PushFront` and
`DropBack` say what these do to length, elements, injectivity and relative order.

**Policy.** The theorems compare what the code computes, rule by rule and table by
table, with the specification's reading of the descriptor as a set of entries, for any
number and order of rules, any answer of the resolver and any head. A loop of the code
is a recursive function in the model, defined by CHOOSE; `Loop` shows that a function
with its equations exists, and `UpTo` that what every turn keeps holds at the end. Both
follow from the least natural number outside a set, without an induction schema. With
them `TablesAreExact` gives the tables of `loadDescriptor` as sets of entries,
`SelectFacts` the rule or the reason that `selectRule` ends with, and `KeepFacts` what a
collecting loop keeps; `SuffixAppliesFacts` relates the suffix test, label by label, to
the specification's. `AuthorizeFacts` sums up: a request that is not well formed is
refused before the rules, and any other has one of the outcomes of `Outcome`.
`ParseFacts` does the same for heads: each list of checks fails at its first failing one
(`FirstFailureFacts`), and a head that passes names the destination it should, unless it
is one of those in `Deviates`.
`CheckInv` ties the verdict to the loaded descriptor and the request. Assumptions:
`PolicyAssumption`, `HeadAssumption` and `CheckAssumption` give the shape of entries,
heads and answers (a name has labels, an address text holds an address, at least one
port exists) and keep an absent value apart from all of them; none asks an entry or a
head to be valid.

**Egress.** `EgressUsesResolver` shows that the end-to-end composition implements
VirtualDNS. `NeverAnotherName` needs the resolver's `StaleFailsClosed` and
`IssuedUpToLast`, the fact that the connection's name stays the issued one through
later queries (`FlowIsNamed`), and that the boundary's parsers read back what the
clients write: `ConnectIsParsed` and `ConnectUDPIsParsed` go through every check of
`readHead`, `connectTarget`, `masqueTarget` and `serveH2`. `EgressAssumption` says that
synthetic addresses are special-purpose, that decoding a name once leaves no escape,
that ports are not above `MaxPort`, and that an absent value is none of the others.
`StaleIsDenied` and `OnlyListedNames` also need what `authorize` allows: a host that an
entry of the descriptor matches (`AllowedFacts`, kept by `FlowIsDecided`).
`DescriptorAssumption` says that the boundary's descriptor loads, without which it does
not start. Each has a hypothesis on the descriptor, without which it is false: no
literal rule lists an address of a pool (`PoolsAreUnlisted`), and for the second also
that names are listed one by one (`NamesAreExact`), since a `*` or suffix rule permits
names it does not spell out. EgressProofs and BoundaryProofs extend PolicyProofs for its
lemmas; none of their proofs uses `CheckAssumption`.

**Boundary.** `BoundaryInv` reads off a handler's place whether it has dialed, holds
an upstream and has left a record (`Recorded`), and says that a connection which was
recorded itself never had a handler (`SessionRecorded`). The verdict is arbitrary in
these proofs, so that no mistake in the policy can cost a slot or a record.
`SpecialDialsAreListed` is where it counts: `DialInv` says that what a handler has left
to dial, and what it has dialed, is `Dialable` for its own request, which
`AuthorizeFacts` gives when the handler decides and which the descriptor, fixed once
loaded, keeps true.

**Tunnel.** Both properties speak of the moment a copy ends and must survive every
later step. The invariant therefore says why a copy has ended: with its connections
alive it has seen its source's EOF with nothing unread (`UpIsDrained`,
`DownIsDrained`), and who can have closed a connection by then (`ClosingIsOrdered`).

**Clients.** The refinement needs to know what a call has armed: a hook that can still
run belongs to a call that is dialing or to a context that expired
(`CallsAreStaged`). The step simulation has one case per action; a step of a client
is a step of Dialer or changes nothing Dialer sees. For the sessions, no session is
usable while a call dials under the mutex, and one being set up is the holder's
(`MutexCoversDial`). The theorem covers the safety part of Dialer, which is all of it:
Dialer states no fairness.

**Adapters.** `FlowShape` gives the ends and the hook of a flow at every place of its
handler, `CloseIsOrdered` the progress of `Close`, and `ResultsAreExact` the results
that qemuproxy's goroutines have sent against those Run has received: Run has both
before it closes the engine. Counting uses the cardinality theorems for finite sets.

**Netns.** The table and the flows whose worker has not taken them out are each
other's inverse (`TableAgrees`); slots and WaitGroups are numbers of goroutines
(`SlotsAreCounted`, `WorkersAreCounted`); further parts say how far New, its undoing
and Close have come. `NetnsAssumption` wants at least one family, each connection and
key in one of them, and positive limits.

**Launcher.** Steps before the next one have been done but for `resolvConf`
(`SetupIsOrdered`); the agent has started only after all of them, and the launcher
reaps it only to exit with its status, and a launcher that a signal has killed had not
begun to forward or to reap (`AgentFollowsLauncher`).

### Only model-checked

- Liveness: `EOFReachesUpstream`, `IdleEndsUnlessBlocked`, `NothingLeftBehind`,
  `AdapterReturns`, `SessionsProceed`, `PendingSignalSuffices`, `RunReturnsAfterClose`,
  `SilentFlowsEnd`, `LostSessionsAreGivenUp`, `DialsReturn`. Fairness and ENABLED are out of the prover's reach.
- The three properties of the runs that find a disagreement, which are false.

## 5. Not modelled, and abstractions to know

- Byte formats: DNS messages, capsules, frames, and the text of request heads
  beyond what the checks tell apart. The capsule codec has no concurrency of its
  own; its unit tests and fuzzing reach its integer edges better than a model of
  bytes would.
- In `sameAuthority` an IPv4-mapped address differs from its IPv4 address; the
  models have one address for both, so a head with one of each is not told apart.
- A restart of an adapter that the guest outlives: the new resolver hands the same
  addresses out again. Nothing is persisted; the TTL, which dns.go gives this case as a
  reason to be short, bounds the time in which a guest's copy can mislead.
- The nftables expressions and socket options of netnsproxy: each is one step that
  succeeds or fails. The ingress accept loop and the answer after its failed dial.
- Durations. A timeout is a step that may happen; sequential dials that outlive
  their client are possible in Boundary, but no bound is stated.
- What TCP does to unread data when a connection is closed (a reset may destroy
  what the peer has not read yet): `ResponseIsComplete` speaks of what the
  boundary has written.
- `specialPurpose` asks for one range that contains a prefix; the model asks
  that all its addresses be special-purpose. Prefixes spanning two adjacent
  ranges are accepted by the model only.
- Panics, memory exhaustion, and the kernel's own failures outside the calls
  whose errors the code handles.
- Command wrappers, scenario programs, the conformance harness and the demo: no
  core logic of the SDK.

## 6. Plan

Modelled: every component of the SDK with state of its own, but for the accept loop
of the ingress channel and the capsule codec.

Proved: every invariant, action property and refinement that the passing runs check.

Theorems to come: an abstract store (a partial function from addresses to names that
only loses entries) refined by VirtualDNS; safety facts that the liveness properties
rest on, such as that a goroutine that can no longer step has ended or waits for a
peer (an invariant without ENABLED); the exact condition under which `AnyRuleAllows`
holds, as a theorem in place of the counterexample.
