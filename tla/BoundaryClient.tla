--------------------------- MODULE BoundaryClient ---------------------------
(***************************************************************************)
(* The two Dialers of sdk/pkg/tun2connect: BoundaryClient, one HTTP/1.1    *)
(* connection to the boundary per call, and BoundaryClientH2, a stream per *)
(* call on a session all calls share and replace under a mutex.  Both race *)
(* the caller's context, which the Forwarder always cancels once the dial  *)
(* has returned: what the dial armed for that context must be off by then. *)
(*                                                                         *)
(* A response is its class: an interim one, one that accepts (2xx, or 101  *)
(* with the Upgrade field for UDP over HTTP/1.1), any other final one, or  *)
(* none that can be read.                                                  *)
(***************************************************************************)
EXTENDS Integers, FiniteSets

CONSTANTS
    Calls,      \* calls of DialTCP and DialUDP
    Sessions,   \* bound: transports the HTTP/2 client opens
    MaxInterim, \* maxInterimResponses, 8
    None        \* nobody, no session

ASSUME ClientAssumption ==
    /\ Sessions \subseteq Nat /\ MaxInterim \in Nat /\ None \notin Calls \cup Sessions

VARIABLES
    client,     \* "h1" or "h2"
    \* every call
    pc,         \* pc[d]: where the call is
    ctx,        \* ctx[d]: "live", "expired" during the dial, "released" after
    hook,       \* hook[d]: the function AfterFunc registered: "off", "armed",
                \* "started" when stop came too late
    tunnel,     \* tunnel[d]: the connection or the stream, as in Dialer
    verdict,    \* verdict[d]: "none", "accepted"
    \* HTTP/1.1
    deadline,   \* deadline[d]: the connection has a deadline
    interim,    \* interim[d]: interim responses read
    \* HTTP/2
    mu,         \* who holds the client's mutex over a dial
    cc,         \* the session the client shares
    sess,       \* sess[s]: "none", "setup", "usable", "full", "spare" (was
                \* full), "broken"
    session,    \* session[d]: the session the call got
    lost        \* sessions whose transport carries nothing any more, noticed or not

h1Vars  == <<deadline, interim>>
h2Vars  == <<mu, cc, sess, session, lost>>
vars    == <<client, pc, ctx, hook, tunnel, verdict, h1Vars, h2Vars>>

Init ==
    /\ client \in {"h1", "h2"}
    /\ pc = [d \in Calls |-> "idle"] /\ ctx = [d \in Calls |-> "live"]
    /\ hook = [d \in Calls |-> "off"]
    /\ tunnel = [d \in Calls |-> "none"] /\ verdict = [d \in Calls |-> "none"]
    /\ deadline = [d \in Calls |-> FALSE] /\ interim = [d \in Calls |-> 0]
    /\ mu = None /\ cc = None /\ sess = [s \in Sessions |-> "none"]
    /\ session = [d \in Calls |-> None] /\ lost = {}

Dialing(d) == pc[d] \notin {"idle", "failed", "returned"}

-----------------------------------------------------------------------------
(* The caller: Forwarder.DialTCP and DialUDP *)

Start(d) ==
    /\ pc[d] = "idle"
    /\ pc' = [pc EXCEPT ![d] = IF client = "h1" THEN "dial" ELSE "lock"]
    /\ UNCHANGED <<client, ctx, hook, tunnel, verdict, h1Vars, h2Vars>>

\* The dial timeout passes, or the engine closes.
Expire(d) ==
    /\ Dialing(d) /\ ctx[d] = "live"
    /\ ctx' = [ctx EXCEPT ![d] = "expired"]
    /\ UNCHANGED <<client, pc, hook, tunnel, verdict, h1Vars, h2Vars>>

\* The deferred cancel of the Forwarder, after the dial.
Release(d) ==
    /\ pc[d] \in {"failed", "returned"} /\ ctx[d] = "live"
    /\ ctx' = [ctx EXCEPT ![d] = "released"]
    /\ UNCHANGED <<client, pc, hook, tunnel, verdict, h1Vars, h2Vars>>

\* The relay is over.
Close(d) ==
    /\ pc[d] = "returned" /\ tunnel[d] = "open"
    /\ tunnel' = [tunnel EXCEPT ![d] = "closed"]
    /\ UNCHANGED <<client, pc, ctx, hook, verdict, h1Vars, h2Vars>>

\* The ended context runs the function that AfterFunc registered.
RunHook(d) ==
    /\ hook[d] = "started" \/ (hook[d] = "armed" /\ ctx[d] # "live")
    /\ hook' = [hook EXCEPT ![d] = "off"]
    /\ tunnel' = [tunnel EXCEPT ![d] = IF @ = "open" THEN "aborted" ELSE @]
    /\ UNCHANGED <<client, pc, ctx, verdict, h1Vars, h2Vars>>

\* Mutant: the hook stays.
NoStop(d) == hook' = hook

\* stop(): too late when the context has ended and the hook has not run yet.
Stop(d) ==
    hook' = [hook EXCEPT ![d] = IF @ = "armed" /\ ctx[d] = "expired" THEN "started" ELSE "off"]

-----------------------------------------------------------------------------
(* BoundaryClient *)

\* DialBoundary fails.
DialFails(d) ==
    /\ pc[d] = "dial" /\ client = "h1"
    /\ pc' = [pc EXCEPT ![d] = "failed"]
    /\ UNCHANGED <<client, ctx, hook, tunnel, verdict, h1Vars, h2Vars>>

\* It succeeds, over vsock even after the context has ended.
DialBoundary(d) ==
    /\ pc[d] = "dial" /\ client = "h1"
    /\ tunnel' = [tunnel EXCEPT ![d] = "open"]
    /\ hook' = [hook EXCEPT ![d] = "armed"]
    /\ deadline' = [deadline EXCEPT ![d] = TRUE]
    /\ pc' = [pc EXCEPT ![d] = "write"]
    /\ UNCHANGED <<client, ctx, verdict, interim, h2Vars>>

WriteRequest(d) ==
    /\ pc[d] = "write" /\ tunnel[d] = "open"
    /\ pc' = [pc EXCEPT ![d] = "read"]
    /\ UNCHANGED <<client, ctx, hook, tunnel, verdict, h1Vars, h2Vars>>

\* Close the connection and report the failure.
CloseAndFail(d) ==
    /\ pc' = [pc EXCEPT ![d] = "failed"]
    /\ tunnel' = [tunnel EXCEPT ![d] = IF @ = "open" THEN "aborted" ELSE @]
    /\ Stop(d)
    /\ UNCHANGED <<client, ctx, verdict, h1Vars, h2Vars>>

\* The write or the read fails: the hook or the deadline has ended it, or the
\* boundary has closed or sent what is not a response.
ExchangeFails(d) == pc[d] \in {"write", "read"} /\ CloseAndFail(d)

\* readFinalResponse skips an interim response, up to a limit.
ReadInterim(d) ==
    /\ pc[d] = "read" /\ tunnel[d] = "open"
    /\ IF interim[d] >= MaxInterim
       THEN CloseAndFail(d)
       ELSE /\ interim' = [interim EXCEPT ![d] = @ + 1]
            /\ UNCHANGED <<client, pc, ctx, hook, tunnel, verdict, deadline, h2Vars>>

\* Mutant: the deadline of the dial stays on the tunnel.
ReadAcceptedKeepsDeadline(d) ==
    /\ pc[d] = "read" /\ tunnel[d] = "open"
    /\ verdict' = [verdict EXCEPT ![d] = "accepted"]
    /\ pc' = [pc EXCEPT ![d] = "stop"]
    /\ UNCHANGED <<client, ctx, hook, tunnel, h1Vars, h2Vars>>

\* The final response accepts: roundTrip clears the deadline.
ReadAccepted(d) ==
    /\ pc[d] = "read" /\ tunnel[d] = "open"
    /\ verdict' = [verdict EXCEPT ![d] = "accepted"]
    /\ deadline' = [deadline EXCEPT ![d] = FALSE]
    /\ pc' = [pc EXCEPT ![d] = "stop"]
    /\ UNCHANGED <<client, ctx, hook, tunnel, interim, h2Vars>>

\* The final response refuses, or is not the one this kind of tunnel needs.
ReadRefused(d) == pc[d] = "read" /\ tunnel[d] = "open" /\ CloseAndFail(d)

\* roundTrip returns; its deferred stop runs.
ReturnTunnel(d) ==
    /\ pc[d] = "stop"
    /\ pc' = [pc EXCEPT ![d] = "returned"]
    /\ Stop(d)
    /\ UNCHANGED <<client, ctx, tunnel, verdict, h1Vars, h2Vars>>

\* The deadline the connection has from the context passes: reads and writes
\* fail.
DeadlinePasses(d) ==
    /\ deadline[d] /\ ctx[d] # "live" /\ tunnel[d] = "open"
    /\ tunnel' = [tunnel EXCEPT ![d] = "aborted"]
    /\ UNCHANGED <<client, pc, ctx, hook, verdict, h1Vars, h2Vars>>

CallH1(d) ==
    \/ DialFails(d) \/ DialBoundary(d) \/ WriteRequest(d)
    \/ tunnel[d] # "open" /\ ExchangeFails(d)
    \/ client = "h1" /\ ReturnTunnel(d)

\* The boundary answers, or ends the connection.
BoundaryH1(d) == ReadInterim(d) \/ ReadAccepted(d) \/ ReadRefused(d) \/ ExchangeFails(d)

-----------------------------------------------------------------------------
(* BoundaryClientH2 *)

\* The library's ClientConn.CanTakeNewRequest, which goes by what the library
\* knows: a lost session passes until the loss is noticed.
CanTakeNewRequest(s) == s # None /\ sess[s] \in {"usable", "spare"}

\* session(): the mutex, and the shared session if it takes another stream;
\* otherwise the mutex is kept over the dial.
Lock(d) ==
    /\ pc[d] = "lock" /\ mu = None
    /\ IF CanTakeNewRequest(cc)
       THEN /\ session' = [session EXCEPT ![d] = cc]
            /\ pc' = [pc EXCEPT ![d] = "trip"]
            /\ UNCHANGED mu
       ELSE /\ mu' = d /\ pc' = [pc EXCEPT ![d] = "dial"]
            /\ UNCHANGED session
    /\ UNCHANGED <<client, ctx, hook, tunnel, verdict, h1Vars, cc, sess, lost>>

\* Mutant: the mutex is not held while the session is set up.
DialSessionUnlocked(d) ==
    /\ pc[d] = "dial" /\ client = "h2"
    /\ \E s \in Sessions :
        /\ sess[s] = "none" /\ \A r \in Sessions : sess[r] = "none" => s <= r
        /\ sess' = [sess EXCEPT ![s] = "setup"]
        /\ session' = [session EXCEPT ![d] = s]
    /\ pc' = [pc EXCEPT ![d] = "setup"]
    /\ mu' = None
    /\ UNCHANGED <<client, ctx, hook, tunnel, verdict, h1Vars, cc, lost>>

DialSession(d) ==
    /\ pc[d] = "dial" /\ client = "h2"
    /\ \E s \in Sessions :
        /\ sess[s] = "none" /\ \A r \in Sessions : sess[r] = "none" => s <= r
        /\ sess' = [sess EXCEPT ![s] = "setup"]
        /\ session' = [session EXCEPT ![d] = s]
    /\ pc' = [pc EXCEPT ![d] = "setup"]
    /\ UNCHANGED <<client, ctx, hook, tunnel, verdict, h1Vars, mu, cc, lost>>

\* DialBoundary fails, or later the TLS handshake, the protocol it negotiated
\* or NewClientConn, which close the transport.
SessionFails(d) ==
    /\ pc[d] \in {"dial", "setup"} /\ client = "h2"
    /\ sess' = IF pc[d] = "setup" THEN [sess EXCEPT ![session[d]] = "broken"] ELSE sess
    /\ session' = [session EXCEPT ![d] = None]
    /\ mu' = None
    /\ pc' = [pc EXCEPT ![d] = "failed"]
    /\ UNCHANGED <<client, ctx, hook, tunnel, verdict, h1Vars, cc, lost>>

ShareSession(d) ==
    /\ pc[d] = "setup"
    /\ sess' = [sess EXCEPT ![session[d]] = "usable"]
    /\ cc' = session[d] /\ mu' = None
    /\ pc' = [pc EXCEPT ![d] = "trip"]
    /\ UNCHANGED <<client, ctx, hook, tunnel, verdict, h1Vars, session, lost>>

\* Mutant: the stream's context never ends with the caller's.
OpenStreamDetached(d) ==
    /\ pc[d] = "trip" /\ CanTakeNewRequest(session[d])
    /\ tunnel' = [tunnel EXCEPT ![d] = "open"]
    /\ pc' = [pc EXCEPT ![d] = "wait"]
    /\ UNCHANGED <<client, ctx, hook, verdict, h1Vars, h2Vars>>

\* roundTrip: the stream has a context of its own that the caller's ends, at
\* once if it has ended already; the library opens the stream when the session,
\* checked before, still takes it, lost or not.
OpenStream(d) ==
    /\ pc[d] = "trip" /\ CanTakeNewRequest(session[d])
    /\ tunnel' = [tunnel EXCEPT ![d] = "open"]
    /\ hook' = [hook EXCEPT ![d] = "armed"]
    /\ pc' = [pc EXCEPT ![d] = "wait"]
    /\ UNCHANGED <<client, ctx, verdict, h1Vars, h2Vars>>

\* RoundTrip fails: the session has ended meanwhile or stays full until the
\* context ends, or the stream was canceled or dropped; cancel and pw.Close
\* follow.
TripFails(d) ==
    /\ \/ pc[d] = "trip" /\ (ctx[d] = "expired" \/ sess[session[d]] = "broken")
       \/ pc[d] = "wait" /\ tunnel[d] # "open"
    /\ CloseAndFail(d)

\* The boundary's answer, which a lost session does not bring.
StreamAccepted(d) ==
    /\ pc[d] = "wait" /\ tunnel[d] = "open" /\ session[d] \notin lost
    /\ verdict' = [verdict EXCEPT ![d] = "accepted"]
    /\ pc' = [pc EXCEPT ![d] = "stop"]
    /\ UNCHANGED <<client, ctx, hook, tunnel, h1Vars, h2Vars>>

StreamRefused(d) ==
    /\ pc[d] = "wait" /\ tunnel[d] = "open" /\ session[d] \notin lost
    /\ CloseAndFail(d)

CallH2(d) ==
    \/ Lock(d) \/ DialSession(d) \/ SessionFails(d) \/ ShareSession(d)
    \/ OpenStream(d) \/ TripFails(d) \/ (client = "h2" /\ ReturnTunnel(d))

Live(s) == sess[s] \in {"usable", "full", "spare"}

\* The transport of a session is lost.  Nobody is told.
SessionLost(s) ==
    /\ Live(s) /\ s \notin lost
    /\ lost' = lost \cup {s}
    /\ UNCHANGED <<client, pc, ctx, hook, tunnel, verdict, h1Vars, mu, cc, sess, session>>

\* Mutant: the PING is sent only while the session has no stream.
NoticedWhenUnused(s) ==
    /\ Live(s) /\ s \in lost /\ \A d \in Calls : session[d] = s => tunnel[d] # "open"
    /\ sess' = [sess EXCEPT ![s] = "broken"]
    /\ UNCHANGED <<client, pc, ctx, hook, tunnel, verdict, h1Vars, mu, cc, session, lost>>

\* The library notices: its read loop fails, or the PING it sends after
\* ReadIdleTimeout is not answered.  The streams end with the session.
SessionNoticed(s) ==
    /\ Live(s) /\ s \in lost
    /\ sess' = [sess EXCEPT ![s] = "broken"]
    /\ tunnel' = [d \in Calls |->
           IF session[d] = s /\ tunnel[d] = "open" THEN "dropped" ELSE tunnel[d]]
    /\ UNCHANGED <<client, pc, ctx, hook, verdict, h1Vars, mu, cc, session, lost>>

\* The boundary says GOAWAY: it takes no more streams and serves those it has.
GoAway(s) ==
    /\ Live(s) /\ s \notin lost
    /\ sess' = [sess EXCEPT ![s] = "broken"]
    /\ UNCHANGED <<client, pc, ctx, hook, tunnel, verdict, h1Vars, mu, cc, session, lost>>

\* The boundary's limit on streams is reached, or a stream ends.
SessionFills(s) ==
    /\ sess' = [sess EXCEPT ![s] =
          CASE @ \in {"usable", "spare"} -> "full" [] @ = "full" -> "spare" [] OTHER -> @]
    /\ UNCHANGED <<client, pc, ctx, hook, tunnel, verdict, h1Vars, mu, cc, session, lost>>

-----------------------------------------------------------------------------
\* The boundary ends one tunnel.
Drop(d) ==
    /\ tunnel[d] = "open" /\ session[d] \notin lost
    /\ tunnel' = [tunnel EXCEPT ![d] = "dropped"]
    /\ UNCHANGED <<client, pc, ctx, hook, verdict, h1Vars, h2Vars>>

Next ==
    \/ \E d \in Calls :
        \/ Start(d) \/ Expire(d) \/ Release(d) \/ Close(d) \/ Drop(d) \/ RunHook(d)
        \/ CallH1(d) \/ BoundaryH1(d) \/ DeadlinePasses(d)
        \/ CallH2(d) \/ StreamAccepted(d) \/ StreamRefused(d)
    \/ \E s \in Sessions : SessionLost(s) \/ SessionNoticed(s) \/ GoAway(s) \/ SessionFills(s)

\* Goroutines run, the library and the kernel end a dial one way or the other,
\* the Forwarder's timeout passes and so does the PING's.  The boundary need not
\* answer.
Spec ==
    /\ Init /\ [][Next]_vars
    /\ \A d \in Calls :
        WF_vars(CallH1(d)) /\ WF_vars(CallH2(d)) /\ WF_vars(Expire(d)) /\ WF_vars(RunHook(d))
    /\ \A s \in Sessions : WF_vars(SessionNoticed(s))

-----------------------------------------------------------------------------
(* Properties *)

Abstract == INSTANCE Dialer WITH
    call    <- [d \in Calls |->
                  CASE pc[d] \in {"idle", "failed", "returned"} -> pc[d] [] OTHER -> "dialing"],
    expired <- {d \in Calls : ctx[d] = "expired"}

\* Both clients keep the Dialer's promise: nothing a failed call opened stays
\* open, only accepted tunnels are returned, and neither the context the
\* Forwarder cancels after the dial nor its deadline reaches a tunnel that was
\* returned in time.
ImplementsDialer == Abstract!Spec

\* connect_h2.go: "multiplexes every flow over ONE HTTP/2 session".  However
\* many calls find the session gone at the same time, one sets up a new one and
\* the others share it; no transport is left in between.
SessionsAreShared ==
    LET fresh == {s \in Sessions : sess[s] \in {"setup", "usable"}}
    IN  /\ Cardinality(fresh) <= 1
        /\ \A s \in fresh : cc = s \/ (mu # None /\ session[mu] = s)

\* A lost session is still handed out until the library notices, and the calls
\* that get it wait in vain; but it is given up for good: from some time on no
\* call gets it, and no tunnel on it, dialing or returned, is left open for its
\* relay to wait on.
LostSessionsAreGivenUp ==
    \A s \in Sessions : s \in lost ~>
        [](~CanTakeNewRequest(s) /\ \A d \in Calls : session[d] = s => tunnel[d] # "open")

\* Every dial ends, whether the boundary answers or not, also while another
\* holds the mutex over its own dial.
DialsReturn == \A d \in Calls : Dialing(d) ~> pc[d] \in {"failed", "returned"}
=============================================================================
