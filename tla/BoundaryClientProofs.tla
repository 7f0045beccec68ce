------------------------ MODULE BoundaryClientProofs ------------------------
(***************************************************************************)
(* Theorems about the two CONNECT clients (module BoundaryClient), for any *)
(* number of calls, sessions and interim responses: both implement Dialer, *)
(* and the HTTP/2 client shares one fresh session.                         *)
(*                                                                         *)
(* The refinement needs to know what a call has armed at each of its       *)
(* steps: a hook that can still run belongs to a call that is dialing or   *)
(* to a context that expired (CallsAreStaged).  The sessions need to know  *)
(* who holds the mutex: while a call dials under it no session is usable,  *)
(* so the one it sets up is the only one (MutexCoversDial).                *)
(***************************************************************************)
EXTENDS BoundaryClient, FiniteSetTheorems, TLAPS

ClientTypeOK ==
    /\ client \in {"h1", "h2"}
    /\ pc \in [Calls -> {"idle", "dial", "write", "read", "stop", "lock", "setup", "trip", "wait",
                         "failed", "returned"}]
    /\ ctx \in [Calls -> {"live", "expired", "released"}]
    /\ hook \in [Calls -> {"off", "armed", "started"}]
    /\ tunnel \in [Calls -> {"none", "open", "aborted", "dropped", "closed"}]
    /\ verdict \in [Calls -> {"none", "accepted"}]
    /\ deadline \in [Calls -> BOOLEAN] /\ interim \in [Calls -> Nat]
    /\ mu \in Calls \cup {None} /\ cc \in Sessions \cup {None}
    /\ sess \in [Sessions -> {"none", "setup", "usable", "full", "spare", "broken"}]
    /\ session \in [Calls -> Sessions \cup {None}] /\ lost \subseteq Sessions

\* What a call has opened, armed and read at each of its steps.
Staged(d) ==
    /\ client = "h1" => pc[d] \notin {"lock", "setup", "trip", "wait"}
    /\ client = "h2" => pc[d] \notin {"write", "read"}
    /\ pc[d] \in {"idle", "dial", "lock", "setup", "trip"} =>
        tunnel[d] = "none" /\ hook[d] = "off" /\ deadline[d] = FALSE
    /\ verdict[d] = "accepted" <=> pc[d] \in {"stop", "returned"}
    /\ pc[d] = "failed" => tunnel[d] # "open"
    /\ ctx[d] # "live" => pc[d] # "idle"
    /\ ctx[d] = "released" => pc[d] \in {"failed", "returned"}
    /\ hook[d] = "armed" => pc[d] \in {"write", "read", "wait", "stop"}
    /\ hook[d] = "started" => ctx[d] = "expired"
    /\ deadline[d] = TRUE => pc[d] \in {"write", "read", "failed"}

CallsAreStaged == \A d \in Calls : Staged(d)

\* The mutex is held over a dial and its set-up, and only then; meanwhile no
\* session is usable, and a session being set up is the holder's.  A usable
\* session is the shared one.
MutexCoversDial ==
    /\ \A d \in Calls : client = "h2" /\ pc[d] \in {"dial", "setup"} <=> mu = d
    /\ mu # None => \A s \in Sessions : sess[s] # "usable"
    /\ \A d \in Calls : pc[d] = "setup" => session[d] \in Sessions /\ sess[session[d]] = "setup"
    /\ \A s \in Sessions : sess[s] = "setup" => mu # None /\ pc[mu] = "setup" /\ session[mu] = s
    /\ \A s \in Sessions : sess[s] = "usable" => cc = s

ClientInv == ClientTypeOK /\ CallsAreStaged /\ MutexCoversDial

-----------------------------------------------------------------------------
(* Every step keeps the invariant *)

\* A call that fails closes what it has opened; its hook is off or harmless.
LEMMA FailKeepsInv ==
    ASSUME ClientInv, NEW d \in Calls, pc[d] \in {"write", "read", "trip", "wait"}, CloseAndFail(d)
    PROVE  ClientInv'
  <1> USE ClientAssumption DEF ClientInv, h1Vars, h2Vars
  <1>1. ClientTypeOK'
    BY DEF ClientTypeOK, MutexCoversDial, CloseAndFail, Stop
  <1>2. CallsAreStaged'
    BY DEF CallsAreStaged, Staged, ClientTypeOK, CloseAndFail, Stop
  <1>3. MutexCoversDial'
    BY DEF MutexCoversDial, CallsAreStaged, Staged, ClientTypeOK, CloseAndFail, Stop
  <1> QED  BY <1>1, <1>2, <1>3

\* A call begins with nothing open and nothing armed.
LEMMA StartKeepsInv ==
    ASSUME ClientInv, NEW d \in Calls, Start(d)
    PROVE  ClientInv'
  <1> USE ClientAssumption DEF ClientInv, h1Vars, h2Vars
  <1>1. ClientTypeOK'
    BY DEF ClientTypeOK, MutexCoversDial, Start
  <1>2. CallsAreStaged'
    BY DEF CallsAreStaged, Staged, ClientTypeOK, Start
  <1>3. MutexCoversDial'
    BY DEF MutexCoversDial, CallsAreStaged, Staged, ClientTypeOK, Start
  <1> QED  BY <1>1, <1>2, <1>3

\* The context ends during the dial.
LEMMA ExpireKeepsInv ==
    ASSUME ClientInv, NEW d \in Calls, Expire(d)
    PROVE  ClientInv'
  <1> USE ClientAssumption DEF ClientInv, h1Vars, h2Vars
  <1>1. ClientTypeOK'
    BY DEF ClientTypeOK, MutexCoversDial, Expire, Dialing
  <1>2. CallsAreStaged'
    BY DEF CallsAreStaged, Staged, ClientTypeOK, Expire, Dialing
  <1>3. MutexCoversDial'
    BY DEF MutexCoversDial, CallsAreStaged, Staged, ClientTypeOK, Expire, Dialing
  <1> QED  BY <1>1, <1>2, <1>3

\* The Forwarder cancels the context once the dial has returned.
LEMMA ReleaseKeepsInv ==
    ASSUME ClientInv, NEW d \in Calls, Release(d)
    PROVE  ClientInv'
  <1> USE ClientAssumption DEF ClientInv, h1Vars, h2Vars
  <1>1. ClientTypeOK'
    BY DEF ClientTypeOK, MutexCoversDial, Release
  <1>2. CallsAreStaged'
    BY DEF CallsAreStaged, Staged, ClientTypeOK, Release
  <1>3. MutexCoversDial'
    BY DEF MutexCoversDial, CallsAreStaged, Staged, ClientTypeOK, Release
  <1> QED  BY <1>1, <1>2, <1>3

\* The caller closes a tunnel it was given.
LEMMA CloseKeepsInv ==
    ASSUME ClientInv, NEW d \in Calls, Close(d)
    PROVE  ClientInv'
  <1> USE ClientAssumption DEF ClientInv, h1Vars, h2Vars
  <1>1. ClientTypeOK'
    BY DEF ClientTypeOK, MutexCoversDial, Close
  <1>2. CallsAreStaged'
    BY DEF CallsAreStaged, Staged, ClientTypeOK, Close
  <1>3. MutexCoversDial'
    BY DEF MutexCoversDial, CallsAreStaged, Staged, ClientTypeOK, Close
  <1> QED  BY <1>1, <1>2, <1>3

\* The boundary ends a tunnel.
LEMMA DropKeepsInv ==
    ASSUME ClientInv, NEW d \in Calls, Drop(d)
    PROVE  ClientInv'
  <1> USE ClientAssumption DEF ClientInv, h1Vars, h2Vars
  <1>1. ClientTypeOK'
    BY DEF ClientTypeOK, MutexCoversDial, Drop
  <1>2. CallsAreStaged'
    BY DEF CallsAreStaged, Staged, ClientTypeOK, Drop
  <1>3. MutexCoversDial'
    BY DEF MutexCoversDial, CallsAreStaged, Staged, ClientTypeOK, Drop
  <1> QED  BY <1>1, <1>2, <1>3

\* An armed or started hook belongs to an expired context.
LEMMA RunHookKeepsInv ==
    ASSUME ClientInv, NEW d \in Calls, RunHook(d)
    PROVE  ClientInv'
  <1> USE ClientAssumption DEF ClientInv, h1Vars, h2Vars
  <1>1. ClientTypeOK'
    BY DEF ClientTypeOK, MutexCoversDial, RunHook
  <1>2. CallsAreStaged'
    BY DEF CallsAreStaged, Staged, ClientTypeOK, RunHook
  <1>3. MutexCoversDial'
    BY DEF MutexCoversDial, CallsAreStaged, Staged, ClientTypeOK, RunHook
  <1> QED  BY <1>1, <1>2, <1>3

\* A failed dial of HTTP/1.1.
LEMMA DialFailsKeepsInv ==
    ASSUME ClientInv, NEW d \in Calls, DialFails(d)
    PROVE  ClientInv'
  <1> USE ClientAssumption DEF ClientInv, h1Vars, h2Vars
  <1>1. ClientTypeOK'
    BY DEF ClientTypeOK, MutexCoversDial, DialFails
  <1>2. CallsAreStaged'
    BY DEF CallsAreStaged, Staged, ClientTypeOK, DialFails
  <1>3. MutexCoversDial'
    BY DEF MutexCoversDial, CallsAreStaged, Staged, ClientTypeOK, DialFails
  <1> QED  BY <1>1, <1>2, <1>3

\* The hook and the deadline are armed with the connection.
LEMMA DialBoundaryKeepsInv ==
    ASSUME ClientInv, NEW d \in Calls, DialBoundary(d)
    PROVE  ClientInv'
  <1> USE ClientAssumption DEF ClientInv, h1Vars, h2Vars
  <1>1. ClientTypeOK'
    BY DEF ClientTypeOK, MutexCoversDial, DialBoundary
  <1>2. CallsAreStaged'
    BY DEF CallsAreStaged, Staged, ClientTypeOK, DialBoundary
  <1>3. MutexCoversDial'
    BY DEF MutexCoversDial, CallsAreStaged, Staged, ClientTypeOK, DialBoundary
  <1> QED  BY <1>1, <1>2, <1>3

\* The request is written.
LEMMA WriteRequestKeepsInv ==
    ASSUME ClientInv, NEW d \in Calls, WriteRequest(d)
    PROVE  ClientInv'
  <1> USE ClientAssumption DEF ClientInv, h1Vars, h2Vars
  <1>1. ClientTypeOK'
    BY DEF ClientTypeOK, MutexCoversDial, WriteRequest
  <1>2. CallsAreStaged'
    BY DEF CallsAreStaged, Staged, ClientTypeOK, WriteRequest
  <1>3. MutexCoversDial'
    BY DEF MutexCoversDial, CallsAreStaged, Staged, ClientTypeOK, WriteRequest
  <1> QED  BY <1>1, <1>2, <1>3

\* The deadline is off once the response accepts.
LEMMA ReadAcceptedKeepsInv ==
    ASSUME ClientInv, NEW d \in Calls, ReadAccepted(d)
    PROVE  ClientInv'
  <1> USE ClientAssumption DEF ClientInv, h1Vars, h2Vars
  <1>1. ClientTypeOK'
    BY DEF ClientTypeOK, MutexCoversDial, ReadAccepted
  <1>2. CallsAreStaged'
    BY DEF CallsAreStaged, Staged, ClientTypeOK, ReadAccepted
  <1>3. MutexCoversDial'
    BY DEF MutexCoversDial, CallsAreStaged, Staged, ClientTypeOK, ReadAccepted
  <1> QED  BY <1>1, <1>2, <1>3

\* The hook is off, or has started, once the tunnel is returned.
LEMMA ReturnTunnelKeepsInv ==
    ASSUME ClientInv, NEW d \in Calls, ReturnTunnel(d)
    PROVE  ClientInv'
  <1> USE ClientAssumption DEF ClientInv, h1Vars, h2Vars
  <1>1. ClientTypeOK'
    BY DEF ClientTypeOK, MutexCoversDial, ReturnTunnel, Stop
  <1>2. CallsAreStaged'
    BY DEF CallsAreStaged, Staged, ClientTypeOK, ReturnTunnel, Stop
  <1>3. MutexCoversDial'
    BY DEF MutexCoversDial, CallsAreStaged, Staged, ClientTypeOK, ReturnTunnel, Stop
  <1> QED  BY <1>1, <1>2, <1>3

\* The deadline passes.
LEMMA DeadlinePassesKeepsInv ==
    ASSUME ClientInv, NEW d \in Calls, DeadlinePasses(d)
    PROVE  ClientInv'
  <1> USE ClientAssumption DEF ClientInv, h1Vars, h2Vars
  <1>1. ClientTypeOK'
    BY DEF ClientTypeOK, MutexCoversDial, DeadlinePasses
  <1>2. CallsAreStaged'
    BY DEF CallsAreStaged, Staged, ClientTypeOK, DeadlinePasses
  <1>3. MutexCoversDial'
    BY DEF MutexCoversDial, CallsAreStaged, Staged, ClientTypeOK, DeadlinePasses
  <1> QED  BY <1>1, <1>2, <1>3

\* The mutex and the shared session.
LEMMA LockKeepsInv ==
    ASSUME ClientInv, NEW d \in Calls, Lock(d)
    PROVE  ClientInv'
  <1> USE ClientAssumption DEF ClientInv, h1Vars, h2Vars
  <1>1. ClientTypeOK'
    BY DEF ClientTypeOK, MutexCoversDial, Lock, CanTakeNewRequest
  <1>2. CallsAreStaged'
    BY DEF CallsAreStaged, Staged, ClientTypeOK, Lock, CanTakeNewRequest
  <1>3. MutexCoversDial'
    BY DEF MutexCoversDial, CallsAreStaged, Staged, ClientTypeOK,
        Lock, CanTakeNewRequest
  <1> QED  BY <1>1, <1>2, <1>3

\* The holder of the mutex dials.
LEMMA DialSessionKeepsInv ==
    ASSUME ClientInv, NEW d \in Calls, DialSession(d)
    PROVE  ClientInv'
  <1> USE ClientAssumption DEF ClientInv, h1Vars, h2Vars
  <1>1. ClientTypeOK'
    BY DEF ClientTypeOK, MutexCoversDial, DialSession
  <1>2. CallsAreStaged'
    BY DEF CallsAreStaged, Staged, ClientTypeOK, DialSession
  <1>3. MutexCoversDial'
    BY DEF MutexCoversDial, CallsAreStaged, Staged, ClientTypeOK, DialSession
  <1> QED  BY <1>1, <1>2, <1>3

\* The holder of the mutex gives up.
LEMMA SessionFailsKeepsInv ==
    ASSUME ClientInv, NEW d \in Calls, SessionFails(d)
    PROVE  ClientInv'
  <1> USE ClientAssumption DEF ClientInv, h1Vars, h2Vars
  <1>1. ClientTypeOK'
    BY DEF ClientTypeOK, MutexCoversDial, SessionFails
  <1>2. CallsAreStaged'
    BY DEF CallsAreStaged, Staged, ClientTypeOK, SessionFails
  <1>3. MutexCoversDial'
    BY DEF MutexCoversDial, CallsAreStaged, Staged, ClientTypeOK, SessionFails
  <1> QED  BY <1>1, <1>2, <1>3

\* The holder of the mutex shares its session.
LEMMA ShareSessionKeepsInv ==
    ASSUME ClientInv, NEW d \in Calls, ShareSession(d)
    PROVE  ClientInv'
  <1> USE ClientAssumption DEF ClientInv, h1Vars, h2Vars
  <1>1. ClientTypeOK'
    BY DEF ClientTypeOK, MutexCoversDial, ShareSession
  <1>2. CallsAreStaged'
    BY DEF CallsAreStaged, Staged, ClientTypeOK, ShareSession
  <1>3. MutexCoversDial'
    BY DEF MutexCoversDial, CallsAreStaged, Staged, ClientTypeOK, ShareSession
  <1> QED  BY <1>1, <1>2, <1>3

\* The hook is armed with the stream.
LEMMA OpenStreamKeepsInv ==
    ASSUME ClientInv, NEW d \in Calls, OpenStream(d)
    PROVE  ClientInv'
  <1> USE ClientAssumption DEF ClientInv, h1Vars, h2Vars
  <1>1. ClientTypeOK'
    BY DEF ClientTypeOK, MutexCoversDial, OpenStream, CanTakeNewRequest
  <1>2. CallsAreStaged'
    BY DEF CallsAreStaged, Staged, ClientTypeOK, OpenStream, CanTakeNewRequest
  <1>3. MutexCoversDial'
    BY DEF MutexCoversDial, CallsAreStaged, Staged, ClientTypeOK,
        OpenStream, CanTakeNewRequest
  <1> QED  BY <1>1, <1>2, <1>3

\* The stream is accepted.
LEMMA StreamAcceptedKeepsInv ==
    ASSUME ClientInv, NEW d \in Calls, StreamAccepted(d)
    PROVE  ClientInv'
  <1> USE ClientAssumption DEF ClientInv, h1Vars, h2Vars
  <1>1. ClientTypeOK'
    BY DEF ClientTypeOK, MutexCoversDial, StreamAccepted
  <1>2. CallsAreStaged'
    BY DEF CallsAreStaged, Staged, ClientTypeOK, StreamAccepted
  <1>3. MutexCoversDial'
    BY DEF MutexCoversDial, CallsAreStaged, Staged, ClientTypeOK, StreamAccepted
  <1> QED  BY <1>1, <1>2, <1>3

\* A loss changes nothing the client knows.
LEMMA SessionLostKeepsInv ==
    ASSUME ClientInv, NEW s \in Sessions, SessionLost(s)
    PROVE  ClientInv'
  <1> USE ClientAssumption DEF ClientInv, h1Vars, h2Vars
  <1>1. ClientTypeOK'
    BY DEF ClientTypeOK, MutexCoversDial, SessionLost, Live
  <1>2. CallsAreStaged'
    BY DEF CallsAreStaged, Staged, ClientTypeOK, SessionLost, Live
  <1>3. MutexCoversDial'
    BY DEF MutexCoversDial, CallsAreStaged, Staged, ClientTypeOK, SessionLost, Live
  <1> QED  BY <1>1, <1>2, <1>3

\* A session that is given up was not being set up.
LEMMA SessionNoticedKeepsInv ==
    ASSUME ClientInv, NEW s \in Sessions, SessionNoticed(s)
    PROVE  ClientInv'
  <1> USE ClientAssumption DEF ClientInv, h1Vars, h2Vars
  <1>1. ClientTypeOK'
    BY DEF ClientTypeOK, MutexCoversDial, SessionNoticed, Live
  <1>2. CallsAreStaged'
    BY DEF CallsAreStaged, Staged, ClientTypeOK, SessionNoticed, Live
  <1>3. MutexCoversDial'
    BY DEF MutexCoversDial, CallsAreStaged, Staged, ClientTypeOK, SessionNoticed, Live
  <1> QED  BY <1>1, <1>2, <1>3

\* See SessionNoticedKeepsInv.
LEMMA GoAwayKeepsInv ==
    ASSUME ClientInv, NEW s \in Sessions, GoAway(s)
    PROVE  ClientInv'
  <1> USE ClientAssumption DEF ClientInv, h1Vars, h2Vars
  <1>1. ClientTypeOK'
    BY DEF ClientTypeOK, MutexCoversDial, GoAway, Live
  <1>2. CallsAreStaged'
    BY DEF CallsAreStaged, Staged, ClientTypeOK, GoAway, Live
  <1>3. MutexCoversDial'
    BY DEF MutexCoversDial, CallsAreStaged, Staged, ClientTypeOK, GoAway, Live
  <1> QED  BY <1>1, <1>2, <1>3

\* A full session never becomes one that is preferred to a dial already under way.
LEMMA SessionFillsKeepsInv ==
    ASSUME ClientInv, NEW s \in Sessions, SessionFills(s)
    PROVE  ClientInv'
  <1> USE ClientAssumption DEF ClientInv, h1Vars, h2Vars
  <1>1. ClientTypeOK'
    BY DEF ClientTypeOK, MutexCoversDial, SessionFills
  <1>2. CallsAreStaged'
    BY DEF CallsAreStaged, Staged, ClientTypeOK, SessionFills
  <1>3. MutexCoversDial'
    BY DEF MutexCoversDial, CallsAreStaged, Staged, ClientTypeOK, SessionFills
  <1> QED  BY <1>1, <1>2, <1>3

\* An interim response within the limit changes only their count.
LEMMA ReadInterimKeepsInv ==
    ASSUME ClientInv, NEW d \in Calls, ReadInterim(d), interim[d] < MaxInterim
    PROVE  ClientInv'
  <1>1. /\ interim' = [interim EXCEPT ![d] = @ + 1]
        /\ UNCHANGED <<client, pc, ctx, hook, tunnel, verdict, deadline, mu, cc, sess, session,
               lost>>
    <2>1. interim[d] \in Nat /\ MaxInterim \in Nat
      BY ClientAssumption DEF ClientInv, ClientTypeOK
    <2> QED  BY <2>1 DEF ReadInterim, h2Vars
  <1>2. ClientTypeOK'
    BY <1>1 DEF ClientInv, ClientTypeOK
  <1> QED  BY <1>1, <1>2 DEF ClientInv, CallsAreStaged, Staged, MutexCoversDial

\* One step of any call, session or caller.
LEMMA StepKeepsInv == ClientInv /\ [Next]_vars => ClientInv'
  <1> SUFFICES ASSUME ClientInv, [Next]_vars PROVE ClientInv'
    OBVIOUS
  <1>1. ASSUME NEW d \in Calls,
               Start(d) \/ Expire(d) \/ Release(d) \/ Close(d) \/ Drop(d) \/ RunHook(d)
        PROVE  ClientInv'
    BY <1>1, StartKeepsInv, ExpireKeepsInv, ReleaseKeepsInv, CloseKeepsInv, DropKeepsInv, RunHookKeepsInv
  <1>2. ASSUME NEW d \in Calls, CallH1(d)
        PROVE  ClientInv'
    BY <1>2, DialFailsKeepsInv, DialBoundaryKeepsInv, WriteRequestKeepsInv, FailKeepsInv,
        ReturnTunnelKeepsInv DEF CallH1, ExchangeFails
  <1>3. ASSUME NEW d \in Calls, BoundaryH1(d)
        PROVE  ClientInv'
    <2>1. CASE ReadInterim(d)
      <3>1. pc[d] = "read" /\ interim[d] \in Nat /\ MaxInterim \in Nat
        BY <2>1, ClientAssumption DEF ReadInterim, ClientInv, ClientTypeOK
      <3>2. CASE interim[d] >= MaxInterim
        BY <2>1, <3>1, <3>2, FailKeepsInv DEF ReadInterim
      <3>3. CASE interim[d] < MaxInterim
        BY <2>1, <3>3, ReadInterimKeepsInv
      <3> QED  BY <3>1, <3>2, <3>3
    <2>2. CASE ReadAccepted(d)
      BY <2>2, ReadAcceptedKeepsInv
    <2>3. CASE ReadRefused(d) \/ ExchangeFails(d)
      BY <2>3, FailKeepsInv DEF ReadRefused, ExchangeFails
    <2> QED  BY <1>3, <2>1, <2>2, <2>3 DEF BoundaryH1
  <1>4. ASSUME NEW d \in Calls, DeadlinePasses(d)
        PROVE  ClientInv'
    BY <1>4, DeadlinePassesKeepsInv
  <1>5. ASSUME NEW d \in Calls, CallH2(d)
        PROVE  ClientInv'
    BY <1>5, LockKeepsInv, DialSessionKeepsInv, SessionFailsKeepsInv, ShareSessionKeepsInv,
        OpenStreamKeepsInv, FailKeepsInv, ReturnTunnelKeepsInv DEF CallH2, TripFails
  <1>6. ASSUME NEW d \in Calls, StreamAccepted(d) \/ StreamRefused(d)
        PROVE  ClientInv'
    BY <1>6, StreamAcceptedKeepsInv, FailKeepsInv DEF StreamRefused
  <1>7. ASSUME NEW s \in Sessions, SessionLost(s) \/ SessionNoticed(s) \/ GoAway(s) \/ SessionFills(s)
        PROVE  ClientInv'
    BY <1>7, SessionLostKeepsInv, SessionNoticedKeepsInv, GoAwayKeepsInv, SessionFillsKeepsInv
  <1>8. CASE UNCHANGED vars
    BY <1>8 DEF vars, h1Vars, h2Vars, ClientInv, ClientTypeOK, CallsAreStaged, Staged,
        MutexCoversDial
  <1> QED  BY <1>1, <1>2, <1>3, <1>4, <1>5, <1>6, <1>7, <1>8 DEF Next

-----------------------------------------------------------------------------
(* Theorems: the sessions *)

\* The invariant holds in every state.
THEOREM ClientInvariance == Spec => []ClientInv
  <1>1. Init => ClientInv
    BY ClientAssumption DEF Init, ClientInv, ClientTypeOK, CallsAreStaged, Staged, MutexCoversDial
  <1> QED  BY <1>1, StepKeepsInv, PTL DEF Spec

\* session() of BoundaryClientH2: however many calls find the session gone,
\* there is at most one that is being set up or still fresh, and it is shared
\* or its set-up holds the mutex.
THEOREM ClientSharesSessions == Spec => []SessionsAreShared
  <1>1. ClientInv => SessionsAreShared
    <2> SUFFICES ASSUME ClientInv PROVE SessionsAreShared
      OBVIOUS
    <2> DEFINE fresh == {s \in Sessions : sess[s] \in {"setup", "usable"}}
    <2>1. \A s, r \in fresh : s = r
      BY DEF ClientInv, MutexCoversDial
    <2>2. fresh = {} \/ \E s \in fresh : fresh = {s}
      BY <2>1
    <2>3. Cardinality(fresh) <= 1
      <3>1. CASE fresh = {}
        BY <3>1, FS_EmptySet
      <3>2. ASSUME NEW s \in fresh, fresh = {s} PROVE Cardinality(fresh) <= 1
        BY <3>2, FS_Singleton
      <3> QED  BY <2>2, <3>1, <3>2
    <2>4. \A s \in fresh : cc = s \/ (mu # None /\ session[mu] = s)
      BY DEF ClientInv, MutexCoversDial
    <2> QED  BY <2>3, <2>4 DEF SessionsAreShared
  <1> QED  BY <1>1, ClientInvariance, PTL

-----------------------------------------------------------------------------
(* Theorems: both clients implement Dialer *)

\* What a caller sees of a call's step, and of all calls: the substitution for
\* the variable call of Dialer.
Seen(p)  == IF p \in {"idle", "failed", "returned"} THEN p ELSE "dialing"
SeenCall == [d \in Calls |->
    CASE pc[d] \in {"idle", "failed", "returned"} -> pc[d] [] OTHER -> "dialing"]

\* The two agree.
LEMMA CallIsSeen ==
    ASSUME NEW d \in Calls
    PROVE  SeenCall[d] = Seen(pc[d])
  BY DEF Seen, SeenCall

\* A step of one call moves that call only, and is not seen within the dial.
LEMMA CallMoves ==
    ASSUME ClientTypeOK, NEW d \in Calls, NEW to, pc' = [pc EXCEPT ![d] = to]
    PROVE  /\ SeenCall' = [SeenCall EXCEPT ![d] = Seen(to)]
           /\ Seen(to) = Seen(pc[d]) => SeenCall' = SeenCall
  <1>1. SeenCall' = [SeenCall EXCEPT ![d] = Seen(to)]
    BY DEF ClientTypeOK, Seen, SeenCall
  <1>2. SeenCall = [e \in Calls |-> SeenCall[e]] /\ SeenCall[d] = Seen(pc[d])
    BY DEF Seen, SeenCall
  <1> QED  BY <1>1, <1>2

\* Contexts and calls that do not change are seen not to.
LEMMA SeenStutters ==
    ASSUME SeenCall' = SeenCall, UNCHANGED <<verdict, tunnel>>,
           \A d \in Calls : ctx'[d] = "expired" <=> ctx[d] = "expired"
    PROVE  UNCHANGED Abstract!vars
  BY DEF Abstract!vars, SeenCall

\* A call begins.
LEMMA StartSimulates ==
    ASSUME ClientInv, NEW d \in Calls, Start(d)
    PROVE  Abstract!Start(d)
  <1>1. pc[d] = "idle" /\ \E to \in {"dial", "lock"} : pc' = [pc EXCEPT ![d] = to]
    BY DEF Start
  <1>2. UNCHANGED <<ctx, verdict, tunnel>>
    BY DEF Start
  <1> QED  BY <1>1, <1>2, CallIsSeen, CallMoves DEF Abstract!Start, ClientInv, SeenCall, Seen

\* The context ends during the dial.
LEMMA ExpireSimulates ==
    ASSUME ClientInv, NEW d \in Calls, Expire(d)
    PROVE  Abstract!Expire(d)
  <1>1. Seen(pc[d]) = "dialing"
    BY DEF Expire, Dialing, Seen
  <1>2. {e \in Calls : ctx'[e] = "expired"} = {e \in Calls : ctx[e] = "expired"} \cup {d}
    BY DEF Expire, ClientInv, ClientTypeOK
  <1>3. UNCHANGED <<pc, verdict, tunnel>>
    BY DEF Expire
  <1> QED  BY <1>1, <1>2, <1>3, CallIsSeen DEF Abstract!Expire, SeenCall

\* The caller closes its tunnel.
LEMMA CloseSimulates ==
    ASSUME ClientInv, NEW d \in Calls, Close(d)
    PROVE  Abstract!Close(d)
  <1>1. pc[d] = "returned" /\ UNCHANGED <<pc, ctx, verdict>>
    BY DEF Close
  <1> QED  BY <1>1, CallIsSeen DEF Close, Abstract!Close, SeenCall, Seen

\* The boundary ends one tunnel.
LEMMA DropSimulates ==
    ASSUME ClientInv, NEW d \in Calls, Drop(d)
    PROVE  Abstract!Drop(d)
  <1>1. UNCHANGED <<pc, ctx, verdict>>
    BY DEF Drop
  <1> QED  BY <1>1, CallIsSeen DEF Drop, Abstract!Drop

\* A tunnel is opened on a connection or on a session.
LEMMA OpenSimulates ==
    ASSUME ClientInv, NEW d \in Calls, DialBoundary(d) \/ OpenStream(d)
    PROVE  Abstract!Open(d)
  <1>1. pc[d] \in {"dial", "trip"} /\ \E to \in {"write", "wait"} : pc' = [pc EXCEPT ![d] = to]
    BY DEF DialBoundary, OpenStream
  <1>2. tunnel[d] = "none" /\ tunnel' = [tunnel EXCEPT ![d] = "open"] /\ UNCHANGED <<ctx, verdict>>
    BY <1>1 DEF DialBoundary, OpenStream, ClientInv, CallsAreStaged, Staged
  <1> QED  BY <1>1, <1>2, CallIsSeen, CallMoves DEF Abstract!Open, ClientInv, SeenCall, Seen

\* The boundary's answer accepts it.
LEMMA AcceptSimulates ==
    ASSUME ClientInv, NEW d \in Calls, ReadAccepted(d) \/ StreamAccepted(d)
    PROVE  Abstract!Accept(d)
  <1>1. pc[d] \in {"read", "wait"} /\ pc' = [pc EXCEPT ![d] = "stop"]
    BY DEF ReadAccepted, StreamAccepted
  <1>2. verdict[d] = "none" /\ tunnel[d] = "open" /\ UNCHANGED <<ctx, tunnel>>
    BY <1>1 DEF ReadAccepted, StreamAccepted, ClientInv, ClientTypeOK, CallsAreStaged, Staged
  <1>3. verdict' = [verdict EXCEPT ![d] = "accepted"]
    BY DEF ReadAccepted, StreamAccepted
  <1> QED  BY <1>1, <1>2, <1>3, CallIsSeen, CallMoves DEF Abstract!Accept, ClientInv, SeenCall, Seen

\* The hook ends a tunnel whose context expired, and only that.
LEMMA RunHookSimulates ==
    ASSUME ClientInv, NEW d \in Calls, RunHook(d), tunnel[d] = "open"
    PROVE  Abstract!Abort(d)
  <1>1. ctx[d] = "expired"
    BY DEF RunHook, ClientInv, ClientTypeOK, CallsAreStaged, Staged
  <1>2. tunnel' = [tunnel EXCEPT ![d] = "aborted"] /\ UNCHANGED <<pc, ctx, verdict>>
    BY DEF RunHook, ClientInv, ClientTypeOK
  <1> QED  BY <1>1, <1>2, CallIsSeen DEF Abstract!Abort, SeenCall

\* The deadline ends a tunnel that is not accepted yet.
LEMMA DeadlinePassesSimulates ==
    ASSUME ClientInv, NEW d \in Calls, DeadlinePasses(d)
    PROVE  Abstract!Abort(d)
  <1>1. pc[d] \in {"write", "read"} /\ verdict[d] = "none"
    BY DEF DeadlinePasses, ClientInv, ClientTypeOK, CallsAreStaged, Staged
  <1>2. tunnel[d] = "open" /\ tunnel' = [tunnel EXCEPT ![d] = "aborted"] /\ UNCHANGED <<pc, ctx,
      verdict>>
    BY DEF DeadlinePasses
  <1> QED  BY <1>1, <1>2, CallIsSeen DEF Abstract!Abort, SeenCall, Seen

\* A call that fails has closed what it opened.
LEMMA FailSimulates ==
    ASSUME ClientInv, NEW d \in Calls, pc[d] \in {"write", "read", "trip", "wait"}, CloseAndFail(d)
    PROVE  Abstract!Fail(d) \/ Abstract!AbortAndFail(d)
  <1>1. verdict[d] = "none" /\ UNCHANGED <<ctx, verdict>>
    BY DEF CloseAndFail, ClientInv, ClientTypeOK, CallsAreStaged, Staged
  <1>2. pc' = [pc EXCEPT ![d] = "failed"]
            /\ tunnel' = [tunnel EXCEPT ![d] = IF @ = "open" THEN "aborted" ELSE @]
    BY DEF CloseAndFail
  <1>3. SeenCall' = [SeenCall EXCEPT ![d] = "failed"] /\ SeenCall[d] = "dialing"
    BY <1>2, CallIsSeen, CallMoves DEF ClientInv, Seen
  <1>4. tunnel[d] # "open" => tunnel' = tunnel
    BY <1>2 DEF ClientInv, ClientTypeOK
  <1> QED  BY <1>1, <1>2, <1>3, <1>4, Zenon DEF Abstract!Fail, Abstract!AbortAndFail, SeenCall

\* So does one whose connection or session was never made.
LEMMA NoTunnelFailsSimulates ==
    ASSUME ClientInv, NEW d \in Calls, DialFails(d) \/ SessionFails(d)
    PROVE  Abstract!Fail(d)
  <1>1. pc[d] \in {"dial", "setup"} /\ pc' = [pc EXCEPT ![d] = "failed"] /\ UNCHANGED <<ctx,
      verdict, tunnel>>
    BY DEF DialFails, SessionFails
  <1>2. tunnel[d] = "none" /\ verdict[d] = "none"
    BY <1>1 DEF ClientInv, ClientTypeOK, CallsAreStaged, Staged
  <1> QED  BY <1>1, <1>2, CallIsSeen, CallMoves DEF Abstract!Fail, ClientInv, SeenCall, Seen

\* Only an accepted tunnel is returned.
LEMMA ReturnTunnelSimulates ==
    ASSUME ClientInv, NEW d \in Calls, ReturnTunnel(d)
    PROVE  Abstract!Return(d)
  <1>1. pc[d] = "stop" /\ pc' = [pc EXCEPT ![d] = "returned"] /\ UNCHANGED <<ctx, verdict, tunnel>>
    BY DEF ReturnTunnel
  <1>2. verdict[d] = "accepted"
    BY <1>1 DEF ClientInv, CallsAreStaged, Staged
  <1> QED  BY <1>1, <1>2, CallIsSeen, CallMoves DEF Abstract!Return, ClientInv, SeenCall, Seen

\* A session takes its tunnels with it.
LEMMA SessionNoticedSimulates ==
    ASSUME ClientInv, NEW s \in Sessions, SessionNoticed(s)
    PROVE  \E D \in SUBSET Calls : Abstract!DropSome(D)
  <1> DEFINE D == {d \in Calls : session[d] = s /\ tunnel[d] = "open"}
  <1>1. tunnel' = [d \in Calls |-> IF d \in D THEN "dropped" ELSE tunnel[d]]
    BY DEF SessionNoticed
  <1>2. D \in SUBSET Calls /\ \A d \in D : tunnel[d] = "open"
    OBVIOUS
  <1>3. UNCHANGED <<pc, ctx, verdict>>
    BY DEF SessionNoticed
  <1> HIDE DEF D
  <1>4. Abstract!DropSome(D)
    BY <1>1, <1>2, <1>3 DEF Abstract!DropSome
  <1> QED  BY <1>2, <1>4

\* The steps within a dial are not seen, nor is the cancel after it.
LEMMA InnerSimulates ==
    ASSUME ClientInv, NEW d \in Calls, 
           WriteRequest(d) \/ Release(d) \/ Lock(d) \/ DialSession(d) \/ ShareSession(d)
    PROVE  UNCHANGED Abstract!vars
  <1>1. UNCHANGED <<verdict, tunnel>>
    BY DEF WriteRequest, Release, Lock, DialSession, ShareSession
  <1>2. \A e \in Calls : ctx'[e] = "expired" <=> ctx[e] = "expired"
    BY DEF WriteRequest, Release, Lock, DialSession, ShareSession, ClientInv, ClientTypeOK
  <1>3. pc' = pc \/ \E to \in {"read", "trip", "dial",
      "setup"} : pc' = [pc EXCEPT ![d] = to] /\ Seen(pc[d]) = "dialing"
    BY DEF WriteRequest, Release, Lock, DialSession, ShareSession, Seen
  <1>4. SeenCall' = SeenCall
    BY <1>3, CallMoves DEF SeenCall, Seen, ClientInv
  <1> QED  BY <1>1, <1>2, <1>3, <1>4, SeenStutters

\* A step of the clients is a step of Dialer, or none that a caller sees.
LEMMA StepSimulates == ClientInv /\ [Next]_vars => [Abstract!Next]_(Abstract!vars)
  <1> SUFFICES ASSUME ClientInv, [Next]_vars PROVE Abstract!Next \/ UNCHANGED Abstract!vars
    OBVIOUS
  <1> DEFINE OneCall(d) ==
        \/ Abstract!Start(d) \/ Abstract!Expire(d) \/ Abstract!Open(d) \/ Abstract!Accept(d)
        \/ Abstract!Abort(d) \/ Abstract!Drop(d) \/ Abstract!Fail(d) \/ Abstract!AbortAndFail(d)
        \/ Abstract!Return(d) \/ Abstract!Close(d)
  <1>0. ASSUME NEW d \in Calls, OneCall(d) PROVE Abstract!Next
    BY <1>0 DEF Abstract!Next
  <1>1. ASSUME NEW d \in Calls, Start(d) \/ Expire(d) \/ Release(d) \/ Close(d) \/ Drop(d)
        PROVE  OneCall(d) \/ UNCHANGED Abstract!vars
    BY <1>1, StartSimulates, ExpireSimulates, InnerSimulates, CloseSimulates, DropSimulates
  <1>2. ASSUME NEW d \in Calls, RunHook(d)
        PROVE  OneCall(d) \/ UNCHANGED Abstract!vars
    <2>1. CASE tunnel[d] = "open"
      BY <1>2, <2>1, RunHookSimulates
    <2>2. CASE tunnel[d] # "open"
      <3>1. UNCHANGED <<pc, ctx, verdict>> /\ tunnel' = tunnel
        BY <1>2, <2>2 DEF RunHook, ClientInv, ClientTypeOK
      <3> QED  BY <3>1, SeenStutters DEF SeenCall
    <2> QED  BY <2>1, <2>2
  <1>3. ASSUME NEW d \in Calls, CallH1(d)
        PROVE  OneCall(d) \/ UNCHANGED Abstract!vars
    BY <1>3, NoTunnelFailsSimulates, OpenSimulates, InnerSimulates, FailSimulates, ReturnTunnelSimulates
    DEF CallH1, ExchangeFails
  <1>4. ASSUME NEW d \in Calls, BoundaryH1(d)
        PROVE  OneCall(d) \/ UNCHANGED Abstract!vars
    <2>1. CASE ReadInterim(d)
      <3>1. CASE CloseAndFail(d)
        BY <2>1, <3>1, FailSimulates DEF ReadInterim
      <3>2. CASE ~CloseAndFail(d)
        <4>1. UNCHANGED <<pc, ctx, verdict, tunnel>>
          BY <2>1, <3>2 DEF ReadInterim
        <4> QED  BY <4>1, SeenStutters DEF SeenCall
      <3> QED  BY <3>1, <3>2
    <2>2. CASE ReadAccepted(d) \/ ReadRefused(d) \/ ExchangeFails(d)
      BY <2>2, AcceptSimulates, FailSimulates DEF ReadRefused, ExchangeFails
    <2> QED  BY <1>4, <2>1, <2>2 DEF BoundaryH1
  <1>5. ASSUME NEW d \in Calls, CallH2(d)
        PROVE  OneCall(d) \/ UNCHANGED Abstract!vars
    BY <1>5, InnerSimulates, NoTunnelFailsSimulates, OpenSimulates, FailSimulates, ReturnTunnelSimulates
    DEF CallH2, TripFails
  <1>6. ASSUME NEW d \in Calls, DeadlinePasses(d) \/ StreamAccepted(d) \/ StreamRefused(d)
        PROVE  OneCall(d) \/ UNCHANGED Abstract!vars
    BY <1>6, DeadlinePassesSimulates, AcceptSimulates, FailSimulates DEF StreamRefused
  <1>7. ASSUME NEW s \in Sessions, SessionNoticed(s)
        PROVE  Abstract!Next
    BY <1>7, SessionNoticedSimulates DEF Abstract!Next
  <1>8. ASSUME NEW s \in Sessions, SessionLost(s) \/ GoAway(s) \/ SessionFills(s)
        PROVE  UNCHANGED Abstract!vars
    <2>1. UNCHANGED <<pc, ctx, verdict, tunnel>>
      BY <1>8 DEF SessionLost, GoAway, SessionFills
    <2> QED  BY <2>1, SeenStutters DEF SeenCall
  <1>9. CASE UNCHANGED vars
    BY <1>9, SeenStutters DEF vars, SeenCall
  <1> HIDE DEF OneCall
  <1>10. CASE Next
    <2>1. CASE \E s \in Sessions :
            SessionLost(s) \/ SessionNoticed(s) \/ GoAway(s) \/ SessionFills(s)
      BY <2>1, <1>7, <1>8
    <2>2. ASSUME NEW d \in Calls, OneCall(d) \/ UNCHANGED Abstract!vars
          PROVE  Abstract!Next \/ UNCHANGED Abstract!vars
      BY <2>2, <1>0
    <2>3. CASE \E d \in Calls :
            \/ Start(d) \/ Expire(d) \/ Release(d) \/ Close(d) \/ Drop(d) \/ RunHook(d)
            \/ CallH1(d) \/ BoundaryH1(d) \/ DeadlinePasses(d)
            \/ CallH2(d) \/ StreamAccepted(d) \/ StreamRefused(d)
      BY <2>2, <2>3, <1>1, <1>2, <1>3, <1>4, <1>5, <1>6
    <2> QED  BY <1>10, <2>1, <2>3 DEF Next
  <1> QED  BY <1>9, <1>10

\* DialTCP and DialUDP of both clients keep what Dialer promises a Forwarder,
\* for every interleaving of calls, contexts, hooks, deadlines and sessions.
THEOREM ClientImplementsDialer == Spec => ImplementsDialer
  <1>1. Init => Abstract!Init
    BY DEF Init, Abstract!Init
  <1> QED  BY <1>1, StepSimulates, ClientInvariance, PTL DEF Spec, ImplementsDialer, Abstract!Spec
=============================================================================
