--------------------------- MODULE BoundaryProofs ---------------------------
(***************************************************************************)
(* Theorems about the boundary (module Boundary), for any budget, any      *)
(* number of connections and streams and any policy: the slots are counted *)
(* exactly, every decision leaves one true audit record, and what is       *)
(* dialed is what the descriptor lists.                                    *)
(*                                                                         *)
(* Slots and records do not depend on what authorize decides, only on the  *)
(* paths a handler takes with the verdict.  Their invariant ties the       *)
(* records to the place a handler and its connection have reached: whether *)
(* a request has dialed or holds an upstream can be read off its pc, and a *)
(* connection that was recorded itself has never had a handler.  The       *)
(* addresses do depend on it: what a handler has yet to dial, and has      *)
(* dialed, is what authorize returned for its request, and by              *)
(* AuthorizeFacts of PolicyProofs the descriptor lists that.               *)
(***************************************************************************)
EXTENDS Boundary, PolicyProofs, FiniteSetTheorems

StateOK ==
    /\ conn \in [Conns -> {"away", "arrived", "accepted", "open", "closed", "gone"}]
    /\ pc \in [Handlers -> {"idle", "decide", "dial", "tunnel", "done"}]
    /\ log = [h \in Handlers |-> log[h]] /\ upstream = [h \in Handlers |-> upstream[h]]
    /\ tried = [h \in Handlers |-> tried[h]]
    /\ sessionLog = [c \in Conns |-> sessionLog[c]]

\* The connections whose goroutine is running.
Served == {c \in Conns : conn[c] \in {"accepted", "open", "closed"}}

SlotsAreServed == slots \in 0 .. MaxConnections /\ slots = Cardinality(Served)

\* What a handler has dialed, holds and recorded at each of its steps.
Recorded(h) ==
    /\ pc[h] \in {"idle", "decide"} => tried[h] = {}
    /\ pc[h] \in {"idle", "decide", "dial"} => log[h] = <<>>
    /\ pc[h] \in {"tunnel", "done"} => log[h] = <<log[h][1]>>
    /\ pc[h] = "tunnel" => log[h][1].decision = "allow" /\ log[h][1].address = upstream[h]
    /\ pc[h] = "done" /\ log[h][1].decision = "block" => tried[h] = {}
    /\ pc[h] # "tunnel" => upstream[h] = Absent

\* A connection has handlers once it is open, and is recorded only if it never was.
SessionRecorded(c) ==
    /\ conn[c] \in {"away", "arrived", "accepted", "open"} => sessionLog[c] = <<>>
    /\ sessionLog[c] # <<>> => sessionLog[c] = <<sessionLog[c][1]>>
    /\ conn[c] \in {"away", "arrived", "accepted"} \/ sessionLog[c] # <<>> =>
        \A h \in {c} \X Streams : pc[h] = "idle"

BoundaryInv ==
    /\ StateOK /\ SlotsAreServed
    /\ \A h \in Handlers : Recorded(h)
    /\ \A c \in Conns : SessionRecorded(c)

-----------------------------------------------------------------------------
(* Audit logs *)

\* The first record of a log.
LEMMA FirstRecord ==
    ASSUME NEW r
    PROVE  Append(<<>>, r) = <<r>> /\ <<r>>[1] = r
  OBVIOUS

\* A log that has one record.
LEMMA OneRecord ==
    /\ Len(<<>>) = 0
    /\ \A s : s = <<s[1]>> => Len(s) = 1 /\ s # <<>>
  <1>1. \A r : Len(<<r>>) = 1 /\ <<r>> # <<>>
    OBVIOUS
  <1> QED  BY <1>1

-----------------------------------------------------------------------------
(* The slots *)

\* The set that is counted is finite.
LEMMA ServedIsFinite == IsFiniteSet(Served) /\ Cardinality(Served) \in Nat
  BY BoundaryAssumption, FS_Subset, FS_CardinalityType DEF Served

\* Accept and the end of a connection's goroutine change it by one, everything
\* else leaves it alone.
LEMMA ServedChanges ==
    ASSUME StateOK, NEW c \in Conns, NEW to, conn' = [conn EXCEPT ![c] = to]
    PROVE  /\ c \notin Served /\ to = "accepted" => Cardinality(Served') = Cardinality(Served) + 1
           /\ c \in Served /\ to = "gone" => Cardinality(Served') = Cardinality(Served) - 1
           /\ (c \in Served <=> to \in {"accepted", "open", "closed"}) => Served' = Served
  <1>1. ASSUME c \notin Served, to = "accepted"
        PROVE  Cardinality(Served') = Cardinality(Served) + 1
    <2>1. Served' = Served \cup {c}
      BY <1>1 DEF StateOK, Served
    <2> QED  BY <1>1, <2>1, ServedIsFinite, FS_AddElement
  <1>2. ASSUME c \in Served, to = "gone"
        PROVE  Cardinality(Served') = Cardinality(Served) - 1
    <2>1. Served' = Served \ {c}
      BY <1>2 DEF StateOK, Served
    <2> QED  BY <1>2, <2>1, ServedIsFinite, FS_RemoveElement
  <1>3. ASSUME c \in Served <=> to \in {"accepted", "open", "closed"}
        PROVE  Served' = Served
    BY <1>3 DEF StateOK, Served
  <1> QED  BY <1>1, <1>2, <1>3

-----------------------------------------------------------------------------
(* The steps of a connection *)

\* A step that leaves the handlers alone keeps their records.
LEMMA HandlersUntouched ==
    ASSUME BoundaryInv, UNCHANGED handlerVars
    PROVE  \A h \in Handlers : Recorded(h)'
  BY DEF BoundaryInv, Recorded, handlerVars

\* A connection that is not recorded by its step: the slots follow.
LEMMA ConnKeepsInv ==
    ASSUME BoundaryInv, NEW c \in Conns,
           Arrive(c) \/ AcceptWithin(c) \/ Open(c) \/ ClientGone(c) \/ ServeReturns(c) \/ Release(c)
    PROVE  BoundaryInv'
  <1> USE DEF Arrive, AcceptWithin, Open, ClientGone, ServeReturns, Release
  <1>1. PICK to \in {"arrived", "accepted", "open", "closed", "gone"} :
            /\ conn' = [conn EXCEPT ![c] = to]
            /\ to = "arrived" => conn[c] = "away" /\ slots' = slots
            /\ to = "accepted" => conn[c] = "arrived" /\ slots < MaxConnections /\ slots' = slots + 1
            /\ to = "open" => conn[c] = "accepted" /\ slots' = slots
            /\ to = "closed" => conn[c] = "open" /\ slots' = slots
            /\ to = "gone" => conn[c] = "closed" /\ slots' = slots - 1
    OBVIOUS
  <1>2. UNCHANGED <<sessionLog, handlerVars>>
    OBVIOUS
  <1> HIDE DEF Arrive, AcceptWithin, Open, ClientGone, ServeReturns, Release
  <1>3. StateOK'
    BY <1>1, <1>2 DEF BoundaryInv, StateOK, handlerVars
  <1>4. SlotsAreServed'
    <2>1. slots \in 0 .. MaxConnections /\ slots = Cardinality(Served) /\ MaxConnections \in Nat
      BY BoundaryAssumption DEF BoundaryInv, SlotsAreServed
    <2>2. StateOK /\ (c \in Served <=> conn[c] \in {"accepted", "open", "closed"})
      BY DEF BoundaryInv, Served
    <2>3. Cardinality(Served) \in Nat
      BY ServedIsFinite
    <2>4. CASE to = "accepted"
      <3>1. Cardinality(Served') = slots + 1 /\ slots' = slots + 1 /\ slots < MaxConnections
        BY <1>1, <2>1, <2>2, <2>4, ServedChanges
      <3> QED  BY <3>1, <2>1 DEF SlotsAreServed
    <2>5. CASE to = "gone"
      <3>1. c \in Served
        BY <1>1, <2>2, <2>5
      <3>2. Cardinality(Served') = slots - 1 /\ slots' = slots - 1
        BY <1>1, <2>1, <2>2, <2>5, <3>1, ServedChanges
      <3>3. Cardinality(Served) # 0
        BY <3>1, ServedIsFinite, FS_EmptySet
      <3> QED  BY <3>2, <3>3, <2>1, <2>3 DEF SlotsAreServed
    <2>6. CASE to \in {"arrived", "open", "closed"}
      <3>1. Served' = Served /\ slots' = slots
        BY <1>1, <2>2, <2>6, ServedChanges
      <3> QED  BY <3>1, <2>1 DEF SlotsAreServed
    <2> QED  BY <2>4, <2>5, <2>6
  <1>5. \A e \in Conns : SessionRecorded(e)'
    BY <1>1, <1>2 DEF BoundaryInv, StateOK, SessionRecorded, handlerVars
  <1> QED  BY <1>2, <1>3, <1>4, <1>5, HandlersUntouched DEF BoundaryInv

\* A connection that is turned away is recorded, and had no handler yet.
LEMMA TurnedAwayKeepsInv ==
    ASSUME BoundaryInv, NEW c \in Conns, AcceptBusy(c) \/ HandshakeFails(c)
    PROVE  BoundaryInv'
  <1>1. /\ slots' = slots /\ UNCHANGED handlerVars
        /\ \/ conn[c] = "arrived" /\ conn' = [conn EXCEPT ![c] = "gone"]
           \/ conn[c] = "accepted" /\ conn' = [conn EXCEPT ![c] = "closed"]
    BY DEF AcceptBusy, HandshakeFails
  <1>2. PICK r : sessionLog' = [sessionLog EXCEPT ![c] = Append(@, r)]
    BY DEF AcceptBusy, HandshakeFails
  <1>3. sessionLog' = [sessionLog EXCEPT ![c] = <<r>>]
    <2>1. sessionLog[c] = <<>>
      BY <1>1 DEF BoundaryInv, SessionRecorded
    <2> QED  BY <1>2, <2>1, FirstRecord
  <1>4. StateOK'
    BY <1>1, <1>3 DEF BoundaryInv, StateOK, handlerVars
  <1>5. SlotsAreServed'
    <2>1. Served' = Served
      BY <1>1, ServedChanges DEF BoundaryInv, Served
    <2> QED  BY <1>1, <2>1 DEF BoundaryInv, SlotsAreServed
  <1>6. sessionLog'[c] = <<r>> /\ \A e \in Conns \ {c} : sessionLog'[e] = sessionLog[e]
            /\ conn'[e] = conn[e]
    BY <1>1, <1>3 DEF BoundaryInv, StateOK
  <1>7. conn'[c] \in {"gone", "closed"} /\ pc' = pc /\ \A h \in {c} \X Streams : pc[h] = "idle"
    BY <1>1 DEF BoundaryInv, StateOK, SessionRecorded, handlerVars
  <1>8. SessionRecorded(c)'
    BY <1>6, <1>7 DEF SessionRecorded
  <1>9. \A e \in Conns \ {c} : SessionRecorded(e)'
    BY <1>6, <1>7 DEF BoundaryInv, SessionRecorded
  <1> QED  BY <1>1, <1>4, <1>5, <1>8, <1>9, HandlersUntouched DEF BoundaryInv

-----------------------------------------------------------------------------
(* The steps of a handler *)

\* A handler of a connection that serves touches its own records only.
LEMMA HandlerKeepsInv ==
    ASSUME BoundaryInv, NEW h \in Handlers, UNCHANGED connVars, StateOK', Recorded(h)',
           pc[h] # "idle" \/ conn[h[1]] = "open",
           \A g \in Handlers \ {h} : pc'[g] = pc[g] /\ log'[g] = log[g] /\ upstream'[g] = upstream[g]
                                     /\ tried'[g] = tried[g]
    PROVE  BoundaryInv'
  <1>1. \A g \in Handlers : Recorded(g)'
    BY DEF BoundaryInv, Recorded
  <1>2. SlotsAreServed'
    BY DEF BoundaryInv, SlotsAreServed, Served, connVars
  <1>3. h[1] \in Conns /\ h \in {h[1]} \X Streams
    BY DEF Handlers
  <1>4. sessionLog[h[1]] = <<>> /\ conn[h[1]] \notin {"away", "arrived", "accepted"}
    BY <1>3 DEF BoundaryInv, SessionRecorded
  <1>5. ASSUME NEW c \in Conns PROVE SessionRecorded(c)'
    <2>1. CASE c = h[1]
      BY <1>4, <2>1 DEF SessionRecorded, connVars
    <2>2. CASE c # h[1]
      <3>1. \A g \in {c} \X Streams : g \in Handlers \ {h}
        BY <2>2, <1>3 DEF Handlers
      <3> QED  BY <3>1 DEF BoundaryInv, SessionRecorded, connVars
    <2> QED  BY <2>1, <2>2
  <1> QED  BY <1>1, <1>2, <1>5 DEF BoundaryInv

\* A decision is recorded once, in the step that ends the handler.
LEMMA RefuseKeepsInv ==
    ASSUME BoundaryInv, NEW h \in Handlers, UNCHANGED <<connVars, upstream, tried>>,
           pc[h] = "decide" \/ (pc[h] = "idle" /\ conn[h[1]] = "open"),
           NEW decision, NEW reason, Refuse(h, Refusal(decision, reason))
    PROVE  BoundaryInv'
  <1> DEFINE r == Refusal(decision, reason)
  <1>1. log[h] = <<>> /\ tried[h] = {} /\ upstream[h] = Absent
    BY DEF BoundaryInv, Recorded
  <1>2. log' = [log EXCEPT ![h] = <<r>>] /\ pc' = [pc EXCEPT ![h] = "done"]
    BY <1>1 DEF Refuse
  <1> HIDE DEF r
  <1>3. StateOK'
    BY <1>2 DEF BoundaryInv, StateOK, connVars
  <1>4. pc'[h] = "done" /\ log'[h] = <<r>> /\ tried'[h] = {} /\ upstream'[h] = Absent
    BY <1>1, <1>2 DEF BoundaryInv, StateOK
  <1>5. Recorded(h)'
    BY <1>4 DEF Recorded
  <1>6. \A g \in Handlers \ {h} : pc'[g] = pc[g] /\ log'[g] = log[g] /\ upstream'[g] = upstream[g]
                                  /\ tried'[g] = tried[g]
    BY <1>2 DEF BoundaryInv, StateOK
  <1> QED  BY <1>3, <1>5, <1>6, HandlerKeepsInv

\* A request that is let on has no record yet.
LEMMA AdvanceKeepsInv ==
    ASSUME BoundaryInv, NEW h \in Handlers, UNCHANGED <<connVars, upstream, tried, log>>,
           \/ pc[h] = "idle" /\ conn[h[1]] = "open" /\ pc' = [pc EXCEPT ![h] = "decide"]
           \/ pc[h] = "decide" /\ pc' = [pc EXCEPT ![h] = "dial"]
    PROVE  BoundaryInv'
  <1>1. StateOK'
    BY DEF BoundaryInv, StateOK, connVars
  <1>2. Recorded(h)'
    BY DEF BoundaryInv, StateOK, Recorded
  <1>3. \A g \in Handlers \ {h} : pc'[g] = pc[g]
    BY DEF BoundaryInv, StateOK
  <1> QED  BY <1>1, <1>2, <1>3, HandlerKeepsInv

\* A request arrives.
LEMMA ReceiveRequestKeepsInv ==
    ASSUME BoundaryInv, NEW h \in Handlers, NEW r \in Requests, ReceiveRequest(h, r)
    PROVE  BoundaryInv'
  BY RefuseKeepsInv, AdvanceKeepsInv DEF ReceiveRequest

\* Whatever the policy says, a request is refused with a record or goes on to
\* dial without one.
LEMMA DecideKeepsInv ==
    ASSUME BoundaryInv, NEW h \in Handlers,
           RefuseOutright(h) \/ \E answer \in Answers : Authorize(h, answer)
    PROVE  BoundaryInv'
  <1>1. CASE RefuseOutright(h)
    BY <1>1, RefuseKeepsInv DEF RefuseOutright
  <1>2. ASSUME NEW answer \in Answers, Authorize(h, answer)
        PROVE  BoundaryInv'
    <2> DEFINE v == authorize(current, req[h].host, req[h].port, req[h].network, answer)
    <2>1. /\ pc[h] = "decide" /\ UNCHANGED <<connVars, upstream, tried>>
          /\ \/ Refuse(h, Refusal("block", v.reason))
             \/ Refuse(h, Refusal("fail", "resolve-failed"))
             \/ pc' = [pc EXCEPT ![h] = "dial"] /\ UNCHANGED log
      BY <1>2 DEF Authorize
    <2> QED  BY <2>1, RefuseKeepsInv, AdvanceKeepsInv
  <1> QED  BY <1>1, <1>2

\* A dial that fails is remembered; the last one ends the request.
LEMMA DialFailsKeepsInv ==
    ASSUME BoundaryInv, NEW h \in Handlers, DialFails(h)
    PROVE  BoundaryInv'
  <1> DEFINE r == Refusal("fail", "dial-failed")
  <1>1. pc[h] = "dial" /\ log[h] = <<>> /\ upstream[h] = Absent
    BY DEF DialFails, BoundaryInv, Recorded
  <1>2. /\ UNCHANGED <<connVars, upstream>>
        /\ tried' = [tried EXCEPT ![h] = @ \cup {Head(pending[h])}]
        /\ \/ log' = [log EXCEPT ![h] = <<r>>] /\ pc' = [pc EXCEPT ![h] = "done"]
           \/ log' = log /\ pc' = pc
    BY <1>1 DEF DialFails, Refuse
  <1>3. r.decision = "fail"
    BY DEF Refusal, Record
  <1> HIDE DEF r
  <1>4. StateOK'
    BY <1>2 DEF BoundaryInv, StateOK, connVars
  <1>5. Recorded(h)'
    BY <1>1, <1>2, <1>3 DEF BoundaryInv, StateOK, Recorded
  <1>6. \A g \in Handlers \ {h} : pc'[g] = pc[g] /\ log'[g] = log[g] /\ upstream'[g] = upstream[g]
                                  /\ tried'[g] = tried[g]
    BY <1>2 DEF BoundaryInv, StateOK
  <1> QED  BY <1>1, <1>2, <1>4, <1>5, <1>6, HandlerKeepsInv

\* The record of an open upstream names it.
LEMMA DialSucceedsKeepsInv ==
    ASSUME BoundaryInv, NEW h \in Handlers, DialSucceeds(h)
    PROVE  BoundaryInv'
  <1>1. pc[h] = "dial" /\ log[h] = <<>>
    BY DEF DialSucceeds, BoundaryInv, Recorded
  <1>2. PICK a, rule :
            /\ UNCHANGED connVars
            /\ tried' = [tried EXCEPT ![h] = @ \cup {a}] /\ upstream' = [upstream EXCEPT ![h] = a]
            /\ log' = [log EXCEPT ![h] = Append(@, Record("allow", NoReason, a, rule))]
            /\ pc' = [pc EXCEPT ![h] = "tunnel"]
    BY DEF DialSucceeds
  <1> DEFINE r == Record("allow", NoReason, a, rule)
  <1>3. log' = [log EXCEPT ![h] = <<r>>]
    BY <1>1, <1>2, FirstRecord
  <1>R. r.decision = "allow" /\ r.address = a
    BY DEF Record
  <1> HIDE DEF r
  <1>4. StateOK'
    BY <1>2, <1>3 DEF BoundaryInv, StateOK, connVars
  <1>5. Recorded(h)'
    <2>1. pc'[h] = "tunnel" /\ log'[h] = <<r>> /\ upstream'[h] = a
      BY <1>2, <1>3 DEF BoundaryInv, StateOK
    <2> QED  BY <2>1, <1>R DEF Recorded
  <1>6. \A g \in Handlers \ {h} : pc'[g] = pc[g] /\ log'[g] = log[g] /\ upstream'[g] = upstream[g]
                                  /\ tried'[g] = tried[g]
    BY <1>2, <1>3 DEF BoundaryInv, StateOK
  <1> QED  BY <1>1, <1>2, <1>4, <1>5, <1>6, HandlerKeepsInv

\* A tunnel that ends keeps its record, which is an allow.
LEMMA TunnelEndsKeepsInv ==
    ASSUME BoundaryInv, NEW h \in Handlers, TunnelEnds(h)
    PROVE  BoundaryInv'
  <1>1. StateOK'
    BY DEF TunnelEnds, BoundaryInv, StateOK, connVars
  <1>2. Recorded(h)'
    BY DEF TunnelEnds, BoundaryInv, StateOK, Recorded
  <1>3. \A g \in Handlers \ {h} : pc'[g] = pc[g] /\ upstream'[g] = upstream[g]
    BY DEF TunnelEnds, BoundaryInv, StateOK
  <1>4. pc[h] = "tunnel" /\ UNCHANGED <<connVars, log, tried>>
    BY DEF TunnelEnds
  <1> QED  BY <1>1, <1>2, <1>3, <1>4, HandlerKeepsInv

-----------------------------------------------------------------------------
(* Theorems *)

\* The invariant holds in every state.
THEOREM BoundaryInvariance == Spec => []BoundaryInv
  <1>1. Init => BoundaryInv
    <2> SUFFICES ASSUME Init PROVE BoundaryInv
      OBVIOUS
    <2>1. StateOK
      BY DEF Init, StateOK
    <2>2. SlotsAreServed
      <3>1. Served = {}
        BY DEF Init, Served
      <3> QED  BY <3>1, FS_EmptySet, BoundaryAssumption DEF Init, SlotsAreServed
    <2>3. (\A h \in Handlers : Recorded(h)) /\ (\A c \in Conns : SessionRecorded(c))
      BY DEF Init, Recorded, SessionRecorded, Handlers
    <2> QED  BY <2>1, <2>2, <2>3 DEF BoundaryInv
  <1>2. BoundaryInv /\ [Next]_vars => BoundaryInv'
    <2> SUFFICES ASSUME BoundaryInv, [Next]_vars PROVE BoundaryInv'
      OBVIOUS
    <2>1. ASSUME NEW c \in Conns, Arrive(c) \/ Accept(c) \/ ConnStep(c) \/ ClientGone(c)
          PROVE  BoundaryInv'
      BY <2>1, ConnKeepsInv, TurnedAwayKeepsInv DEF Accept, ConnStep
    <2>2. ASSUME NEW h \in Handlers, Handle(h)
          PROVE  BoundaryInv'
      BY <2>2, DecideKeepsInv, DialFailsKeepsInv, DialSucceedsKeepsInv, TunnelEndsKeepsInv DEF Handle
    <2>3. ASSUME NEW h \in Handlers, NEW r \in Requests, ReceiveRequest(h, r)
          PROVE  BoundaryInv'
      BY <2>3, ReceiveRequestKeepsInv
    <2>4. CASE UNCHANGED vars
      BY <2>4 DEF vars, connVars, handlerVars, BoundaryInv, StateOK, SlotsAreServed, Served, Recorded,
        SessionRecorded
    <2> QED  BY <2>1, <2>2, <2>3, <2>4 DEF Next
  <1> QED  BY <1>1, <1>2, PTL DEF Spec

\* serveListener: on every path through a connection's goroutine, the slots in
\* use are the connections it serves, and never more than -max-connections.
THEOREM BoundarySlotsAreExact == Spec => []SlotsCountConnections
  <1>1. BoundaryInv => SlotsCountConnections
    BY DEF BoundaryInv, SlotsAreServed, Served, SlotsCountConnections
  <1> QED  BY <1>1, BoundaryInvariance, PTL

\* The handlers' audit records: one per decision and a true one, whatever the
\* policy and the resolver say and however the streams interleave.
THEOREM BoundaryRecordsAreTrue == Spec => []RecordsAreTrue
  <1>1. BoundaryInv => RecordsAreTrue
    <2> SUFFICES ASSUME BoundaryInv PROVE RecordsAreTrue
      OBVIOUS
    <2>1. ASSUME NEW h \in Handlers
          PROVE  /\ Len(log[h]) = IF pc[h] \in {"tunnel", "done"} THEN 1 ELSE 0
                 /\ log[h] # <<>> /\ log[h][1].decision = "block" => tried[h] = {}
                 /\ upstream[h] # Absent =>
                        /\ pc[h] = "tunnel"
                        /\ log[h][1].decision = "allow" /\ log[h][1].address = upstream[h]
      BY OneRecord DEF BoundaryInv, StateOK, Recorded
    <2>2. ASSUME NEW c \in Conns, sessionLog[c] # <<>>
          PROVE  Len(sessionLog[c]) = 1 /\ \A h \in {c} \X Streams : pc[h] = "idle"
      BY <2>2, OneRecord DEF BoundaryInv, SessionRecorded
    <2> QED  BY <2>1, <2>2 DEF RecordsAreTrue
  <1> QED  BY <1>1, BoundaryInvariance, PTL

-----------------------------------------------------------------------------
(* The addresses the boundary dials *)

\* The descriptor lists address a for request r, in the words of
\* SpecialDialsAreListed.
Listing(d, r, a) ==
    \/ \E dr \in Range(d.rules) :
        /\ permits(dr.ports, r.port)
        /\ \/ dr.ip # Absent /\ dr.ip.addr = a
           \/ dr.cidr # Absent /\ a \in dr.cidr
           \/ /\ dr.resolve # Absent /\ dr.name.labels = normalizeName(r.host)
              /\ \E t \in Range(dr.resolve) : t.addr = a
    \/ \E e \in Range(d.resolved) : ~ParsesAsAddr(r.host) /\ a \in e.cidr /\ permits(e.ports, r.port)

Dialable(d, r) == {a \in Addresses : a \in Special => Listing(d, r, a)}

\* What an entry that permits a request admits, the boundary may dial.
LEMMA AdmittedIsDialable ==
    ASSUME NEW d, NEW p, LoadsAs(d, p), NEW r, WellFormed(r), NEW dr \in Permitting(d, r),
           NEW a \in Admitted(d, dr, r)
    PROVE  a \in Special => Listing(d, r, a)
  <1>1. dr \in Range(d.rules) /\ MatchesHost(dr, r.host) /\ CoversPort(dr, r.port)
    BY DEF Permitting, Entries
  <1>2. /\ \A x \in Range(d.rules) : RuleValid(x) /\ IsEntry(x)
        /\ \A e \in Range(d.resolved) : ExceptionValid(e)
    BY LoadFacts
  <1>3. r.port \in Int
    BY PolicyAssumption DEF WellFormed
  <1>4. \A x \in Range(d.rules) : permits(x.ports, r.port) <=> CoversPort(x, r.port)
    BY <1>2, <1>3, ServesFacts
  <1>5. \A e \in Range(d.resolved) : permits(e.ports, r.port) <=> CoversPort(e, r.port)
    <2> SUFFICES ASSUME NEW e \in Range(d.resolved)
                 PROVE  permits(e.ports, r.port) <=> CoversPort(e, r.port)
      OBVIOUS
    <2>1. e.ports = Absent \/ \A x \in e.ports : x[1] \in Int /\ x[2] \in Int
      BY <1>2, PolicyAssumption DEF ExceptionValid, PortsValid, ParsesAsPort
    <2> QED  BY <1>3, <2>1 DEF permits, CoversPort
  <1>6. CASE r.host.kind = "addr"
    <2>1. a = r.host.addr /\ ListsAddress(dr, a)
      BY <1>1, <1>6 DEF Admitted, MatchesHost
    <2> QED  BY <1>1, <1>4, <2>1 DEF ListsAddress, Listing
  <1>7. CASE r.host.kind = "name"
    <2>1. /\ a \in Resolution(dr, r)
          /\ \/ dr.resolve # Absent
             \/ \E l \in Range(d.rules) : ListsAddress(l, a) /\ CoversPort(l, r.port)
             \/ \E e \in Range(d.resolved) : a \in e.cidr /\ CoversPort(e, r.port)
             \/ a \notin Special
      BY <1>7 DEF Admitted, Entries
    <2>2. CASE dr.resolve # Absent
      <3>1. dr.name # Absent /\ dr.name.kind # "star" /\ dr.suffix = Absent
        BY <1>1, <1>2, <2>2, OneMatcher DEF RuleValid
      <3>2. dr.name.labels = normalizeName(r.host)
        BY <1>1, <1>7, <3>1 DEF MatchesHost, normalizeName
      <3>3. \E t \in Range(dr.resolve) : t.addr = a
        BY <2>1, <2>2 DEF Resolution
      <3> QED  BY <1>1, <1>4, <2>2, <3>2, <3>3 DEF Listing
    <2>3. CASE \E l \in Range(d.rules) : ListsAddress(l, a) /\ CoversPort(l, r.port)
      BY <1>4, <2>3 DEF ListsAddress, Listing
    <2>4. CASE \E e \in Range(d.resolved) : a \in e.cidr /\ CoversPort(e, r.port)
      BY <1>5, <1>7, <2>4 DEF Listing, ParsesAsAddr
    <2> QED  BY <2>1, <2>2, <2>3, <2>4
  <1> QED  BY <1>6, <1>7 DEF WellFormed

\* The checked addresses of an allowed request.
LEMMA AuthorizedDials ==
    ASSUME NEW d \in Descriptors, NEW r \in Requests, r.defect = Absent, NEW answer \in Answers,
           loadDescriptor(d) # Absent,
           Allows(authorize(loadDescriptor(d), r.host, r.port, r.network, answer))
    PROVE  authorize(loadDescriptor(d), r.host, r.port, r.network, answer).addresses
             \in Seq(Dialable(d, r)) \ {<<>>}
  <1> DEFINE q == [host |-> r.host, port |-> r.port, network |-> r.network, answer |-> answer]
             p == loadDescriptor(d)
             v == authorize(p, r.host, r.port, r.network, answer)
             w == authorize(p, q.host, q.port, q.network, q.answer)
             s == v.addresses
  <1>1. LoadsAs(d, p)
    BY BoundaryAssumption DEF LoadsAs
  <1>2. q.host = r.host /\ q.port = r.port /\ q.network = r.network /\ q.answer = answer
    OBVIOUS
  <1>3. IsText(q.host) /\ IsAnswer(q.answer)
    BY <1>2, BoundaryAssumption
  <1> HIDE DEF q, p
  <1>4. w = v
    BY <1>2
  <1>5. v.reason = NoReason /\ ~v.err
    BY DEF Allows, p
  <1>6. IF WellFormed(q) THEN w.status = 403 /\ Outcome(d, q, w)
        ELSE w.reason \in {"malformed-port", "malformed-target", "scoped-ip"}
    BY <1>1, <1>3, AuthorizeFacts
  <1> HIDE DEF v, w
  <1>7. WellFormed(q) /\ Outcome(d, q, v)
    BY <1>4, <1>5, <1>6, ReasonFacts
  <1>8. ExpectedReason(d, q) # NoReason
    BY ReasonFacts DEF ExpectedReason
  <1>9. PICK dr \in Permitting(d, q) : s \in Seq(Addresses) \ {<<>>} /\ Range(s) = Admitted(d, dr, q)
    BY <1>5, <1>7, <1>8, ReasonFacts DEF Outcome
  <1>10. \A a \in Range(s) : a \in Special => Listing(d, q, a)
    BY <1>1, <1>7, <1>9, AdmittedIsDialable
  <1>11. \A a \in Range(s) : a \in Dialable(d, r)
    <2>1. \A a : Listing(d, q, a) => Listing(d, r, a)
      BY <1>2 DEF Listing
    <2>2. \A a \in Range(s) : a \in Addresses
      BY <1>9 DEF Range
    <2> QED  BY <1>10, <2>1, <2>2 DEF Dialable
  <1> HIDE DEF s
  <1>12. \A i \in 1 .. Len(s) : s[i] \in Dialable(d, r)
    BY <1>9, <1>11 DEF Range
  <1>13. s \in Seq(Dialable(d, r)) \ {<<>>}
    BY <1>9, <1>12
  <1> QED  BY <1>13 DEF s, v, p

\* What a handler holds: a request that reached the policy, addresses the
\* policy let it dial, and only those it has dialed.
DialsChecked(h) ==
    /\ pc[h] # "idle" => req[h] \in Requests
    /\ pc[h] \in {"decide", "dial"} => req[h].defect = Absent
    /\ pc[h] = "dial" => pending[h] \in Seq(Dialable(descriptor, req[h])) \ {<<>>}
    /\ \A a \in tried[h] : a \in Dialable(descriptor, req[h])
    /\ upstream[h] \in Addresses \cup {Absent}

DialInv ==
    /\ descriptor \in Descriptors /\ current \in {loadDescriptor(descriptor), Absent}
    /\ req \in [Handlers -> Requests \cup {Absent}]
    /\ pending = [h \in Handlers |-> pending[h]]
    /\ \A h \in Handlers : DialsChecked(h)

\* A handler's step leaves the others alone.
LEMMA DialerKeepsInv ==
    ASSUME BoundaryInv, DialInv, NEW h \in Handlers, UNCHANGED config,
           req' \in [Handlers -> Requests \cup {Absent}],
           pending' = [g \in Handlers |-> pending'[g]],
           DialsChecked(h)',
           \A g \in Handlers \ {h} : /\ pc'[g] = pc[g] /\ req'[g] = req[g] /\ pending'[g] = pending[g]
                                     /\ tried'[g] = tried[g] /\ upstream'[g] = upstream[g]
    PROVE  DialInv'
  <1>1. descriptor' = descriptor /\ current' = current
    BY DEF config
  <1>2. \A g \in Handlers \ {h} : DialsChecked(g)'
    BY <1>1 DEF DialInv, DialsChecked
  <1> QED  BY <1>1, <1>2 DEF DialInv

\* A request arrives at a handler that has dialed nothing.
LEMMA ReceiveKeepsDials ==
    ASSUME BoundaryInv, DialInv, NEW h \in Handlers, NEW r \in Requests, ReceiveRequest(h, r)
    PROVE  DialInv'
  <1>1. /\ UNCHANGED <<config, pending, upstream, tried>> /\ req' = [req EXCEPT ![h] = r]
        /\ \/ r.defect # Absent /\ pc' = [pc EXCEPT ![h] = "done"]
           \/ r.defect = Absent /\ pc' = [pc EXCEPT ![h] = "decide"]
        /\ pc[h] = "idle"
    BY DEF ReceiveRequest, Refuse
  <1>2. tried[h] = {} /\ upstream[h] \in Addresses \cup {Absent} /\ StateOK
    BY <1>1 DEF BoundaryInv, Recorded, DialInv, DialsChecked
  <1>3. DialsChecked(h)'
    BY <1>1, <1>2 DEF DialInv, DialsChecked, StateOK
  <1>4. \A g \in Handlers \ {h} : pc'[g] = pc[g] /\ req'[g] = req[g]
    BY <1>1, <1>2 DEF DialInv, StateOK
  <1> QED  BY <1>1, <1>3, <1>4, DialerKeepsInv DEF DialInv

\* A decision without addresses to dial.
LEMMA RefuseKeepsDials ==
    ASSUME BoundaryInv, DialInv, NEW h \in Handlers, pc[h] # "idle",
           UNCHANGED <<config, req, pending, upstream, tried>>, pc' = [pc EXCEPT ![h] = "done"]
    PROVE  DialInv'
  <1>1. DialsChecked(h)'
    BY DEF DialInv, DialsChecked, BoundaryInv, StateOK, config
  <1>2. \A g \in Handlers \ {h} : pc'[g] = pc[g]
    BY DEF BoundaryInv, StateOK
  <1> QED  BY <1>1, <1>2, DialerKeepsInv DEF DialInv

\* authorize: the addresses that are to be dialed are checked.
LEMMA AuthorizeKeepsDials ==
    ASSUME BoundaryInv, DialInv, NEW h \in Handlers, NEW answer \in Answers, Authorize(h, answer)
    PROVE  DialInv'
  <1> DEFINE v == authorize(current, req[h].host, req[h].port, req[h].network, answer)
  <1>1. /\ pc[h] = "decide" /\ current # Absent /\ UNCHANGED <<config, req, upstream, tried>>
        /\ \/ UNCHANGED pending /\ pc' = [pc EXCEPT ![h] = "done"]
           \/ Allows(v) /\ pending' = [pending EXCEPT ![h] = v.addresses]
                        /\ pc' = [pc EXCEPT ![h] = "dial"]
    BY DEF Authorize, Refuse
  <1>2. CASE UNCHANGED pending /\ pc' = [pc EXCEPT ![h] = "done"]
    BY <1>1, <1>2, RefuseKeepsDials
  <1>3. CASE Allows(v) /\ pending' = [pending EXCEPT ![h] = v.addresses]
                       /\ pc' = [pc EXCEPT ![h] = "dial"]
    <2>1. /\ req[h] \in Requests /\ req[h].defect = Absent /\ descriptor \in Descriptors
          /\ current = loadDescriptor(descriptor)
      BY <1>1 DEF DialInv, DialsChecked
    <2>2. v.addresses \in Seq(Dialable(descriptor, req[h])) \ {<<>>}
      BY <1>1, <1>3, <2>1, AuthorizedDials
    <2> HIDE DEF v
    <2>3. DialsChecked(h)'
      BY <1>1, <1>3, <2>1, <2>2 DEF DialInv, DialsChecked, BoundaryInv, StateOK, config
    <2>4. \A g \in Handlers \ {h} : pc'[g] = pc[g] /\ pending'[g] = pending[g]
      BY <1>3 DEF BoundaryInv, StateOK, DialInv
    <2>5. pending' = [g \in Handlers |-> pending'[g]]
      BY <1>3 DEF DialInv
    <2> QED  BY <1>1, <2>3, <2>4, <2>5, DialerKeepsInv DEF DialInv
  <1> QED  BY <1>1, <1>2, <1>3

\* dialAuthorized takes the addresses from the front.
LEMMA DialKeepsDials ==
    ASSUME BoundaryInv, DialInv, NEW h \in Handlers, DialFails(h) \/ DialSucceeds(h)
    PROVE  DialInv'
  <1> DEFINE a == Head(pending[h])
             D == Dialable(descriptor, req[h])
  <1>1. /\ pc[h] = "dial" /\ UNCHANGED <<config, req>>
        /\ tried' = [tried EXCEPT ![h] = @ \cup {a}]
        /\ \/ /\ upstream' = upstream /\ pending' = [pending EXCEPT ![h] = Tail(@)]
              /\ \/ pc' = [pc EXCEPT ![h] = "done"]
                 \/ pc' = pc /\ Len(pending[h]) # 1
           \/ /\ upstream' = [upstream EXCEPT ![h] = a] /\ pending' = pending
              /\ pc' = [pc EXCEPT ![h] = "tunnel"]
    BY DEF DialFails, DialSucceeds, Refuse
  <1>2. /\ pending[h] \in Seq(D) \ {<<>>} /\ tried[h] \subseteq D /\ req[h] \in Requests
        /\ req[h].defect = Absent
        /\ upstream[h] \in Addresses \cup {Absent}
    BY <1>1 DEF DialInv, DialsChecked
  <1>3. D \subseteq Addresses
    BY DEF Dialable
  <1>4. D' = D /\ req'[h] = req[h]
    BY <1>1 DEF config, Dialable
  <1> HIDE DEF D
  <1>5. a \in D /\ (Len(pending[h]) # 1 => Tail(pending[h]) \in Seq(D) \ {<<>>})
    <2> DEFINE s == pending[h]
    <2>1. s \in Seq(D) /\ s # <<>>
      BY <1>2
    <2> HIDE DEF s
    <2>2. Head(s) \in D /\ Tail(s) \in Seq(D) /\ Len(Tail(s)) = Len(s) - 1 /\ Len(s) \in Nat
      BY <2>1
    <2>3. Len(s) # 1 => Tail(s) # <<>>
      <3> DEFINE u == Tail(s)
      <3>1. Len(<<>>) = 0 /\ Len(u) = Len(s) - 1 /\ Len(s) \in Nat
        BY <2>2
      <3> HIDE DEF u
      <3> SUFFICES Len(s) # 1 => u # <<>>
        BY DEF u
      <3>2. Len(s) # 1 => Len(u) # 0
        BY <3>1
      <3> QED  BY <3>1, <3>2
    <2> QED  BY <2>2, <2>3 DEF s
  <1> HIDE DEF a
  <1>6. pc[h] \in {"idle", "decide", "dial", "tunnel", "done"} /\ StateOK
    BY <1>1 DEF BoundaryInv
  <1>7. /\ tried'[h] \subseteq D /\ upstream'[h] \in Addresses \cup {Absent}
        /\ pc'[h] = "dial" => pending'[h] \in Seq(D) \ {<<>>}
    BY <1>1, <1>2, <1>3, <1>5, <1>6 DEF StateOK, DialInv
  <1>8. DialsChecked(h)'
    BY <1>2, <1>4, <1>7 DEF DialsChecked, D
  <1>9. \A g \in Handlers \ {h} : /\ pc'[g] = pc[g] /\ pending'[g] = pending[g]
                                  /\ tried'[g] = tried[g] /\ upstream'[g] = upstream[g]
    BY <1>1, <1>6 DEF StateOK, DialInv
  <1>10. pending' = [g \in Handlers |-> pending'[g]]
    BY <1>1 DEF DialInv
  <1> QED  BY <1>1, <1>8, <1>9, <1>10, DialerKeepsInv DEF DialInv

\* The end of a tunnel.
LEMMA TunnelEndsKeepsDials ==
    ASSUME BoundaryInv, DialInv, NEW h \in Handlers, TunnelEnds(h)
    PROVE  DialInv'
  <1>1. DialsChecked(h)'
    BY DEF TunnelEnds, DialInv, DialsChecked, BoundaryInv, StateOK, config
  <1>2. \A g \in Handlers \ {h} : pc'[g] = pc[g] /\ upstream'[g] = upstream[g]
    BY DEF TunnelEnds, BoundaryInv, StateOK
  <1>3. UNCHANGED <<config, req, pending, tried>>
    BY DEF TunnelEnds
  <1> QED  BY <1>1, <1>2, <1>3, DialerKeepsInv DEF DialInv

\* connectUpstream and dialAuthorized: every address the boundary ever dials
\* was checked for this very request, and a special-purpose one is listed.
THEOREM BoundaryDialsAreListed == Spec => []SpecialDialsAreListed
  <1>1. Init => DialInv
    BY DEF Init, DialInv, DialsChecked, Dialable
  <1>2. BoundaryInv /\ DialInv /\ [Next]_vars => DialInv'
    <2> SUFFICES ASSUME BoundaryInv, DialInv, [Next]_vars PROVE DialInv'
      OBVIOUS
    <2>1. CASE UNCHANGED <<config, handlerVars>>
      BY <2>1 DEF DialInv, DialsChecked, config, handlerVars
    <2>2. ASSUME NEW c \in Conns, Arrive(c) \/ Accept(c) \/ ConnStep(c) \/ ClientGone(c)
          PROVE  UNCHANGED <<config, handlerVars>>
      BY <2>2 DEF Arrive, Accept, AcceptWithin, AcceptBusy, ConnStep, Open, HandshakeFails,
        ServeReturns, Release, ClientGone
    <2>3. ASSUME NEW h \in Handlers, Handle(h)
          PROVE  DialInv'
      <3>1. CASE RefuseOutright(h)
        BY <3>1, RefuseKeepsDials DEF RefuseOutright, Refuse
      <3> QED  BY <2>3, <3>1, AuthorizeKeepsDials, DialKeepsDials, TunnelEndsKeepsDials DEF Handle
    <2>4. ASSUME NEW h \in Handlers, NEW r \in Requests, ReceiveRequest(h, r)
          PROVE  DialInv'
      BY <2>4, ReceiveKeepsDials
    <2>5. CASE UNCHANGED vars
      BY <2>1, <2>5 DEF vars
    <2> QED  BY <2>1, <2>2, <2>3, <2>4, <2>5 DEF Next
  <1>3. BoundaryInv /\ DialInv => SpecialDialsAreListed
    <2> SUFFICES ASSUME BoundaryInv, DialInv PROVE SpecialDialsAreListed
      OBVIOUS
    <2>1. \A h \in Handlers : tried[h] \subseteq Addresses /\ upstream[h] \in Addresses \cup {Absent}
      BY DEF DialInv, DialsChecked, Dialable
    <2>2. TypeOK
      BY <2>1 DEF BoundaryInv, StateOK, DialInv, TypeOK
    <2>3. \A h \in Handlers : \A a \in tried[h] \cap Special : Listing(descriptor, req[h], a)
      BY DEF DialInv, DialsChecked, Dialable
    <2> QED  BY <2>2, <2>3 DEF SpecialDialsAreListed, Listing
  <1> QED  BY <1>1, <1>2, <1>3, BoundaryInvariance, PTL DEF Spec
=============================================================================
