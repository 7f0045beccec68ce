--------------------------- MODULE AdaptersProofs ---------------------------
(***************************************************************************)
(* The safety properties of the programs beside the sandbox: the engine    *)
(* and the two programs around it, for any finite set of flows, any budget *)
(* and either setting of EnableUDP; and the launcher that starts an agent  *)
(* over them, for any processes of the sandbox, any ways an agent ends,    *)
(* any capacity of the signal channel and any number of signals.           *)
(***************************************************************************)
EXTENDS Adapters, Launcher, FiniteSetTheorems, SequenceTheorems, TLAPS

-----------------------------------------------------------------------------
(* The inductive invariant *)

\* The ends and the hook of a flow at every place of its handler.
FlowShape(f) ==
    /\ pc[f] \in {"away", "refused"} => guest[f] = "none" /\ upstream[f] = "none"
    /\ pc[f] = "dial" => /\ upstream[f] = "none" /\ Proto[f] # "dns"
                         /\ Proto[f] = "tcp" => guest[f] = "none"
                         /\ Proto[f] = "udp" => guest[f] = "open"
    /\ pc[f] = "endpoint" => /\ guest[f] = "none"
                             /\ upstream[f] = IF Proto[f] = "tcp" THEN "open" ELSE "none"
    /\ pc[f] = "serve" => Proto[f] = "dns" /\ upstream[f] = "none" /\ guest[f] # "none"
    /\ pc[f] = "relay" => Proto[f] # "dns" /\ upstream[f] # "none" /\ guest[f] # "none"
    /\ hook[f] # "none" => pc[f] \notin {"away", "refused", "dial", "endpoint"}
    /\ hook[f] = "armed" => pc[f] \in {"serve", "relay"}
    /\ hook[f] = "closing" => Proto[f] # "dns" /\ upstream[f] # "none" /\ guest[f] # "none"

FlowsAreShaped == \A f \in Flows : FlowShape(f)

\* Close takes the lock before it waits, and once it has waited no flow that
\* counts as a worker is left.
CloseIsOrdered ==
    /\ closer # "idle" => closed
    /\ closer \in {"waited", "done"} => \A f \in Flows : pc[f] \notin CountsAsWorker

EngineInv ==
    /\ CountsAreExact
    /\ FlowsAreShaped
    /\ NothingLeftOpen
    /\ CompletedOnce
    /\ CloseIsOrdered

AdapterTypeOK ==
    /\ adapter \in {"tun", "qemu"}
    /\ ended \in BOOLEAN /\ runCanceled \in BOOLEAN /\ stream \in BOOLEAN
    /\ main \in {"serve", "stop", "drain", "close", "returned"}
    /\ pump \in [Copies -> {"frame", "write", "ended"}]
    /\ results \in Nat

\* Results the goroutines have sent, and results Run has received.
Sent(d)  == IF pump[d] = "ended" THEN 1 ELSE 0
Received == IF main = "serve" THEN 0 ELSE IF main \in {"stop", "drain"} THEN 1 ELSE 2

\* Every goroutine of Run sends one result, and Run closes the engine after it
\* has received both.
ResultsAreExact ==
    /\ adapter = "qemu" => results + Received = Sent("in") + Sent("out")
    /\ adapter = "tun" => /\ main \notin {"stop", "drain"}
                          /\ results = 0 /\ \A d \in Copies : pump[d] = "ended"
                          /\ ~stream

AdapterInv ==
    /\ EngineInv
    /\ AdapterTypeOK
    /\ ResultsAreExact
    /\ main \in {"drain", "close", "returned"} => ~stream
    /\ closer # "idle" => main \in {"close", "returned"}
    /\ main = "returned" => closer = "done"

-----------------------------------------------------------------------------
(* Counting *)

\* The flows whose place p is in L, and how many they are.
At(p, L)    == {f \in Flows : p[f] \in L}
Count(p, L) == Cardinality(At(p, L))

\* A flow moves from one place of its handler to another: what that does to the
\* number of flows in a set of places.
LEMMA CountMoves ==
    ASSUME NEW P, NEW p \in [Flows -> P], NEW x \in Flows, NEW l, NEW L
    PROVE  LET q == [p EXCEPT ![x] = l]
           IN  /\ Count(p, L) \in Nat /\ Count(q, L) \in Nat
               /\ (p[x] \in L <=> l \in L) => Count(q, L) = Count(p, L)
               /\ p[x] \notin L /\ l \in L => Count(q, L) = Count(p, L) + 1
               /\ p[x] \in L /\ l \notin L => Count(q, L) = Count(p, L) - 1 /\ Count(p, L) > 0
<1> DEFINE q == [p EXCEPT ![x] = l]
           A == At(p, L)
           B == At(q, L)
<1>1. IsFiniteSet(A) /\ IsFiniteSet(B)
  BY FS_Subset, EngineAssumption DEF At
<1>2. Cardinality(A) \in Nat /\ Cardinality(B) \in Nat
  BY <1>1, FS_CardinalityType
<1>3. ASSUME p[x] \in L <=> l \in L
      PROVE  A = B
  BY <1>3 DEF At
<1>4. ASSUME p[x] \notin L, l \in L
      PROVE  Cardinality(B) = Cardinality(A) + 1
  <2>1. x \notin A /\ B = A \cup {x}
    BY <1>4 DEF At
  <2>2. QED
    BY <2>1, <1>1, FS_AddElement
<1>5. ASSUME p[x] \in L, l \notin L
      PROVE  Cardinality(B) = Cardinality(A) - 1 /\ Cardinality(A) > 0
  <2>1. x \notin B /\ A = B \cup {x}
    BY <1>5 DEF At
  <2>2. Cardinality(A) = Cardinality(B) + 1
    BY <2>1, <1>1, FS_AddElement
  <2>3. QED
    BY <2>2, <1>2
<1>6. QED
  BY <1>2, <1>3, <1>4, <1>5 DEF Count

\* CountsAreExact in terms of Count.
LEMMA CountsAsCount ==
    CountsAreExact <=> TypeOK /\ sessions = Count(pc, HoldsSlot) /\ workers = Count(pc, CountsAsWorker)
BY DEF CountsAreExact, Count, At

\* The counters after a flow has moved.
LEMMA CountsMove ==
    ASSUME CountsAreExact, NEW f \in Flows,
           NEW l \in CountsAsWorker \cup {"away", "refused", "ended"}, Goto(f, l)
    PROVE  /\ pc' \in [Flows -> CountsAsWorker \cup {"away", "refused", "ended"}]
           /\ \A g \in Flows : pc'[g] = IF g = f THEN l ELSE pc[g]
           /\ Count(pc', HoldsSlot) =
                CASE pc[f] \notin HoldsSlot /\ l \in HoldsSlot -> sessions + 1
                  [] pc[f] \in HoldsSlot /\ l \notin HoldsSlot -> sessions - 1
                  [] OTHER -> sessions
           /\ Count(pc', CountsAsWorker) =
                CASE pc[f] \notin CountsAsWorker /\ l \in CountsAsWorker -> workers + 1
                  [] pc[f] \in CountsAsWorker /\ l \notin CountsAsWorker -> workers - 1
                  [] OTHER -> workers
           /\ pc[f] \in CountsAsWorker => workers > 0
<1> DEFINE Places == CountsAsWorker \cup {"away", "refused", "ended"}
<1>1. pc \in [Flows -> Places] /\ pc' = [pc EXCEPT ![f] = l]
  BY DEF CountsAreExact, TypeOK, Goto
<1>2. pc' \in [Flows -> Places] /\ \A g \in Flows : pc'[g] = IF g = f THEN l ELSE pc[g]
  BY <1>1
<1>3. /\ sessions = Count(pc, HoldsSlot)
      /\ workers = Count(pc, CountsAsWorker)
  BY CountsAsCount
<1> HIDE DEF Places
<1>4. \A L : /\ (pc[f] \in L <=> l \in L) => Count(pc', L) = Count(pc, L)
             /\ pc[f] \notin L /\ l \in L => Count(pc', L) = Count(pc, L) + 1
             /\ pc[f] \in L /\ l \notin L => Count(pc', L) = Count(pc, L) - 1 /\ Count(pc, L) > 0
  <2> TAKE L
  <2>1. LET q == [pc EXCEPT ![f] = l]
        IN  /\ Count(pc, L) \in Nat /\ Count(q, L) \in Nat
            /\ (pc[f] \in L <=> l \in L) => Count(q, L) = Count(pc, L)
            /\ pc[f] \notin L /\ l \in L => Count(q, L) = Count(pc, L) + 1
            /\ pc[f] \in L /\ l \notin L => Count(q, L) = Count(pc, L) - 1 /\ Count(pc, L) > 0
    BY <1>1, CountMoves, Zenon
  <2>2. QED
    BY <1>1, <2>1
<1>5. pc[f] \in CountsAsWorker => workers > 0
  <2>1. [pc EXCEPT ![f] = "ended"][f] \notin CountsAsWorker /\ "ended" \notin CountsAsWorker
    BY <1>1 DEF CountsAsWorker, HoldsSlot
  <2>2. QED
    BY <1>1, <1>3, <2>1, CountMoves
<1>6. QED
  BY <1>2, <1>3, <1>4, <1>5 DEF Places
-----------------------------------------------------------------------------
(* The engine's steps *)

\* A step of a flow is one of its actions.
LEMMA FlowStepCases ==
    ASSUME NEW f \in Flows, FlowStep(f)
    PROVE  \/ Acquire(f) \/ AcquireFails(f) \/ ReleaseSlot(f) \/ ReleaseWorker(f)
           \/ DialFails(f) \/ DialSucceeds(f)
           \/ EndpointTCP(f) \/ EndpointTCPFails(f) \/ EndpointUDP(f) \/ EndpointUDPFails(f)
           \/ ServeDNSReturns(f) \/ HookRuns(f) \/ CopyEnds(f) \/ RelayEnds(f)
BY DEF FlowStep, Accept, Work, CopyEnds, CopyFails

\* Every step of a flow moves the counters with its place.
LEMMA FlowKeepsCounts ==
    ASSUME EngineInv, NEW f \in Flows, FlowStep(f)
    PROVE  CountsAreExact'
<1> USE DEF HoldsSlot, CountsAsWorker
<1>1. CountsAreExact /\ TypeOK /\ FlowShape(f)
  BY DEF EngineInv, CountsAreExact, FlowsAreShaped
<1>2. Proto[f] \in {"tcp", "udp", "dns"} /\ MaxConnections \in Nat
  BY EngineAssumption
<1>3. ASSUME TypeOK', sessions' = Count(pc', HoldsSlot), workers' = Count(pc', CountsAsWorker)
      PROVE  CountsAreExact'
  BY <1>3 DEF CountsAreExact, Count, At
<1>4. CASE Acquire(f)
  <2> DEFINE l == IF Proto[f] = "tcp" THEN "dial" ELSE "endpoint"
  <2>1. Goto(f, l) /\ l \in CountsAsWorker \cup {"away", "refused", "ended"}
    BY <1>4, <1>2 DEF Acquire, Goto
  <2>2. sessions' = Count(pc', HoldsSlot) /\ workers' = Count(pc', CountsAsWorker)
    BY <1>1, <1>2, <2>1, <1>4, CountsMove DEF Acquire, TypeOK
  <2>3. TypeOK'
    BY <1>1, <1>2, <2>1, <1>4, CountsMove DEF TypeOK, Acquire
  <2>4. QED
    BY <1>3, <2>2, <2>3
<1>5. CASE AcquireFails(f)
  <2> DEFINE l == "refused"
  <2>1. Goto(f, l) /\ l \in CountsAsWorker \cup {"away", "refused", "ended"}
    BY <1>5, <1>2 DEF AcquireFails, Goto
  <2>2. sessions' = Count(pc', HoldsSlot) /\ workers' = Count(pc', CountsAsWorker)
    BY <1>1, <1>2, <2>1, <1>5, CountsMove DEF AcquireFails, TypeOK
  <2>3. TypeOK'
    BY <1>1, <1>2, <2>1, <1>5, CountsMove DEF TypeOK, AcquireFails, Complete
  <2>4. QED
    BY <1>3, <2>2, <2>3
<1>6. CASE ReleaseSlot(f)
  <2> DEFINE l == "done"
  <2>1. Goto(f, l) /\ l \in CountsAsWorker \cup {"away", "refused", "ended"}
    BY <1>6, <1>2 DEF ReleaseSlot, Goto
  <2>2. sessions' = Count(pc', HoldsSlot) /\ workers' = Count(pc', CountsAsWorker)
    BY <1>1, <1>2, <2>1, <1>6, CountsMove DEF ReleaseSlot, TypeOK
  <2>3. TypeOK'
    BY <1>1, <1>2, <2>1, <1>6, CountsMove DEF TypeOK, ReleaseSlot
  <2>4. QED
    BY <1>3, <2>2, <2>3
<1>7. CASE ReleaseWorker(f)
  <2> DEFINE l == "ended"
  <2>1. Goto(f, l) /\ l \in CountsAsWorker \cup {"away", "refused", "ended"}
    BY <1>7, <1>2 DEF ReleaseWorker, Goto
  <2>2. sessions' = Count(pc', HoldsSlot) /\ workers' = Count(pc', CountsAsWorker)
    BY <1>1, <1>2, <2>1, <1>7, CountsMove DEF ReleaseWorker, TypeOK
  <2>3. TypeOK'
    BY <1>1, <1>2, <2>1, <1>7, CountsMove DEF TypeOK, ReleaseWorker
  <2>4. QED
    BY <1>3, <2>2, <2>3
<1>8. CASE DialFails(f)
  <2> DEFINE l == "release"
  <2>1. Goto(f, l) /\ l \in CountsAsWorker \cup {"away", "refused", "ended"}
    BY <1>8, <1>2 DEF DialFails, Goto
  <2>2. sessions' = Count(pc', HoldsSlot) /\ workers' = Count(pc', CountsAsWorker)
    BY <1>1, <1>2, <2>1, <1>8, CountsMove DEF DialFails, TypeOK
  <2>3. TypeOK'
    BY <1>1, <1>2, <2>1, <1>8, CountsMove DEF TypeOK, DialFails, Complete
  <2>4. QED
    BY <1>3, <2>2, <2>3
<1>9. CASE DialSucceeds(f)
  <2> DEFINE l == IF Proto[f] = "tcp" THEN "endpoint" ELSE "relay"
  <2>1. Goto(f, l) /\ l \in CountsAsWorker \cup {"away", "refused", "ended"}
    BY <1>9, <1>2 DEF DialSucceeds, StartRelay, Goto
  <2>2. sessions' = Count(pc', HoldsSlot) /\ workers' = Count(pc', CountsAsWorker)
    BY <1>1, <1>2, <2>1, <1>9, CountsMove DEF DialSucceeds, StartRelay, TypeOK
  <2>3. TypeOK'
    BY <1>1, <1>2, <2>1, <1>9, CountsMove DEF TypeOK, DialSucceeds, StartRelay, Copies
  <2>4. QED
    BY <1>3, <2>2, <2>3
<1>10. CASE EndpointTCP(f)
  <2> DEFINE l == "relay"
  <2>1. Goto(f, l) /\ l \in CountsAsWorker \cup {"away", "refused", "ended"}
    BY <1>10, <1>2 DEF EndpointTCP, StartRelay, Goto
  <2>2. sessions' = Count(pc', HoldsSlot) /\ workers' = Count(pc', CountsAsWorker)
    BY <1>1, <1>2, <2>1, <1>10, CountsMove DEF EndpointTCP, StartRelay, TypeOK
  <2>3. TypeOK'
    BY <1>1, <1>2, <2>1, <1>10, CountsMove DEF TypeOK, EndpointTCP, StartRelay, Complete, Copies
  <2>4. QED
    BY <1>3, <2>2, <2>3
<1>11. CASE EndpointTCPFails(f)
  <2> DEFINE l == "release"
  <2>1. Goto(f, l) /\ l \in CountsAsWorker \cup {"away", "refused", "ended"}
    BY <1>11, <1>2 DEF EndpointTCPFails, Goto
  <2>2. sessions' = Count(pc', HoldsSlot) /\ workers' = Count(pc', CountsAsWorker)
    BY <1>1, <1>2, <2>1, <1>11, CountsMove DEF EndpointTCPFails, TypeOK
  <2>3. TypeOK'
    BY <1>1, <1>2, <2>1, <1>11, CountsMove DEF TypeOK, EndpointTCPFails, Complete
  <2>4. QED
    BY <1>3, <2>2, <2>3
<1>12. CASE EndpointUDP(f)
  <2> DEFINE l == IF Proto[f] = "dns" THEN "serve" ELSE "dial"
  <2>1. Goto(f, l) /\ l \in CountsAsWorker \cup {"away", "refused", "ended"}
    BY <1>12, <1>2 DEF EndpointUDP, Goto
  <2>2. sessions' = Count(pc', HoldsSlot) /\ workers' = Count(pc', CountsAsWorker)
    BY <1>1, <1>2, <2>1, <1>12, CountsMove DEF EndpointUDP, TypeOK
  <2>3. TypeOK'
    BY <1>1, <1>2, <2>1, <1>12, CountsMove DEF TypeOK, EndpointUDP
  <2>4. QED
    BY <1>3, <2>2, <2>3
<1>13. CASE EndpointUDPFails(f)
  <2> DEFINE l == "release"
  <2>1. Goto(f, l) /\ l \in CountsAsWorker \cup {"away", "refused", "ended"}
    BY <1>13, <1>2 DEF EndpointUDPFails, Goto
  <2>2. sessions' = Count(pc', HoldsSlot) /\ workers' = Count(pc', CountsAsWorker)
    BY <1>1, <1>2, <2>1, <1>13, CountsMove DEF EndpointUDPFails, TypeOK
  <2>3. TypeOK'
    BY <1>1, <1>2, <2>1, <1>13, CountsMove DEF TypeOK, EndpointUDPFails
  <2>4. QED
    BY <1>3, <2>2, <2>3
<1>14. CASE ServeDNSReturns(f)
  <2> DEFINE l == "release"
  <2>1. Goto(f, l) /\ l \in CountsAsWorker \cup {"away", "refused", "ended"}
    BY <1>14, <1>2 DEF ServeDNSReturns, Goto
  <2>2. sessions' = Count(pc', HoldsSlot) /\ workers' = Count(pc', CountsAsWorker)
    BY <1>1, <1>2, <2>1, <1>14, CountsMove DEF ServeDNSReturns, TypeOK
  <2>3. TypeOK'
    BY <1>1, <1>2, <2>1, <1>14, CountsMove DEF TypeOK, ServeDNSReturns
  <2>4. QED
    BY <1>3, <2>2, <2>3
<1>15. CASE HookRuns(f)
  <2>1. TypeOK'
    BY <1>1, <1>15 DEF TypeOK, HookRuns
  <2>2. UNCHANGED <<pc, sessions, workers>>
    BY <1>15 DEF HookRuns
  <2>3. QED
    BY <1>1, <2>1, <2>2, CountsAsCount, <1>3
<1>16. CASE CopyEnds(f)
  <2>1. TypeOK'
    BY <1>1, <1>16 DEF TypeOK, CopyEnds, EndCopy
  <2>2. UNCHANGED <<pc, sessions, workers>>
    BY <1>16 DEF CopyEnds, EndCopy
  <2>3. QED
    BY <1>1, <2>1, <2>2, CountsAsCount, <1>3
<1>17. CASE RelayEnds(f)
  <2> DEFINE l == "release"
  <2>1. Goto(f, l) /\ l \in CountsAsWorker \cup {"away", "refused", "ended"}
    BY <1>17, <1>2 DEF RelayEnds, Goto
  <2>2. sessions' = Count(pc', HoldsSlot) /\ workers' = Count(pc', CountsAsWorker)
    BY <1>1, <1>2, <2>1, <1>17, CountsMove DEF RelayEnds, TypeOK
  <2>3. TypeOK'
    BY <1>1, <1>2, <2>1, <1>17, CountsMove DEF TypeOK, RelayEnds
  <2>4. QED
    BY <1>3, <2>2, <2>3
<1>18. QED
  BY <1>4, <1>5, <1>6, <1>7, <1>8, <1>9, <1>10, <1>11, <1>12, <1>13, <1>14, <1>15, <1>16, <1>17, FlowStepCases

\* Every step of a flow keeps its ends in the shape that its place asks for.
LEMMA FlowKeepsShape ==
    ASSUME EngineInv, NEW f \in Flows, FlowStep(f)
    PROVE  (FlowsAreShaped /\ NothingLeftOpen /\ CompletedOnce)'
<1> DEFINE Shaped(g) ==
      /\ FlowShape(g)
      /\ pc[g] \in {"release", "done", "ended"} => guest[g] # "open" /\ upstream[g] # "open"
      /\ Proto[g] = "tcp" => /\ completed[g] = IF pc[g] \in {"away", "dial", "endpoint"} THEN 0 ELSE 1
                             /\ guest[g] # "none" => upstream[g] # "none"
<1>1. TypeOK /\ \A g \in Flows : Shaped(g)
  BY DEF EngineInv, CountsAreExact, FlowsAreShaped, NothingLeftOpen, CompletedOnce
<1>2. Proto[f] \in {"tcp", "udp", "dns"}
  BY EngineAssumption
<1>3. SUFFICES ASSUME NEW g \in Flows
               PROVE  Shaped(g)'
  BY DEF FlowsAreShaped, NothingLeftOpen, CompletedOnce
<1>4. CASE Acquire(f)
  BY <1>1, <1>2, <1>4 DEF TypeOK, FlowShape, Acquire, Goto
<1>5. CASE AcquireFails(f)
  BY <1>1, <1>2, <1>5 DEF TypeOK, FlowShape, AcquireFails, Goto, Complete
<1>6. CASE ReleaseSlot(f)
  BY <1>1, <1>2, <1>6 DEF TypeOK, FlowShape, ReleaseSlot, Goto
<1>7. CASE ReleaseWorker(f)
  BY <1>1, <1>2, <1>7 DEF TypeOK, FlowShape, ReleaseWorker, Goto
<1>8. CASE DialFails(f)
  BY <1>1, <1>2, <1>8 DEF TypeOK, FlowShape, DialFails, Goto, Complete
<1>9. CASE DialSucceeds(f)
  BY <1>1, <1>2, <1>9 DEF TypeOK, FlowShape, DialSucceeds, Goto, StartRelay
<1>10. CASE EndpointTCP(f)
  BY <1>1, <1>2, <1>10 DEF TypeOK, FlowShape, EndpointTCP, Goto, StartRelay, Complete
<1>11. CASE EndpointTCPFails(f)
  BY <1>1, <1>2, <1>11 DEF TypeOK, FlowShape, EndpointTCPFails, Goto, Complete
<1>12. CASE EndpointUDP(f)
  BY <1>1, <1>2, <1>12 DEF TypeOK, FlowShape, EndpointUDP, Goto
<1>13. CASE EndpointUDPFails(f)
  BY <1>1, <1>2, <1>13 DEF TypeOK, FlowShape, EndpointUDPFails, Goto
<1>14. CASE ServeDNSReturns(f)
  BY <1>1, <1>2, <1>14 DEF TypeOK, FlowShape, ServeDNSReturns, Goto
<1>15. CASE HookRuns(f)
  BY <1>1, <1>2, <1>15 DEF TypeOK, FlowShape, HookRuns
<1>16. CASE CopyEnds(f)
  BY <1>1, <1>2, <1>16 DEF TypeOK, FlowShape, CopyEnds, EndCopy
<1>17. CASE RelayEnds(f)
  BY <1>1, <1>2, <1>17 DEF TypeOK, FlowShape, RelayEnds, Goto
<1>18. QED
  BY <1>4, <1>5, <1>6, <1>7, <1>8, <1>9, <1>10, <1>11, <1>12, <1>13, <1>14, <1>15, <1>16, <1>17, FlowStepCases

\* No flow becomes a worker after Close has taken the lock.
LEMMA FlowKeepsOrder ==
    ASSUME EngineInv, NEW f \in Flows, FlowStep(f)
    PROVE  CloseIsOrdered'
<1> USE DEF HoldsSlot, CountsAsWorker
<1>1. TypeOK /\ CloseIsOrdered
  BY DEF EngineInv, CountsAreExact
<1>2. UNCHANGED <<closer, closed>>
  BY FlowStepCases DEF Acquire, AcquireFails, ReleaseSlot, ReleaseWorker, DialFails,
      DialSucceeds, EndpointTCP, EndpointTCPFails, EndpointUDP, EndpointUDPFails, ServeDNSReturns,
      HookRuns, CopyEnds, RelayEnds, EndCopy
<1>3. CASE closer \notin {"waited", "done"}
  BY <1>1, <1>2, <1>3 DEF CloseIsOrdered
<1>4. CASE closer \in {"waited", "done"}
  <2>1. closed /\ \A g \in Flows : pc[g] \notin CountsAsWorker
    BY <1>1, <1>4 DEF CloseIsOrdered
  <2>2. AcquireFails(f) \/ HookRuns(f)
    BY <2>1, FlowStepCases DEF Acquire, ReleaseSlot, ReleaseWorker, DialFails, DialSucceeds,
        EndpointTCP, EndpointTCPFails, EndpointUDP, EndpointUDPFails, ServeDNSReturns, CopyEnds,
        RelayEnds, EndCopy
  <2>3. \A g \in Flows : pc'[g] \in {pc[g], "refused"}
    BY <1>1, <2>2 DEF TypeOK, AcquireFails, HookRuns, Goto
  <2>4. QED
    BY <1>1, <1>2, <2>1, <2>3 DEF CloseIsOrdered
<1>5. QED
  BY <1>3, <1>4

\* Close moves no flow; it has waited only when the WaitGroup is at zero, and
\* then no flow is a worker.
LEMMA CloseKeeps ==
    ASSUME EngineInv, Close
    PROVE  EngineInv'
<1> USE DEF CloseMarks, CloseCancels, CloseWaits, CloseTearsDown
<1>1. UNCHANGED <<flowVars, sessions, workers>>
  BY DEF Close
<1>2. CountsAreExact'
  BY <1>1 DEF EngineInv, CountsAreExact, TypeOK, flowVars, Close
<1>3. (FlowsAreShaped /\ NothingLeftOpen /\ CompletedOnce)'
  BY <1>1 DEF EngineInv, FlowsAreShaped, FlowShape, NothingLeftOpen, CompletedOnce, flowVars
<1>4. CloseIsOrdered'
  <2>1. CloseIsOrdered
    BY DEF EngineInv
  <2>2. CASE CloseWaits
    <3>1. Cardinality({f \in Flows : pc[f] \in CountsAsWorker}) = 0
      BY <2>2 DEF EngineInv, CountsAreExact
    <3>2. IsFiniteSet({f \in Flows : pc[f] \in CountsAsWorker})
      BY FS_Subset, EngineAssumption
    <3>3. {f \in Flows : pc[f] \in CountsAsWorker} = {}
      BY <3>1, <3>2, FS_EmptySet
    <3>4. \A f \in Flows : pc[f] \notin CountsAsWorker
      BY <3>3
    <3>5. QED
      BY <1>1, <2>1, <2>2, <3>4 DEF CloseIsOrdered, flowVars
  <2>3. CASE CloseMarks \/ CloseCancels \/ CloseTearsDown
    BY <1>1, <2>1, <2>3 DEF CloseIsOrdered, flowVars
  <2>4. QED
    BY <2>2, <2>3 DEF Close
<1>5. QED
  BY <1>2, <1>3, <1>4 DEF EngineInv

LEMMA EngineStep ==
    EngineInv /\ [Next]_vars => EngineInv'
<1> SUFFICES ASSUME EngineInv, [Next]_vars
             PROVE  EngineInv'
  OBVIOUS
<1>1. ASSUME NEW f \in Flows, FlowStep(f)
      PROVE  EngineInv'
  BY <1>1, FlowKeepsCounts, FlowKeepsShape, FlowKeepsOrder DEF EngineInv
<1>2. CASE Close
  BY <1>2, CloseKeeps
<1>3. CASE UNCHANGED vars
  BY <1>3 DEF vars, flowVars, EngineInv, CountsAreExact, TypeOK, FlowsAreShaped, FlowShape,
              NothingLeftOpen, CompletedOnce, CloseIsOrdered
<1>4. QED
  BY <1>1, <1>2, <1>3 DEF Next, FlowStep

LEMMA EngineInit ==
    Init => EngineInv
<1> SUFFICES ASSUME Init
             PROVE  EngineInv
  OBVIOUS
<1>1. TypeOK
  <2>1. 0 \in 0 .. MaxConnections
    BY EngineAssumption
  <2>2. copying \in [Flows -> SUBSET Copies]
    BY DEF Init
  <2>3. QED
    BY <2>1, <2>2 DEF Init, TypeOK
<1>2. At(pc, HoldsSlot) = {} /\ At(pc, CountsAsWorker) = {}
  BY DEF Init, At, HoldsSlot, CountsAsWorker
<1>3. CountsAreExact
  BY <1>1, <1>2, FS_EmptySet, CountsAsCount DEF Init, Count
<1>4. QED
  BY <1>3 DEF Init, EngineInv, FlowsAreShaped, FlowShape, NothingLeftOpen, CompletedOnce, CloseIsOrdered

-----------------------------------------------------------------------------
(* The programs around the engine *)

\* A step of a program is a step of the engine or leaves the engine alone.
LEMMA AdapterStepsAreEngineSteps ==
    AdapterNext => [Next]_vars
BY DEF AdapterNext, FlowStep, Next, Main, RunStops, Drain, DaemonStops, CloseEngine, Return, PumpOut,
       WriteFrame, WriteFrameFails, NoMoreFrames, StreamHook, Signal, TakeFrame, ReadFrameFails, PumpEnds

LEMMA AdapterStep ==
    AdapterInv /\ [AdapterNext]_allVars => AdapterInv'
<1> SUFFICES ASSUME AdapterInv, [AdapterNext]_allVars
             PROVE  AdapterInv'
  OBVIOUS
<1> DEFINE Rest == /\ AdapterTypeOK
                   /\ ResultsAreExact
                   /\ main \in {"drain", "close", "returned"} => ~stream
                   /\ closer # "idle" => main \in {"close", "returned"}
                   /\ main = "returned" => closer = "done"
<1>1. EngineInv'
  BY EngineStep, AdapterStepsAreEngineSteps DEF AdapterInv, allVars
<1> SUFFICES Rest'
  BY <1>1 DEF AdapterInv
<1>2. Rest
  BY DEF AdapterInv
<1>3. closer \in {"idle", "marked", "waiting", "waited", "done"}
  BY DEF AdapterInv, EngineInv, CountsAreExact, TypeOK
<1>4. Copies = {"in", "out"}
  BY DEF Copies
<1> USE DEF AdapterTypeOK, ResultsAreExact, Sent, Received
<1>5. ASSUME NEW f \in Flows, FlowStep(f), UNCHANGED adapterVars
      PROVE  Rest'
  <2>1. UNCHANGED closer
    BY <1>5, FlowStepCases DEF Acquire, AcquireFails, ReleaseSlot, ReleaseWorker, DialFails,
        DialSucceeds, EndpointTCP, EndpointTCPFails, EndpointUDP, EndpointUDPFails, ServeDNSReturns,
        HookRuns, CopyEnds, RelayEnds, EndCopy
  <2>2. QED
    BY <1>2, <1>5, <2>1 DEF adapterVars
<1>6. CASE RunStops
  <2>1. CASE main = "serve"
    BY <1>2, <1>3, <1>4, <1>6, <2>1 DEF RunStops, Drain, vars
  <2>2. CASE main = "stop"
    BY <1>2, <1>3, <1>4, <1>6, <2>2 DEF RunStops, Drain, vars
  <2>3. CASE main = "drain"
    BY <1>2, <1>3, <1>4, <1>6, <2>3 DEF RunStops, Drain, vars
  <2>4. QED
    BY <1>6, <2>1, <2>2, <2>3 DEF RunStops, Drain
<1>7. CASE DaemonStops
  BY <1>2, <1>3, <1>4, <1>7 DEF DaemonStops, vars
<1>8. CASE CloseEngine
  BY <1>2, <1>3, <1>4, <1>8
     DEF CloseEngine, Close, CloseMarks, CloseCancels, CloseWaits, CloseTearsDown, adapterVars
<1>9. CASE Return
  BY <1>2, <1>3, <1>4, <1>9 DEF Return, vars
<1>10. CASE PumpOut
  <2>1. CASE WriteFrame
    BY <1>2, <1>3, <1>4, <2>1 DEF WriteFrame, vars
  <2>2. CASE WriteFrameFails
    BY <1>2, <1>3, <1>4, <2>2 DEF WriteFrameFails, PumpEnds, vars
  <2>3. CASE NoMoreFrames
    BY <1>2, <1>3, <1>4, <2>3 DEF NoMoreFrames, PumpEnds, vars
  <2>4. QED
    BY <1>10, <2>1, <2>2, <2>3 DEF PumpOut
<1>11. CASE StreamHook \/ Signal
  <2>1. CASE StreamHook
    BY <1>2, <2>1 DEF StreamHook, vars
  <2>2. CASE Signal
    BY <1>2, <2>2 DEF Signal, vars
  <2>3. QED
    BY <1>11, <2>1, <2>2
<1>12. CASE TakeFrame \/ ReadFrameFails
  BY <1>2, <1>3, <1>4, <1>12 DEF TakeFrame, ReadFrameFails, PumpEnds, vars
<1>13. CASE UNCHANGED allVars
  BY <1>2, <1>13 DEF allVars, adapterVars, vars
<1>14. QED
  BY <1>5, <1>6, <1>7, <1>8, <1>9, <1>10, <1>11, <1>12, <1>13 DEF AdapterNext, Main

\* The inductive invariant holds of both programs.
THEOREM AdapterInvariance ==
    AdapterSpec => []AdapterInv
<1>1. AdapterInit => AdapterInv
  <2> SUFFICES ASSUME AdapterInit
               PROVE  AdapterInv
    OBVIOUS
  <2>1. EngineInv /\ closer = "idle"
    BY EngineInit DEF AdapterInit, Init
  <2>2. AdapterTypeOK /\ ResultsAreExact
    BY DEF AdapterInit, AdapterTypeOK, ResultsAreExact, Sent, Received, Copies
  <2>3. QED
    BY <2>1, <2>2 DEF AdapterInit, AdapterInv
<1>2. QED
  BY <1>1, AdapterStep, PTL DEF AdapterSpec

\* engine.go and forwarder.go: the slots and the WaitGroup count the flows that
\* hold them, and the budget is kept, whatever the flows and their number.
THEOREM EngineCountsAreExact ==
    AdapterSpec => []CountsAreExact
<1>1. AdapterInv => CountsAreExact
  BY DEF AdapterInv, EngineInv
<1>2. QED
  BY <1>1, AdapterInvariance, PTL

\* forwarder.go and relay.go: a session that gives its slot back has left neither
\* the guest's end nor the tunnel open.
THEOREM EngineLeavesNothingOpen ==
    AdapterSpec => []NothingLeftOpen
<1>1. AdapterInv => NothingLeftOpen
  BY DEF AdapterInv, EngineInv
<1>2. QED
  BY <1>1, AdapterInvariance, PTL

\* handleTCP: a request is completed once, and the guest's handshake completes
\* only over a tunnel the boundary granted.
THEOREM RequestsAreCompletedOnce ==
    AdapterSpec => []CompletedOnce
<1>1. AdapterInv => CompletedOnce
  BY DEF AdapterInv, EngineInv
<1>2. QED
  BY <1>1, AdapterInvariance, PTL

\* Engine.Close, qemuproxy.Run and the daemon: the stack is torn down under no
\* session and no goroutine that uses it, and the program returns with nothing
\* of its own left.
THEOREM StackIsTornDownLast ==
    AdapterSpec => []StackOutlivesUsers
<1>1. AdapterInv => StackOutlivesUsers
  <2> SUFFICES ASSUME AdapterInv
               PROVE  StackOutlivesUsers
    OBVIOUS
  <2>1. NoSessionOnClosedStack
    BY DEF AdapterInv, EngineInv, CountsAreExact, TypeOK, CloseIsOrdered, NoSessionOnClosedStack,
           CountsAsWorker, HoldsSlot
  <2>2. ASSUME main \in {"close", "returned"}
        PROVE  results = 0 /\ ~stream /\ \A d \in Copies : pump[d] = "ended"
    BY <2>2 DEF AdapterInv, AdapterTypeOK, ResultsAreExact, Sent, Received, Copies
  <2>3. QED
    BY <2>1, <2>2 DEF AdapterInv, StackOutlivesUsers
<1>2. QED
  BY <1>1, AdapterInvariance, PTL

-----------------------------------------------------------------------------
(* The launcher: the inductive invariant *)

\* The steps before the next one have succeeded; resolv.conf may have failed.
SetupIsOrdered ==
    \A i \in 1 .. Len(Steps) : i < next /\ Steps[i] # "resolvConf" => Steps[i] \in done

\* Where the agent is at every place of the launcher: it starts after the whole
\* set-up, and the launcher reaps it only to exit with its status.  Nothing is
\* forwarded or reaped before signal.Notify.
AgentFollowsLauncher ==
    /\ stage \in {"setup", "serve"} => child = "none"
    /\ stage \in {"started", "loop", "reap"} => child \in {"running", "zombie"}
    /\ stage = "exited" => child = "none" \/ (child = "reaped" /\ code = ExitCode(status))
    /\ stage \in {"setup", "started", "killed"} =>
        ~forwarded /\ child # "reaped" /\ \A o \in Orphans : orphan[o] # "reaped"
    /\ child # "none" => next = Len(Steps) + 1

LauncherInv ==
    /\ LaunchTypeOK
    /\ SetupIsOrdered
    /\ AgentFollowsLauncher

-----------------------------------------------------------------------------
(* The launcher: its set-up steps and its signals *)

\* The list has nine steps.
LEMMA StepsFacts ==
    /\ Len(Steps) = 9 /\ DOMAIN Steps = 1 .. 9
    /\ \A i \in 1 .. 9 : Steps[i] \in Range(Steps)
    /\ \A x \in Range(Steps) : \E i \in 1 .. 9 : x = Steps[i]
<1>1. Len(Steps) = 9 /\ DOMAIN Steps = 1 .. 9
  BY DEF Steps
<1>2. QED
  BY <1>1 DEF Range

\* A signal is delivered within the capacity of the channel.
LEMMA DeliverFacts ==
    ASSUME LaunchTypeOK, NEW s \in {"CHLD", "TERM"}, Deliver(s)
    PROVE  queue' \in Seq({"CHLD", "TERM"}) /\ Len(queue') <= SigBuffer
<1>1. queue \in Seq({"CHLD", "TERM"}) /\ Len(queue) <= SigBuffer /\ Len(queue) \in Nat /\ SigBuffer \in Nat
  BY LauncherAssumption DEF LaunchTypeOK
<1>2. CASE stage \in {"loop", "reap"} /\ Len(queue) < SigBuffer
  <2>1. queue' = Append(queue, s)
    BY <1>2 DEF Deliver
  <2>2. QED
    BY <1>1, <1>2, <2>1
<1>3. CASE ~(stage \in {"loop", "reap"} /\ Len(queue) < SigBuffer)
  BY <1>1, <1>3 DEF Deliver
<1>4. QED
  BY <1>2, <1>3

\* So is what is left after one has been received.
LEMMA ReceiveFacts ==
    ASSUME LaunchTypeOK, queue # <<>>
    PROVE  Tail(queue) \in Seq({"CHLD", "TERM"}) /\ Len(Tail(queue)) <= SigBuffer
<1>1. queue \in Seq({"CHLD", "TERM"}) /\ Len(queue) <= SigBuffer /\ SigBuffer \in Nat
  BY LauncherAssumption DEF LaunchTypeOK
<1>2. Tail(queue) \in Seq({"CHLD", "TERM"}) /\ Len(Tail(queue)) = Len(queue) - 1 /\ Len(queue) \in Nat
  BY <1>1, HeadTailProperties, LenProperties
<1>3. QED
  BY <1>1, <1>2

-----------------------------------------------------------------------------
(* The launcher: its steps *)

\* The launcher starts in the invariant.
LEMMA LauncherStarts ==
    LaunchInit => LauncherInv
<1> SUFFICES ASSUME LaunchInit
             PROVE  LauncherInv
  OBVIOUS
<1>1. LaunchTypeOK
  <2>1. queue \in Seq({"CHLD", "TERM"}) /\ Len(queue) = 0
    BY DEF LaunchInit
  <2>2. next \in 1 .. Len(Steps) + 1
    BY StepsFacts DEF LaunchInit
  <2>3. terms \in 0 .. MaxTerms /\ 0 <= SigBuffer
    BY LauncherAssumption DEF LaunchInit
  <2>4. QED
    BY <2>1, <2>2, <2>3 DEF LaunchInit, LaunchTypeOK
<1>2. QED
  BY <1>1, StepsFacts DEF LaunchInit, LauncherInv, SetupIsOrdered, AgentFollowsLauncher

\* A set-up step.
LEMMA SetupStepKeeps ==
    ASSUME LauncherInv, SetupStep
    PROVE  LauncherInv'
<1> USE DEF LauncherInv
<1>1. next \in 1 .. 9 /\ Steps[next] \in Range(Steps)
  BY StepsFacts DEF SetupStep, LaunchTypeOK
<1>2. LaunchTypeOK'
  BY <1>1, StepsFacts DEF SetupStep, LaunchTypeOK
<1>3. SetupIsOrdered'
  <2> SUFFICES ASSUME NEW i \in 1 .. Len(Steps), i < next', Steps[i] # "resolvConf"
               PROVE  Steps[i] \in done'
    BY DEF SetupIsOrdered
  <2>1. CASE next' = next + 1
    <3>1. i < next \/ i = next
      BY <1>1, <2>1, StepsFacts
    <3>2. QED
      BY <3>1 DEF SetupStep, SetupIsOrdered
  <2>2. CASE next' = next
    BY <2>2 DEF SetupStep, SetupIsOrdered
  <2>3. QED
    BY <2>1, <2>2 DEF SetupStep
<1>4. AgentFollowsLauncher'
  BY DEF SetupStep, AgentFollowsLauncher
<1>5. QED
  BY <1>2, <1>3, <1>4

\* The launcher's steps after the set-up.
LEMMA LaunchKeeps ==
    ASSUME LauncherInv, Launch
    PROVE  LauncherInv'
<1> USE DEF LauncherInv
<1>1. CASE SetupStep
  BY <1>1, SetupStepKeeps
<1>2. CASE ServeWithoutAgent \/ NotifySignals \/ ReapNone
  BY <1>2 DEF ServeWithoutAgent, NotifySignals, ReapNone, LaunchTypeOK, SetupIsOrdered, AgentFollowsLauncher
<1>3. CASE StopServing
  BY <1>3, ReceiveFacts DEF StopServing, LaunchTypeOK, SetupIsOrdered, AgentFollowsLauncher
<1>4. CASE StartChild
  <2>1. next = Len(Steps) + 1
    BY <1>4, StepsFacts DEF StartChild, LaunchTypeOK
  <2>2. QED
    BY <1>4, <2>1 DEF StartChild, LaunchTypeOK, SetupIsOrdered, AgentFollowsLauncher
<1>5. CASE ReceiveSignal
  <2>1. queue' \in Seq({"CHLD", "TERM"}) /\ Len(queue') <= SigBuffer
    BY <1>5, ReceiveFacts DEF ReceiveSignal
  <2>2. forwarded' \in BOOLEAN /\ stage' \in {"loop", "reap"}
    BY <1>5 DEF ReceiveSignal, LaunchTypeOK
  <2>3. QED
    BY <1>5, <2>1, <2>2 DEF ReceiveSignal, LaunchTypeOK, SetupIsOrdered, AgentFollowsLauncher
<1>6. CASE ReapChild
  BY <1>6 DEF ReapChild, LaunchTypeOK, SetupIsOrdered, AgentFollowsLauncher
<1>7. ASSUME NEW o \in Orphans, ReapOrphan(o)
      PROVE  LauncherInv'
  BY <1>7 DEF ReapOrphan, LaunchTypeOK, SetupIsOrdered, AgentFollowsLauncher
<1>8. QED
  BY <1>1, <1>2, <1>3, <1>4, <1>5, <1>6, <1>7 DEF Launch, Reap

\* What the sandbox does.
LEMMA SandboxKeeps ==
    ASSUME LauncherInv, Sandbox
    PROVE  LauncherInv'
<1> USE DEF LauncherInv
<1>1. CASE Terminate
  <2>1. queue' \in Seq({"CHLD", "TERM"}) /\ Len(queue') <= SigBuffer
    <3>1. CASE stage = "serve"
      <4>1. queue' = <<"TERM">>
        BY <1>1, <3>1 DEF Terminate
      <4>2. queue' \in Seq({"CHLD", "TERM"}) /\ Len(queue') = 1
        BY <4>1
      <4>3. QED
        BY <4>2, LauncherAssumption
    <3>2. CASE stage \in {"loop", "reap"}
      BY <1>1, <3>2, DeliverFacts DEF Terminate
    <3>3. CASE UNCHANGED queue
      BY <3>3 DEF LaunchTypeOK
    <3>4. QED
      BY <1>1, <3>1, <3>2, <3>3 DEF Terminate
  <2>2. terms' \in 0 .. MaxTerms
    BY <1>1, LauncherAssumption DEF Terminate, LaunchTypeOK
  <2>3. QED
    BY <1>1, <2>1, <2>2 DEF Terminate, LaunchTypeOK, SetupIsOrdered, AgentFollowsLauncher
<1>2. ASSUME NEW ws \in Statuses, ChildEnds(ws)
      PROVE  LauncherInv'
  <2>1. queue' \in Seq({"CHLD", "TERM"}) /\ Len(queue') <= SigBuffer
    BY <1>2, DeliverFacts DEF ChildEnds
  <2>2. QED
    BY <1>2, <2>1 DEF ChildEnds, LaunchTypeOK, SetupIsOrdered, AgentFollowsLauncher
<1>3. ASSUME NEW o \in Orphans, OrphanAdopted(o)
      PROVE  LauncherInv'
  BY <1>3 DEF OrphanAdopted, LaunchTypeOK, SetupIsOrdered, AgentFollowsLauncher
<1>4. ASSUME NEW o \in Orphans, OrphanEnds(o)
      PROVE  LauncherInv'
  <2>1. queue' \in Seq({"CHLD", "TERM"}) /\ Len(queue') <= SigBuffer
    BY <1>4, DeliverFacts DEF OrphanEnds
  <2>2. QED
    BY <1>4, <2>1 DEF OrphanEnds, LaunchTypeOK, SetupIsOrdered, AgentFollowsLauncher
<1>5. QED
  BY <1>1, <1>2, <1>3, <1>4 DEF Sandbox

\* The inductive invariant holds of the launcher.
THEOREM LauncherInvariance ==
    LaunchSpec => []LauncherInv
<1>1. LauncherInv /\ [LaunchNext]_launchVars => LauncherInv'
  <2> SUFFICES ASSUME LauncherInv, [LaunchNext]_launchVars
               PROVE  LauncherInv'
    OBVIOUS
  <2>1. CASE UNCHANGED launchVars
    BY <2>1 DEF launchVars, LauncherInv, LaunchTypeOK, SetupIsOrdered, AgentFollowsLauncher
  <2>2. QED
    BY <2>1, LaunchKeeps, SandboxKeeps DEF LaunchNext
<1>2. QED
  BY <1>1, LauncherStarts, PTL DEF LaunchSpec

\* runLauncher: the agent runs only after every step of the set-up but
\* resolv.conf has succeeded, CAP_NET_ADMIN given away among them.
THEOREM AgentIsAlwaysConfined ==
    LaunchSpec => []AgentIsConfined
<1>1. LauncherInv => AgentIsConfined
  <2> SUFFICES ASSUME LauncherInv, child # "none", NEW x \in Range(Steps), x # "resolvConf"
               PROVE  x \in done
    BY DEF AgentIsConfined
  <2>1. PICK i \in 1 .. 9 : x = Steps[i]
    BY StepsFacts
  <2>2. next = 10
    BY StepsFacts DEF LauncherInv, AgentFollowsLauncher
  <2>3. QED
    BY <2>1, <2>2, StepsFacts DEF LauncherInv, SetupIsOrdered
<1>2. QED
  BY <1>1, LauncherInvariance, PTL

\* runChild: a launcher that has run an agent ends with the status of the agent,
\* never with an orphan's and never before the agent, unless a fatal signal ends
\* it before signal.Notify.
THEOREM LauncherEndsWithAgentsStatus ==
    LaunchSpec => []EndsWithAgentsStatus
<1>1. LauncherInv => EndsWithAgentsStatus
  BY DEF LauncherInv, AgentFollowsLauncher, EndsWithAgentsStatus
<1>2. QED
  BY <1>1, LauncherInvariance, PTL
=============================================================================
