----------------------------- MODULE NetnsProofs -----------------------------
(***************************************************************************)
(* The safety properties of the network-namespace adapter, for any         *)
(* families, connections and keys, any budget and any channel capacity.    *)
(***************************************************************************)
EXTENDS Netns, FiniteSetTheorems, SequenceTheorems, TLAPS

-----------------------------------------------------------------------------
(* The inductive invariant *)

\* Places of a flow's worker: before it has taken its entry out of the table,
\* and before it has given its slot back.
InTable  == {"serve", "dial", "relay", "write", "close"}
WithSlot == InTable \cup {"release"}

FlowRecord ==
    [key : Keys \cup {None}, worker : WithSlot \cup {"none", "ended"},
     reader : {"none", "read", "ended"}, done : BOOLEAN, queued : Nat]

NetnsTypeOK ==
    /\ setup \in {"new", "undo", "failed", "ready"} /\ open \subseteq Listeners
    /\ closer \in {"idle", "begun", "canceled", "closed"}
    /\ running \in {"no", "yes", "returned"}
    /\ slots \in Nat
    /\ serving \in [Listeners -> {"off", "accept", "done"}]
    /\ workers \in [Listeners -> Nat]
    /\ conn \in [Conns -> {"away", "dial", "relay", "close", "ended"}]
    /\ flows \in [Keys -> FlowIds \cup {None}]
    /\ flow \in [FlowIds -> FlowRecord]
    /\ current \in [Listeners -> FlowIds \cup {None}]

\* A flow object has a key and at least one goroutine, or is no object.
FlowIsShaped(i) ==
    \/ flow[i] = NoFlow
    \/ /\ flow[i].key \in Keys /\ flow[i].reader \in {"read", "ended"}
       /\ \/ flow[i].worker \in WithSlot
          \/ flow[i].worker = "ended" /\ flow[i].reader = "read"

FlowsAreShaped == \A i \in FlowIds : FlowIsShaped(i)

\* The table and the flows whose worker is still to take them out are each
\* other's inverse.
TableAgrees ==
    /\ \A k \in Keys : flows[k] # None =>
          flow[flows[k]].key = k /\ flow[flows[k]].worker \in InTable
    /\ \A i \in FlowIds : flow[i].worker \in InTable => flows[flow[i].key] = i

\* The goroutines that a listener's WaitGroup counts.
ConnsOf(l)   == {c \in HoldsSlotTCP : TCP(c) = l}
WorkersOf(l) == {i \in HoldsSlotUDP : UDP(flow[i].key) = l}
ReadersOf(l) == {i \in FlowIds : flow[i].reader = "read" /\ UDP(flow[i].key) = l}

SlotsAreCounted ==
    /\ IsFiniteSet(HoldsSlotTCP) /\ IsFiniteSet(HoldsSlotUDP)
    /\ slots = Cardinality(HoldsSlotTCP) + Cardinality(HoldsSlotUDP)
    /\ slots <= MaxConnections

WorkersAreCounted ==
    \A l \in Listeners :
        /\ IsFiniteSet(ConnsOf(l)) /\ IsFiniteSet(WorkersOf(l)) /\ IsFiniteSet(ReadersOf(l))
        /\ workers[l] = Cardinality(ConnsOf(l)) + Cardinality(WorkersOf(l)) + Cardinality(ReadersOf(l))

\* Only a proxy that is set up or has failed is closed; the goroutine of a
\* listener ends after that, with no worker left.
CloseIsOrdered ==
    /\ closer # "idle" => setup \in {"failed", "ready"}
    /\ closer = "closed" => open = {}
    /\ \A l \in Listeners : serving[l] = "done" => closer = "closed" /\ workers[l] = 0
    /\ running = "returned" => \A l \in Listeners : serving[l] = "done"

\* New has made what its steps so far make, and nothing that it found is gone.
SetupIsOrdered ==
    /\ step \in 1 .. Len(SetupSteps) + 1
    /\ namespace \in [Resources -> {"none", "foreign", "own"}]
    /\ setup = "new" => step <= Len(SetupSteps)
    /\ setup = "ready" => step = Len(SetupSteps) + 1
    /\ setup # "failed" =>
          \A j \in 1 .. Len(SetupSteps) :
              j < step /\ SetupSteps[j] \in Resources => namespace[SetupSteps[j]] = "own"
    /\ \A r \in Resources : found[r] = "foreign" => namespace[r] = "foreign"
    /\ setup = "failed" => open = {} /\ (Own = {} \/ residue)

NetnsInv ==
    /\ NetnsTypeOK
    /\ FlowsAreShaped
    /\ TableAgrees
    /\ SlotsAreCounted
    /\ WorkersAreCounted
    /\ CloseIsOrdered
    /\ SetupIsOrdered

-----------------------------------------------------------------------------
(* The steps of New as a list *)

\* The steps for kinds of work, family by family.
LEMMA StepsOfFacts ==
    ASSUME NEW n \in Nat \ {0}, NEW kinds, Len(kinds) = n,
           NEW K, \A m \in 1 .. n : kinds[m] \in K
    PROVE  /\ StepsOf(kinds) \in Seq(K \X FamilySet)
           /\ Len(StepsOf(kinds)) = n * Len(Families)
<1> DEFINE N == Len(Families)
<1>1. N \in Nat \ {0} /\ DOMAIN Families = 1 .. N /\ n * N \in Nat
  BY NetnsAssumption
<1>2. ASSUME NEW i \in 1 .. n * N
      PROVE  /\ ((i - 1) % n) + 1 \in 1 .. n
             /\ ((i - 1) \div n) + 1 \in 1 .. N
  <2>1. i - 1 \in 0 .. n * N - 1
    BY <1>1
  <2>2. (i - 1) % n \in 0 .. n - 1
    BY <2>1, <1>1
  <2>3. (i - 1) \div n \in 0 .. N - 1
    BY <2>1, <1>1
  <2>4. QED
    BY <2>2, <2>3, <1>1
<1>3. StepsOf(kinds) \in [1 .. n * N -> K \X FamilySet]
  BY <1>1, <1>2 DEF StepsOf, FamilySet
<1>4. QED
  BY <1>1, <1>3, LenProperties

\* Every step is a listener, a check or a resource, and every resource is the
\* result of a step.
LEMMA SetupStepsFacts ==
    /\ Len(SetupSteps) \in Nat \ {0}
    /\ \A r \in Resources : r[1] # "check"
    /\ \A r \in Resources : \E j \in 1 .. Len(SetupSteps) : SetupSteps[j] = r
<1> DEFINE N == Len(Families)
           A == StepsOf(<<"tcp", "udp">>)
           B == <<Table>>
           C == StepsOf(<<"check", "route", "rule">>)
           T == {"tcp", "udp", "table", "check", "route", "rule"} \X (FamilySet \cup {"inet"})
<1>1. N \in Nat \ {0} /\ DOMAIN Families = 1 .. N
  BY NetnsAssumption
<1>2. A \in Seq(T) /\ Len(A) = 2 * N
  <2>1. A \in Seq({"tcp", "udp"} \X FamilySet) /\ Len(A) = 2 * N
    <3> DEFINE kinds == <<"tcp", "udp">>
    <3>1. 2 \in Nat \ {0} /\ Len(kinds) = 2 /\ \A m \in 1 .. 2 : kinds[m] \in {"tcp", "udp"}
      OBVIOUS
    <3>2. QED
      BY ONLY <3>1, StepsOfFacts, Zenon
  <2>2. {"tcp", "udp"} \X FamilySet \subseteq T
    OBVIOUS
  <2>3. QED
    BY <2>1, <2>2
<1>3. C \in Seq(T) /\ Len(C) = 3 * N
  <2>1. C \in Seq({"check", "route", "rule"} \X FamilySet) /\ Len(C) = 3 * N
    <3> DEFINE kinds == <<"check", "route", "rule">>
    <3>1. 3 \in Nat \ {0} /\ Len(kinds) = 3 /\ \A m \in 1 .. 3 : kinds[m] \in {"check", "route", "rule"}
      OBVIOUS
    <3>2. QED
      BY ONLY <3>1, StepsOfFacts, Zenon
  <2>2. {"check", "route", "rule"} \X FamilySet \subseteq T
    OBVIOUS
  <2>3. QED
    BY <2>1, <2>2
<1>4. B \in Seq(T) /\ Len(B) = 1 /\ B[1] = Table
  BY DEF Table
<1>5. \A m \in 1 .. N : /\ C[3 * m - 1] = <<"route", Families[m]>>
                        /\ C[3 * m] = <<"rule", Families[m]>>
  <2> SUFFICES ASSUME NEW m \in 1 .. N
               PROVE  /\ C[3 * m - 1] = <<"route", Families[m]>>
                      /\ C[3 * m] = <<"rule", Families[m]>>
    OBVIOUS
  <2>1. /\ 3 * m - 1 \in 1 .. 3 * N /\ 3 * m \in 1 .. 3 * N
        /\ (3 * m - 2) % 3 = 1 /\ (3 * m - 2) \div 3 = m - 1
        /\ (3 * m - 1) % 3 = 2 /\ (3 * m - 1) \div 3 = m - 1
    BY <1>1
  <2>2. (3 * m - 1) - 1 = 3 * m - 2 /\ (m - 1) + 1 = m
    BY <1>1
  <2>3. QED
    BY <1>1, <2>1, <2>2 DEF StepsOf
<1> HIDE DEF A, B, C, T
<1>6. A \o B \in Seq(T) /\ Len(A \o B) = 2 * N + 1 /\ (A \o B)[2 * N + 1] = Table
  <2>1. /\ A \o B \in Seq(T)
        /\ Len(A \o B) = Len(A) + Len(B)
        /\ \A i \in 1 .. Len(A) + Len(B) :
              (A \o B)[i] = IF i <= Len(A) THEN A[i] ELSE B[i - Len(A)]
    BY <1>2, <1>4, ConcatProperties, Zenon
  <2>2. 2 * N + 1 \in 1 .. Len(A) + Len(B) /\ ~(2 * N + 1 <= Len(A)) /\ (2 * N + 1) - Len(A) = 1
    BY <1>1, <1>2, <1>4
  <2>3. QED
    BY <1>2, <1>4, <2>1, <2>2
<1>7. SetupSteps = (A \o B) \o C
  BY DEF SetupSteps, A, B, C
<1>8. /\ Len(SetupSteps) = 5 * N + 1
      /\ \A i \in 1 .. 5 * N + 1 :
            SetupSteps[i] = IF i <= 2 * N + 1 THEN (A \o B)[i] ELSE C[i - (2 * N + 1)]
  <2> DEFINE D == A \o B
  <2>1. /\ Len(D \o C) = Len(D) + Len(C)
        /\ \A i \in 1 .. Len(D) + Len(C) :
              (D \o C)[i] = IF i <= Len(D) THEN D[i] ELSE C[i - Len(D)]
    BY <1>3, <1>6, ConcatProperties, Zenon
  <2>2. Len(D) = 2 * N + 1 /\ Len(D) + Len(C) = 5 * N + 1
    BY <1>1, <1>3, <1>6
  <2> HIDE DEF D
  <2>3. SetupSteps = D \o C
    BY <1>7 DEF D
  <2>4. QED
    BY <2>1, <2>2, <2>3 DEF D
<1>9. ASSUME NEW r \in Resources
      PROVE  \E j \in 1 .. Len(SetupSteps) : SetupSteps[j] = r
  <2>1. CASE r = Table
    <3>1. 2 * N + 1 \in 1 .. Len(SetupSteps) /\ SetupSteps[2 * N + 1] = r
      BY <1>1, <1>6, <1>8, <2>1
    <3>2. QED
      BY <3>1
  <2>2. CASE r # Table
    <3>1. PICK m \in 1 .. N : r = <<"route", Families[m]>> \/ r = <<"rule", Families[m]>>
      BY <1>1, <2>2 DEF Resources, FamilySet
    <3>2. CASE r = <<"route", Families[m]>>
      <4>1. 2 * N + 3 * m \in 1 .. 5 * N + 1 /\ 2 * N + 3 * m > 2 * N + 1
        BY <1>1
      <4>2. (2 * N + 3 * m) - (2 * N + 1) = 3 * m - 1
        BY <1>1
      <4>3. SetupSteps[2 * N + 3 * m] = r
        BY <1>1, <1>5, <1>8, <3>2, <4>1, <4>2
      <4>4. QED
        BY <1>8, <4>1, <4>3
    <3>3. CASE r = <<"rule", Families[m]>>
      <4>1. 2 * N + 3 * m + 1 \in 1 .. 5 * N + 1 /\ 2 * N + 3 * m + 1 > 2 * N + 1
        BY <1>1
      <4>2. (2 * N + 3 * m + 1) - (2 * N + 1) = 3 * m
        BY <1>1
      <4>3. SetupSteps[2 * N + 3 * m + 1] = r
        BY <1>1, <1>5, <1>8, <3>3, <4>1, <4>2
      <4>4. QED
        BY <1>8, <4>1, <4>3
    <3>4. QED
      BY <3>1, <3>2, <3>3
  <2>3. QED
    BY <2>1, <2>2
<1>10. \A r \in Resources : r[1] # "check"
  BY DEF Resources, Table
<1>11. QED
  BY <1>1, <1>8, <1>9, <1>10

\* New keeps what it found, and has made what its steps make.
LEMMA NewKeepsSetup ==
    ASSUME NetnsInv, New
    PROVE  SetupIsOrdered'
<1>1. SetupIsOrdered
  BY DEF NetnsInv
<1>2. Len(SetupSteps) \in Nat
  BY SetupStepsFacts
<1>3. CASE SetupStep
  <2>1. setup = "new" /\ step \in 1 .. Len(SetupSteps) /\ step' = step + 1 /\ UNCHANGED <<found, residue>>
    BY <1>1, <1>2, <1>3 DEF SetupStep, SetupIsOrdered
  <2>2. Current \in Resources => namespace[Current] = "none"
    BY <1>1, <1>3, SetupStepsFacts DEF SetupStep, Conflicts, SetupIsOrdered
  <2>3. /\ namespace' \in [Resources -> {"none", "foreign", "own"}]
        /\ \A r \in Resources : namespace'[r] = IF r = Current THEN "own" ELSE namespace[r]
    BY <1>1, <1>3 DEF SetupStep, SetupIsOrdered
  <2>4. setup' = IF step = Len(SetupSteps) THEN "ready" ELSE "new"
    BY <1>3 DEF SetupStep
  <2>5. ASSUME NEW j \in 1 .. Len(SetupSteps), j < step', SetupSteps[j] \in Resources
        PROVE  namespace'[SetupSteps[j]] = "own"
    <3>1. j < step \/ j = step
      BY <2>1, <2>5, <1>2
    <3>2. QED
      BY <1>1, <2>1, <2>3, <2>5, <3>1 DEF SetupIsOrdered, Current
  <2>6. \A r \in Resources : found'[r] = "foreign" => namespace'[r] = "foreign"
    BY <1>1, <2>1, <2>2, <2>3 DEF SetupIsOrdered
  <2>7. QED
    BY <1>2, <2>1, <2>3, <2>4, <2>5, <2>6 DEF SetupIsOrdered
<1>4. CASE SetupFails
  BY <1>1, <1>4 DEF SetupFails, SetupIsOrdered
<1>5. CASE SetupUndo
  <2>1. PICK kept \in SUBSET Own :
          /\ namespace' = [r \in Resources |-> IF r \in Own \ kept THEN "none" ELSE namespace[r]]
          /\ residue' = (kept # {})
    BY <1>5 DEF SetupUndo
  <2>2. Own' = kept
    BY <2>1 DEF Own
  <2>3. namespace' \in [Resources -> {"none", "foreign", "own"}]
    BY <1>1, <2>1 DEF SetupIsOrdered
  <2>4. \A r \in Resources : found'[r] = "foreign" => namespace'[r] = "foreign"
    BY <1>1, <1>5, <2>1 DEF SetupIsOrdered, SetupUndo, Own
  <2>5. Own' = {} \/ residue'
    BY <2>1, <2>2
  <2>6. QED
    BY <1>1, <1>5, <2>3, <2>4, <2>5 DEF SetupIsOrdered, SetupUndo
<1>6. QED
  BY <1>3, <1>4, <1>5 DEF New

-----------------------------------------------------------------------------
(* Steps of the UDP side *)

\* A step that keeps a flow's key, its reader and its entry in the table.
Quiet(i, r) ==
    /\ r \in FlowRecord
    /\ flow' = [flow EXCEPT ![i] = r]
    /\ r.key = flow[i].key /\ r.reader = flow[i].reader
    /\ r.worker = flow[i].worker \/ (r.worker \in InTable /\ flow[i].worker \in InTable)
    /\ flow[i] = NoFlow => r = NoFlow

LEMMA KeyFacts ==
    /\ \A c \in Conns : TCP(c) \in Listeners
    /\ \A k \in Keys : UDP(k) \in Listeners
BY NetnsAssumption DEF TCP, UDP, Listeners, FamilySet

\* An offered packet changes the channel only.
LEMMA OfferIsQuiet ==
    ASSUME NetnsTypeOK, NEW i \in FlowIds, Offer(i)
    PROVE  \E r : Quiet(i, r)
<1>1. flow \in [FlowIds -> FlowRecord]
  BY DEF NetnsTypeOK
<1>2. CASE flow' = flow
  <2>1. Quiet(i, flow[i])
    BY <1>1, <1>2 DEF Quiet
  <2>2. QED
    BY <2>1
<1>3. CASE flow[i] # NoFlow /\ flow' = [flow EXCEPT ![i].queued = @ + 1]
  <2>1. Quiet(i, [flow[i] EXCEPT !.queued = @ + 1])
    BY <1>1, <1>3 DEF Quiet, FlowRecord
  <2>2. QED
    BY <2>1
<1>4. QED
  BY <1>2, <1>3 DEF Offer

\* So do the steps of a worker until it leaves the table, and its hook.
LEMMA WorkIsQuiet ==
    ASSUME NetnsTypeOK, NEW i \in FlowIds,
           \/ DialUDP(i) \/ DialUDPFails(i) \/ TakePacket(i) \/ WriteReturns(i)
           \/ SessionEnds(i) \/ HookUDP(i)
    PROVE  /\ \E r : Quiet(i, r)
           /\ UNCHANGED <<setupVars, proxyVars, conn, flows, current, sent>>
<1> USE DEF InTable, WithSlot, FlowRecord, NoFlow, Quiet
<1>1. flow \in [FlowIds -> FlowRecord]
  BY DEF NetnsTypeOK
<1>2. CASE DialUDP(i)
  <2>1. Quiet(i, [flow[i] EXCEPT !.worker = "relay"])
    BY <1>1, <1>2 DEF DialUDP
  <2>2. QED
    BY <2>1, <1>2 DEF DialUDP
<1>3. CASE DialUDPFails(i)
  <2>1. Quiet(i, [flow[i] EXCEPT !.worker = "close"])
    BY <1>1, <1>3 DEF DialUDPFails
  <2>2. QED
    BY <2>1, <1>3 DEF DialUDPFails
<1>4. CASE TakePacket(i)
  <2> DEFINE w == IF flow[i].worker = "relay" THEN "write" ELSE flow[i].worker
             r == [flow[i] EXCEPT !.queued = @ - 1, !.worker = w]
  <2>1. w \in InTable /\ flow[i].worker \in InTable /\ flow[i].queued - 1 \in Nat /\ flow[i] \in FlowRecord
    BY <1>1, <1>4 DEF TakePacket
  <2>2. flow' = [flow EXCEPT ![i] = r]
    BY <1>1, <1>4 DEF TakePacket
  <2>3. r \in FlowRecord /\ r.key = flow[i].key /\ r.reader = flow[i].reader /\ r.worker = w
    <3> HIDE DEF w
    <3>1. QED
      BY <2>1
  <2>4. flow[i] # NoFlow
    BY <2>1
  <2> HIDE DEF r, w
  <2>5. Quiet(i, r)
    BY <2>1, <2>2, <2>3, <2>4
  <2>6. QED
    BY <2>5, <1>4 DEF TakePacket
<1>5. CASE WriteReturns(i)
  <2>1. Quiet(i, [flow[i] EXCEPT !.worker = "relay"])
    BY <1>1, <1>5 DEF WriteReturns
  <2>2. QED
    BY <2>1, <1>5 DEF WriteReturns
<1>6. CASE SessionEnds(i)
  <2> DEFINE r == [flow[i] EXCEPT !.worker = "close", !.done = TRUE]
  <2>1. flow[i].worker \in InTable /\ flow[i] \in FlowRecord
    BY <1>1, <1>6 DEF SessionEnds
  <2>2. flow' = [flow EXCEPT ![i] = r]
    BY <1>1, <1>6 DEF SessionEnds
  <2>3. r \in FlowRecord
    BY <2>1
  <2>4. r.key = flow[i].key /\ r.reader = flow[i].reader /\ r.worker = "close"
    BY <2>1
  <2>5. flow[i] # NoFlow
    BY <2>1
  <2> HIDE DEF r
  <2>6. Quiet(i, r)
    BY <2>1, <2>2, <2>3, <2>4, <2>5
  <2>7. QED
    BY <2>6, <1>6 DEF SessionEnds
<1>7. CASE HookUDP(i)
  <2> DEFINE r == [flow[i] EXCEPT !.done = TRUE]
  <2>1. flow[i].worker \in InTable /\ flow[i] \in FlowRecord
    BY <1>1, <1>7 DEF HookUDP
  <2>2. flow' = [flow EXCEPT ![i] = r]
    BY <1>1, <1>7 DEF HookUDP
  <2>3. r \in FlowRecord
    BY <2>1
  <2>4. r.key = flow[i].key /\ r.reader = flow[i].reader /\ r.worker = flow[i].worker
    BY <2>1
  <2>5. flow[i] # NoFlow
    BY <2>1
  <2> HIDE DEF r
  <2>6. Quiet(i, r)
    BY <2>1, <2>2, <2>3, <2>4, <2>5
  <2>7. QED
    BY <2>6, <1>7 DEF HookUDP
<1>8. QED
  BY <1>2, <1>3, <1>4, <1>5, <1>6, <1>7

\* What a quiet step keeps.
LEMMA QuietKeeps ==
    ASSUME NetnsInv, NEW i \in FlowIds, NEW r, Quiet(i, r), UNCHANGED <<slots, workers, conn, flows>>
    PROVE  /\ flow' \in [FlowIds -> FlowRecord]
           /\ FlowsAreShaped' /\ TableAgrees' /\ SlotsAreCounted' /\ WorkersAreCounted'
<1>1. flow \in [FlowIds -> FlowRecord] /\ flows \in [Keys -> FlowIds \cup {None}]
  BY DEF NetnsInv, NetnsTypeOK
<1>2. flow' \in [FlowIds -> FlowRecord] /\ \A j \in FlowIds : flow'[j] = IF j = i THEN r ELSE flow[j]
  BY <1>1 DEF Quiet
<1>3. \A j \in FlowIds : /\ flow'[j].key = flow[j].key /\ flow'[j].reader = flow[j].reader
                         /\ flow'[j].worker \in InTable <=> flow[j].worker \in InTable
                         /\ flow'[j].worker \notin InTable => flow'[j].worker = flow[j].worker
                         /\ flow[j] = NoFlow => flow'[j] = NoFlow
  BY <1>2 DEF Quiet
<1>4. FlowsAreShaped'
  BY <1>3 DEF NetnsInv, FlowsAreShaped, FlowIsShaped, WithSlot
<1>5. TableAgrees'
  BY <1>1, <1>3 DEF NetnsInv, TableAgrees
<1>6. HoldsSlotTCP' = HoldsSlotTCP /\ HoldsSlotUDP' = HoldsSlotUDP
  BY <1>3 DEF HoldsSlotTCP, HoldsSlotUDP, InTable
<1>7. SlotsAreCounted'
  BY <1>6 DEF NetnsInv, SlotsAreCounted
<1>8. \A l : ConnsOf(l)' = ConnsOf(l) /\ WorkersOf(l)' = WorkersOf(l) /\ ReadersOf(l)' = ReadersOf(l)
  BY <1>3, <1>6 DEF ConnsOf, WorkersOf, ReadersOf, HoldsSlotUDP, UDP, TCP
<1>9. WorkersAreCounted'
  BY <1>8 DEF NetnsInv, WorkersAreCounted
<1>10. QED
  BY <1>2, <1>4, <1>5, <1>7, <1>9

-----------------------------------------------------------------------------
(* Steps that move the counters *)

\* A goroutine of a listener counts in the WaitGroup while it lives.
LEMMA WorkersPositive ==
    ASSUME NetnsInv, NEW l \in Listeners,
           ConnsOf(l) # {} \/ WorkersOf(l) # {} \/ ReadersOf(l) # {}
    PROVE  workers[l] > 0
<1>1. /\ IsFiniteSet(ConnsOf(l)) /\ IsFiniteSet(WorkersOf(l)) /\ IsFiniteSet(ReadersOf(l))
      /\ workers[l] = Cardinality(ConnsOf(l)) + Cardinality(WorkersOf(l)) + Cardinality(ReadersOf(l))
  BY DEF NetnsInv, WorkersAreCounted
<1>2. /\ Cardinality(ConnsOf(l)) \in Nat /\ (Cardinality(ConnsOf(l)) = 0 <=> ConnsOf(l) = {})
      /\ Cardinality(WorkersOf(l)) \in Nat /\ (Cardinality(WorkersOf(l)) = 0 <=> WorkersOf(l) = {})
      /\ Cardinality(ReadersOf(l)) \in Nat /\ (Cardinality(ReadersOf(l)) = 0 <=> ReadersOf(l) = {})
  BY <1>1, FS_CardinalityType, FS_EmptySet
<1>3. QED
  BY <1>1, <1>2

\* A connection that is accepted within the budget takes a slot and counts in.
LEMMA AcceptTCPKeeps ==
    ASSUME NetnsInv, NEW c \in Conns, AcceptTCP(c)
    PROVE  /\ NetnsTypeOK' /\ SlotsAreCounted' /\ WorkersAreCounted'
           /\ \A l \in Listeners : workers'[l] = workers[l] \/ serving[l] = "accept"
<1>1. NetnsTypeOK /\ SlotsAreCounted /\ WorkersAreCounted /\ MaxConnections \in Nat
  BY NetnsAssumption DEF NetnsInv
<1>2. TCP(c) \in Listeners
  BY KeyFacts
<1>3. HoldsSlotUDP' = HoldsSlotUDP /\ \A l : WorkersOf(l)' = WorkersOf(l) /\ ReadersOf(l)' = ReadersOf(l)
  BY DEF AcceptTCP, udpVars, HoldsSlotUDP, WorkersOf, ReadersOf, UDP
<1>4. CASE slots < MaxConnections
  <2>1. /\ slots' = slots + 1
        /\ \A l \in Listeners : workers'[l] = IF l = TCP(c) THEN workers[l] + 1 ELSE workers[l]
        /\ \A d \in Conns : conn'[d] = IF d = c THEN "dial" ELSE conn[d]
        /\ NetnsTypeOK'
    BY <1>1, <1>2, <1>4 DEF AcceptTCP, NetnsTypeOK, setupVars, udpVars
  <2>2. c \notin HoldsSlotTCP /\ HoldsSlotTCP' = HoldsSlotTCP \cup {c}
    BY <2>1 DEF AcceptTCP, HoldsSlotTCP
  <2>3. IsFiniteSet(HoldsSlotTCP') /\ Cardinality(HoldsSlotTCP') = Cardinality(HoldsSlotTCP) + 1
    BY <1>1, <2>2, FS_AddElement DEF SlotsAreCounted
  <2>4. SlotsAreCounted'
    <3>1. Cardinality(HoldsSlotTCP) \in Nat /\ Cardinality(HoldsSlotUDP) \in Nat
      BY <1>1, FS_CardinalityType DEF SlotsAreCounted
    <3>2. QED
      BY <1>1, <1>3, <1>4, <2>1, <2>3, <3>1 DEF SlotsAreCounted
  <2>5. ASSUME NEW l \in Listeners
        PROVE  /\ IsFiniteSet(ConnsOf(l)') /\ Cardinality(ConnsOf(l)) \in Nat
               /\ Cardinality(ConnsOf(l)') = IF l = TCP(c) THEN Cardinality(ConnsOf(l)) + 1
                                                          ELSE Cardinality(ConnsOf(l))
    <3>1. IsFiniteSet(ConnsOf(l))
      BY <1>1 DEF WorkersAreCounted
    <3>2. CASE l = TCP(c)
      <4>1. c \notin ConnsOf(l) /\ ConnsOf(l)' = ConnsOf(l) \cup {c}
        BY <2>2, <3>2 DEF ConnsOf, TCP
      <4>2. QED
        BY <3>1, <3>2, <4>1, FS_AddElement, FS_CardinalityType
    <3>3. CASE l # TCP(c)
      <4>1. ConnsOf(l)' = ConnsOf(l)
        BY <2>2, <3>3 DEF ConnsOf, TCP
      <4>2. QED
        BY <3>1, <3>3, <4>1, FS_CardinalityType
    <3>4. QED
      BY <3>2, <3>3
  <2>6. WorkersAreCounted'
    <3> SUFFICES ASSUME NEW l \in Listeners
                 PROVE  /\ IsFiniteSet(ConnsOf(l)') /\ IsFiniteSet(WorkersOf(l)') /\ IsFiniteSet(ReadersOf(l)')
                        /\ workers'[l] = Cardinality(ConnsOf(l)') + Cardinality(WorkersOf(l)')
                                           + Cardinality(ReadersOf(l)')
      BY DEF WorkersAreCounted
    <3>1. /\ IsFiniteSet(WorkersOf(l)) /\ IsFiniteSet(ReadersOf(l))
          /\ workers[l] = Cardinality(ConnsOf(l)) + Cardinality(WorkersOf(l)) + Cardinality(ReadersOf(l))
      BY <1>1 DEF WorkersAreCounted
    <3>2. Cardinality(WorkersOf(l)) \in Nat /\ Cardinality(ReadersOf(l)) \in Nat
      BY <3>1, FS_CardinalityType
    <3>3. QED
      BY <1>3, <2>1, <2>5, <3>1, <3>2
  <2>7. \A l \in Listeners : workers'[l] = workers[l] \/ serving[l] = "accept"
    BY <2>1 DEF AcceptTCP
  <2>8. QED
    BY <2>1, <2>4, <2>6, <2>7
<1>5. CASE ~(slots < MaxConnections)
  <2>1. UNCHANGED <<slots, workers>> /\ conn' = [conn EXCEPT ![c] = "ended"] /\ conn[c] = "away"
    BY <1>5 DEF AcceptTCP
  <2>2. NetnsTypeOK'
    BY <1>1, <2>1 DEF AcceptTCP, NetnsTypeOK, setupVars, udpVars
  <2>3. HoldsSlotTCP' = HoldsSlotTCP
    BY <1>1, <2>1 DEF HoldsSlotTCP, NetnsTypeOK
  <2>4. \A l : ConnsOf(l)' = ConnsOf(l)
    BY <2>3 DEF ConnsOf, TCP
  <2>5. QED
    BY <1>1, <1>3, <2>1, <2>2, <2>3, <2>4 DEF SlotsAreCounted, WorkersAreCounted
<1>6. QED
  BY <1>4, <1>5

\* A worker's deferred calls give the slot back and count it out.
LEMMA EndTCPKeeps ==
    ASSUME NetnsInv, NEW c \in Conns, EndTCP(c)
    PROVE  /\ NetnsTypeOK' /\ SlotsAreCounted' /\ WorkersAreCounted'
           /\ \A l \in Listeners : workers'[l] = workers[l] \/ workers[l] > 0
<1>1. NetnsTypeOK /\ SlotsAreCounted /\ WorkersAreCounted
  BY DEF NetnsInv
<1>2. TCP(c) \in Listeners
  BY KeyFacts
<1>3. HoldsSlotUDP' = HoldsSlotUDP /\ \A l : WorkersOf(l)' = WorkersOf(l) /\ ReadersOf(l)' = ReadersOf(l)
  BY DEF EndTCP, udpVars, HoldsSlotUDP, WorkersOf, ReadersOf, UDP
<1>4. c \in HoldsSlotTCP /\ c \in ConnsOf(TCP(c)) /\ workers[TCP(c)] > 0
  <2>1. c \in HoldsSlotTCP /\ c \in ConnsOf(TCP(c))
    BY DEF EndTCP, HoldsSlotTCP, ConnsOf
  <2>2. QED
    BY <1>2, <2>1, WorkersPositive
<1>5. /\ slots' = slots - 1
      /\ \A l \in Listeners : workers'[l] = IF l = TCP(c) THEN workers[l] - 1 ELSE workers[l]
      /\ \A d \in Conns : conn'[d] = IF d = c THEN "ended" ELSE conn[d]
      /\ NetnsTypeOK'
  BY <1>1, <1>2, <1>4 DEF EndTCP, NetnsTypeOK, setupVars, udpVars
<1>6. HoldsSlotTCP' = HoldsSlotTCP \ {c}
  BY <1>5 DEF HoldsSlotTCP
<1>7. IsFiniteSet(HoldsSlotTCP') /\ Cardinality(HoldsSlotTCP') = Cardinality(HoldsSlotTCP) - 1
  BY <1>1, <1>4, <1>6, FS_RemoveElement DEF SlotsAreCounted
<1>8. SlotsAreCounted'
  <2>1. Cardinality(HoldsSlotTCP) \in Nat /\ Cardinality(HoldsSlotUDP) \in Nat
    BY <1>1, FS_CardinalityType DEF SlotsAreCounted
  <2>2. QED
    BY <1>1, <1>3, <1>5, <1>7, <2>1, NetnsAssumption DEF SlotsAreCounted
<1>9. ASSUME NEW l \in Listeners
      PROVE  /\ IsFiniteSet(ConnsOf(l)') /\ Cardinality(ConnsOf(l)) \in Nat
             /\ Cardinality(ConnsOf(l)') = IF l = TCP(c) THEN Cardinality(ConnsOf(l)) - 1
                                                        ELSE Cardinality(ConnsOf(l))
  <2>1. IsFiniteSet(ConnsOf(l))
    BY <1>1 DEF WorkersAreCounted
  <2>2. CASE l = TCP(c)
    <3>1. c \in ConnsOf(l) /\ ConnsOf(l)' = ConnsOf(l) \ {c}
      BY <1>4, <1>6, <2>2 DEF ConnsOf, TCP
    <3>2. QED
      BY <2>1, <2>2, <3>1, FS_RemoveElement, FS_CardinalityType
  <2>3. CASE l # TCP(c)
    <3>1. ConnsOf(l)' = ConnsOf(l)
      BY <1>6, <2>3 DEF ConnsOf, TCP
    <3>2. QED
      BY <2>1, <2>3, <3>1, FS_CardinalityType
  <2>4. QED
    BY <2>2, <2>3
<1>10. WorkersAreCounted'
  <2> SUFFICES ASSUME NEW l \in Listeners
               PROVE  /\ IsFiniteSet(ConnsOf(l)') /\ IsFiniteSet(WorkersOf(l)') /\ IsFiniteSet(ReadersOf(l)')
                      /\ workers'[l] = Cardinality(ConnsOf(l)') + Cardinality(WorkersOf(l)')
                                         + Cardinality(ReadersOf(l)')
    BY DEF WorkersAreCounted
  <2>1. /\ IsFiniteSet(WorkersOf(l)) /\ IsFiniteSet(ReadersOf(l))
        /\ workers[l] = Cardinality(ConnsOf(l)) + Cardinality(WorkersOf(l)) + Cardinality(ReadersOf(l))
    BY <1>1 DEF WorkersAreCounted
  <2>2. Cardinality(WorkersOf(l)) \in Nat /\ Cardinality(ReadersOf(l)) \in Nat
    BY <2>1, FS_CardinalityType
  <2>3. QED
    BY <1>3, <1>5, <1>9, <2>1, <2>2
<1>11. QED
  BY <1>4, <1>5, <1>8, <1>10

\* The counters after a step that changes the goroutines of one flow: D is what
\* it adds to the workers with a slot, E what it adds to the readers.
LEMMA FlowRecount ==
    ASSUME NetnsInv, NEW i \in FlowIds, NEW k \in Keys, NEW D \in {-1, 0, 1}, NEW E \in {-1, 0, 1},
           UNCHANGED conn,
           \A l \in Listeners :
              workers'[l] = IF l = UDP(k) THEN workers[l] + D + E ELSE workers[l],
           slots' = slots + D, slots' <= MaxConnections,
           \A j \in FlowIds : j # i => flow'[j] = flow[j],
           flow[i].worker \in WithSlot \/ flow[i].reader = "read" => flow[i].key = k,
           flow'[i].worker \in WithSlot \/ flow'[i].reader = "read" => flow'[i].key = k,
           D = 1 => flow[i].worker \notin WithSlot /\ flow'[i].worker \in WithSlot,
           D = -1 => flow[i].worker \in WithSlot /\ flow'[i].worker \notin WithSlot,
           D = 0 => (flow[i].worker \in WithSlot <=> flow'[i].worker \in WithSlot),
           E = 1 => flow[i].reader # "read" /\ flow'[i].reader = "read",
           E = -1 => flow[i].reader = "read" /\ flow'[i].reader # "read",
           E = 0 => (flow[i].reader = "read" <=> flow'[i].reader = "read")
    PROVE  SlotsAreCounted' /\ WorkersAreCounted'
<1> USE DEF WithSlot, InTable
<1> DEFINE Changed(S, T, d) == CASE d = 1 -> i \notin S /\ T = S \cup {i}
                                 [] d = -1 -> i \in S /\ T = S \ {i}
                                 [] d = 0 -> T = S
<1>1. ASSUME NEW S, NEW T, NEW d \in {-1, 0, 1}, IsFiniteSet(S), Changed(S, T, d)
      PROVE  IsFiniteSet(T) /\ Cardinality(S) \in Nat /\ Cardinality(T) = Cardinality(S) + d
  <2>1. Cardinality(S) \in Nat
    BY <1>1, FS_CardinalityType
  <2>2. CASE d = 1
    BY <1>1, <2>1, <2>2, FS_AddElement
  <2>3. CASE d = -1
    BY <1>1, <2>1, <2>3, FS_RemoveElement
  <2>4. CASE d = 0
    BY <1>1, <2>1, <2>4
  <2>5. QED
    BY <2>2, <2>3, <2>4
<1>2. SlotsAreCounted /\ WorkersAreCounted
  BY DEF NetnsInv
<1>3. HoldsSlotTCP' = HoldsSlotTCP /\ \A l : ConnsOf(l)' = ConnsOf(l)
  BY DEF HoldsSlotTCP, ConnsOf, TCP
<1>4. Changed(HoldsSlotUDP, HoldsSlotUDP', D)
  BY DEF HoldsSlotUDP
<1>5. ASSUME NEW S \in SUBSET FlowIds, NEW T \in SUBSET FlowIds, NEW d \in {-1, 0, 1},
             \A j \in FlowIds : j # i => (j \in T <=> j \in S),
             d = 1 => i \notin S /\ i \in T, d = -1 => i \in S /\ i \notin T,
             d = 0 => (i \in S <=> i \in T)
      PROVE  Changed(S, T, d)
  <2>1. CASE d = 1
    BY <1>5, <2>1
  <2>2. CASE d = -1
    BY <1>5, <2>2
  <2>3. CASE d = 0
    <3>1. S = T
      BY <1>5, <2>3
    <3>2. QED
      BY <2>3, <3>1
  <2>4. QED
    BY <2>1, <2>2, <2>3
<1>6. \A l \in Listeners : /\ Changed(WorkersOf(l), WorkersOf(l)', IF l = UDP(k) THEN D ELSE 0)
                           /\ Changed(ReadersOf(l), ReadersOf(l)', IF l = UDP(k) THEN E ELSE 0)
  <2> TAKE l \in Listeners
  <2>1. /\ WorkersOf(l) \subseteq FlowIds /\ WorkersOf(l)' \subseteq FlowIds
        /\ \A j \in FlowIds : j # i => (j \in WorkersOf(l)' <=> j \in WorkersOf(l))
        /\ i \in WorkersOf(l) <=> flow[i].worker \in WithSlot /\ l = UDP(k)
        /\ i \in WorkersOf(l)' <=> flow'[i].worker \in WithSlot /\ l = UDP(k)
    BY DEF HoldsSlotUDP, WorkersOf, UDP
  <2>2. /\ ReadersOf(l) \subseteq FlowIds /\ ReadersOf(l)' \subseteq FlowIds
        /\ \A j \in FlowIds : j # i => (j \in ReadersOf(l)' <=> j \in ReadersOf(l))
        /\ i \in ReadersOf(l) <=> flow[i].reader = "read" /\ l = UDP(k)
        /\ i \in ReadersOf(l)' <=> flow'[i].reader = "read" /\ l = UDP(k)
    BY DEF ReadersOf, UDP
  <2> HIDE DEF Changed, WithSlot
  <2>3. Changed(WorkersOf(l), WorkersOf(l)', IF l = UDP(k) THEN D ELSE 0)
    <3>1. CASE l = UDP(k)
      BY <1>5, <2>1, <3>1
    <3>2. CASE l # UDP(k)
      <4>1. Changed(WorkersOf(l), WorkersOf(l)', 0)
        BY <1>5, <2>1, <3>2
      <4>2. QED
        BY <3>2, <4>1
    <3>3. QED
      BY <3>1, <3>2
  <2>4. Changed(ReadersOf(l), ReadersOf(l)', IF l = UDP(k) THEN E ELSE 0)
    <3>1. CASE l = UDP(k)
      BY <1>5, <2>2, <3>1
    <3>2. CASE l # UDP(k)
      <4>1. Changed(ReadersOf(l), ReadersOf(l)', 0)
        BY <1>5, <2>2, <3>2
      <4>2. QED
        BY <3>2, <4>1
    <3>3. QED
      BY <3>1, <3>2
  <2>5. QED
    BY <2>3, <2>4
<1> HIDE DEF Changed
<1>7. SlotsAreCounted'
  <2>1. /\ IsFiniteSet(HoldsSlotUDP') /\ Cardinality(HoldsSlotUDP) \in Nat
        /\ Cardinality(HoldsSlotUDP') = Cardinality(HoldsSlotUDP) + D
    BY <1>1, <1>2, <1>4 DEF SlotsAreCounted
  <2>2. Cardinality(HoldsSlotTCP) \in Nat
    BY <1>2, FS_CardinalityType DEF SlotsAreCounted
  <2>3. QED
    BY <1>2, <1>3, <2>1, <2>2 DEF SlotsAreCounted
<1>8. WorkersAreCounted'
  <2> SUFFICES ASSUME NEW l \in Listeners
               PROVE  /\ IsFiniteSet(ConnsOf(l)') /\ IsFiniteSet(WorkersOf(l)') /\ IsFiniteSet(ReadersOf(l)')
                      /\ workers'[l] = Cardinality(ConnsOf(l)') + Cardinality(WorkersOf(l)')
                                         + Cardinality(ReadersOf(l)')
    BY DEF WorkersAreCounted
  <2> DEFINE dw == IF l = UDP(k) THEN D ELSE 0
             dr == IF l = UDP(k) THEN E ELSE 0
  <2>1. /\ IsFiniteSet(ConnsOf(l)) /\ IsFiniteSet(WorkersOf(l)) /\ IsFiniteSet(ReadersOf(l))
        /\ workers[l] = Cardinality(ConnsOf(l)) + Cardinality(WorkersOf(l)) + Cardinality(ReadersOf(l))
    BY <1>2 DEF WorkersAreCounted
  <2>2. Cardinality(ConnsOf(l)) \in Nat
    BY <2>1, FS_CardinalityType
  <2>3. dw \in {-1, 0, 1} /\ dr \in {-1, 0, 1} /\ workers'[l] = workers[l] + dw + dr
    <3>1. workers[l] \in Nat
      BY DEF NetnsInv, NetnsTypeOK
    <3>2. QED
      BY <3>1
  <2>4. Changed(WorkersOf(l), WorkersOf(l)', dw) /\ Changed(ReadersOf(l), ReadersOf(l)', dr)
    BY <1>6
  <2> HIDE DEF dw, dr
  <2>5. /\ IsFiniteSet(WorkersOf(l)') /\ Cardinality(WorkersOf(l)) \in Nat
        /\ Cardinality(WorkersOf(l)') = Cardinality(WorkersOf(l)) + dw
    BY <1>1, <2>1, <2>3, <2>4
  <2>6. /\ IsFiniteSet(ReadersOf(l)') /\ Cardinality(ReadersOf(l)) \in Nat
        /\ Cardinality(ReadersOf(l)') = Cardinality(ReadersOf(l)) + dr
    BY <1>1, <2>1, <2>3, <2>4
  <2>7. QED
    BY <1>3, <2>1, <2>2, <2>3, <2>5, <2>6
<1>9. QED
  BY <1>7, <1>8

\* A new flow takes an unused object, a slot, an entry and two goroutines.
LEMMA NewFlowKeeps ==
    ASSUME NetnsInv, NEW k \in Keys, NewFlow(k)
    PROVE  /\ NetnsTypeOK' /\ FlowsAreShaped' /\ TableAgrees' /\ SlotsAreCounted' /\ WorkersAreCounted'
           /\ \A l \in Listeners : workers'[l] = workers[l] \/ serving[l] = "accept"
<1> DEFINE r == [key |-> k, worker |-> Start(k), reader |-> "read", done |-> FALSE, queued |-> 0]
<1>1. NetnsTypeOK /\ FlowsAreShaped /\ TableAgrees /\ UDP(k) \in Listeners /\ None \notin FlowIds
  BY KeyFacts, NetnsAssumption DEF NetnsInv
<1>2. PICK i \in Unused : /\ flow' = [flow EXCEPT ![i] = r]
                          /\ flows' = [flows EXCEPT ![k] = i]
                          /\ current' = [current EXCEPT ![UDP(k)] = i]
  BY DEF NewFlow
<1>3. i \in FlowIds /\ flow[i] = NoFlow /\ i # None
  BY <1>1, <1>2 DEF Unused, FlowsAreShaped, FlowIsShaped, WithSlot, InTable
<1>4. r \in FlowRecord /\ r.key = k /\ r.worker \in InTable /\ r.reader = "read"
  BY DEF FlowRecord, Start, InTable, WithSlot
<1>5. flows[k] = None /\ slots < MaxConnections /\ slots' = slots + 1
      /\ serving[UDP(k)] = "accept" /\ UNCHANGED <<setupVars, closer, serving, running, conn>>
  BY DEF NewFlow, Reads
<1>6. workers' = [workers EXCEPT ![UDP(k)] = @ + 2]
  BY DEF NewFlow
<1> HIDE DEF r
<1>7. \A l \in Listeners : workers'[l] = IF l = UDP(k) THEN workers[l] + 1 + 1 ELSE workers[l]
  BY <1>1, <1>6 DEF NetnsTypeOK
<1>8. NetnsTypeOK'
  BY <1>1, <1>2, <1>3, <1>4, <1>5, <1>6 DEF NetnsTypeOK, setupVars
<1>9. \A j \in FlowIds : flow'[j] = IF j = i THEN r ELSE flow[j]
  BY <1>1, <1>2, <1>3 DEF NetnsTypeOK
<1>10. \A h \in Keys : flows'[h] = IF h = k THEN i ELSE flows[h]
  BY <1>1, <1>2 DEF NetnsTypeOK
<1>11. FlowsAreShaped'
  BY <1>1, <1>4, <1>9 DEF FlowsAreShaped, FlowIsShaped, WithSlot
<1>12. TableAgrees'
  <2>1. ASSUME NEW h \in Keys, flows'[h] # None
        PROVE  flow'[flows'[h]].key = h /\ flow'[flows'[h]].worker \in InTable
    <3>1. CASE h = k
      BY <1>3, <1>4, <1>9, <1>10, <3>1
    <3>2. CASE h # k
      <4>1. flows[h] \in FlowIds /\ flow[flows[h]].worker \in InTable /\ flow[flows[h]].key = h
        BY <1>1, <1>10, <2>1, <3>2 DEF TableAgrees, NetnsTypeOK
      <4>2. flows[h] # i
        BY <1>3, <4>1 DEF NoFlow, InTable
      <4>3. QED
        BY <1>9, <1>10, <3>2, <4>1, <4>2
    <3>3. QED
      BY <3>1, <3>2
  <2>2. ASSUME NEW j \in FlowIds, flow'[j].worker \in InTable
        PROVE  flows'[flow'[j].key] = j
    <3>1. CASE j = i
      BY <1>4, <1>9, <1>10, <3>1
    <3>2. CASE j # i
      <4>1. flow'[j] = flow[j] /\ flow[j].key \in Keys /\ flows[flow[j].key] = j
        BY <1>1, <1>9, <2>2, <3>2 DEF TableAgrees, FlowsAreShaped, FlowIsShaped, NoFlow, InTable
      <4>2. flow[j].key # k
        BY <1>1, <1>5, <4>1
      <4>3. QED
        BY <1>10, <4>1, <4>2
    <3>3. QED
      BY <3>1, <3>2
  <2>3. QED
    BY <2>1, <2>2 DEF TableAgrees
<1>13. SlotsAreCounted' /\ WorkersAreCounted'
  <2>1. flow[i].worker \notin WithSlot /\ flow[i].reader # "read"
    BY <1>3 DEF NoFlow, WithSlot, InTable
  <2>2. flow'[i].key = k /\ flow'[i].worker \in WithSlot /\ flow'[i].reader = "read"
    BY <1>3, <1>4, <1>9 DEF WithSlot
  <2>3. slots' <= MaxConnections /\ 1 \in {-1, 0, 1}
    BY <1>1, <1>5, NetnsAssumption DEF NetnsTypeOK
  <2>4. QED
    BY <1>3, <1>5, <1>7, <1>9, <2>1, <2>2, <2>3, FlowRecount
<1>14. QED
  BY <1>5, <1>7, <1>8, <1>11, <1>12, <1>13

\* The flow object after one of its goroutines has ended.
LEMMA CountOutFacts ==
    ASSUME NetnsInv, NEW i \in FlowIds, NEW g \in {"worker", "reader"}, CountOut(i, g, TRUE),
           g = "worker" => flow[i].worker = "release",
           g = "reader" => flow[i].reader = "read"
    PROVE  LET k == flow[i].key IN
           /\ k \in Keys
           /\ flow' \in [FlowIds -> FlowRecord]
           /\ \A j \in FlowIds : j # i => flow'[j] = flow[j]
           /\ FlowIsShaped(i)'
           /\ flow'[i].worker \in WithSlot => g = "reader" /\ flow'[i].worker = flow[i].worker
           /\ flow'[i].worker \notin WithSlot => g = "worker" \/ flow[i].worker = "ended"
           /\ flow'[i].reader = "read" <=> (flow[i].reader = "read" /\ g = "worker")
           /\ flow'[i].worker \in WithSlot \/ flow'[i].reader = "read" => flow'[i].key = k
           /\ workers' \in [Listeners -> Nat]
           /\ \A l \in Listeners : workers'[l] = IF l = UDP(k) THEN workers[l] - 1 ELSE workers[l]
           /\ UDP(k) \in Listeners /\ workers[UDP(k)] > 0
<1> DEFINE k == flow[i].key
           left == [flow[i] EXCEPT ![g] = "ended", !.done = TRUE]
<1>1. flow \in [FlowIds -> FlowRecord] /\ workers \in [Listeners -> Nat] /\ FlowIsShaped(i)
  BY DEF NetnsInv, NetnsTypeOK, FlowsAreShaped
<1>2. flow[i] # NoFlow /\ flow[i] \in FlowRecord
  BY <1>1 DEF NoFlow
<1>3. /\ k \in Keys /\ flow[i].reader \in {"read", "ended"}
      /\ flow[i].worker \in WithSlot \/ (flow[i].worker = "ended" /\ flow[i].reader = "read")
  BY <1>1, <1>2 DEF FlowIsShaped
<1>4. UDP(k) \in Listeners
  BY <1>3, KeyFacts
<1>5. workers[UDP(k)] > 0
  <2>1. i \in WorkersOf(UDP(k)) \/ i \in ReadersOf(UDP(k))
    BY DEF WorkersOf, ReadersOf, HoldsSlotUDP
  <2>2. QED
    BY <1>4, <2>1, WorkersPositive
<1>6. /\ left \in FlowRecord /\ left.key = k
      /\ left.worker = IF g = "worker" THEN "ended" ELSE flow[i].worker
      /\ left.reader = IF g = "reader" THEN "ended" ELSE flow[i].reader
  <2>1. CASE g = "worker"
    <3>1. left = [flow[i] EXCEPT !.worker = "ended", !.done = TRUE]
      BY <2>1
    <3> HIDE DEF left
    <3>2. QED
      BY <1>2, <2>1, <3>1 DEF FlowRecord
  <2>2. CASE g = "reader"
    <3>1. left = [flow[i] EXCEPT !.reader = "ended", !.done = TRUE]
      BY <2>2
    <3> HIDE DEF left
    <3>2. QED
      BY <1>2, <2>2, <3>1 DEF FlowRecord
  <2>3. QED
    BY <2>1, <2>2
<1> DEFINE r == IF left.worker = "ended" /\ left.reader = "ended" THEN NoFlow ELSE left
<1>7. flow' = [flow EXCEPT ![i] = r] /\ workers' = [workers EXCEPT ![UDP(k)] = @ - 1]
  BY DEF CountOut
<1> HIDE DEF left, k
<1>8. NoFlow \in FlowRecord
  BY DEF NoFlow, FlowRecord
<1>9. r \in FlowRecord /\ flow' \in [FlowIds -> FlowRecord] /\ flow'[i] = r
      /\ \A j \in FlowIds : j # i => flow'[j] = flow[j]
  <2>1. r \in FlowRecord
    BY <1>6, <1>8
  <2> HIDE DEF r
  <2>2. QED
    BY <1>1, <1>7, <2>1
<1>10. workers' \in [Listeners -> Nat]
       /\ \A l \in Listeners : workers'[l] = IF l = UDP(k) THEN workers[l] - 1 ELSE workers[l]
  BY <1>1, <1>4, <1>5, <1>7
<1>11. CASE left.worker = "ended" /\ left.reader = "ended"
  <2>1. flow'[i] = NoFlow
    BY <1>9, <1>11
  <2>2. flow'[i].worker = "none" /\ flow'[i].reader = "none" /\ FlowIsShaped(i)'
    BY <2>1 DEF NoFlow, FlowIsShaped
  <2>3. g = "worker" => flow[i].reader # "read"
    BY <1>6, <1>11
  <2>4. g = "worker" \/ flow[i].worker = "ended"
    BY <1>6, <1>11
  <2>5. QED
    BY <1>3, <1>4, <1>5, <1>9, <1>10, <2>2, <2>3, <2>4 DEF WithSlot, InTable, k
<1>12. CASE ~(left.worker = "ended" /\ left.reader = "ended")
  <2>1. flow'[i] = left
    BY <1>9, <1>12
  <2>2. FlowIsShaped(i)'
    BY <1>3, <1>6, <1>12, <2>1 DEF FlowIsShaped, WithSlot, InTable
  <2>3. QED
    BY <1>3, <1>4, <1>5, <1>6, <1>9, <1>10, <2>1, <2>2 DEF WithSlot, InTable, k
<1>13. QED
  BY <1>11, <1>12

\* The reader of a flow ends.
LEMMA ReaderFailsKeeps ==
    ASSUME NetnsInv, NEW i \in FlowIds, ReaderFails(i)
    PROVE  /\ NetnsTypeOK' /\ FlowsAreShaped' /\ TableAgrees' /\ SlotsAreCounted' /\ WorkersAreCounted'
           /\ \A l \in Listeners : workers'[l] = workers[l] \/ workers[l] > 0
<1> DEFINE k == flow[i].key
<1>1. /\ flow[i].reader = "read" /\ CountOut(i, "reader", TRUE)
      /\ UNCHANGED <<setupVars, closer, slots, serving, running, conn, flows, current, sent>>
  BY DEF ReaderFails
<1>2. /\ k \in Keys
      /\ flow' \in [FlowIds -> FlowRecord]
      /\ \A j \in FlowIds : j # i => flow'[j] = flow[j]
      /\ FlowIsShaped(i)'
      /\ flow'[i].worker \in WithSlot => flow'[i].worker = flow[i].worker
      /\ flow'[i].worker \notin WithSlot => flow[i].worker = "ended"
      /\ flow'[i].reader # "read"
      /\ flow'[i].worker \in WithSlot => flow'[i].key = k
      /\ workers' \in [Listeners -> Nat]
      /\ \A l \in Listeners : workers'[l] = IF l = UDP(k) THEN workers[l] - 1 ELSE workers[l]
      /\ UDP(k) \in Listeners /\ workers[UDP(k)] > 0
  BY <1>1, CountOutFacts
<1> HIDE DEF k
<1>3. NetnsTypeOK /\ FlowsAreShaped /\ TableAgrees /\ SlotsAreCounted
  BY DEF NetnsInv
<1>4. NetnsTypeOK'
  BY <1>1, <1>2, <1>3 DEF NetnsTypeOK, setupVars
<1>5. FlowsAreShaped'
  BY <1>2, <1>3 DEF FlowsAreShaped, FlowIsShaped
<1>6. TableAgrees'
  <2>1. \A j \in FlowIds : /\ flow'[j].worker \in InTable <=> flow[j].worker \in InTable
                           /\ flow'[j].worker \in InTable => flow'[j].key = flow[j].key
    BY <1>2 DEF WithSlot, InTable, k
  <2>2. QED
    BY <1>1, <1>3, <2>1 DEF TableAgrees, NetnsTypeOK
<1>7. SlotsAreCounted' /\ WorkersAreCounted'
  <2>1. slots' = slots + 0 /\ slots' <= MaxConnections /\ 0 \in {-1, 0, 1} /\ -1 \in {-1, 0, 1}
    BY <1>1, <1>3 DEF NetnsTypeOK, SlotsAreCounted
  <2>2. \A l \in Listeners : workers'[l] = IF l = UDP(k) THEN workers[l] + 0 + (-1) ELSE workers[l]
    BY <1>2, <1>3 DEF NetnsTypeOK
  <2>3. flow[i].worker \in WithSlot <=> flow'[i].worker \in WithSlot
    BY <1>2 DEF WithSlot, InTable
  <2>4. flow[i].key = k
    BY DEF k
  <2>5. 0 # 1 /\ 0 # -1 /\ -1 # 1 /\ UNCHANGED conn
    BY <1>1
  <2>6. QED
    BY <1>1, <1>2, <2>1, <2>2, <2>3, <2>4, <2>5, FlowRecount
<1>8. QED
  BY <1>2, <1>4, <1>5, <1>6, <1>7

\* The worker of a flow takes its entry out of the table: no other flow has
\* the key.
LEMMA LeaveTableKeeps ==
    ASSUME NetnsInv, NEW i \in FlowIds, flow[i].worker = "close",
           flows' = [flows EXCEPT ![flow[i].key] = None],
           flow' = [flow EXCEPT ![i].worker = "release", ![i].done = TRUE],
           UNCHANGED <<setupVars, proxyVars, conn, current, sent>>
    PROVE  NetnsTypeOK' /\ FlowsAreShaped' /\ TableAgrees' /\ SlotsAreCounted' /\ WorkersAreCounted'
<1> DEFINE k == flow[i].key
           r == [flow[i] EXCEPT !.worker = "release", !.done = TRUE]
<1>1. NetnsTypeOK /\ FlowsAreShaped /\ TableAgrees /\ SlotsAreCounted
  BY DEF NetnsInv
<1>2. flow \in [FlowIds -> FlowRecord] /\ flows \in [Keys -> FlowIds \cup {None}] /\ FlowIsShaped(i)
  BY <1>1 DEF NetnsTypeOK, FlowsAreShaped
<1>3. k \in Keys /\ flow[i].reader \in {"read", "ended"} /\ flows[k] = i /\ None \notin FlowIds
  BY <1>1, <1>2, NetnsAssumption DEF FlowIsShaped, NoFlow, TableAgrees, InTable
<1>4. r \in FlowRecord /\ r.worker = "release" /\ r.key = k /\ r.reader = flow[i].reader
  BY <1>2 DEF FlowRecord, WithSlot
<1>5. flow' = [flow EXCEPT ![i] = r]
  BY <1>2
<1> HIDE DEF r, k
<1>6. flow' \in [FlowIds -> FlowRecord] /\ \A j \in FlowIds : flow'[j] = IF j = i THEN r ELSE flow[j]
  BY <1>2, <1>4, <1>5
<1>7. /\ flows' \in [Keys -> FlowIds \cup {None}]
      /\ \A h \in Keys : flows'[h] = IF h = k THEN None ELSE flows[h]
  BY <1>2, <1>3 DEF k
<1>8. NetnsTypeOK'
  BY <1>1, <1>6, <1>7 DEF NetnsTypeOK, setupVars, proxyVars
<1>9. FlowsAreShaped'
  BY <1>1, <1>3, <1>4, <1>6 DEF FlowsAreShaped, FlowIsShaped, WithSlot
<1>10. TableAgrees'
  <2>1. ASSUME NEW h \in Keys, flows'[h] # None
        PROVE  flow'[flows'[h]].key = h /\ flow'[flows'[h]].worker \in InTable
    <3>1. h # k /\ flows'[h] = flows[h] /\ flows[h] \in FlowIds
      BY <1>2, <1>7, <2>1
    <3>2. flow[flows[h]].key = h /\ flow[flows[h]].worker \in InTable
      BY <1>1, <2>1, <3>1 DEF TableAgrees
    <3>3. flows[h] # i
      BY <3>1, <3>2 DEF k
    <3>4. QED
      BY <1>6, <3>1, <3>2, <3>3
  <2>2. ASSUME NEW j \in FlowIds, flow'[j].worker \in InTable
        PROVE  flows'[flow'[j].key] = j
    <3>1. j # i /\ flow'[j] = flow[j]
      BY <1>4, <1>6, <2>2 DEF InTable
    <3>2. flow[j].key \in Keys /\ flows[flow[j].key] = j
      BY <1>1, <2>2, <3>1 DEF TableAgrees, FlowsAreShaped, FlowIsShaped, NoFlow, InTable
    <3>3. QED
      BY <1>3, <1>7, <3>1, <3>2
  <2>3. QED
    BY <2>1, <2>2 DEF TableAgrees
<1>11. SlotsAreCounted' /\ WorkersAreCounted'
  <2>1. slots' = slots + 0 /\ slots' <= MaxConnections /\ 0 \in {-1, 0, 1}
    BY <1>1 DEF NetnsTypeOK, SlotsAreCounted, proxyVars
  <2>2. \A l \in Listeners : workers'[l] = IF l = UDP(k) THEN workers[l] + 0 + 0 ELSE workers[l]
    BY <1>1 DEF NetnsTypeOK, proxyVars
  <2>3. /\ flow[i].worker \in WithSlot /\ flow'[i].worker \in WithSlot
        /\ flow'[i].reader = flow[i].reader /\ flow'[i].key = k
    BY <1>4, <1>6 DEF WithSlot, InTable
  <2>4. flow[i].key = k
    BY DEF k
  <2>5. 0 # 1 /\ 0 # -1 /\ UNCHANGED conn
    OBVIOUS
  <2>6. QED
    BY <1>3, <1>6, <2>1, <2>2, <2>3, <2>4, <2>5, FlowRecount
<1>12. QED
  BY <1>8, <1>9, <1>10, <1>11

\* The worker of a flow gives its slot back and counts out.
LEMMA ReleaseKeeps ==
    ASSUME NetnsInv, NEW i \in FlowIds, flow[i].worker = "release", slots > 0, slots' = slots - 1,
           CountOut(i, "worker", TRUE),
           UNCHANGED <<setupVars, closer, serving, running, conn, flows, current, sent>>
    PROVE  /\ NetnsTypeOK' /\ FlowsAreShaped' /\ TableAgrees' /\ SlotsAreCounted' /\ WorkersAreCounted'
           /\ \A l \in Listeners : workers'[l] = workers[l] \/ workers[l] > 0
<1> DEFINE k == flow[i].key
<1>1. /\ k \in Keys
      /\ flow' \in [FlowIds -> FlowRecord]
      /\ \A j \in FlowIds : j # i => flow'[j] = flow[j]
      /\ FlowIsShaped(i)'
      /\ flow'[i].worker \notin WithSlot
      /\ flow'[i].reader = "read" <=> flow[i].reader = "read"
      /\ flow'[i].reader = "read" => flow'[i].key = k
      /\ workers' \in [Listeners -> Nat]
      /\ \A l \in Listeners : workers'[l] = IF l = UDP(k) THEN workers[l] - 1 ELSE workers[l]
      /\ UDP(k) \in Listeners /\ workers[UDP(k)] > 0
  BY CountOutFacts
<1> HIDE DEF k
<1>2. NetnsTypeOK /\ FlowsAreShaped /\ TableAgrees /\ SlotsAreCounted
  BY DEF NetnsInv
<1>3. NetnsTypeOK'
  BY <1>1, <1>2 DEF NetnsTypeOK, setupVars
<1>4. FlowsAreShaped'
  BY <1>1, <1>2 DEF FlowsAreShaped, FlowIsShaped
<1>5. TableAgrees'
  <2>1. \A j \in FlowIds : /\ flow'[j].worker \in InTable <=> flow[j].worker \in InTable
                           /\ flow'[j].worker \in InTable => flow'[j].key = flow[j].key
    BY <1>1 DEF WithSlot, InTable
  <2>2. QED
    BY <1>2, <2>1 DEF TableAgrees, NetnsTypeOK
<1>6. SlotsAreCounted' /\ WorkersAreCounted'
  <2>1. slots' = slots + (-1) /\ slots' <= MaxConnections /\ 0 \in {-1, 0, 1} /\ -1 \in {-1, 0, 1}
    BY <1>2, NetnsAssumption DEF NetnsTypeOK, SlotsAreCounted
  <2>2. \A l \in Listeners : workers'[l] = IF l = UDP(k) THEN workers[l] + (-1) + 0 ELSE workers[l]
    BY <1>1, <1>2 DEF NetnsTypeOK
  <2>3. flow[i].worker \in WithSlot
    BY DEF WithSlot
  <2>4. flow[i].key = k
    BY DEF k
  <2>5. 0 # 1 /\ 0 # -1 /\ -1 # 1 /\ UNCHANGED conn
    OBVIOUS
  <2>6. QED
    BY <1>1, <2>1, <2>2, <2>3, <2>4, <2>5, FlowRecount
<1>7. QED
  BY <1>1, <1>3, <1>4, <1>5, <1>6

-----------------------------------------------------------------------------
(* Every step *)

\* A worker that comes needs a listener that still accepts, and one that goes
\* was counted: neither is there for a listener whose goroutine has ended.
LEMMA CloseOrderKeeps ==
    ASSUME NetnsInv, UNCHANGED <<setupVars, closer, serving, running>>,
           \A l \in Listeners : workers'[l] = workers[l] \/ serving[l] = "accept" \/ workers[l] > 0
    PROVE  CloseIsOrdered' /\ SetupIsOrdered'
<1>1. CloseIsOrdered /\ SetupIsOrdered
  BY DEF NetnsInv
<1>2. CloseIsOrdered'
  BY <1>1 DEF CloseIsOrdered, setupVars
<1>3. SetupIsOrdered'
  BY <1>1 DEF SetupIsOrdered, Own, setupVars
<1>4. QED
  BY <1>2, <1>3

\* What depends on neither the set-up nor Close.
LEMMA ProxyKeeps ==
    ASSUME NetnsInv, UNCHANGED <<slots, workers, conn, flows, flow>>
    PROVE  FlowsAreShaped' /\ TableAgrees' /\ SlotsAreCounted' /\ WorkersAreCounted'
<1>1. FlowsAreShaped' /\ TableAgrees'
  BY DEF NetnsInv, FlowsAreShaped, FlowIsShaped, TableAgrees
<1>2. HoldsSlotTCP' = HoldsSlotTCP /\ HoldsSlotUDP' = HoldsSlotUDP
  BY DEF HoldsSlotTCP, HoldsSlotUDP
<1>3. \A l : ConnsOf(l)' = ConnsOf(l) /\ WorkersOf(l)' = WorkersOf(l) /\ ReadersOf(l)' = ReadersOf(l)
  BY <1>2 DEF ConnsOf, WorkersOf, ReadersOf, TCP, UDP
<1>4. SlotsAreCounted' /\ WorkersAreCounted'
  BY <1>2, <1>3 DEF NetnsInv, SlotsAreCounted, WorkersAreCounted
<1>5. QED
  BY <1>1, <1>4

\* New.
LEMMA NewKeeps ==
    ASSUME NetnsInv, New
    PROVE  NetnsInv'
<1>1. NetnsTypeOK /\ CloseIsOrdered
  BY DEF NetnsInv
<1>2. UNCHANGED <<slots, serving, workers, running, conn, udpVars>>
  BY DEF New, SetupStep, SetupFails, SetupUndo, proxyVars
<1>3. FlowsAreShaped' /\ TableAgrees' /\ SlotsAreCounted' /\ WorkersAreCounted'
  BY <1>2, ProxyKeeps DEF udpVars
<1>4. NetnsTypeOK'
  BY <1>1, <1>2 DEF New, SetupStep, SetupFails, SetupUndo, NetnsTypeOK, proxyVars, udpVars
<1>5. CloseIsOrdered'
  BY <1>1, <1>2 DEF New, SetupStep, SetupFails, SetupUndo, CloseIsOrdered, proxyVars
<1>6. QED
  BY <1>3, <1>4, <1>5, NewKeepsSetup DEF NetnsInv

\* Close and Run.
LEMMA ControlKeeps ==
    ASSUME NetnsInv,
           \/ CallClose \/ CloseProceeds \/ RunStarts \/ RunReturns
           \/ \E l \in Listeners : ServeReturns(l)
    PROVE  NetnsInv'
<1> USE DEF CallClose, CloseProceeds, RunStarts, RunReturns, ServeReturns
<1>1. NetnsTypeOK /\ CloseIsOrdered /\ SetupIsOrdered
  BY DEF NetnsInv
<1>2. UNCHANGED <<slots, workers, conn, udpVars, step, setup, namespace, found, residue>>
  BY DEF setupVars
<1>3. FlowsAreShaped' /\ TableAgrees' /\ SlotsAreCounted' /\ WorkersAreCounted'
  BY <1>2, ProxyKeeps DEF udpVars
<1>4. NetnsTypeOK'
  BY <1>1, <1>2 DEF NetnsTypeOK, setupVars, udpVars
<1>5. CloseIsOrdered'
  <2>1. CASE CallClose \/ CloseProceeds \/ RunStarts \/ RunReturns
    BY <1>1, <1>2, <2>1 DEF CloseIsOrdered, NetnsTypeOK, setupVars
  <2>2. ASSUME NEW l \in Listeners, ServeReturns(l)
        PROVE  CloseIsOrdered'
    BY <1>1, <1>2, <2>2 DEF CloseIsOrdered, NetnsTypeOK, setupVars
  <2>3. QED
    BY <2>1, <2>2
<1>6. SetupIsOrdered'
  <2>1. open' \in {open, {}}
    BY DEF setupVars
  <2>2. QED
    BY <1>1, <1>2, <2>1 DEF SetupIsOrdered, Own
<1>7. QED
  BY <1>3, <1>4, <1>5, <1>6 DEF NetnsInv

\* The TCP workers.
LEMMA TCPKeeps ==
    ASSUME NetnsInv, NEW c \in Conns,
           AcceptTCP(c) \/ DialTCPFails(c) \/ DialTCP(c) \/ RelayTCPEnds(c) \/ EndTCP(c)
    PROVE  NetnsInv'
<1>1. NetnsTypeOK /\ FlowsAreShaped /\ TableAgrees
  BY DEF NetnsInv
<1>2. UNCHANGED <<setupVars, closer, serving, running, udpVars>>
  BY DEF AcceptTCP, DialTCPFails, DialTCP, RelayTCPEnds, EndTCP, proxyVars
<1>3. FlowsAreShaped' /\ TableAgrees'
  BY <1>1, <1>2 DEF FlowsAreShaped, FlowIsShaped, TableAgrees, udpVars
<1>4. CASE AcceptTCP(c)
  BY <1>2, <1>3, <1>4, AcceptTCPKeeps, CloseOrderKeeps DEF NetnsInv
<1>5. CASE EndTCP(c)
  BY <1>2, <1>3, <1>5, EndTCPKeeps, CloseOrderKeeps DEF NetnsInv
<1>6. CASE DialTCPFails(c) \/ DialTCP(c) \/ RelayTCPEnds(c)
  <2>1. UNCHANGED <<slots, workers>> /\ conn[c] \in {"dial", "relay"}
        /\ \E p \in {"relay", "close"} : conn' = [conn EXCEPT ![c] = p]
    BY <1>6 DEF DialTCPFails, DialTCP, RelayTCPEnds, proxyVars
  <2>2. HoldsSlotTCP' = HoldsSlotTCP /\ HoldsSlotUDP' = HoldsSlotUDP
    BY <1>1, <1>2, <2>1 DEF NetnsTypeOK, HoldsSlotTCP, HoldsSlotUDP, udpVars
  <2>3. \A l : ConnsOf(l)' = ConnsOf(l) /\ WorkersOf(l)' = WorkersOf(l) /\ ReadersOf(l)' = ReadersOf(l)
    BY <1>2, <2>2 DEF ConnsOf, WorkersOf, ReadersOf, TCP, UDP, udpVars
  <2>4. SlotsAreCounted' /\ WorkersAreCounted'
    BY <2>1, <2>2, <2>3 DEF NetnsInv, SlotsAreCounted, WorkersAreCounted
  <2>5. NetnsTypeOK'
    BY <1>1, <1>2, <2>1 DEF NetnsTypeOK, setupVars, udpVars
  <2>6. CloseIsOrdered' /\ SetupIsOrdered'
    BY <1>2, <2>1, CloseOrderKeeps
  <2>7. QED
    BY <1>3, <2>4, <2>5, <2>6 DEF NetnsInv
<1>7. QED
  BY <1>4, <1>5, <1>6

\* The UDP listeners.
LEMMA ListenKeeps ==
    ASSUME NetnsInv,
           \/ \E k \in Keys : DropPacket(k) \/ KnownFlow(k) \/ NewFlow(k)
           \/ \E l \in Listeners : HandOver(l)
    PROVE  NetnsInv'
<1>1. NetnsTypeOK
  BY DEF NetnsInv
<1>2. ASSUME NEW k \in Keys, DropPacket(k) \/ KnownFlow(k)
      PROVE  NetnsInv'
  <2>1. UNCHANGED <<setupVars, proxyVars, conn, flows, flow>>
    BY <1>2 DEF DropPacket, KnownFlow
  <2>2. NetnsTypeOK'
    BY <1>1, <1>2, KeyFacts DEF DropPacket, KnownFlow, NetnsTypeOK, setupVars, proxyVars
  <2>3. CloseIsOrdered' /\ SetupIsOrdered'
    BY <2>1, CloseOrderKeeps DEF proxyVars
  <2>4. QED
    BY <2>1, <2>2, <2>3, ProxyKeeps DEF NetnsInv, proxyVars
<1>3. ASSUME NEW k \in Keys, NewFlow(k)
      PROVE  NetnsInv'
  <2>1. UNCHANGED <<setupVars, closer, serving, running>>
    BY <1>3 DEF NewFlow
  <2>2. QED
    BY <1>3, <2>1, NewFlowKeeps, CloseOrderKeeps DEF NetnsInv
<1>4. ASSUME NEW l \in Listeners, HandOver(l)
      PROVE  NetnsInv'
  <2>1. current[l] \in FlowIds /\ UNCHANGED <<setupVars, proxyVars, conn, flows, sent>>
    BY <1>1, <1>4 DEF HandOver, NetnsTypeOK
  <2>2. PICK r : Quiet(current[l], r)
    BY <1>1, <1>4, <2>1, OfferIsQuiet DEF HandOver
  <2>3. /\ flow' \in [FlowIds -> FlowRecord]
        /\ FlowsAreShaped' /\ TableAgrees' /\ SlotsAreCounted' /\ WorkersAreCounted'
    BY <2>1, <2>2, QuietKeeps DEF proxyVars
  <2>4. NetnsTypeOK'
    BY <1>1, <1>4, <2>1, <2>3 DEF HandOver, NetnsTypeOK, setupVars, proxyVars
  <2>5. CloseIsOrdered' /\ SetupIsOrdered'
    BY <2>1, CloseOrderKeeps DEF proxyVars
  <2>6. QED
    BY <2>3, <2>4, <2>5 DEF NetnsInv
<1>5. QED
  BY <1>2, <1>3, <1>4

\* The goroutines of a flow.
LEMMA FlowKeeps ==
    ASSUME NetnsInv, NEW i \in FlowIds,
           \/ WorkUDP(i) \/ ReadReply(i) \/ HookUDP(i)
           \/ ReplySocketReads(i) \/ ReaderFails(i) \/ WriteReturns(i) \/ SessionEnds(i)
    PROVE  NetnsInv'
<1>1. NetnsTypeOK
  BY DEF NetnsInv
<1>2. ASSUME NEW r, Quiet(i, r), UNCHANGED <<setupVars, proxyVars, conn, flows, current>>
      PROVE  NetnsInv'
  <2>1. /\ flow' \in [FlowIds -> FlowRecord]
        /\ FlowsAreShaped' /\ TableAgrees' /\ SlotsAreCounted' /\ WorkersAreCounted'
    BY <1>2, QuietKeeps DEF proxyVars
  <2>2. NetnsTypeOK'
    BY <1>1, <1>2, <2>1 DEF NetnsTypeOK, setupVars, proxyVars
  <2>3. CloseIsOrdered' /\ SetupIsOrdered'
    BY <1>2, CloseOrderKeeps DEF proxyVars
  <2>4. QED
    BY <2>1, <2>2, <2>3 DEF NetnsInv
<1>3. CASE \/ DialUDP(i) \/ DialUDPFails(i) \/ TakePacket(i) \/ WriteReturns(i)
           \/ SessionEnds(i) \/ HookUDP(i)
  BY <1>1, <1>2, <1>3, WorkIsQuiet
<1>4. CASE ReplySocketReads(i)
  BY <1>1, <1>2, <1>4, OfferIsQuiet DEF ReplySocketReads
<1>5. CASE ReaderFails(i)
  <2>1. UNCHANGED <<setupVars, closer, serving, running>>
    BY <1>5 DEF ReaderFails
  <2>2. QED
    BY <1>5, <2>1, ReaderFailsKeeps, CloseOrderKeeps DEF NetnsInv
<1>6. CASE EndUDP(i)
  <2>1. UNCHANGED <<setupVars, closer, serving, running>>
    BY <1>6 DEF EndUDP, proxyVars
  <2>2. CASE flow[i].worker = "close"
    <3>1. /\ flows' = [flows EXCEPT ![flow[i].key] = None]
          /\ flow' = [flow EXCEPT ![i].worker = "release", ![i].done = TRUE]
          /\ UNCHANGED <<setupVars, proxyVars, conn, current, sent>>
      BY <1>6, <2>2 DEF EndUDP
    <3>2. NetnsTypeOK' /\ FlowsAreShaped' /\ TableAgrees' /\ SlotsAreCounted' /\ WorkersAreCounted'
      BY <2>2, <3>1, LeaveTableKeeps
    <3>3. CloseIsOrdered' /\ SetupIsOrdered'
      BY <3>1, CloseOrderKeeps DEF proxyVars
    <3>4. QED
      BY <3>2, <3>3 DEF NetnsInv
  <2>3. CASE flow[i].worker = "release"
    <3>1. /\ slots > 0 /\ slots' = slots - 1 /\ CountOut(i, "worker", TRUE)
          /\ UNCHANGED <<setupVars, closer, serving, running, conn, flows, current, sent>>
      BY <1>6, <2>3 DEF EndUDP
    <3>2. /\ NetnsTypeOK' /\ FlowsAreShaped' /\ TableAgrees' /\ SlotsAreCounted' /\ WorkersAreCounted'
          /\ \A l \in Listeners : workers'[l] = workers[l] \/ workers[l] > 0
      BY <2>3, <3>1, ReleaseKeeps
    <3>3. CloseIsOrdered' /\ SetupIsOrdered'
      BY <3>1, <3>2, CloseOrderKeeps
    <3>4. QED
      BY <3>2, <3>3 DEF NetnsInv
  <2>4. QED
    BY <1>6, <2>2, <2>3 DEF EndUDP
<1>7. QED
  BY <1>3, <1>4, <1>5, <1>6 DEF WorkUDP, ReadReply, ReadFails

LEMMA NetnsInit ==
    Init => NetnsInv
<1> SUFFICES ASSUME Init
             PROVE  NetnsInv
  OBVIOUS
<1> USE DEF Init
<1>1. NoFlow \in FlowRecord
  BY DEF NoFlow, FlowRecord
<1>2. NetnsTypeOK
  BY <1>1 DEF NetnsTypeOK
<1>3. \A i \in FlowIds : flow[i] = NoFlow
  OBVIOUS
<1>4. FlowsAreShaped /\ TableAgrees
  BY <1>3 DEF FlowsAreShaped, FlowIsShaped, TableAgrees, NoFlow, InTable
<1>5. HoldsSlotTCP = {} /\ HoldsSlotUDP = {}
  BY <1>3 DEF HoldsSlotTCP, HoldsSlotUDP, NoFlow
<1>6. \A l : ConnsOf(l) = {} /\ WorkersOf(l) = {} /\ ReadersOf(l) = {}
  BY <1>3, <1>5 DEF ConnsOf, WorkersOf, ReadersOf, NoFlow
<1>7. SlotsAreCounted /\ WorkersAreCounted
  <2>1. IsFiniteSet({}) /\ Cardinality({}) = 0
    BY FS_EmptySet
  <2>2. SlotsAreCounted
    BY <1>5, <2>1, NetnsAssumption DEF SlotsAreCounted
  <2>3. WorkersAreCounted
    BY <1>6, <2>1 DEF WorkersAreCounted
  <2>4. QED
    BY <2>2, <2>3
<1>8. CloseIsOrdered
  BY DEF CloseIsOrdered
<1>9. SetupIsOrdered
  <2>1. 1 \in 1 .. Len(SetupSteps) + 1 /\ 1 <= Len(SetupSteps)
    BY SetupStepsFacts
  <2>2. namespace \in [Resources -> {"none", "foreign", "own"}]
    OBVIOUS
  <2>3. QED
    BY <2>1, <2>2 DEF SetupIsOrdered
<1>10. QED
  BY <1>2, <1>4, <1>7, <1>8, <1>9 DEF NetnsInv

\* The inductive invariant holds of the adapter.
THEOREM NetnsInvariance ==
    Spec => []NetnsInv
<1>1. NetnsInv /\ [Next]_vars => NetnsInv'
  <2> SUFFICES ASSUME NetnsInv, [Next]_vars
               PROVE  NetnsInv'
    OBVIOUS
  <2>1. CASE UNCHANGED vars
    <3>1. UNCHANGED <<setupVars, closer, serving, running, workers, slots, conn, flows, flow, current>>
      BY <2>1 DEF vars, proxyVars, udpVars
    <3>2. NetnsTypeOK'
      BY <3>1 DEF NetnsInv, NetnsTypeOK, setupVars
    <3>3. QED
      BY <3>1, <3>2, ProxyKeeps, CloseOrderKeeps DEF NetnsInv
  <2>2. CASE Program
    BY <2>2, NewKeeps, ControlKeeps, TCPKeeps, ListenKeeps, FlowKeeps DEF Program, Serve, WorkTCP
  <2>3. CASE Environment
    BY <2>3, ControlKeeps, TCPKeeps, ListenKeeps, FlowKeeps DEF Environment
  <2>4. QED
    BY <2>1, <2>2, <2>3 DEF Next
<1>2. QED
  BY <1>1, NetnsInit, PTL DEF Spec

\* serveTCP and serveUDP: TCP workers and UDP flows share the budget, and every
\* path gives its slot back once.
THEOREM NetnsSlotsAreExact ==
    Spec => []SlotsAreExact
<1>1. NetnsInv => SlotsAreExact
  BY DEF NetnsInv, SlotsAreCounted, SlotsAreExact
<1>2. QED
  BY <1>1, NetnsInvariance, PTL

\* serveUDP: a worker that deletes its entry by key never deletes the entry of
\* a younger flow.
THEOREM NetnsTableIsExact ==
    Spec => []TableIsExact
<1>1. NetnsInv => TableIsExact
  BY DEF NetnsInv, TableAgrees, TableIsExact, InTable
<1>2. QED
  BY <1>1, NetnsInvariance, PTL

\* Run: once it has returned no goroutine, slot, entry or listener is left.
THEOREM NetnsRunLeavesNothing ==
    Spec => []RunLeavesNothing
<1>1. NetnsInv => RunLeavesNothing
  <2> SUFFICES ASSUME NetnsInv, running = "returned"
               PROVE  /\ open = {} /\ slots = 0 /\ \A l \in Listeners : workers[l] = 0
                      /\ \A c \in Conns : conn[c] \in {"away", "ended"}
                      /\ \A i \in FlowIds : flow[i] = NoFlow
                      /\ \A k \in Keys : flows[k] = None
    BY DEF RunLeavesNothing
  <2>1. \A l \in Listeners : workers[l] = 0 /\ closer = "closed"
    BY DEF NetnsInv, CloseIsOrdered
  <2>2. open = {}
    <3>1. <<"tcp", Families[1]>> \in Listeners
      BY NetnsAssumption DEF Listeners, FamilySet
    <3>2. QED
      BY <2>1, <3>1 DEF NetnsInv, CloseIsOrdered
  <2>3. \A l \in Listeners : ConnsOf(l) = {} /\ WorkersOf(l) = {} /\ ReadersOf(l) = {}
    <3> TAKE l \in Listeners
    <3>1. ~(workers[l] > 0)
      BY <2>1
    <3>2. QED
      BY <3>1, WorkersPositive
  <2>4. \A c \in Conns : c \notin HoldsSlotTCP
    BY <2>3, KeyFacts DEF ConnsOf, HoldsSlotTCP
  <2>5. ASSUME NEW i \in FlowIds
        PROVE  flow[i] = NoFlow
    <3>1. FlowIsShaped(i)
      BY DEF NetnsInv, FlowsAreShaped
    <3>2. SUFFICES ASSUME flow[i] # NoFlow
                   PROVE  FALSE
      OBVIOUS
    <3>3. UDP(flow[i].key) \in Listeners
      BY <3>1, <3>2, KeyFacts DEF FlowIsShaped
    <3>4. i \in WorkersOf(UDP(flow[i].key)) \/ i \in ReadersOf(UDP(flow[i].key))
      BY <3>1, <3>2 DEF FlowIsShaped, WorkersOf, ReadersOf, HoldsSlotUDP, WithSlot, InTable
    <3>5. QED
      BY <2>3, <3>3, <3>4
  <2>6. \A c \in Conns : conn[c] \in {"away", "ended"}
    BY <2>4 DEF NetnsInv, NetnsTypeOK, HoldsSlotTCP
  <2>7. \A k \in Keys : flows[k] = None
    BY <2>5 DEF NetnsInv, NetnsTypeOK, TableAgrees, NoFlow, InTable
  <2>8. slots = 0
    <3>1. HoldsSlotTCP = {} /\ HoldsSlotUDP = {}
      BY <2>4, <2>5 DEF HoldsSlotTCP, HoldsSlotUDP, NoFlow
    <3>2. QED
      BY <3>1, FS_EmptySet DEF NetnsInv, SlotsAreCounted
  <2>9. QED
    BY <2>1, <2>2, <2>5, <2>6, <2>7, <2>8
<1>2. QED
  BY <1>1, NetnsInvariance, PTL

\* New and installRoutes: nothing that New found is changed, a New that fails
\* leaves nothing of its own behind unless the kernel refuses the clean-up, and
\* one that succeeds has made everything.
THEOREM NetnsNamespaceIsRestored ==
    Spec => []NamespaceIsRestored
<1>1. NetnsInv => NamespaceIsRestored
  <2> SUFFICES ASSUME NetnsInv
               PROVE  NamespaceIsRestored
    OBVIOUS
  <2>1. SetupIsOrdered
    BY DEF NetnsInv
  <2>2. ASSUME setup = "ready"
        PROVE  Own = Resources
    <3>1. \A j \in 1 .. Len(SetupSteps) : SetupSteps[j] \in Resources => namespace[SetupSteps[j]] = "own"
      BY <2>1, <2>2, SetupStepsFacts DEF SetupIsOrdered
    <3>2. \A r \in Resources : namespace[r] = "own"
      BY <3>1, SetupStepsFacts
    <3>3. QED
      BY <3>2 DEF Own
  <2>3. QED
    BY <2>1, <2>2 DEF SetupIsOrdered, NamespaceIsRestored
<1>2. QED
  BY <1>1, NetnsInvariance, PTL
=============================================================================
