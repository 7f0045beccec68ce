---------------------------- MODULE PolicyProofs ----------------------------
(***************************************************************************)
(* Theorems about what the boundary's policy and parsers decide (module    *)
(* PolicyCheck), for every descriptor, head and answer of the resolver.    *)
(*                                                                         *)
(* Loops of the code are recursive functions of the model.  UpTo and Loop  *)
(* say that such a function exists and that what its turns keep holds at   *)
(* its end; from there the tables of loadDescriptor, the candidates and    *)
(* the selected rule are described by sets of entries of the descriptor,   *)
(* which is how the specification speaks of them.  AuthorizeFacts and      *)
(* ParseFacts are what the theorems need of authorize and of the heads;    *)
(* the proofs about Boundary and Egress use the same facts.                *)
(***************************************************************************)
EXTENDS PolicyCheck, NaturalsInduction, WellFoundedInduction, TLAPS

-----------------------------------------------------------------------------
(* Loops *)

\* What holds before a loop and is kept by every turn holds after each of them.
LEMMA UpTo ==
    ASSUME NEW n \in Nat, NEW S, 0 \in S, \A i \in 1 .. n : i - 1 \in S => i \in S
    PROVE  \A i \in 0 .. n : i \in S
  <1> SUFFICES ASSUME NEW m \in 0 .. n, m \notin S PROVE FALSE
    OBVIOUS
  <1> DEFINE R == {k \in Nat : k \notin S}
  <1>1. PICK k \in R : \A j \in R : ~(<<j, k>> \in OpToRel(<, Nat))
    <2>1. R \subseteq Nat /\ R # {}
      OBVIOUS
    <2>2. IsWellFoundedOn(OpToRel(<, Nat), Nat)
      BY NatLessThanWellFounded
    <2> QED  BY <2>1, <2>2, WFMin
  <1>2. \A j \in R : ~(j < k)
    BY <1>1 DEF OpToRel
  <1>3. k <= m /\ k # 0 /\ k \in Nat /\ k - 1 \notin R
    BY <1>2
  <1> QED  BY <1>3

\* The states of a loop over 1 .. n before it and after each turn.
LoopRuns(n, V, base, step) ==
    {f \in [0 .. n -> V] : f[0] = base /\ \A i \in 1 .. n : f[i] = step[i][f[i - 1]]}

\* A loop whose turns stay within V has a run.
LEMMA Loop ==
    ASSUME NEW n \in Nat, NEW V, NEW base \in V, NEW step \in [1 .. n -> [V -> V]]
    PROVE  LoopRuns(n, V, base, step) # {}
  <1> DEFINE S == {k \in 0 .. n : \E f \in [0 .. n -> V] :
                     f[0] = base /\ \A i \in 1 .. k : f[i] = step[i][f[i - 1]]}
  <1>1. 0 \in S
    <2> DEFINE f == [i \in 0 .. n |-> base]
    <2>1. f \in [0 .. n -> V] /\ f[0] = base /\ \A i \in 1 .. 0 : f[i] = step[i][f[i - 1]]
      OBVIOUS
    <2> HIDE DEF f
    <2> QED  BY <2>1
  <1>2. ASSUME NEW k \in 1 .. n, k - 1 \in S
        PROVE  k \in S
    <2>1. PICK f \in [0 .. n -> V] : f[0] = base /\ \A i \in 1 .. k - 1 : f[i] = step[i][f[i - 1]]
      BY <1>2
    <2> DEFINE v == step[k][f[k - 1]]
               g == [f EXCEPT ![k] = v]
    <2>2. v \in V
      <3>1. k - 1 \in 0 .. n /\ k \in 1 .. n
        OBVIOUS
      <3>2. f[k - 1] \in V /\ step[k] \in [V -> V]
        BY <3>1
      <3> QED  BY <3>2
    <2> HIDE DEF v
    <2>3. g \in [0 .. n -> V]
      BY <2>2
    <2>4. g[k] = v /\ \A i \in 0 .. n : i # k => g[i] = f[i]
      OBVIOUS
    <2> HIDE DEF g
    <2>5. \A i \in 1 .. k : g[i] = step[i][g[i - 1]]
      <3> SUFFICES ASSUME NEW i \in 1 .. k PROVE g[i] = step[i][g[i - 1]]
        OBVIOUS
      <3>1. g[i - 1] = f[i - 1]
        BY <2>4
      <3>2. CASE i = k
        BY <3>1, <3>2, <2>4 DEF v
      <3>3. CASE i # k
        BY <3>1, <3>3, <2>1, <2>4
      <3> QED  BY <3>2, <3>3
    <2>6. g[0] = base
      BY <2>1, <2>4
    <2> QED  BY <2>3, <2>5, <2>6
  <1> HIDE DEF S
  <1>3. \A k \in 1 .. n : k - 1 \in S => k \in S
    BY <1>2
  <1>4. \A k \in 0 .. n : k \in S
    BY <1>1, <1>3, UpTo
  <1>5. n \in S
    BY <1>4
  <1> QED  BY <1>5 DEF S, LoopRuns

\* The elements of a list after an append.
LEMMA RangeOfAppend ==
    ASSUME NEW T, NEW s \in Seq(T), NEW e
    PROVE  Range(Append(s, e)) = Range(s) \cup {e}
  <1>1. /\ Len(s) \in Nat /\ DOMAIN s = 1 .. Len(s) /\ DOMAIN Append(s, e) = 1 .. Len(s) + 1
        /\ Append(s, e)[Len(s) + 1] = e
        /\ \A i \in 1 .. Len(s) : Append(s, e)[i] = s[i]
    OBVIOUS
  <1>2. \A i \in 1 .. Len(s) + 1 : Append(s, e)[i] = e \/ Append(s, e)[i] \in Range(s)
    BY <1>1 DEF Range
  <1> QED  BY <1>1, <1>2 DEF Range

\* Keep collects the elements that are in S.
LEMMA KeepFacts ==
    ASSUME NEW T, NEW s \in Seq(T), NEW S
    PROVE  Keep(s, S) \in Seq(T) /\ Range(Keep(s, S)) = Range(s) \cap S
  <1> DEFINE V == Seq(T)
             n == Len(s)
             turn(i, v) == IF s[i] \in S THEN Append(v, s[i]) ELSE v
             step == [i \in 1 .. n |-> [v \in V |-> turn(i, v)]]
             Body(g) == [i \in 0 .. Len(s) |-> IF i = 0 THEN <<>>
                            ELSE IF s[i] \in S THEN Append(g[i - 1], s[i]) ELSE g[i - 1]]
             h == CHOOSE g : g = Body(g)
  <1>1. n \in Nat /\ <<>> \in V
    OBVIOUS
  <1>2. \A i \in 1 .. n : \A v \in V : turn(i, v) \in V
    OBVIOUS
  <1>3. \A g : Body(g) = [i \in 0 .. n |-> IF i = 0 THEN <<>> ELSE turn(i, g[i - 1])]
    OBVIOUS
  <1>4. Keep(s, S) = h[n]
    BY DEF Keep
  <1>5. \A i \in 1 .. n : \A v \in V : Range(turn(i, v)) = Range(v) \cup ({s[i]} \cap S)
    <2> SUFFICES ASSUME NEW i \in 1 .. n, NEW v \in V
                 PROVE  Range(turn(i, v)) = Range(v) \cup ({s[i]} \cap S)
      OBVIOUS
    <2>1. CASE s[i] \in S
      <3>1. turn(i, v) = Append(v, s[i])
        BY <2>1
      <3>2. Range(Append(v, s[i])) = Range(v) \cup {s[i]}
        BY RangeOfAppend
      <3> QED  BY <2>1, <3>1, <3>2
    <2>2. CASE s[i] \notin S
      BY <2>2 DEF Range
    <2> QED  BY <2>1, <2>2
  <1>6. Range(<<>>) = {}
    BY DEF Range
  <1>7. Range(s) = {s[j] : j \in 1 .. n}
    BY DEF Range
  <1> HIDE DEF n, turn, Body
  <1>8. \E f \in [0 .. n -> V] : f[0] = <<>> /\ \A i \in 1 .. n : f[i] = turn(i, f[i - 1])
    <2>1. step \in [1 .. n -> [V -> V]]
      BY <1>2
    <2>2. \A i \in 1 .. n : \A v \in V : step[i][v] = turn(i, v)
      OBVIOUS
    <2> HIDE DEF step, V, h
    <2>0. LoopRuns(n, V, <<>>, step) # {}
      BY <1>1, <2>1, Loop
    <2>3. PICK f \in [0 .. n -> V] : f[0] = <<>> /\ \A i \in 1 .. n : f[i] = step[i][f[i - 1]]
      BY <2>0 DEF LoopRuns
    <2>4. \A i \in 1 .. n : f[i - 1] \in V
      BY <1>1
    <2> QED  BY <2>2, <2>3, <2>4
  <1>9. h = Body(h)
    <2>1. PICK f \in [0 .. n -> V] : f[0] = <<>> /\ \A i \in 1 .. n : f[i] = turn(i, f[i - 1])
      BY <1>8
    <2>2. f = Body(f)
      <3> HIDE DEF V, step, h
      <3> QED  BY <1>1, <1>3, <2>1
    <2> QED  BY <2>2
  <1> HIDE DEF h, V
  <1>10. h[0] = <<>> /\ \A i \in 1 .. n : h[i] = turn(i, h[i - 1])
    BY <1>1, <1>3, <1>9
  <1> DEFINE Good == {i \in 0 .. n : h[i] \in V /\ Range(h[i]) = {s[j] : j \in 1 .. i} \cap S}
  <1>11. 0 \in Good
    BY <1>1, <1>6, <1>10
  <1>12. ASSUME NEW i \in 1 .. n, i - 1 \in Good
         PROVE  i \in Good
    <2>1. h[i] \in V /\ Range(h[i]) = ({s[j] : j \in 1 .. i - 1} \cap S) \cup ({s[i]} \cap S)
      BY <1>1, <1>2, <1>5, <1>10, <1>12
    <2>2. {s[j] : j \in 1 .. i} = {s[j] : j \in 1 .. i - 1} \cup {s[i]}
      BY <1>1
    <2> QED  BY <2>1, <2>2
  <1>13. \A i \in 0 .. n : i \in Good
    <2> HIDE DEF Good
    <2>1. \A i \in 1 .. n : i - 1 \in Good => i \in Good
      BY <1>12
    <2> QED  BY <1>1, <1>11, <2>1, UpTo
  <1>14. n \in Good
    <2> HIDE DEF Good, step
    <2> QED  BY <1>1, <1>13
  <1> QED  BY <1>4, <1>7, <1>14 DEF V

-----------------------------------------------------------------------------
(* authorize: the selected rule *)

\* The reasons of a refusal are not empty.
LEMMA ReasonFacts ==
    /\ NoReason # "port-not-allowed" /\ NoReason # "transport-not-allowed"
    /\ NoReason # "malformed-port" /\ NoReason # "malformed-target" /\ NoReason # "scoped-ip"
    /\ NoReason # "ip-not-on-allowlist" /\ NoReason # "not-on-allowlist"
    /\ NoReason # "resolved-address-denied" /\ NoReason # "udp-disabled"
  BY Zenon DEF NoReason

\* Rule r applies to the port and the transport.
Serves(r, port, network) == permits(r.ports, port) /\ network \in r.transports

\* What selectRule finds among the rules C: one that applies if there is one;
\* otherwise no rule, and the reason of the closest candidate.
Found(found, C, port, network) ==
    \/ /\ found.rule \in C /\ Serves(found.rule, port, network) /\ found.rule # Absent
       /\ found.reason = NoReason
    \/ /\ \A r \in C : ~Serves(r, port, network)
       /\ found.rule = Absent
       /\ found.reason = IF \E r \in C : permits(r.ports, port) THEN "transport-not-allowed"
                         ELSE IF C # {} THEN "port-not-allowed" ELSE NoReason

\* selectRule finds as much, whatever the order of its candidates.
LEMMA SelectFacts ==
    ASSUME NEW R, NEW candidates \in Seq(R), Absent \notin R, NEW port, NEW network
    PROVE  Found(selectRule(candidates, port, network), Range(candidates), port, network)
  <1> DEFINE V == [rule : R \cup {Absent},
                   reason : {NoReason, "port-not-allowed", "transport-not-allowed"}]
             n == Len(candidates)
             start == [rule |-> Absent, reason |-> NoReason]
             turn(i, v) == examine(v, candidates[i], port, network)
             step == [i \in 1 .. n |-> [v \in V |-> turn(i, v)]]
             Body(g) == [i \in 0 .. Len(candidates) |->
                            IF i = 0 THEN [rule |-> Absent, reason |-> NoReason]
                            ELSE examine(g[i - 1], candidates[i], port, network)]
             h == CHOOSE g : g = Body(g)
             ok(i)   == Serves(candidates[i], port, network)
             near(i) == permits(candidates[i].ports, port)
  <1>1. n \in Nat /\ start \in V /\ start.rule = Absent /\ start.reason = NoReason
    OBVIOUS
  <1>2. ASSUME NEW i \in 1 .. n, NEW v \in V
        PROVE  /\ turn(i, v) \in V
               /\ v.rule # Absent => turn(i, v) = v
               /\ v.rule = Absent /\ ok(i) => turn(i, v).rule = candidates[i] /\ turn(i, v).reason = NoReason
               /\ v.rule = Absent /\ ~ok(i) =>
                    /\ turn(i, v).rule = Absent
                    /\ turn(i, v).reason = IF near(i) THEN "transport-not-allowed"
                                           ELSE IF v.reason = NoReason THEN "port-not-allowed" ELSE v.reason
    <2>1. candidates[i] \in R
      OBVIOUS
    <2> QED  BY <2>1 DEF examine, Serves
  <1>3. \A g : Body(g) = [i \in 0 .. n |-> IF i = 0 THEN start ELSE turn(i, g[i - 1])]
    OBVIOUS
  <1>4. selectRule(candidates, port, network) = h[n]
    BY DEF selectRule
  <1>5. \A i \in 1 .. n : candidates[i] \in R
    OBVIOUS
  <1>7. Range(candidates) = {candidates[j] : j \in 1 .. n}
    BY DEF Range
  <1> HIDE DEF n, turn, Body, start
  <1>8. \E f \in [0 .. n -> V] : f[0] = start /\ \A i \in 1 .. n : f[i] = turn(i, f[i - 1])
    <2>1. step \in [1 .. n -> [V -> V]]
      <3> HIDE DEF V, h, ok, near
      <3> QED  BY <1>2
    <2>2. \A i \in 1 .. n : \A v \in V : step[i][v] = turn(i, v)
      <3> HIDE DEF V, h, ok, near
      <3> QED  OBVIOUS
    <2> HIDE DEF step, V, h, ok, near
    <2>3. LoopRuns(n, V, start, step) # {}
      BY <1>1, <2>1, Loop
    <2>4. PICK f \in [0 .. n -> V] : f[0] = start /\ \A i \in 1 .. n : f[i] = step[i][f[i - 1]]
      BY <2>3 DEF LoopRuns
    <2>5. \A i \in 1 .. n : f[i - 1] \in V
      BY <1>1
    <2> QED  BY <2>2, <2>4, <2>5
  <1>9. h = Body(h)
    <2>1. PICK f \in [0 .. n -> V] : f[0] = start /\ \A i \in 1 .. n : f[i] = turn(i, f[i - 1])
      BY <1>8
    <2>2. f = Body(f)
      <3> HIDE DEF V, step, h, ok, near
      <3>1. f = [i \in 0 .. n |-> f[i]]
        OBVIOUS
      <3>2. \A i \in 0 .. n : f[i] = IF i = 0 THEN start ELSE turn(i, f[i - 1])
        BY <1>1, <2>1
      <3>3. f = [i \in 0 .. n |-> IF i = 0 THEN start ELSE turn(i, f[i - 1])]
        BY <3>1, <3>2
      <3> QED  BY <1>3, <3>3
    <2> QED  BY <2>2
  <1> HIDE DEF h, V, ok, near
  <1>10. h[0] = start /\ \A i \in 1 .. n : h[i] = turn(i, h[i - 1])
    BY <1>1, <1>3, <1>9
  <1> DEFINE after(i, v) ==
        \/ v.reason = NoReason /\ \E j \in 1 .. i : ok(j) /\ v.rule = candidates[j]
        \/ /\ \A j \in 1 .. i : ~ok(j)
           /\ v.rule = Absent
           /\ v.reason = IF \E j \in 1 .. i : near(j) THEN "transport-not-allowed"
                         ELSE IF i # 0 THEN "port-not-allowed" ELSE NoReason
             Good == {i \in 0 .. n : h[i] \in V /\ after(i, h[i])}
  <1>11. 0 \in Good
    BY <1>1, <1>10
  <1>12. ASSUME NEW i \in 1 .. n, i - 1 \in Good
         PROVE  i \in Good
    <2> DEFINE v == h[i - 1]
    <2>1. v \in V /\ after(i - 1, v) /\ h[i] = turn(i, v)
      BY <1>10, <1>12
    <2>2. (1 .. i) = (1 .. i - 1) \cup {i} /\ i # 0 /\ i \in 0 .. n
      BY <1>1
    <2> HIDE DEF v
    <2>3. CASE \E j \in 1 .. i - 1 : ok(j) /\ v.rule = candidates[j]
      <3>1. v.rule # Absent
        BY <2>3, <1>1, <1>5
      <3>2. h[i] = v /\ v.reason = NoReason
        BY <3>1, <2>1, <1>2, <2>3
      <3> QED  BY <2>1, <2>2, <2>3, <3>2
    <2>4. CASE /\ \A j \in 1 .. i - 1 : ~ok(j)
               /\ v.rule = Absent
               /\ v.reason = IF \E j \in 1 .. i - 1 : near(j) THEN "transport-not-allowed"
                             ELSE IF i - 1 # 0 THEN "port-not-allowed" ELSE NoReason
      <3>1. CASE ok(i)
        <4>1. h[i].rule = candidates[i] /\ h[i].reason = NoReason /\ h[i] \in V
          BY <1>2, <2>1, <2>4, <3>1
        <4> QED  BY <4>1, <3>1, <2>2
      <3>2. CASE ~ok(i)
        <4>1. /\ h[i].rule = Absent /\ h[i] \in V
              /\ h[i].reason = IF near(i) THEN "transport-not-allowed"
                               ELSE IF v.reason = NoReason THEN "port-not-allowed" ELSE v.reason
          BY <1>2, <2>1, <2>4, <3>2
        <4>2. h[i].reason = IF \E j \in 1 .. i : near(j) THEN "transport-not-allowed"
                            ELSE "port-not-allowed"
          BY <4>1, <2>2, <2>4, ReasonFacts
        <4> QED  BY <4>1, <4>2, <3>2, <2>2, <2>4
      <3> QED  BY <3>1, <3>2
    <2> QED  BY <2>1, <2>3, <2>4
  <1>13. \A i \in 0 .. n : i \in Good
    <2> HIDE DEF Good
    <2>1. \A i \in 1 .. n : i - 1 \in Good => i \in Good
      BY <1>12
    <2> QED  BY <1>1, <1>11, <2>1, UpTo
  <1>14. h[n] \in V /\ after(n, h[n])
    BY <1>1, <1>13
  <1>15. n # 0 <=> Range(candidates) # {}
    BY <1>1, <1>7
  <1>16. CASE h[n].reason = NoReason /\ \E j \in 1 .. n : ok(j) /\ h[n].rule = candidates[j]
    BY <1>4, <1>5, <1>7, <1>16 DEF ok, Found
  <1>17. CASE /\ \A j \in 1 .. n : ~ok(j)
              /\ h[n].rule = Absent
              /\ h[n].reason = IF \E j \in 1 .. n : near(j) THEN "transport-not-allowed"
                               ELSE IF n # 0 THEN "port-not-allowed" ELSE NoReason
    BY <1>4, <1>7, <1>15, <1>17 DEF ok, near, Found
  <1> QED  BY <1>14, <1>16, <1>17

-----------------------------------------------------------------------------
(* loadDescriptor: the tables *)

\* The table of an entry, and what addRule appends to it.
Starred(dr)  == dr.name # Absent /\ dr.name.kind = "star"
Named(dr)    == dr.name # Absent /\ dr.name.kind # "star"
Suffixed(dr) == dr.name = Absent /\ dr.suffix # Absent
Literal(dr)  == dr.name = Absent /\ dr.suffix = Absent

NameEntry(dr)   == [name |-> normalizeName(dr.name), rule |-> LoadedRule(dr)]
SuffixEntry(dr) ==
    [suffix |-> normalizeName(dr.suffix), depth |-> dr.depth, rule |-> LoadedRule(dr)]

\* The tables hold what their entries become, and nothing else.
LEMMA TablesAreExact ==
    ASSUME NEW d, NEW E, d.rules \in Seq(E)
    PROVE  LET p == addRules(d)
               entries == Range(d.rules)
           IN  /\ p.names \in Seq({NameEntry(dr) : dr \in E})
               /\ p.suffixes \in Seq({SuffixEntry(dr) : dr \in E})
               /\ p.wildcard \in Seq({LoadedRule(dr) : dr \in E})
               /\ p.literals \in Seq({LoadedRule(dr) : dr \in E})
               /\ p = [udp |-> d.udp, names |-> p.names, suffixes |-> p.suffixes,
                       wildcard |-> p.wildcard, literals |-> p.literals, exceptions |-> <<>>]
               /\ Range(p.names) = {NameEntry(dr) : dr \in {x \in entries : Named(x)}}
               /\ Range(p.suffixes) = {SuffixEntry(dr) : dr \in {x \in entries : Suffixed(x)}}
               /\ Range(p.wildcard) = {LoadedRule(dr) : dr \in {x \in entries : Starred(x)}}
               /\ Range(p.literals) = {LoadedRule(dr) : dr \in {x \in entries : Literal(x)}}
  <1> DEFINE VN == Seq({NameEntry(dr) : dr \in E})
             VS == Seq({SuffixEntry(dr) : dr \in E})
             VR == Seq({LoadedRule(dr) : dr \in E})
             V == [udp : {d.udp}, names : VN, suffixes : VS, wildcard : VR, literals : VR,
                   exceptions : {<<>>}]
             n == Len(d.rules)
             start == EmptyPolicy(d.udp)
             turn(i, v) == addRule(v, d.rules[i])
             step == [i \in 1 .. n |-> [v \in V |-> turn(i, v)]]
             Body(g) == [i \in 0 .. Len(d.rules) |->
                            IF i = 0 THEN EmptyPolicy(d.udp) ELSE addRule(g[i - 1], d.rules[i])]
             h == CHOOSE g : g = Body(g)
  <1>1. n \in Nat
    OBVIOUS
  <1>2. /\ start \in V
        /\ start.names = <<>> /\ start.suffixes = <<>> /\ start.wildcard = <<>> /\ start.literals = <<>>
    BY DEF EmptyPolicy
  <1>3. ASSUME NEW i \in 1 .. n, NEW v \in V
        PROVE  LET dr == d.rules[i]
                   w  == turn(i, v)
               IN  /\ w \in V
                   /\ w.names = IF Named(dr) THEN Append(v.names, NameEntry(dr)) ELSE v.names
                   /\ w.suffixes = IF Suffixed(dr) THEN Append(v.suffixes, SuffixEntry(dr)) ELSE v.suffixes
                   /\ w.wildcard = IF Starred(dr) THEN Append(v.wildcard, LoadedRule(dr)) ELSE v.wildcard
                   /\ w.literals = IF Literal(dr) THEN Append(v.literals, LoadedRule(dr)) ELSE v.literals
    <2> DEFINE dr == d.rules[i]
    <2>0. dr \in E
      OBVIOUS
    <2>1. /\ NameEntry(dr) \in {NameEntry(x) : x \in E}
          /\ SuffixEntry(dr) \in {SuffixEntry(x) : x \in E}
          /\ LoadedRule(dr) \in {LoadedRule(x) : x \in E}
      BY <2>0
    <2>2. /\ v.names \in VN /\ v.suffixes \in VS /\ v.wildcard \in VR /\ v.literals \in VR
          /\ v = [udp |-> d.udp, names |-> v.names, suffixes |-> v.suffixes, wildcard |-> v.wildcard,
                  literals |-> v.literals, exceptions |-> <<>>]
      OBVIOUS
    <2>3. /\ Append(v.names, NameEntry(dr)) \in VN /\ Append(v.suffixes, SuffixEntry(dr)) \in VS
          /\ Append(v.wildcard, LoadedRule(dr)) \in VR /\ Append(v.literals, LoadedRule(dr)) \in VR
      BY <2>1, <2>2
    <2>4. turn(i, v) = IF Starred(dr) THEN [v EXCEPT !.wildcard = Append(@, LoadedRule(dr))]
                       ELSE IF Named(dr) THEN [v EXCEPT !.names = Append(@, NameEntry(dr))]
                       ELSE IF Suffixed(dr) THEN [v EXCEPT !.suffixes = Append(@, SuffixEntry(dr))]
                       ELSE [v EXCEPT !.literals = Append(@, LoadedRule(dr))]
      BY DEF addRule, Starred, Named, Suffixed, NameEntry, SuffixEntry
    <2>5. /\ Starred(dr) => ~Named(dr) /\ ~Suffixed(dr) /\ ~Literal(dr)
          /\ Named(dr) => ~Suffixed(dr) /\ ~Literal(dr)
          /\ Suffixed(dr) <=> ~Starred(dr) /\ ~Named(dr) /\ ~Literal(dr)
      BY DEF Starred, Named, Suffixed, Literal
    <2> HIDE DEF dr, turn, VN, VS, VR
    <2>6. CASE Starred(dr)
      BY <2>2, <2>3, <2>4, <2>5, <2>6 DEF dr
    <2>7. CASE Named(dr)
      BY <2>2, <2>3, <2>4, <2>5, <2>7 DEF dr
    <2>8. CASE Suffixed(dr)
      BY <2>2, <2>3, <2>4, <2>5, <2>8 DEF dr
    <2>9. CASE Literal(dr)
      BY <2>2, <2>3, <2>4, <2>5, <2>9 DEF dr
    <2> QED  BY <2>5, <2>6, <2>7, <2>8, <2>9 DEF dr
  <1>4. \A g : Body(g) = [i \in 0 .. n |-> IF i = 0 THEN start ELSE turn(i, g[i - 1])]
    OBVIOUS
  <1>5. addRules(d) = h[n]
    BY DEF addRules
  <1>6. Range(d.rules) = {d.rules[j] : j \in 1 .. n}
    BY DEF Range
  <1>7. Range(<<>>) = {}
    BY DEF Range
  <1> HIDE DEF n, turn, Body, start
  <1>8. \E f \in [0 .. n -> V] : f[0] = start /\ \A i \in 1 .. n : f[i] = turn(i, f[i - 1])
    <2>0. \A i \in 1 .. n : \A v \in V : turn(i, v) \in V
      BY <1>3
    <2>1. step \in [1 .. n -> [V -> V]]
      <3> HIDE DEF V, h
      <3> QED  BY <2>0
    <2>2. \A i \in 1 .. n : \A v \in V : step[i][v] = turn(i, v)
      <3> HIDE DEF V, h
      <3> QED  OBVIOUS
    <2> HIDE DEF step, V, h
    <2>3. LoopRuns(n, V, start, step) # {}
      BY <1>1, <1>2, <2>1, Loop
    <2>4. PICK f \in [0 .. n -> V] : f[0] = start /\ \A i \in 1 .. n : f[i] = step[i][f[i - 1]]
      BY <2>3 DEF LoopRuns
    <2>5. \A i \in 1 .. n : f[i - 1] \in V
      BY <1>1
    <2> QED  BY <2>2, <2>4, <2>5
  <1>9. h = Body(h)
    <2>1. PICK f \in [0 .. n -> V] : f[0] = start /\ \A i \in 1 .. n : f[i] = turn(i, f[i - 1])
      BY <1>8
    <2>2. f = Body(f)
      <3> HIDE DEF V, step, h
      <3>1. f = [i \in 0 .. n |-> f[i]]
        OBVIOUS
      <3>2. \A i \in 0 .. n : f[i] = IF i = 0 THEN start ELSE turn(i, f[i - 1])
        BY <1>1, <2>1
      <3>3. f = [i \in 0 .. n |-> IF i = 0 THEN start ELSE turn(i, f[i - 1])]
        BY <3>1, <3>2
      <3> QED  BY <1>4, <3>3
    <2> QED  BY <2>2
  <1> HIDE DEF h, V, step
  <1>10. h[0] = start /\ \A i \in 1 .. n : h[i] = turn(i, h[i - 1])
    BY <1>1, <1>4, <1>9
  <1> DEFINE N(i) == {NameEntry(dr) : dr \in {x \in {d.rules[j] : j \in 1 .. i} : Named(x)}}
             S(i) == {SuffixEntry(dr) : dr \in {x \in {d.rules[j] : j \in 1 .. i} : Suffixed(x)}}
             W(i) == {LoadedRule(dr) : dr \in {x \in {d.rules[j] : j \in 1 .. i} : Starred(x)}}
             L(i) == {LoadedRule(dr) : dr \in {x \in {d.rules[j] : j \in 1 .. i} : Literal(x)}}
             Good == {i \in 0 .. n : /\ h[i] \in V
                                     /\ Range(h[i].names) = N(i) /\ Range(h[i].suffixes) = S(i)
                                     /\ Range(h[i].wildcard) = W(i) /\ Range(h[i].literals) = L(i)}
  <1>11. 0 \in Good
    <2>1. {d.rules[j] : j \in 1 .. 0} = {}
      OBVIOUS
    <2>2. N(0) = {} /\ S(0) = {} /\ W(0) = {} /\ L(0) = {}
      BY <2>1
    <2> HIDE DEF N, S, W, L, VN, VS, VR
    <2>3. h[0] = start /\ 0 \in 0 .. n
      BY <1>1, <1>10
    <2> QED  BY <1>2, <1>7, <2>2, <2>3
  <1>12. ASSUME NEW i \in 1 .. n, i - 1 \in Good
         PROVE  i \in Good
    <2> DEFINE dr == d.rules[i]
               v == h[i - 1]
               O == {d.rules[j] : j \in 1 .. i - 1}
    <2>1. /\ N(i) = N(i - 1) \cup IF Named(dr) THEN {NameEntry(dr)} ELSE {}
          /\ S(i) = S(i - 1) \cup IF Suffixed(dr) THEN {SuffixEntry(dr)} ELSE {}
          /\ W(i) = W(i - 1) \cup IF Starred(dr) THEN {LoadedRule(dr)} ELSE {}
          /\ L(i) = L(i - 1) \cup IF Literal(dr) THEN {LoadedRule(dr)} ELSE {}
      <3>1. {d.rules[j] : j \in 1 .. i} = O \cup {dr}
        BY <1>1
      <3> HIDE DEF O, dr
      <3>2. N(i) = N(i - 1) \cup IF Named(dr) THEN {NameEntry(dr)} ELSE {}
        BY <3>1 DEF O
      <3>3. S(i) = S(i - 1) \cup IF Suffixed(dr) THEN {SuffixEntry(dr)} ELSE {}
        BY <3>1 DEF O
      <3>4. W(i) = W(i - 1) \cup IF Starred(dr) THEN {LoadedRule(dr)} ELSE {}
        BY <3>1 DEF O
      <3>5. L(i) = L(i - 1) \cup IF Literal(dr) THEN {LoadedRule(dr)} ELSE {}
        BY <3>1 DEF O
      <3> QED  BY <3>2, <3>3, <3>4, <3>5
    <2> HIDE DEF N, S, W, L
    <2>2. /\ v \in V /\ h[i] = turn(i, v)
          /\ Range(v.names) = N(i - 1) /\ Range(v.suffixes) = S(i - 1)
          /\ Range(v.wildcard) = W(i - 1) /\ Range(v.literals) = L(i - 1)
      BY <1>10, <1>12
    <2>3. v.names \in VN /\ v.suffixes \in VS /\ v.wildcard \in VR /\ v.literals \in VR
      BY <2>2 DEF V
    <2> HIDE DEF v
    <2>4. /\ \A e : Range(Append(v.names, e)) = Range(v.names) \cup {e}
          /\ \A e : Range(Append(v.suffixes, e)) = Range(v.suffixes) \cup {e}
          /\ \A e : Range(Append(v.wildcard, e)) = Range(v.wildcard) \cup {e}
          /\ \A e : Range(Append(v.literals, e)) = Range(v.literals) \cup {e}
      BY <2>3, RangeOfAppend
    <2>5. /\ h[i] \in V
          /\ h[i].names = IF Named(dr) THEN Append(v.names, NameEntry(dr)) ELSE v.names
          /\ h[i].suffixes = IF Suffixed(dr) THEN Append(v.suffixes, SuffixEntry(dr)) ELSE v.suffixes
          /\ h[i].wildcard = IF Starred(dr) THEN Append(v.wildcard, LoadedRule(dr)) ELSE v.wildcard
          /\ h[i].literals = IF Literal(dr) THEN Append(v.literals, LoadedRule(dr)) ELSE v.literals
      BY <1>3, <2>2
    <2> HIDE DEF dr, VN, VS, VR
    <2>6. Range(h[i].names) = N(i) /\ Range(h[i].suffixes) = S(i)
      BY <2>1, <2>2, <2>4, <2>5
    <2>7. Range(h[i].wildcard) = W(i) /\ Range(h[i].literals) = L(i)
      BY <2>1, <2>2, <2>4, <2>5
    <2> QED  BY <1>1, <2>5, <2>6, <2>7
  <1>13. \A i \in 0 .. n : i \in Good
    <2> HIDE DEF Good
    <2>1. \A i \in 1 .. n : i - 1 \in Good => i \in Good
      BY <1>12
    <2> QED  BY <1>1, <1>11, <2>1, UpTo
  <1>14. /\ h[n] \in V
         /\ Range(h[n].names) = N(n) /\ Range(h[n].suffixes) = S(n)
         /\ Range(h[n].wildcard) = W(n) /\ Range(h[n].literals) = L(n)
    <2> HIDE DEF N, S, W, L
    <2> QED  BY <1>1, <1>13
  <1>15. /\ h[n].names \in VN /\ h[n].suffixes \in VS /\ h[n].wildcard \in VR /\ h[n].literals \in VR
         /\ h[n] = [udp |-> d.udp, names |-> h[n].names, suffixes |-> h[n].suffixes,
                    wildcard |-> h[n].wildcard, literals |-> h[n].literals, exceptions |-> <<>>]
    <2> HIDE DEF VN, VS, VR
    <2> QED  BY <1>14 DEF V
  <1> QED  BY <1>5, <1>6, <1>14, <1>15

-----------------------------------------------------------------------------
(* authorize: the candidates *)

\* A descriptor that is loaded, and its policy.
LoadsAs(d, p) ==
    /\ d.rules \in Seq(Range(d.rules)) /\ d.resolved \in Seq(Range(d.resolved))
    /\ \A dr \in Range(d.rules) : IsEntry(dr)
    /\ p = loadDescriptor(d) /\ p # Absent

\* The entries of a loaded descriptor are valid, and its policy has their tables.
LEMMA LoadFacts ==
    ASSUME NEW d, NEW p, LoadsAs(d, p)
    PROVE  /\ \A dr \in Range(d.rules) : RuleValid(dr) /\ IsEntry(dr)
           /\ \A e \in Range(d.resolved) : ExceptionValid(e)
           /\ p.udp = d.udp
           /\ p.names \in Seq({NameEntry(dr) : dr \in Range(d.rules)})
           /\ p.suffixes \in Seq({SuffixEntry(dr) : dr \in Range(d.rules)})
           /\ p.wildcard \in Seq({LoadedRule(dr) : dr \in Range(d.rules)})
           /\ p.literals \in Seq({LoadedRule(dr) : dr \in Range(d.rules)})
           /\ Range(p.names) = {NameEntry(dr) : dr \in {x \in Range(d.rules) : Named(x)}}
           /\ Range(p.suffixes) = {SuffixEntry(dr) : dr \in {x \in Range(d.rules) : Suffixed(x)}}
           /\ Range(p.wildcard) = {LoadedRule(dr) : dr \in {x \in Range(d.rules) : Starred(x)}}
           /\ Range(p.literals) = {LoadedRule(dr) : dr \in {x \in Range(d.rules) : Literal(x)}}
           /\ p.exceptions = [i \in DOMAIN d.resolved |->
                                 [prefix |-> d.resolved[i].cidr, ports |-> d.resolved[i].ports]]
  <1> DEFINE q == addRules(d)
             exceptions == [i \in DOMAIN d.resolved |->
                                 [prefix |-> d.resolved[i].cidr, ports |-> d.resolved[i].ports]]
  <1>1. /\ \A i \in DOMAIN d.rules : RuleValid(d.rules[i])
        /\ \A i \in DOMAIN d.resolved : ExceptionValid(d.resolved[i])
        /\ p = [q EXCEPT !.exceptions = exceptions]
    BY DEF LoadsAs, loadDescriptor
  <1>2. d.rules \in Seq(Range(d.rules)) /\ \A dr \in Range(d.rules) : IsEntry(dr)
    BY DEF LoadsAs
  <1>3. /\ \A dr \in Range(d.rules) : RuleValid(dr) /\ IsEntry(dr)
        /\ \A e \in Range(d.resolved) : ExceptionValid(e)
    BY <1>1, <1>2 DEF Range
  <1> HIDE DEF exceptions, q
  <1>4. q = [udp |-> d.udp, names |-> q.names, suffixes |-> q.suffixes,
             wildcard |-> q.wildcard, literals |-> q.literals, exceptions |-> <<>>]
    BY <1>2, TablesAreExact DEF q
  <1>5. /\ p.udp = d.udp /\ p.names = q.names /\ p.suffixes = q.suffixes /\ p.wildcard = q.wildcard
        /\ p.literals = q.literals /\ p.exceptions = exceptions
    BY <1>1, <1>4
  <1> QED  BY <1>2, <1>3, <1>5, TablesAreExact DEF q, exceptions

\* A valid entry has one of name, suffix, ip and cidr.
LEMMA OneMatcher ==
    ASSUME NEW dr, RuleValid(dr)
    PROVE  /\ dr.name # Absent => dr.suffix = Absent /\ dr.ip = Absent /\ dr.cidr = Absent
           /\ dr.suffix # Absent => dr.name = Absent /\ dr.ip = Absent /\ dr.cidr = Absent
           /\ dr.ip # Absent => dr.name = Absent /\ dr.suffix = Absent /\ dr.cidr = Absent
           /\ dr.cidr # Absent => dr.name = Absent /\ dr.suffix = Absent /\ dr.ip = Absent
  <1>1. PICK k \in {"name", "suffix", "ip", "cidr"} :
            \A l \in {"name", "suffix", "ip", "cidr"} : (dr[l] # Absent) <=> (l = k)
    BY DEF RuleValid
  <1>2. /\ (dr.name # Absent) <=> ("name" = k)
        /\ (dr.suffix # Absent) <=> ("suffix" = k)
        /\ (dr.ip # Absent) <=> ("ip" = k)
        /\ (dr.cidr # Absent) <=> ("cidr" = k)
    BY <1>1
  <1> QED  BY <1>2

\* The rule that an entry becomes.
LEMMA RuleFacts ==
    ASSUME NEW dr
    PROVE  /\ LoadedRule(dr).id = dr.id /\ LoadedRule(dr).ports = dr.ports
           /\ LoadedRule(dr).transports = Transports(dr.transports)
           /\ LoadedRule(dr).resolve = IF dr.resolve = Absent THEN Absent
                                       ELSE [i \in DOMAIN dr.resolve |-> dr.resolve[i].addr]
           /\ LoadedRule(dr).prefix = IF dr.ip # Absent THEN {dr.ip.addr}
                                      ELSE IF dr.cidr # Absent THEN dr.cidr ELSE {}
  BY DEF LoadedRule

\* Ports and transports of a loaded rule are those of its entry.
LEMMA ServesFacts ==
    ASSUME NEW dr, RuleValid(dr), NEW port \in Int, NEW network
    PROVE  /\ permits(LoadedRule(dr).ports, port) <=> CoversPort(dr, port)
           /\ permits(dr.ports, port) <=> CoversPort(dr, port)
           /\ Serves(LoadedRule(dr), port, network) <=>
                CoversPort(dr, port) /\ CoversTransport(dr, network)
  <1>1. permits(dr.ports, port) <=> CoversPort(dr, port)
    <2>1. dr.ports = Absent \/ \A x \in dr.ports : x[1] \in Int /\ x[2] \in Int
      BY PolicyAssumption DEF RuleValid, PortsValid, ParsesAsPort
    <2> QED  BY <2>1 DEF permits, CoversPort
  <1>2. network \in Transports(dr.transports) <=> CoversTransport(dr, network)
    BY DEF Transports, CoversTransport
  <1> QED  BY <1>1, <1>2, RuleFacts DEF Serves

\* The literal rules that contain an address are the entries that list it.
LEMMA PrefixFacts ==
    ASSUME NEW dr, RuleValid(dr), NEW a
    PROVE  Literal(dr) /\ a \in LoadedRule(dr).prefix <=> ListsAddress(dr, a)
  BY OneMatcher, RuleFacts DEF Literal, ListsAddress

\* The candidates for a literal address are the rules of the entries that list it.
LEMMA LiteralCandidatesFacts ==
    ASSUME NEW d, NEW p, LoadsAs(d, p), NEW a
    PROVE  /\ LiteralCandidates(p, a) \in Seq({LoadedRule(dr) : dr \in Range(d.rules)})
           /\ Range(LiteralCandidates(p, a)) =
                {LoadedRule(dr) : dr \in {x \in Range(d.rules) : ListsAddress(x, a)}}
  <1> DEFINE L == Range(p.literals)
             E == Range(d.rules)
  <1>1. /\ p.literals \in Seq({LoadedRule(dr) : dr \in E})
        /\ L = {LoadedRule(dr) : dr \in {x \in E : Literal(x)}}
        /\ \A dr \in E : RuleValid(dr)
    BY LoadFacts
  <1>2. /\ LiteralCandidates(p, a) \in Seq({LoadedRule(dr) : dr \in E})
        /\ Range(LiteralCandidates(p, a)) = L \cap {r \in L : a \in r.prefix}
    BY <1>1, KeepFacts DEF LiteralCandidates
  <1>3. \A dr \in E : Literal(dr) /\ a \in LoadedRule(dr).prefix <=> ListsAddress(dr, a)
    BY <1>1, PrefixFacts
  <1> HIDE DEF L, E
  <1>4. {r \in L : a \in r.prefix} = {LoadedRule(dr) : dr \in {x \in E : ListsAddress(x, a)}}
    BY <1>1, <1>3
  <1> QED  BY <1>2, <1>4 DEF E

\* literalRule and excepted, which resolved addresses are held against.
LEMMA ListedFacts ==
    ASSUME NEW d, NEW p, LoadsAs(d, p), NEW a, NEW port \in Int
    PROVE  /\ literalRule(p, a, port) <=>
                \E l \in Range(d.rules) : ListsAddress(l, a) /\ CoversPort(l, port)
           /\ excepted(p, a, port) <=>
                \E e \in Range(d.resolved) : a \in e.cidr /\ CoversPort(e, port)
  <1> DEFINE E == Range(d.rules)
             L == Range(p.literals)
  <1>1. /\ L = {LoadedRule(dr) : dr \in {x \in E : Literal(x)}}
        /\ \A dr \in E : RuleValid(dr)
        /\ \A e \in Range(d.resolved) : ExceptionValid(e)
        /\ p.exceptions = [i \in DOMAIN d.resolved |->
                              [prefix |-> d.resolved[i].cidr, ports |-> d.resolved[i].ports]]
    BY LoadFacts
  <1>2. literalRule(p, a, port) <=> \E r \in L : a \in r.prefix /\ permits(r.ports, port)
    BY DEF literalRule, Range
  <1>3. \A dr \in E : /\ Literal(dr) /\ a \in LoadedRule(dr).prefix <=> ListsAddress(dr, a)
                      /\ permits(LoadedRule(dr).ports, port) <=> CoversPort(dr, port)
    BY <1>1, PrefixFacts, ServesFacts
  <1>4. excepted(p, a, port) <=>
            \E i \in DOMAIN d.resolved : a \in d.resolved[i].cidr /\ permits(d.resolved[i].ports, port)
    BY <1>1 DEF excepted
  <1>5. excepted(p, a, port) <=>
            \E e \in Range(d.resolved) : a \in e.cidr /\ permits(e.ports, port)
    BY <1>4 DEF Range
  <1>6. \A e \in Range(d.resolved) : permits(e.ports, port) <=> CoversPort(e, port)
    <2> SUFFICES ASSUME NEW e \in Range(d.resolved)
                 PROVE  permits(e.ports, port) <=> CoversPort(e, port)
      OBVIOUS
    <2>1. e.ports = Absent \/ \A x \in e.ports : x[1] \in Int /\ x[2] \in Int
      BY <1>1, PolicyAssumption DEF ExceptionValid, PortsValid, ParsesAsPort
    <2> QED  BY <2>1 DEF permits, CoversPort
  <1> HIDE DEF E, L
  <1>7. literalRule(p, a, port) <=> \E l \in E : ListsAddress(l, a) /\ CoversPort(l, port)
    BY <1>1, <1>2, <1>3
  <1> QED  BY <1>5, <1>6, <1>7 DEF E

\* SubSeq up to the end, elementwise.
LEMMA TailFacts ==
    ASSUME NEW T, NEW s \in Seq(T), NEW t \in Seq(T), NEW k \in 0 .. Len(t)
    PROVE  SubSeq(t, k + 1, Len(t)) = s <=>
             Len(s) = Len(t) - k /\ \A j \in 1 .. Len(s) : s[j] = t[k + j]
  <1> DEFINE u == SubSeq(t, k + 1, Len(t))
  <1>1. u \in Seq(T) /\ Len(u) = Len(t) - k /\ \A j \in 1 .. Len(t) - k : u[j] = t[k + j]
    OBVIOUS
  <1> HIDE DEF u
  <1>2. ASSUME Len(u) = Len(s), \A j \in 1 .. Len(s) : u[j] = s[j]
        PROVE  u = s
    BY <1>1, <1>2
  <1> QED  BY <1>1, <1>2 DEF u

\* A strict suffix is what is left of a longer list.
LEMMA SuffixFacts ==
    ASSUME NEW T, NEW s \in Seq(T), NEW t \in Seq(T)
    PROVE  IsStrictSuffix(s, t) <=>
             /\ Len(s) < Len(t)
             /\ \A j \in 1 .. Len(s) : s[j] = t[Len(t) - Len(s) + j]
  <1> DEFINE n == Len(s)
             m == Len(t)
             u == SubSeq(Reverse(s), 1, Len(Reverse(s)))
             v == SubSeq(Reverse(t), 1, Len(Reverse(s)))
  <1>1. n \in Nat /\ m \in Nat
    OBVIOUS
  <1>2. /\ Reverse(s) \in Seq(T) /\ Len(Reverse(s)) = n
        /\ \A i \in 1 .. n : Reverse(s)[i] = s[n - i + 1]
        /\ Reverse(t) \in Seq(T) /\ Len(Reverse(t)) = m
        /\ \A i \in 1 .. m : Reverse(t)[i] = t[m - i + 1]
    BY DEF Reverse
  <1>3. IsStrictSuffix(s, t) <=> n <= m /\ u = v /\ s # t
    BY <1>2 DEF IsStrictSuffix, IsSuffix, IsPrefix
  <1>4. ASSUME n <= m
        PROVE  u = v <=> \A i \in 1 .. n : s[n - i + 1] = t[m - i + 1]
    <2>1. /\ u \in Seq(T) /\ Len(u) = n /\ \A i \in 1 .. n : u[i] = s[n - i + 1]
      BY <1>1, <1>2
    <2>2. /\ v \in Seq(T) /\ Len(v) = n /\ \A i \in 1 .. n : v[i] = t[m - i + 1]
      BY <1>1, <1>2, <1>4
    <2> HIDE DEF u, v, n, m
    <2>3. u = v <=> \A i \in 1 .. n : u[i] = v[i]
      BY <2>1, <2>2
    <2> QED  BY <2>1, <2>2, <2>3
  <1> HIDE DEF u, v, n, m
  <1>5. ASSUME n <= m
        PROVE  (\A i \in 1 .. n : s[n - i + 1] = t[m - i + 1]) <=> \A j \in 1 .. n : s[j] = t[m - n + j]
    <2>1. ASSUME \A i \in 1 .. n : s[n - i + 1] = t[m - i + 1], NEW j \in 1 .. n
          PROVE  s[j] = t[m - n + j]
      <3> DEFINE i == n - j + 1
      <3>1. i \in 1 .. n /\ n - i + 1 = j /\ m - i + 1 = m - n + j
        BY <1>1
      <3> HIDE DEF i
      <3> QED  BY <2>1, <3>1
    <2>2. ASSUME \A j \in 1 .. n : s[j] = t[m - n + j], NEW i \in 1 .. n
          PROVE  s[n - i + 1] = t[m - i + 1]
      <3> DEFINE j == n - i + 1
      <3>1. j \in 1 .. n /\ m - i + 1 = m - n + j
        BY <1>1
      <3> HIDE DEF j
      <3>2. s[j] = t[m - i + 1]
        BY <2>2, <3>1
      <3> QED  BY <3>2 DEF j
    <2> QED  BY <2>1, <2>2
  <1>6. ASSUME n = m
        PROVE  (\A j \in 1 .. n : s[j] = t[m - n + j]) => s = t
    <2>1. \A j \in 1 .. n : m - n + j = j
      BY <1>1, <1>6
    <2> SUFFICES ASSUME \A j \in 1 .. n : s[j] = t[m - n + j] PROVE s = t
      OBVIOUS
    <2>2. \A j \in 1 .. n : s[j] = t[j]
      BY <2>1
    <2> QED  BY <1>6, <2>2 DEF n, m
  <1>7. n < m => s # t
    BY <1>1 DEF n, m
  <1>8. IsStrictSuffix(s, t) <=> n < m /\ \A j \in 1 .. n : s[j] = t[m - n + j]
    <2>1. CASE n < m
      BY <1>1, <1>3, <1>4, <1>5, <1>7, <2>1
    <2>2. CASE n = m
      BY <1>1, <1>3, <1>4, <1>5, <1>6, <2>2
    <2>3. CASE n > m
      BY <1>1, <1>3, <2>3
    <2> QED  BY <1>1, <2>1, <2>2, <2>3
  <1> QED  BY <1>8 DEF n, m

\* A suffix entry applies to the names that are longer by 1 up to depth labels.
LEMMA SuffixAppliesFacts ==
    ASSUME NEW dr, RuleValid(dr), IsEntry(dr), Suffixed(dr),
           NEW name, name \in Seq(Range(name))
    PROVE  SuffixApplies(SuffixEntry(dr), name) <=>
             \E k \in 1 .. Len(name) - 1 :
                /\ SubSeq(name, k + 1, Len(name)) = dr.suffix.labels
                /\ dr.depth = 0 \/ k <= dr.depth
  <1> DEFINE s == dr.suffix.labels
             n == Len(s)
             m == Len(name)
             e == SuffixEntry(dr)
  <1>1. dr.suffix # Absent /\ normalizeName(dr.suffix) # Absent /\ IsText(dr.suffix)
    BY DEF RuleValid, IsEntry, Suffixed
  <1>2. /\ dr.suffix.kind = "name" /\ normalizeName(dr.suffix) = s
        /\ s \in Seq(Range(s)) /\ s # <<>>
    BY <1>1 DEF normalizeName, IsText
  <1>3. e.suffix = s /\ e.depth = dr.depth
    BY <1>2 DEF SuffixEntry
  <1>4. dr.depth \in Nat
    BY PolicyAssumption DEF RuleValid
  <1>5. n \in Nat /\ n # 0 /\ m \in Nat
    BY <1>2
  <1>6. SuffixApplies(e, name) <=> IsStrictSuffix(s, name) /\ (dr.depth > 0 => m - n <= dr.depth)
    BY <1>3 DEF SuffixApplies
  <1> HIDE DEF e, s
  <1> DEFINE T == Range(s) \cup Range(name)
  <1>0. s \in Seq(T) /\ name \in Seq(T)
    BY <1>2
  <1> HIDE DEF T
  <1>7. IsStrictSuffix(s, name) <=> n < m /\ \A j \in 1 .. n : s[j] = name[m - n + j]
    BY <1>0, SuffixFacts
  <1>8. \A k \in 0 .. m : SubSeq(name, k + 1, m) = s <=>
                          n = m - k /\ \A j \in 1 .. n : s[j] = name[k + j]
    BY <1>0, TailFacts
  <1> HIDE DEF n, m
  <1>9. ASSUME SuffixApplies(e, name)
        PROVE  \E k \in 1 .. m - 1 : SubSeq(name, k + 1, m) = s /\ (dr.depth = 0 \/ k <= dr.depth)
    <2> DEFINE k == m - n
    <2>1. n < m /\ \A j \in 1 .. n : s[j] = name[m - n + j]
      BY <1>6, <1>7, <1>9
    <2>2. k \in 1 .. m - 1 /\ k \in 0 .. m /\ n = m - k /\ (dr.depth = 0 \/ k <= dr.depth)
      BY <1>4, <1>5, <1>6, <1>9, <2>1
    <2>3. SubSeq(name, k + 1, m) = s
      <3>1. \A j \in 1 .. n : s[j] = name[k + j]
        BY <2>1
      <3> HIDE DEF k
      <3> QED  BY <1>8, <2>2, <3>1
    <2> HIDE DEF k
    <2> QED  BY <2>2, <2>3
  <1>10. ASSUME NEW k \in 1 .. m - 1, SubSeq(name, k + 1, m) = s, dr.depth = 0 \/ k <= dr.depth
         PROVE  SuffixApplies(e, name)
    <2>1. k \in 0 .. m
      BY <1>5
    <2>2. n = m - k /\ \A j \in 1 .. n : s[j] = name[k + j]
      BY <1>8, <1>10, <2>1
    <2>3. k = m - n /\ n < m /\ (dr.depth > 0 => m - n <= dr.depth)
      BY <1>4, <1>5, <1>10, <2>2
    <2> QED  BY <1>6, <1>7, <2>2, <2>3
  <1> QED  BY <1>9, <1>10 DEF e, s, m

\* The elements of two lists, one after the other.
LEMMA RangeOfConcat ==
    ASSUME NEW T, NEW s \in Seq(T), NEW t \in Seq(T)
    PROVE  s \o t \in Seq(T) /\ Range(s \o t) = Range(s) \cup Range(t)
  <1> DEFINE n == Len(s)
             m == Len(t)
             u == s \o t
  <1>1. /\ n \in Nat /\ m \in Nat /\ DOMAIN s = 1 .. n /\ DOMAIN t = 1 .. m
        /\ u \in Seq(T) /\ DOMAIN u = 1 .. n + m
        /\ \A i \in 1 .. n : u[i] = s[i]
        /\ \A i \in n + 1 .. n + m : u[i] = t[i - n]
    OBVIOUS
  <1> HIDE DEF u, n, m
  <1>2. \A i \in 1 .. n + m : u[i] \in Range(s) \cup Range(t)
    <2> SUFFICES ASSUME NEW i \in 1 .. n + m PROVE u[i] \in Range(s) \cup Range(t)
      OBVIOUS
    <2>1. CASE i \in 1 .. n
      BY <1>1, <2>1 DEF Range
    <2>2. CASE i \in n + 1 .. n + m
      <3>1. i - n \in 1 .. m /\ u[i] = t[i - n]
        BY <1>1, <2>2
      <3> QED  BY <1>1, <3>1 DEF Range
    <2> QED  BY <1>1, <2>1, <2>2
  <1>3. \A i \in 1 .. n : s[i] \in Range(u)
    <2> SUFFICES ASSUME NEW i \in 1 .. n PROVE s[i] \in Range(u)
      OBVIOUS
    <2>1. i \in 1 .. n + m /\ u[i] = s[i]
      BY <1>1
    <2> QED  BY <1>1, <2>1 DEF Range
  <1>4. \A i \in 1 .. m : t[i] \in Range(u)
    <2> SUFFICES ASSUME NEW i \in 1 .. m PROVE t[i] \in Range(u)
      OBVIOUS
    <2>1. i + n \in n + 1 .. n + m /\ i + n \in 1 .. n + m /\ (i + n) - n = i
      BY <1>1
    <2>2. u[i + n] = t[i]
      BY <1>1, <2>1
    <2> QED  BY <1>1, <2>1, <2>2 DEF Range
  <1> QED  BY <1>1, <1>2, <1>3, <1>4 DEF Range, u

\* The rules of a table's entries.
LEMMA RulesFacts ==
    ASSUME NEW T, NEW s \in Seq(T)
    PROVE  Rules(s) \in Seq({e.rule : e \in T}) /\ Range(Rules(s)) = {e.rule : e \in Range(s)}
  <1>1. /\ DOMAIN s = 1 .. Len(s) /\ Len(s) \in Nat /\ \A i \in 1 .. Len(s) : s[i] \in T
        /\ Rules(s) = [i \in 1 .. Len(s) |-> s[i].rule]
    BY DEF Rules
  <1>2. Range(Rules(s)) = {s[i].rule : i \in 1 .. Len(s)} /\ Range(s) = {s[i] : i \in 1 .. Len(s)}
    BY <1>1 DEF Range
  <1> QED  BY <1>1, <1>2

\* How a valid entry matches a name.
LEMMA MatchFacts ==
    ASSUME NEW dr, RuleValid(dr), IsEntry(dr),
           NEW host, host.kind = "name",
           host.labels \in Seq(Range(host.labels))
    PROVE  MatchesHost(dr, host) <=>
             \/ Starred(dr)
             \/ Named(dr) /\ normalizeName(dr.name) = host.labels
             \/ Suffixed(dr) /\ SuffixApplies(SuffixEntry(dr), host.labels)
  <1> DEFINE S == \E k \in 1 .. Len(host.labels) - 1 :
                    /\ SubSeq(host.labels, k + 1, Len(host.labels)) = dr.suffix.labels
                    /\ dr.depth = 0 \/ k <= dr.depth
             A == SuffixApplies(SuffixEntry(dr), host.labels)
  <1>1. Suffixed(dr) => (A <=> S)
    BY SuffixAppliesFacts
  <1>2. MatchesHost(dr, host) <=>
             \/ dr.name # Absent /\ (dr.name.kind = "star" \/ dr.name.labels = host.labels)
             \/ dr.suffix # Absent /\ S
    BY DEF MatchesHost
  <1> HIDE DEF S, A
  <1>3. Suffixed(dr) <=> dr.suffix # Absent
    BY OneMatcher DEF Suffixed
  <1>4. Named(dr) => normalizeName(dr.name) = dr.name.labels
    BY DEF Named, RuleValid, normalizeName
  <1> QED  BY <1>1, <1>2, <1>3, <1>4 DEF Starred, Named, A

\* The candidates for a name are the rules of the entries that match it.
LEMMA NameCandidatesFacts ==
    ASSUME NEW d, NEW p, LoadsAs(d, p), NEW host, host.kind = "name",
           host.labels \in Seq(Range(host.labels))
    PROVE  /\ NameCandidates(p, host.labels) \in Seq({LoadedRule(dr) : dr \in Range(d.rules)})
           /\ Range(NameCandidates(p, host.labels)) =
                {LoadedRule(dr) : dr \in {x \in Range(d.rules) : MatchesHost(x, host)}}
  <1> DEFINE name == host.labels
             E  == Range(d.rules)
             R  == {LoadedRule(dr) : dr \in E}
             N  == {NameEntry(dr) : dr \in {x \in E : Named(x)}}
             S  == {SuffixEntry(dr) : dr \in {x \in E : Suffixed(x)}}
             W  == {LoadedRule(dr) : dr \in {x \in E : Starred(x)}}
             TN == {NameEntry(dr) : dr \in E}
             TS == {SuffixEntry(dr) : dr \in E}
             exact    == {e \in Range(p.names) : e.name = name}
             applying == {s \in Range(p.suffixes) : SuffixApplies(s, name)}
             kn == Rules(Keep(p.names, exact))
             ks == Rules(Keep(p.suffixes, applying))
  <1>1. /\ p.names \in Seq(TN) /\ p.suffixes \in Seq(TS)
        /\ p.wildcard \in Seq(R)
        /\ Range(p.names) = N /\ Range(p.suffixes) = S /\ Range(p.wildcard) = W
        /\ \A dr \in E : RuleValid(dr) /\ IsEntry(dr)
    BY LoadFacts
  <1>2. NameCandidates(p, name) = (kn \o ks) \o p.wildcard
    BY DEF NameCandidates
  <1>3. \A dr \in E : NameEntry(dr).rule = LoadedRule(dr) /\ NameEntry(dr).name = normalizeName(dr.name)
    BY DEF NameEntry
  <1>4. \A dr \in E : SuffixEntry(dr).rule = LoadedRule(dr)
    BY DEF SuffixEntry
  <1>5. \A dr \in E : MatchesHost(dr, host) <=>
             \/ Starred(dr)
             \/ Named(dr) /\ normalizeName(dr.name) = name
             \/ Suffixed(dr) /\ SuffixApplies(SuffixEntry(dr), name)
    BY <1>1, MatchFacts
  <1>6. exact = {NameEntry(dr) : dr \in {x \in E : Named(x) /\ normalizeName(x.name) = name}}
    BY <1>1, <1>3
  <1>7. applying = {SuffixEntry(dr) : dr \in {x \in E : Suffixed(x) /\ SuffixApplies(SuffixEntry(x), name)}}
    BY <1>1
  <1>8. kn \in Seq(R) /\ Range(kn) = {e.rule : e \in exact}
    <2>1. /\ Keep(p.names, exact) \in Seq(TN)
          /\ Range(Keep(p.names, exact)) = Range(p.names) \cap exact
      <3> HIDE DEF TN, TS, N, S, W, R, exact, applying, E
      <3> QED  BY <1>1, KeepFacts
    <2>2. Range(p.names) \cap exact = exact
      OBVIOUS
    <2>3. {e.rule : e \in TN} = R
      BY <1>3
    <2> HIDE DEF exact, E, R, TN
    <2> QED  BY <2>1, <2>2, <2>3, RulesFacts
  <1>9. ks \in Seq(R) /\ Range(ks) = {e.rule : e \in applying}
    <2>1. /\ Keep(p.suffixes, applying) \in Seq(TS)
          /\ Range(Keep(p.suffixes, applying)) = Range(p.suffixes) \cap applying
      <3> HIDE DEF TN, TS, N, S, W, R, exact, applying, E
      <3> QED  BY <1>1, KeepFacts
    <2>2. Range(p.suffixes) \cap applying = applying
      OBVIOUS
    <2>3. {e.rule : e \in TS} = R
      BY <1>4
    <2> HIDE DEF applying, E, R, TS
    <2> QED  BY <2>1, <2>2, <2>3, RulesFacts
  <1> HIDE DEF kn, ks, R
  <1>10. /\ NameCandidates(p, name) \in Seq(R)
         /\ Range(NameCandidates(p, name)) = (Range(kn) \cup Range(ks)) \cup Range(p.wildcard)
    <2>1. kn \o ks \in Seq(R) /\ Range(kn \o ks) = Range(kn) \cup Range(ks)
      BY <1>8, <1>9, RangeOfConcat
    <2>2. p.wildcard \in Seq(R)
      BY <1>1
    <2> DEFINE u == kn \o ks
    <2> HIDE DEF name, u, exact, applying, N, S, W, E, TN, TS
    <2>3. u \in Seq(R) /\ Range(u) = Range(kn) \cup Range(ks) /\ NameCandidates(p, name) = u \o p.wildcard
      BY <1>2, <2>1 DEF u
    <2>4. u \o p.wildcard \in Seq(R) /\ Range(u \o p.wildcard) = Range(u) \cup Range(p.wildcard)
      BY <2>2, <2>3, RangeOfConcat
    <2> QED  BY <2>3, <2>4
  <1> HIDE DEF exact, applying, E, name, TN, TS
  <1>11. {e.rule : e \in exact} =
            {LoadedRule(dr) : dr \in {x \in E : Named(x) /\ normalizeName(x.name) = name}}
    BY <1>3, <1>6
  <1>12. {e.rule : e \in applying} =
            {LoadedRule(dr) : dr \in {x \in E : Suffixed(x) /\ SuffixApplies(SuffixEntry(x), name)}}
    BY <1>4, <1>7
  <1>13. Range(NameCandidates(p, name)) = {LoadedRule(dr) : dr \in {x \in E : MatchesHost(x, host)}}
    BY <1>1, <1>5, <1>8, <1>9, <1>10, <1>11, <1>12
  <1> QED  BY <1>10, <1>13 DEF E, R, name

-----------------------------------------------------------------------------
(* authorize: the outcome *)

\* The same in terms of the entries M that the rules come from.
FoundAmong(found, M, port, network) ==
    \/ \E dr \in M : /\ CoversPort(dr, port) /\ CoversTransport(dr, network)
                     /\ found.rule = LoadedRule(dr) /\ found.rule # Absent
    \/ /\ \A dr \in M : ~(CoversPort(dr, port) /\ CoversTransport(dr, network))
       /\ found.rule = Absent
       /\ found.reason = IF \E dr \in M : CoversPort(dr, port) THEN "transport-not-allowed"
                         ELSE IF M # {} THEN "port-not-allowed" ELSE NoReason

\* selectRule, on the rules that the entries M become.
LEMMA SelectedFacts ==
    ASSUME NEW d, NEW p, LoadsAs(d, p), NEW M \in SUBSET Range(d.rules), NEW candidates,
           candidates \in Seq({LoadedRule(dr) : dr \in Range(d.rules)}),
           Range(candidates) = {LoadedRule(dr) : dr \in M},
           NEW port \in Int, NEW network
    PROVE  FoundAmong(selectRule(candidates, port, network), M, port, network)
  <1> DEFINE found == selectRule(candidates, port, network)
             R == {LoadedRule(dr) : dr \in Range(d.rules)}
             C == Range(candidates)
  <1>1. \A dr \in Range(d.rules) : RuleValid(dr) /\ IsEntry(dr)
    BY LoadFacts
  <1>2. Absent \notin R
    BY <1>1 DEF IsEntry
  <1>3. \A dr \in M : /\ permits(LoadedRule(dr).ports, port) <=> CoversPort(dr, port)
                      /\ Serves(LoadedRule(dr), port, network) <=>
                            CoversPort(dr, port) /\ CoversTransport(dr, network)
    BY <1>1, ServesFacts
  <1> HIDE DEF R, found, C
  <1>4. Found(found, C, port, network)
    <2>1. candidates \in Seq(R)
      BY DEF R
    <2> QED  BY <1>2, <2>1, SelectFacts DEF found, C
  <1>5. C = {LoadedRule(dr) : dr \in M}
    BY DEF C
  <1>6. CASE found.rule \in C /\ Serves(found.rule, port, network) /\ found.rule # Absent
    <2>1. PICK dr \in M : found.rule = LoadedRule(dr)
      BY <1>5, <1>6
    <2>2. CoversPort(dr, port) /\ CoversTransport(dr, network)
      BY <1>3, <1>6, <2>1
    <2> QED  BY <1>6, <2>1, <2>2 DEF found, FoundAmong
  <1>7. CASE /\ \A r \in C : ~Serves(r, port, network)
             /\ found.rule = Absent
             /\ found.reason = IF \E r \in C : permits(r.ports, port) THEN "transport-not-allowed"
                               ELSE IF C # {} THEN "port-not-allowed" ELSE NoReason
    <2>1. \A dr \in M : ~(CoversPort(dr, port) /\ CoversTransport(dr, network))
      BY <1>3, <1>5, <1>7
    <2>2. (\E r \in C : permits(r.ports, port)) <=> \E dr \in M : CoversPort(dr, port)
      BY <1>3, <1>5
    <2>3. C # {} <=> M # {}
      BY <1>5
    <2>4. found.reason = IF \E dr \in M : CoversPort(dr, port) THEN "transport-not-allowed"
                         ELSE IF M # {} THEN "port-not-allowed" ELSE NoReason
      BY <1>7, <2>2, <2>3
    <2> QED  BY <1>7, <2>1, <2>4 DEF found, FoundAmong
  <1> QED  BY <1>4, <1>6, <1>7 DEF Found

\* What authorize may say of a well-formed request: no rule permits it, and the
\* reason is the one the rules imply; or one that does either admits the
\* addresses of the verdict, or admits none.
Outcome(d, r, v) ==
    \/ /\ Permitting(d, r) = {} /\ v.reason = ExpectedReason(d, r) /\ v.addresses = <<>> /\ ~v.err
    \/ \E dr \in Permitting(d, r) :
        \/ /\ v.reason = NoReason /\ ~v.err
           /\ v.addresses \in Seq(Addresses) \ {<<>>} /\ Range(v.addresses) = Admitted(d, dr, r)
        \/ /\ v.reason = NoReason /\ v.err
           /\ v.addresses = <<>> /\ Admitted(d, dr, r) = {}
        \/ /\ v.reason = "resolved-address-denied" /\ ~v.err
           /\ v.addresses = <<>> /\ Admitted(d, dr, r) = {}

\* authorize of a literal address.
LEMMA LiteralFacts ==
    ASSUME NEW d, NEW p, LoadsAs(d, p), NEW r,
           r.host.kind = "addr", r.host.addr \in Addresses, ~r.host.zone, r.port \in Int
    PROVE  LET v == authorizeLiteral(p, r.host, r.port, r.network)
           IN  v.status = 403 /\ Outcome(d, r, v)
  <1> DEFINE a == r.host.addr
             E == Range(d.rules)
             M == {x \in E : ListsAddress(x, a)}
             c == LiteralCandidates(p, a)
             found == selectRule(c, r.port, r.network)
             v == authorizeLiteral(p, r.host, r.port, r.network)
             covers(dr) == CoversPort(dr, r.port) /\ CoversTransport(dr, r.network)
  <1>1. c \in Seq({LoadedRule(dr) : dr \in E}) /\ Range(c) = {LoadedRule(dr) : dr \in M}
    BY LiteralCandidatesFacts
  <1>2. FoundAmong(found, M, r.port, r.network)
    <2>1. M \in SUBSET E
      OBVIOUS
    <2> HIDE DEF M, c
    <2> QED  BY <1>1, <2>1, SelectedFacts
  <1>3. \A dr \in E : MatchesHost(dr, r.host) <=> ListsAddress(dr, a)
    BY DEF MatchesHost
  <1>4. M = {dr \in E : MatchesHost(dr, r.host)}
    BY <1>3
  <1> HIDE DEF c, M
  <1>5. Permitting(d, r) = {dr \in M : covers(dr)}
    BY <1>4 DEF Permitting, Entries
  <1>6. CASE \E dr \in M : covers(dr) /\ found.rule = LoadedRule(dr) /\ found.rule # Absent
    <2>1. PICK dr \in M : covers(dr) /\ found.rule = LoadedRule(dr) /\ found.rule # Absent
      BY <1>6
    <2> HIDE DEF found
    <2>2. v = [addresses |-> <<a>>, rule |-> found.rule.id, reason |-> NoReason,
               status |-> 403, err |-> FALSE]
      BY <2>1 DEF authorizeLiteral, found, c
    <2>3. v.addresses = <<a>> /\ v.reason = NoReason /\ v.status = 403 /\ v.err = FALSE
      BY <2>2
    <2>4. <<a>> \in Seq(Addresses) \ {<<>>} /\ Range(<<a>>) = {a}
      BY DEF Range
    <2>5. dr \in Permitting(d, r) /\ Admitted(d, dr, r) = {a}
      BY <1>5, <2>1 DEF Admitted
    <2> HIDE DEF v
    <2> QED  BY <2>3, <2>4, <2>5 DEF Outcome, v
  <1>7. CASE /\ \A dr \in M : ~covers(dr)
             /\ found.rule = Absent
             /\ found.reason = IF \E dr \in M : CoversPort(dr, r.port) THEN "transport-not-allowed"
                               ELSE IF M # {} THEN "port-not-allowed" ELSE NoReason
    <2>1. Permitting(d, r) = {}
      BY <1>5, <1>7
    <2> HIDE DEF found
    <2>2. v = Denied(403, IF found.reason # NoReason THEN found.reason ELSE "ip-not-on-allowlist")
      BY <1>7 DEF authorizeLiteral, found, c
    <2>3. (IF found.reason # NoReason THEN found.reason ELSE "ip-not-on-allowlist") = ExpectedReason(d, r)
      BY <1>4, <1>7, ReasonFacts DEF ExpectedReason, Entries
    <2>4. v.addresses = <<>> /\ v.reason = ExpectedReason(d, r) /\ v.status = 403 /\ v.err = FALSE
      BY <2>2, <2>3 DEF Denied
    <2> HIDE DEF v
    <2> QED  BY <2>1, <2>4 DEF Outcome, v
  <1> QED  BY <1>2, <1>6, <1>7 DEF FoundAmong

\* The addresses of an answer.
LEMMA AddrsFacts ==
    ASSUME NEW s \in Seq([addr : Addresses, zone : BOOLEAN])
    PROVE  /\ AddrsOf(s) \in Seq(Addresses)
           /\ Range(AddrsOf(s)) = {x.addr : x \in Range(s)}
           /\ AddrsOf(s) = <<>> <=> Range(s) = {}
  <1> DEFINE T == [addr : Addresses, zone : BOOLEAN]
             n == Len(s)
             f == AddrsOf(s)
  <1>1. s \in Seq(T) /\ \A x \in T : x.addr \in Addresses
    OBVIOUS
  <1> HIDE DEF T
  <1>2. DOMAIN s = 1 .. n /\ n \in Nat /\ \A i \in 1 .. n : s[i] \in T
    BY <1>1
  <1>3. f = [i \in 1 .. n |-> s[i].addr]
    BY <1>2 DEF AddrsOf
  <1>4. Range(s) = {s[i] : i \in 1 .. n}
    BY <1>2 DEF Range
  <1> HIDE DEF n, f
  <1>5. Range(f) = {s[i].addr : i \in 1 .. n}
    BY <1>3 DEF Range
  <1>6. f \in Seq(Addresses) /\ Len(f) = n
    BY <1>1, <1>2, <1>3
  <1>7. f = <<>> <=> n = 0
    BY <1>6
  <1>8. n = 0 <=> Range(s) = {}
    <2>1. n = 0 => 1 .. n = {}
      BY <1>2
    <2>2. n # 0 => 1 \in 1 .. n
      BY <1>2
    <2> QED  BY <1>4, <2>1, <2>2
  <1>9. Range(f) = {x.addr : x \in Range(s)}
    BY <1>4, <1>5
  <1> QED  BY <1>6, <1>7, <1>8, <1>9 DEF f

\* KeptAddresses collects the addresses without a zone that may be dialed.
LEMMA KeptFacts ==
    ASSUME NEW p, NEW rule, NEW port, NEW s \in Seq([addr : Addresses, zone : BOOLEAN])
    PROVE  LET kept == KeptAddresses(p, rule, s, port)
               D == {x \in Range(s) : ~x.zone /\ MayDial(p, rule, x.addr, port)}
           IN  /\ kept \in Seq(Addresses) /\ Range(kept) = {x.addr : x \in D}
               /\ kept = <<>> <=> D = {}
  <1> DEFINE T == [addr : Addresses, zone : BOOLEAN]
             D == {x \in Range(s) : ~x.zone /\ MayDial(p, rule, x.addr, port)}
             k == Keep(s, D)
  <1>1. k \in Seq(T) /\ Range(k) = Range(s) \cap D
    <2> HIDE DEF D, T
    <2>1. s \in Seq(T)
      BY DEF T
    <2> QED  BY <2>1, KeepFacts
  <1>2. Range(s) \cap D = D
    OBVIOUS
  <1>3. KeptAddresses(p, rule, s, port) = AddrsOf(k)
    BY DEF KeptAddresses
  <1> HIDE DEF D, k
  <1>4. /\ AddrsOf(k) \in Seq(Addresses)
        /\ Range(AddrsOf(k)) = {x.addr : x \in Range(k)}
        /\ AddrsOf(k) = <<>> <=> Range(k) = {}
    BY <1>1, AddrsFacts
  <1> QED  BY <1>1, <1>2, <1>3, <1>4 DEF D

\* The static list of a valid entry: a nonempty list of addresses.
LEMMA StaticFacts ==
    ASSUME NEW dr, RuleValid(dr), IsEntry(dr), dr.resolve # Absent
    PROVE  LET static == LoadedRule(dr).resolve
               s == [i \in DOMAIN static |-> [addr |-> static[i], zone |-> FALSE]]
           IN  /\ static # Absent
               /\ s \in Seq([addr : Addresses, zone : BOOLEAN]) /\ s # Absent
               /\ Range(s) = {[addr |-> a, zone |-> FALSE] : a \in {t.addr : t \in Range(dr.resolve)}}
               /\ \A a \in {t.addr : t \in Range(dr.resolve)} : listed(static, a)
               /\ {t.addr : t \in Range(dr.resolve)} # {}
  <1> DEFINE l == dr.resolve
             n == Len(l)
             static == LoadedRule(dr).resolve
             s == [i \in DOMAIN static |-> [addr |-> static[i], zone |-> FALSE]]
  <1>1. /\ l \in Seq(Range(l)) /\ l # <<>>
        /\ \A i \in DOMAIN l : ParsesAsAddr(l[i])
        /\ \A t \in Range(l) : IsText(t)
    BY DEF RuleValid, IsEntry
  <1>2. DOMAIN l = 1 .. n /\ n \in Nat /\ n # 0 /\ \A i \in 1 .. n : l[i].addr \in Addresses
    <2>1. DOMAIN l = 1 .. n /\ n \in Nat /\ n # 0
      BY <1>1
    <2>2. \A i \in 1 .. n : l[i] \in Range(l)
      BY <2>1 DEF Range
    <2>3. \A i \in 1 .. n : l[i].addr \in Addresses
      BY <1>1, <2>1, <2>2 DEF ParsesAsAddr, IsText
    <2> QED  BY <2>1, <2>3
  <1>3. static = [i \in 1 .. n |-> l[i].addr]
    BY <1>2, RuleFacts
  <1> HIDE DEF l, n
  <1>4. static \in Seq(Addresses) /\ Len(static) = n
    BY <1>2, <1>3
  <1>5. static # Absent
    BY <1>4, PolicyAssumption
  <1>6. s = [i \in 1 .. n |-> [addr |-> l[i].addr, zone |-> FALSE]]
    BY <1>3
  <1>7. s \in Seq([addr : Addresses, zone : BOOLEAN])
    <2> DEFINE T == [addr : Addresses, zone : BOOLEAN]
               e(i) == [addr |-> l[i].addr, zone |-> FALSE]
    <2>1. \A i \in 1 .. n : e(i) \in T
      BY <1>2
    <2> HIDE DEF T, e, static
    <2>2. [i \in 1 .. n |-> e(i)] \in Seq(T)
      BY <1>2, <2>1
    <2> QED  BY <1>6, <2>2 DEF T, e
  <1>8. s # Absent
    BY <1>7, PolicyAssumption
  <1>9. {t.addr : t \in Range(l)} = {l[i].addr : i \in 1 .. n}
    BY <1>2 DEF Range
  <1>10. Range(s) = {[addr |-> l[i].addr, zone |-> FALSE] : i \in 1 .. n}
    <2> HIDE DEF s, static
    <2> DEFINE e(i) == [addr |-> l[i].addr, zone |-> FALSE]
    <2>1. s = [i \in 1 .. n |-> e(i)]
      BY <1>6
    <2> HIDE DEF e
    <2>2. Range(s) = {e(i) : i \in 1 .. n}
      BY <2>1 DEF Range
    <2> QED  BY <2>2 DEF e
  <1>11. \A i \in 1 .. n : listed(static, l[i].addr)
    <2> SUFFICES ASSUME NEW i \in 1 .. n PROVE listed(static, l[i].addr)
      OBVIOUS
    <2>1. static[i] = l[i].addr
      BY <1>3
    <2> HIDE DEF static
    <2> QED  BY <1>4, <1>5, <2>1 DEF listed, Contains
  <1>12. 1 \in 1 .. n
    BY <1>2
  <1> HIDE DEF s, static
  <1>13. Range(s) = {[addr |-> a, zone |-> FALSE] : a \in {t.addr : t \in Range(l)}}
    BY <1>9, <1>10
  <1>14. \A a \in {t.addr : t \in Range(l)} : listed(static, a)
    BY <1>9, <1>11
  <1>15. {t.addr : t \in Range(l)} # {}
    BY <1>9, <1>12
  <1> QED  BY <1>5, <1>7, <1>8, <1>13, <1>14, <1>15 DEF l, s, static

\* What the boundary resolves a name to under the rule of entry dr.
Resolved(dr, r) ==
    LET static == LoadedRule(dr).resolve
    IN  IF static = Absent THEN r.answer
        ELSE [i \in DOMAIN static |-> [addr |-> static[i], zone |-> FALSE]]

\* The addresses that pass are those the entry admits.
LEMMA AdmittedFacts ==
    ASSUME NEW d, NEW p, LoadsAs(d, p), NEW dr \in Range(d.rules), NEW r,
           r.host.kind = "name", r.port \in Int, IsAnswer(r.answer)
    PROVE  /\ Resolved(dr, r) = Absent => Admitted(d, dr, r) = {}
           /\ Resolved(dr, r) # Absent =>
                /\ Resolved(dr, r) \in Seq([addr : Addresses, zone : BOOLEAN])
                /\ {x.addr : x \in {y \in Range(Resolved(dr, r)) :
                        ~y.zone /\ MayDial(p, LoadedRule(dr), y.addr, r.port)}} = Admitted(d, dr, r)
  <1> DEFINE s == Resolved(dr, r)
             T == [addr : Addresses, zone : BOOLEAN]
             may(a) == MayDial(p, LoadedRule(dr), a, r.port)
             ok(a) == \/ dr.resolve # Absent
                      \/ \E l \in Entries(d) : ListsAddress(l, a) /\ CoversPort(l, r.port)
                      \/ \E e \in Range(d.resolved) : a \in e.cidr /\ CoversPort(e, r.port)
                      \/ a \notin Special
  <1>1. RuleValid(dr) /\ IsEntry(dr)
    BY LoadFacts
  <1>2. \A a : literalRule(p, a, r.port) <=>
                  \E l \in Entries(d) : ListsAddress(l, a) /\ CoversPort(l, r.port)
    BY ListedFacts DEF Entries
  <1>3. \A a : excepted(p, a, r.port) <=>
                  \E e \in Range(d.resolved) : a \in e.cidr /\ CoversPort(e, r.port)
    BY ListedFacts
  <1>4. \A a : may(a) <=> listed(LoadedRule(dr).resolve, a) \/ literalRule(p, a, r.port)
                            \/ excepted(p, a, r.port) \/ a \notin Special
    BY DEF MayDial, publicAddress
  <1>5. Admitted(d, dr, r) = {a \in Resolution(dr, r) : ok(a)}
    BY DEF Admitted
  <1>6. CASE dr.resolve = Absent
    <2>1. LoadedRule(dr).resolve = Absent /\ s = r.answer
      BY <1>6, RuleFacts DEF Resolved
    <2>2. \A a : may(a) <=> ok(a)
      <3> HIDE DEF may
      <3>1. \A a : ~listed(LoadedRule(dr).resolve, a)
        BY <2>1 DEF listed
      <3> QED  BY <1>2, <1>3, <1>4, <1>6, <3>1
    <2>3. CASE r.answer = Absent
      <3>1. Resolution(dr, r) = {}
        BY <1>6, <2>3 DEF Resolution
      <3> QED  BY <1>5, <2>1, <2>3, <3>1
    <2>4. CASE r.answer # Absent
      <3>1. Resolution(dr, r) = {t.addr : t \in {x \in Range(s) : ~x.zone}}
        BY <1>6, <2>1, <2>4 DEF Resolution
      <3>2. s \in Seq(T) /\ s # Absent
        BY <2>1, <2>4 DEF IsAnswer
      <3> HIDE DEF may, ok, s, T
      <3>3. {x.addr : x \in {y \in Range(s) : ~y.zone /\ may(y.addr)}} = Admitted(d, dr, r)
        BY <1>5, <2>2, <3>1
      <3> QED  BY <3>2, <3>3 DEF s, T, may
    <2> QED  BY <2>3, <2>4
  <1>7. CASE dr.resolve # Absent
    <2> DEFINE static == LoadedRule(dr).resolve
               A == {t.addr : t \in Range(dr.resolve)}
               u == [i \in DOMAIN static |-> [addr |-> static[i], zone |-> FALSE]]
    <2>1. /\ static # Absent
          /\ u \in Seq(T) /\ u # Absent
          /\ Range(u) = {[addr |-> a, zone |-> FALSE] : a \in A}
          /\ \A a \in A : listed(static, a)
      BY <1>1, <1>7, StaticFacts
    <2>2. s = u
      BY <2>1 DEF Resolved
    <2> HIDE DEF static, A, u, s
    <2>3. Resolution(dr, r) = A /\ Admitted(d, dr, r) = A
      <3>1. Resolution(dr, r) = A
        BY <1>7 DEF Resolution, A
      <3> QED  BY <1>5, <1>7, <3>1
    <2>4. \A a \in A : may(a)
      <3> HIDE DEF may
      <3> QED  BY <1>4, <2>1 DEF static
    <2> HIDE DEF may, ok, T
    <2>5. {x.addr : x \in {y \in Range(s) : ~y.zone /\ may(y.addr)}} = A
      <3> DEFINE e(a) == [addr |-> a, zone |-> FALSE]
      <3>1. \A a : e(a).addr = a /\ e(a).zone = FALSE
        OBVIOUS
      <3>2. Range(s) = {e(a) : a \in A}
        BY <2>1, <2>2
      <3> HIDE DEF e
      <3>3. {y \in Range(s) : ~y.zone /\ may(y.addr)} = Range(s)
        BY <2>4, <3>1, <3>2
      <3>4. {x.addr : x \in Range(s)} = A
        BY <3>1, <3>2
      <3> QED  BY <3>3, <3>4
    <2> QED  BY <2>1, <2>2, <2>3, <2>5 DEF s, T, may
  <1> QED  BY <1>6, <1>7

\* authorize of a name.
LEMMA NameFacts ==
    ASSUME NEW d, NEW p, LoadsAs(d, p), NEW r,
           r.host.kind = "name", r.host.labels \in Seq(Range(r.host.labels)),
           r.port \in Int, IsAnswer(r.answer)
    PROVE  LET v == authorizeName(p, r.host.labels, r.port, r.network, r.answer)
           IN  v.status = 403 /\ Outcome(d, r, v)
  <1> DEFINE E == Range(d.rules)
             M == {x \in E : MatchesHost(x, r.host)}
             c == NameCandidates(p, r.host.labels)
             found == selectRule(c, r.port, r.network)
             v == authorizeName(p, r.host.labels, r.port, r.network, r.answer)
             covers(dr) == CoversPort(dr, r.port) /\ CoversTransport(dr, r.network)
  <1>1. c \in Seq({LoadedRule(dr) : dr \in E}) /\ Range(c) = {LoadedRule(dr) : dr \in M}
    BY NameCandidatesFacts
  <1>2. FoundAmong(found, M, r.port, r.network)
    <2>1. M \in SUBSET E
      OBVIOUS
    <2> HIDE DEF M, c
    <2> QED  BY <1>1, <2>1, SelectedFacts
  <1>3. Permitting(d, r) = {dr \in M : covers(dr)}
    BY DEF Permitting, Entries
  <1>4. CASE \E dr \in M : covers(dr) /\ found.rule = LoadedRule(dr) /\ found.rule # Absent
    <2>1. PICK dr \in M : covers(dr) /\ found.rule = LoadedRule(dr) /\ found.rule # Absent
      BY <1>4
    <2> DEFINE s == Resolved(dr, r)
               kept == KeptAddresses(p, found.rule, s, r.port)
               D == {y \in Range(s) : ~y.zone /\ MayDial(p, found.rule, y.addr, r.port)}
    <2>2. dr \in Permitting(d, r) /\ dr \in E
      BY <1>3, <2>1
    <2>3. v = IF s = Absent
              THEN [addresses |-> <<>>, rule |-> found.rule.id, reason |-> NoReason,
                    status |-> 403, err |-> TRUE]
              ELSE IF kept = <<>> THEN [Denied(403, "resolved-address-denied") EXCEPT
                                           !.rule = found.rule.id]
              ELSE [addresses |-> kept, rule |-> found.rule.id, reason |-> NoReason,
                    status |-> 403, err |-> FALSE]
      <3> HIDE DEF found
      <3>1. s = IF found.rule.resolve = Absent THEN r.answer
                ELSE [i \in DOMAIN found.rule.resolve |->
                        [addr |-> found.rule.resolve[i], zone |-> FALSE]]
        BY <2>1 DEF Resolved
      <3> QED  BY <2>1, <3>1 DEF authorizeName, found, c
    <2>4. /\ s = Absent => Admitted(d, dr, r) = {}
          /\ s # Absent => /\ s \in Seq([addr : Addresses, zone : BOOLEAN])
                           /\ {x.addr : x \in D} = Admitted(d, dr, r)
      <3> DEFINE F == {y \in Range(s) : ~y.zone /\ MayDial(p, LoadedRule(dr), y.addr, r.port)}
                 T == [addr : Addresses, zone : BOOLEAN]
      <3>1. D = F
        BY <2>1
      <3>2. /\ s = Absent => Admitted(d, dr, r) = {}
            /\ s # Absent => s \in Seq(T) /\ {x.addr : x \in F} = Admitted(d, dr, r)
        <4> HIDE DEF found, M, E
        <4>1. dr \in Range(d.rules)
          BY <2>2 DEF E
        <4> QED  BY <4>1, AdmittedFacts
      <3> HIDE DEF D, F
      <3> QED  BY <3>1, <3>2
    <2> HIDE DEF s, found, c, M, E
    <2>5. s # Absent => /\ kept \in Seq(Addresses) /\ Range(kept) = {x.addr : x \in D}
                        /\ kept = <<>> <=> D = {}
      BY <2>4, KeptFacts
    <2> HIDE DEF kept, D
    <2>6. CASE s = Absent
      <3>1. v.addresses = <<>> /\ v.reason = NoReason /\ v.status = 403 /\ v.err = TRUE
        BY <2>3, <2>6
      <3> HIDE DEF v
      <3> QED  BY <2>2, <2>4, <2>6, <3>1 DEF Outcome, v
    <2>7. CASE s # Absent /\ kept = <<>>
      <3>1. v.addresses = <<>> /\ v.reason = "resolved-address-denied" /\ v.status = 403 /\ v.err = FALSE
        BY <2>3, <2>7 DEF Denied
      <3>2. Admitted(d, dr, r) = {}
        BY <2>4, <2>5, <2>7
      <3> HIDE DEF v
      <3> QED  BY <2>2, <3>1, <3>2 DEF Outcome, v
    <2>8. CASE s # Absent /\ kept # <<>>
      <3>1. v.addresses = kept /\ v.reason = NoReason /\ v.status = 403 /\ v.err = FALSE
        BY <2>3, <2>8
      <3>2. kept \in Seq(Addresses) \ {<<>>} /\ Range(kept) = Admitted(d, dr, r)
        BY <2>4, <2>5, <2>8
      <3> HIDE DEF v
      <3> QED  BY <2>2, <3>1, <3>2 DEF Outcome, v
    <2> QED  BY <2>6, <2>7, <2>8
  <1>5. CASE /\ \A dr \in M : ~covers(dr)
             /\ found.rule = Absent
             /\ found.reason = IF \E dr \in M : CoversPort(dr, r.port) THEN "transport-not-allowed"
                               ELSE IF M # {} THEN "port-not-allowed" ELSE NoReason
    <2>1. Permitting(d, r) = {}
      BY <1>3, <1>5
    <2> HIDE DEF found
    <2>2. v = Denied(403, IF found.reason # NoReason THEN found.reason ELSE "not-on-allowlist")
      BY <1>5 DEF authorizeName, found, c
    <2>3. (IF found.reason # NoReason THEN found.reason ELSE "not-on-allowlist") = ExpectedReason(d, r)
      <3> HIDE DEF M
      <3>1. M = {dr \in Entries(d) : MatchesHost(dr, r.host)}
        BY DEF M, Entries
      <3> QED  BY <1>5, <3>1, ReasonFacts DEF ExpectedReason
    <2>4. v.addresses = <<>> /\ v.reason = ExpectedReason(d, r) /\ v.status = 403 /\ v.err = FALSE
      BY <2>2, <2>3 DEF Denied
    <2> HIDE DEF v
    <2> QED  BY <2>1, <2>4 DEF Outcome, v
  <1> QED  BY <1>2, <1>4, <1>5 DEF FoundAmong

\* authorize: a request that is not well formed is refused before the rules, any
\* other gets the outcome they imply.
LEMMA AuthorizeFacts ==
    ASSUME NEW d, NEW p, LoadsAs(d, p), NEW r, IsText(r.host), IsAnswer(r.answer)
    PROVE  LET v == authorize(p, r.host, r.port, r.network, r.answer)
           IN  IF WellFormed(r) THEN v.status = 403 /\ Outcome(d, r, v)
               ELSE /\ v.reason \in {"malformed-port", "malformed-target", "scoped-ip"}
                    /\ v.addresses = <<>> /\ ~v.err /\ v.status \in {400, 403}
  <1> DEFINE v == authorize(p, r.host, r.port, r.network, r.answer)
  <1>1. CASE ~ParsesAsPort(r.port)
    <2>1. ~WellFormed(r)
      BY <1>1 DEF ParsesAsPort, WellFormed
    <2>2. v = Denied(400, "malformed-port")
      BY <1>1 DEF authorize
    <2> QED  BY <2>1, <2>2 DEF Denied
  <1>2. CASE ParsesAsPort(r.port)
    <2>1. r.port \in 1 .. MaxPort /\ r.port \in Int
      BY <1>2, PolicyAssumption DEF ParsesAsPort
    <2>2. CASE ParsesAsAddr(r.host)
      <3>1. v = authorizeLiteral(p, r.host, r.port, r.network)
        BY <1>2, <2>2 DEF authorize
      <3>2. r.host.kind = "addr" /\ ~r.host.dot /\ r.host.addr \in Addresses
        BY <2>2 DEF ParsesAsAddr, IsText
      <3>3. CASE r.host.zone
        <4>1. v = Denied(403, "scoped-ip") /\ ~WellFormed(r)
          BY <3>1, <3>2, <3>3 DEF authorizeLiteral, WellFormed
        <4> QED  BY <4>1 DEF Denied
      <3>4. CASE ~r.host.zone
        <4>1. WellFormed(r)
          BY <2>1, <3>2, <3>4 DEF WellFormed
        <4>2. v.status = 403 /\ Outcome(d, r, v)
          BY <2>1, <3>1, <3>2, <3>4, LiteralFacts
        <4> QED  BY <4>1, <4>2
      <3> QED  BY <3>3, <3>4
    <2>3. CASE ~ParsesAsAddr(r.host) /\ r.host.kind # "name"
      <3>1. normalizeName(r.host) = Absent /\ ~WellFormed(r)
        BY <2>3 DEF normalizeName, WellFormed, ParsesAsAddr
      <3>2. v = Denied(400, "malformed-target")
        BY <1>2, <2>3, <3>1 DEF authorize
      <3> QED  BY <3>1, <3>2 DEF Denied
    <2>4. CASE ~ParsesAsAddr(r.host) /\ r.host.kind = "name"
      <3>1. /\ normalizeName(r.host) = r.host.labels /\ r.host.labels # Absent
            /\ r.host.labels \in Seq(Range(r.host.labels)) /\ WellFormed(r)
        BY <2>1, <2>4 DEF normalizeName, WellFormed, IsText
      <3>2. v = authorizeName(p, r.host.labels, r.port, r.network, r.answer)
        BY <1>2, <2>4, <3>1 DEF authorize
      <3>3. v.status = 403 /\ Outcome(d, r, v)
        BY <2>1, <2>4, <3>1, <3>2, NameFacts
      <3> QED  BY <3>1, <3>3
    <2> QED  BY <2>2, <2>3, <2>4
  <1> QED  BY <1>1, <1>2

-----------------------------------------------------------------------------
(* Request heads *)

\* The refusals of a head: malformed, never a policy decision but for the ports
\* of the ingress channel.
Refusals ==
    {x \in [status : {0, 400, 403, 405, 431, 505}, reason : HeadReasons] :
        x.status = 403 => x.reason = "port-not-permitted"}

\* A refusal has a reason, and is not the absence of one.
LEMMA RefusalFacts ==
    /\ Absent \notin Refusals
    /\ \A x \in Refusals : x.reason # NoReason
    /\ Refused(403, "port-not-permitted") \in Refusals
    /\ NoAnswer \in Refusals
    /\ \A status \in {0, 400, 405, 431, 505} : \A reason \in HeadReasons :
        Refused(status, reason) \in Refusals
  <1>1. NoReason \notin HeadReasons
    BY Zenon DEF NoReason, HeadReasons
  <1>2. \A x \in Refusals : x.reason # NoReason
    BY <1>1 DEF Refusals
  <1>3. Absent \notin Refusals
    BY HeadAssumption DEF Refusals
  <1>4. ASSUME NEW status \in {0, 400, 405, 431, 505}, NEW reason \in HeadReasons
        PROVE  Refused(status, reason) \in Refusals
    BY DEF Refused, Refusals
  <1>5. "port-not-permitted" \in HeadReasons /\ "no-answer" \in HeadReasons
    BY DEF HeadReasons
  <1>6. Refused(403, "port-not-permitted") \in Refusals
    BY <1>5 DEF Refused, Refusals
  <1> QED  BY <1>2, <1>3, <1>4, <1>5, <1>6 DEF NoAnswer

\* The least of a set of positions is one of them.
LEMMA LeastFacts ==
    ASSUME NEW S \in SUBSET Nat, S # {}
    PROVE  Min(S) \in S
  <1>1. PICK k \in S : \A j \in S : ~(<<j, k>> \in OpToRel(<, Nat))
    <2>1. IsWellFoundedOn(OpToRel(<, Nat), Nat)
      BY NatLessThanWellFounded
    <2> QED  BY <2>1, WFMin
  <1>2. \A j \in S : k <= j
    <2> SUFFICES ASSUME NEW j \in S PROVE k <= j
      OBVIOUS
    <2>1. j \in Nat /\ k \in Nat
      OBVIOUS
    <2>2. ~(j < k)
      BY <1>1, <2>1 DEF OpToRel
    <2> QED  BY <2>1, <2>2
  <1> QED  BY <1>2 DEF Min

\* A head is refused by a check that fails, and passes when none does.
LEMMA FirstFailureFacts ==
    ASSUME NEW checks, NEW n \in Nat, DOMAIN checks = 1 .. n,
           \A i \in 1 .. n : checks[i].result \in Refusals
    PROVE  \/ FirstFailure(checks) = Absent /\ \A i \in 1 .. n : ~checks[i].fails
           \/ /\ FirstFailure(checks) \in Refusals /\ FirstFailure(checks) # Absent
              /\ \E i \in 1 .. n : checks[i].fails /\ FirstFailure(checks) = checks[i].result
  <1> DEFINE F == {i \in 1 .. n : checks[i].fails}
  <1>1. FirstFailure(checks) = IF F = {} THEN Absent ELSE checks[Min(F)].result
    BY DEF FirstFailure
  <1>2. CASE F = {}
    BY <1>1, <1>2
  <1>3. CASE F # {}
    <2>1. F \in SUBSET Nat
      OBVIOUS
    <2> HIDE DEF F
    <2>2. Min(F) \in F
      BY <1>3, <2>1, LeastFacts
    <2>3. Min(F) \in 1 .. n /\ checks[Min(F)].fails
      BY <2>2 DEF F
    <2>4. FirstFailure(checks) = checks[Min(F)].result
      BY <1>1, <1>3
    <2> HIDE DEF FirstFailure
    <2> QED  BY <2>3, <2>4, RefusalFacts
  <1> QED  BY <1>2, <1>3

\* readHead passes the heads that every parser reads alike.
LEMMA ReadHeadFacts ==
    ASSUME NEW h, IsHead(h), h.wire = "h1"
    PROVE  \/ readHead(h) = Absent /\ Unambiguous(h)
           \/ readHead(h) \in Refusals /\ readHead(h) # Absent /\ ~Unambiguous(h)
  <1> DEFINE c == HeadChecks(h)
             f(i) == c[i].fails
  <1>1. DOMAIN c = 1 .. 10
    BY DEF HeadChecks
  <1>2. /\ c[1].result \in Refusals /\ c[2].result \in Refusals /\ c[3].result \in Refusals
        /\ c[4].result \in Refusals /\ c[5].result \in Refusals /\ c[6].result \in Refusals
        /\ c[7].result \in Refusals /\ c[8].result \in Refusals /\ c[9].result \in Refusals
        /\ c[10].result \in Refusals
    BY RefusalFacts DEF HeadChecks, Check, HeadReasons
  <1>3. /\ f(1) <=> h.line = "short"
        /\ f(2) <=> h.line = "large"
        /\ f(3) <=> h.line = "malformed"
        /\ f(4) <=> h.version \notin {"1.0", "1.1", "1.2"}
        /\ f(5) <=> h.fields = "short"
        /\ f(6) <=> h.fields = "large"
        /\ f(7) <=> h.fields = "malformed"
        /\ f(8) <=> Len(h.hosts) > 1
        /\ f(9) <=> h.fields = "badname"
        /\ f(10) <=> h.version # "1.0" /\ h.hosts = <<>>
    BY DEF HeadChecks, Check
  <1> HIDE DEF c
  <1>4. \A i \in 1 .. 10 : c[i].result \in Refusals
    BY <1>2
  <1>5. \/ FirstFailure(c) = Absent /\ \A i \in 1 .. 10 : ~c[i].fails
        \/ FirstFailure(c) \in Refusals /\ FirstFailure(c) # Absent /\ \E i \in 1 .. 10 : c[i].fails
    BY <1>1, <1>4, FirstFailureFacts
  <1>6. Len(h.hosts) \in Nat /\ (h.hosts = <<>> <=> Len(h.hosts) = 0)
    BY DEF IsHead
  <1>7. (\A i \in 1 .. 10 : ~f(i)) <=> Unambiguous(h)
    <2>1. (\A i \in 1 .. 10 : ~f(i)) <=>
            /\ ~f(1) /\ ~f(2) /\ ~f(3) /\ ~f(4) /\ ~f(5) /\ ~f(6) /\ ~f(7) /\ ~f(8) /\ ~f(9) /\ ~f(10)
      <3> HIDE DEF f
      <3> QED  OBVIOUS
    <2>2. h.line \in {"ok", "malformed", "large", "short"}
            /\ h.fields \in {"ok", "badname", "malformed", "large", "short"}
      BY DEF IsHead
    <2> HIDE DEF f
    <2>3. Unambiguous(h) <=> /\ h.line = "ok" /\ h.fields = "ok"
                             /\ h.version \in {"1.0", "1.1", "1.2"}
                             /\ Len(h.hosts) <= 1 /\ (h.version # "1.0" => Len(h.hosts) = 1)
      BY DEF Unambiguous
    <2>4. ~f(1) /\ ~f(2) /\ ~f(3) <=> h.line = "ok"
      BY <1>3, <2>2
    <2>5. ~f(5) /\ ~f(6) /\ ~f(7) /\ ~f(9) <=> h.fields = "ok"
      BY <1>3, <2>2
    <2>6. ~f(8) /\ ~f(10) <=> Len(h.hosts) <= 1 /\ (h.version # "1.0" => Len(h.hosts) = 1)
      <3> DEFINE k == Len(h.hosts)
      <3>1. k \in Nat /\ (f(8) <=> k > 1) /\ (f(10) <=> h.version # "1.0" /\ k = 0)
        BY <1>3, <1>6
      <3> HIDE DEF k
      <3>2. ~f(8) /\ ~f(10) <=> k <= 1 /\ (h.version # "1.0" => k = 1)
        BY <3>1
      <3> QED  BY <3>2 DEF k
    <2>7. ~f(4) <=> h.version \in {"1.0", "1.1", "1.2"}
      BY <1>3
    <2> QED  BY <2>1, <2>3, <2>4, <2>5, <2>6, <2>7
  <1>8. readHead(h) = FirstFailure(c)
    BY DEF readHead, c
  <1> QED  BY <1>5, <1>7, <1>8

\* What becomes of a head, but for the deviations: one that conforms names its
\* destination, one that does not is refused.  A final dot after an address may also be told from
\* its absence in the Host field.
HeadOutcome(r, v) ==
    LET d == Destination(r) IN
    \/ /\ Conforms(r.head) /\ v.reason = NoReason
       /\ r.head.wire # "ingress" => v = Asks(d.network, d.host, d.port)
    \/ /\ Conforms(r.head) /\ r.head.wire # "ingress"
       /\ v = Refused(400, "authority-mismatch") /\ ~WellFormed(d) /\ d.network = "tcp"
    \/ ~Conforms(r.head) /\ v \in Refusals

\* A destination over TCP.
LEMMA AsksFacts ==
    ASSUME NEW network, NEW host, NEW port
    PROVE  LET a == Asks(network, host, port)
           IN  a.reason = NoReason /\ a.network = network /\ a.host = host /\ a.port = port
  BY DEF Asks

\* sameAuthority is the comparison of wire.md, but for an address with a final dot.
LEMMA SameFacts ==
    ASSUME NEW a, NEW b
    PROVE  /\ sameAuthority(a, b) => SameDestination(a, b)
           /\ SameDestination(a, b) /\ ~sameAuthority(a, b) => b.host.kind = "addr" /\ b.host.dot
  <1>1. EqualFold(a.host, b.host) <=>
            /\ a.host.kind = b.host.kind
            /\ a.host.kind = "name" => a.host.labels = b.host.labels
            /\ a.host.kind = "addr" => a.host.addr = b.host.addr /\ a.host.zone = b.host.zone
    BY DEF EqualFold
  <1> QED  BY <1>1 DEF sameAuthority, SameDestination, ParsesAsAddr

\* A list of at most one Host field.
LEMMA HostFacts ==
    ASSUME NEW s, s \in Seq(Range(s)), Len(s) <= 1
    PROVE  \/ s = <<>> /\ Range(s) = {}
           \/ s # <<>> /\ s = <<Head(s)>> /\ Range(s) = {Head(s)}
  <1>1. Len(s) \in Nat /\ DOMAIN s = 1 .. Len(s)
    OBVIOUS
  <1>2. Len(s) = 0 => s = <<>>
    OBVIOUS
  <1>3. CASE s = <<>>
    <2>1. Range(<<>>) = {}
      BY DEF Range
    <2> QED  BY <1>3, <2>1
  <1>4. CASE s # <<>>
    <2>1. Len(s) = 1
      BY <1>1, <1>2, <1>4
    <2>2. Head(s) = s[1]
      BY <1>4
    <2>3. DOMAIN s = {1}
      BY <1>1, <2>1
    <2> QED  BY <1>4, <2>2, <2>3 DEF Range
  <1> QED  BY <1>3, <1>4

\* connectTarget
LEMMA ConnectFacts ==
    ASSUME NEW r, IsHead(r.head), r.head.wire = "h1", r.head.method = "CONNECT", Unambiguous(r.head),
           ~Deviates(r.head)
    PROVE  HeadOutcome(r, connectTarget(r.head))
  <1> DEFINE h == r.head
             t == h.target
             c == TargetChecks(h)
             same == \A a \in Range(h.hosts) : a # Absent /\ SameDestination(a, t)
             v == connectTarget(h)
  <1>1. Conforms(h) <=> t # Absent /\ t.port \in 1 .. MaxPort /\ same
    BY DEF Conforms
  <1>2. h.hosts \in Seq(Range(h.hosts)) /\ Len(h.hosts) <= 1 /\ h.hosts # <<Absent>>
    BY DEF IsHead, Unambiguous, Deviates
  <1>3. DOMAIN c = 1 .. 3
    BY DEF TargetChecks
  <1>4. /\ c[1].result \in Refusals /\ c[2].result \in Refusals
        /\ c[3].result = Refused(400, "authority-mismatch") /\ c[3].result \in Refusals
    BY RefusalFacts DEF TargetChecks, Check, HeadReasons
  <1>5. /\ c[1].fails <=> t = Absent
        /\ c[2].fails <=> t # Absent /\ ~(t.port \in 1 .. MaxPort)
        /\ c[3].fails <=> /\ t # Absent /\ h.hosts # <<>> /\ Head(h.hosts) # Absent
                          /\ ~sameAuthority(Head(h.hosts), t)
    BY DEF TargetChecks, Check, ParsesAsPort
  <1>6. v = IF FirstFailure(c) # Absent THEN FirstFailure(c) ELSE Asks("tcp", t.host, t.port)
    BY DEF connectTarget
  <1>7. /\ Destination(r).network = "tcp" /\ Destination(r).host = t.host
        /\ Destination(r).port = t.port
    BY DEF Destination, AsksUDP
  <1>8. \/ h.hosts = <<>> /\ Range(h.hosts) = {}
        \/ h.hosts # <<>> /\ Range(h.hosts) = {Head(h.hosts)} /\ Head(h.hosts) # Absent
    BY <1>2, HostFacts
  <1> HIDE DEF c, same, v, t
  <1>9. same <=> h.hosts = <<>> \/ SameDestination(Head(h.hosts), t)
    BY <1>8 DEF same
  <1>10. \/ FirstFailure(c) = Absent /\ \A i \in 1 .. 3 : ~c[i].fails
         \/ /\ FirstFailure(c) \in Refusals /\ FirstFailure(c) # Absent
            /\ \E i \in 1 .. 3 : c[i].fails /\ FirstFailure(c) = c[i].result
    <2>1. \A i \in 1 .. 3 : c[i].result \in Refusals
      BY <1>4
    <2> QED  BY <1>3, <2>1, FirstFailureFacts
  <1>11. CASE FirstFailure(c) = Absent /\ \A i \in 1 .. 3 : ~c[i].fails
    <2>1. ~c[1].fails /\ ~c[2].fails /\ ~c[3].fails
      BY <1>11
    <2>2. Conforms(h)
      BY <1>1, <1>5, <1>8, <1>9, <2>1, SameFacts
    <2>3. v = Asks("tcp", t.host, t.port)
      BY <1>6, <1>11
    <2>4. v.reason = NoReason
      BY <2>3, AsksFacts
    <2> QED  BY <1>7, <2>2, <2>3, <2>4 DEF HeadOutcome, v
  <1>12. CASE /\ FirstFailure(c) \in Refusals /\ FirstFailure(c) # Absent
              /\ \E i \in 1 .. 3 : c[i].fails /\ FirstFailure(c) = c[i].result
    <2>1. v = FirstFailure(c)
      BY <1>6, <1>12
    <2>2. CASE ~Conforms(h)
      BY <1>12, <2>1, <2>2 DEF HeadOutcome, v
    <2>3. CASE Conforms(h)
      <3>1. ~c[1].fails /\ ~c[2].fails
        BY <1>1, <1>5, <2>3
      <3>2. c[3].fails /\ v = c[3].result
        BY <1>12, <2>1, <3>1
      <3>3. SameDestination(Head(h.hosts), t) /\ ~sameAuthority(Head(h.hosts), t)
        BY <1>1, <1>5, <1>9, <2>3, <3>2
      <3>4. t.host.kind = "addr" /\ t.host.dot
        BY <3>3, SameFacts
      <3>5. ~WellFormed(Destination(r))
        BY <1>7, <3>4 DEF WellFormed
      <3> QED  BY <1>4, <1>7, <2>3, <3>2, <3>5 DEF HeadOutcome, v
    <2> QED  BY <2>2, <2>3
  <1> QED  BY <1>10, <1>11, <1>12

\* masqueTarget of a request for UDP.
LEMMA MasqueFacts ==
    ASSUME NEW r, IsHead(r.head), AsksUDP(r.head), ~Deviates(r.head),
           Conforms(r.head) <=> r.head.target # Absent
    PROVE  HeadOutcome(r, masqueTarget(r.head.target))
  <1> DEFINE h == r.head
             t == h.target
             v == masqueTarget(t)
  <1>1. CASE ~Conforms(h)
    <2>1. v = Refused(400, "malformed-template")
      BY <1>1 DEF masqueTarget
    <2>2. v \in Refusals
      BY <2>1, RefusalFacts DEF HeadReasons
    <2> QED  BY <1>1, <2>2 DEF HeadOutcome
  <1>2. CASE Conforms(h)
    <2> DEFINE host == Decoded(t, 1)
    <2>1. IF Zoned(t.host) THEN ~(t.layers < 2) ELSE t.layers # 2
      BY <1>2 DEF Deviates
    <2>2. Decoded(t, 2) = host
      <3>1. t.layers \in Nat
        BY <1>2 DEF IsHead, AsksUDP
      <3> QED  BY <2>1, <3>1 DEF Decoded
    <2>3. v = Asks("udp", host, t.port)
      BY <1>2, <2>1, <2>2 DEF masqueTarget
    <2>4. Destination(r).host = host /\ Destination(r).port = t.port /\ Destination(r).network = "udp"
      BY DEF Destination
    <2> HIDE DEF v, host
    <2>5. v.reason = NoReason
      BY <2>3, AsksFacts
    <2> QED  BY <1>2, <2>3, <2>4, <2>5 DEF HeadOutcome, v
  <1> QED  BY <1>1, <1>2

\* serve, for HTTP/1.x.
LEMMA H1Facts ==
    ASSUME NEW r, IsHead(r.head), r.head.wire = "h1", ~Deviates(r.head)
    PROVE  HeadOutcome(r, ServeH1(r.head))
  <1> DEFINE h == r.head
             v == ServeH1(h)
  <1>1. \/ readHead(h) = Absent /\ Unambiguous(h)
        \/ readHead(h) \in Refusals /\ readHead(h) # Absent /\ ~Unambiguous(h)
    BY ReadHeadFacts
  <1>2. CASE ~Unambiguous(h)
    <2>1. v = readHead(h) /\ v \in Refusals
      BY <1>1, <1>2 DEF ServeH1
    <2>2. ~Conforms(h)
      BY <1>2 DEF Conforms
    <2> QED  BY <2>1, <2>2 DEF HeadOutcome
  <1>3. CASE Unambiguous(h) /\ h.method = "CONNECT"
    <2>1. v = connectTarget(h)
      BY <1>1, <1>3 DEF ServeH1
    <2> QED  BY <1>3, <2>1, ConnectFacts
  <1>4. CASE Unambiguous(h) /\ h.method # "CONNECT" /\ ~(h.method = "GET" /\ h.upgrade = "connect-udp")
    <2>1. v = Refused(405, "connect-only")
      BY <1>1, <1>4 DEF ServeH1
    <2>2. v \in Refusals
      BY <2>1, RefusalFacts DEF HeadReasons
    <2>3. ~Conforms(h)
      BY <1>4 DEF Conforms, AsksUDP
    <2> QED  BY <2>2, <2>3 DEF HeadOutcome
  <1>5. CASE Unambiguous(h) /\ h.method = "GET" /\ h.upgrade = "connect-udp"
    <2>1. v = IF ~h.connection THEN Refused(400, "malformed-upgrade") ELSE masqueTarget(h.target)
      BY <1>1, <1>5 DEF ServeH1, handleConnectUDP
    <2>2. AsksUDP(h)
      BY <1>5 DEF AsksUDP
    <2> HIDE DEF h
    <2>5. Conforms(h) <=> h.target # Absent /\ h.connection
      BY <1>5, <2>2 DEF Conforms, h
    <2>3. CASE ~h.connection
      <3>1. v \in Refusals
        BY <2>1, <2>3, RefusalFacts DEF HeadReasons
      <3> QED  BY <2>3, <2>5, <3>1 DEF HeadOutcome, h
    <2>4. CASE h.connection
      BY <2>1, <2>2, <2>4, <2>5, MasqueFacts DEF h
    <2> QED  BY <2>3, <2>4
  <1> QED  BY <1>2, <1>3, <1>4, <1>5

\* serveH2
LEMMA H2Facts ==
    ASSUME NEW r, IsHead(r.head), r.head.wire = "h2", ~Deviates(r.head)
    PROVE  HeadOutcome(r, ServeH2(r.head))
  <1> DEFINE h == r.head
             t == h.target
             c == H2Checks(h)
             v == ServeH2(h)
  <1>1. DOMAIN c = 1 .. 4
    BY DEF H2Checks
  <1>2. /\ c[1].result \in Refusals /\ c[2].result \in Refusals /\ c[3].result \in Refusals
        /\ c[4].result \in Refusals
    BY RefusalFacts DEF H2Checks, Check, HeadReasons
  <1>3. /\ c[1].fails <=> h.method # "CONNECT"
        /\ c[2].fails <=> h.upgrade \notin {"none", "connect-udp"}
        /\ c[3].fails <=> h.upgrade = "none" /\ t = Absent
        /\ c[4].fails <=> h.upgrade = "none" /\ t # Absent /\ ~(t.port \in 1 .. MaxPort)
    BY DEF H2Checks, Check, ParsesAsPort
  <1>4. v = IF FirstFailure(c) # Absent THEN FirstFailure(c)
            ELSE IF h.upgrade = "connect-udp" THEN masqueTarget(t) ELSE Asks("tcp", t.host, t.port)
    BY DEF ServeH2
  <1>5. Conforms(h) <=>
            \/ h.upgrade = "none" /\ t # Absent /\ h.method = "CONNECT" /\ t.port \in 1 .. MaxPort
            \/ h.upgrade = "connect-udp" /\ t # Absent /\ h.method = "CONNECT"
    BY DEF Conforms, AsksUDP
  <1>6. /\ h.upgrade = "none" => /\ Destination(r).network = "tcp" /\ Destination(r).host = t.host
                                 /\ Destination(r).port = t.port
        /\ h.upgrade = "connect-udp" /\ h.method = "CONNECT" => AsksUDP(h)
    BY DEF Destination, AsksUDP
  <1> HIDE DEF c, v, t
  <1>7. \/ FirstFailure(c) = Absent /\ \A i \in 1 .. 4 : ~c[i].fails
        \/ FirstFailure(c) \in Refusals /\ FirstFailure(c) # Absent /\ \E i \in 1 .. 4 : c[i].fails
    <2>1. \A i \in 1 .. 4 : c[i].result \in Refusals
      BY <1>2
    <2> QED  BY <1>1, <2>1, FirstFailureFacts
  <1>8. CASE FirstFailure(c) = Absent /\ \A i \in 1 .. 4 : ~c[i].fails
    <2>1. ~c[1].fails /\ ~c[2].fails /\ ~c[3].fails /\ ~c[4].fails
      BY <1>8
    <2>2. CASE h.upgrade = "none"
      <3>1. Conforms(h) /\ v = Asks("tcp", t.host, t.port)
        BY <1>3, <1>4, <1>5, <1>8, <2>1, <2>2
      <3>2. v.reason = NoReason
        BY <3>1, AsksFacts
      <3> QED  BY <1>6, <2>2, <3>1, <3>2 DEF HeadOutcome, v
    <2>3. CASE h.upgrade = "connect-udp"
      <3>1. v = masqueTarget(t)
        BY <1>4, <1>8, <2>3
      <3>2. (Conforms(h) <=> t # Absent) /\ AsksUDP(h)
        BY <1>3, <1>5, <1>6, <2>1, <2>3
      <3> QED  BY <3>1, <3>2, MasqueFacts DEF v, t
    <2> QED  BY <1>3, <2>1, <2>2, <2>3
  <1>9. CASE FirstFailure(c) \in Refusals /\ FirstFailure(c) # Absent /\ \E i \in 1 .. 4 : c[i].fails
    <2>1. c[1].fails \/ c[2].fails \/ c[3].fails \/ c[4].fails
      BY <1>9
    <2>2. ~Conforms(h)
      BY <1>3, <1>5, <2>1
    <2>3. v \in Refusals
      BY <1>4, <1>9
    <2> QED  BY <2>2, <2>3 DEF HeadOutcome, v
  <1> QED  BY <1>7, <1>8, <1>9

\* ingressTarget
LEMMA IngressFacts ==
    ASSUME NEW r, IsHead(r.head), r.head.wire = "ingress", ~Deviates(r.head)
    PROVE  HeadOutcome(r, ServeIngress(r.head))
  <1> DEFINE h == r.head
             t == h.target
             c == IngressChecks(h)
             v == ServeIngress(h)
             k == Len(h.hosts)
             f(i) == c[i].fails
  <1>1. DOMAIN c = 1 .. 12
    BY DEF IngressChecks
  <1>2. /\ c[1].result \in Refusals /\ c[2].result \in Refusals /\ c[3].result \in Refusals
        /\ c[4].result \in Refusals /\ c[5].result \in Refusals /\ c[6].result \in Refusals
        /\ c[7].result \in Refusals /\ c[8].result \in Refusals /\ c[9].result \in Refusals
        /\ c[10].result \in Refusals /\ c[11].result \in Refusals /\ c[12].result \in Refusals
    BY RefusalFacts DEF IngressChecks, Check, HeadReasons
  <1>3. /\ f(1) <=> h.line # "ok"
        /\ f(2) <=> h.version = "none"
        /\ f(3) <=> h.version \notin {"1.0", "1.1"}
        /\ f(4) <=> h.fields # "ok"
        /\ f(5) <=> k > 1
        /\ f(6) <=> h.method # "CONNECT"
        /\ f(7) <=> h.version = "1.1" /\ h.hosts = <<>>
        /\ f(8) <=> t = Absent
        /\ f(9) <=> t # Absent /\ t.host \notin LoopbackTexts
        /\ f(10) <=> t # Absent /\ ~(t.port \in 1 .. MaxPort)
        /\ f(11) <=> h.hosts # <<>> /\ Head(h.hosts) # t
        /\ f(12) <=> t # Absent /\ t.port \notin PinnedPorts
    BY DEF IngressChecks, Check, ParsesAsPort
  <1>4. v = IF FirstFailure(c) # Absent THEN FirstFailure(c) ELSE Asks("tcp", t.host, t.port)
    BY DEF ServeIngress
  <1>5. Conforms(h) <=>
            /\ h.line = "ok" /\ h.fields = "ok" /\ h.version = "1.1"
            /\ t # Absent /\ h.method = "CONNECT" /\ t.host \in LoopbackTexts
            /\ t.port \in PinnedPorts /\ h.hosts = <<t>>
    <2>1. Conforms(h) <=>
            /\ Unambiguous(h) /\ h.version = "1.1"
            /\ t # Absent /\ h.method = "CONNECT" /\ t.host \in LoopbackTexts
            /\ t.port \in PinnedPorts /\ h.hosts = <<t>>
      BY DEF Conforms
    <2>2. h.hosts = <<t>> => Len(h.hosts) = 1
      BY Len(<<t>>) = 1
    <2>3. h.hosts = <<t>> /\ h.version = "1.1" => (Unambiguous(h) <=> h.line = "ok" /\ h.fields = "ok")
      BY <2>2 DEF Unambiguous
    <2> QED  BY <2>1, <2>3
  <1>12. h.version # "1.0"
    BY DEF Deviates
  <1>6. /\ k \in Nat /\ (h.hosts = <<>> <=> k = 0)
        /\ k = 1 => (h.hosts = <<t>> <=> Head(h.hosts) = t)
        /\ h.hosts = <<t>> => k = 1
    <2>1. /\ k \in Nat /\ (h.hosts = <<>> <=> k = 0)
          /\ k = 1 => (h.hosts = <<t>> <=> Head(h.hosts) = t)
      BY DEF IsHead
    <2>2. Len(<<t>>) = 1
      OBVIOUS
    <2>3. h.hosts = <<t>> => k = 1
      BY <2>2
    <2> QED  BY <2>1, <2>3
  <1>7. t.port \in PinnedPorts => t.port \in 1 .. MaxPort
    BY HeadAssumption
  <1> HIDE DEF c, v, t, k
  <1>8. \/ FirstFailure(c) = Absent /\ \A i \in 1 .. 12 : ~c[i].fails
        \/ FirstFailure(c) \in Refusals /\ FirstFailure(c) # Absent /\ \E i \in 1 .. 12 : c[i].fails
    <2>1. \A i \in 1 .. 12 : c[i].result \in Refusals
      BY <1>2
    <2> QED  BY <1>1, <2>1, FirstFailureFacts
  <1>9. (\A i \in 1 .. 12 : ~c[i].fails) <=> Conforms(h)
    <2>1. (\A i \in 1 .. 12 : ~f(i)) <=>
            /\ ~f(1) /\ ~f(2) /\ ~f(3) /\ ~f(4) /\ ~f(5) /\ ~f(6)
            /\ ~f(7) /\ ~f(8) /\ ~f(9) /\ ~f(10) /\ ~f(11) /\ ~f(12)
      <3> HIDE DEF f
      <3> QED  OBVIOUS
    <2> HIDE DEF f
    <2>2. ~f(1) /\ ~f(2) /\ ~f(3) /\ ~f(4) /\ ~f(6) <=>
            /\ h.line = "ok" /\ h.fields = "ok" /\ h.version = "1.1" /\ h.method = "CONNECT"
      BY <1>3, <1>12
    <2>3. ~f(8) /\ ~f(9) /\ ~f(10) /\ ~f(12) <=>
            t # Absent /\ t.host \in LoopbackTexts /\ t.port \in PinnedPorts
      BY <1>3, <1>7
    <2>4. h.version = "1.1" => (~f(5) /\ ~f(7) /\ ~f(11) <=> h.hosts = <<t>>)
      <3>1. k = 0 => (h.version = "1.1" => f(7)) /\ h.hosts # <<t>>
        BY <1>3, <1>6
      <3>2. k = 1 => (~f(5) /\ ~f(7) /\ (~f(11) <=> h.hosts = <<t>>))
        <4>1. k = 1 => h.hosts # <<>>
          BY <1>6
        <4>2. k = 1 => (h.hosts = <<t>> <=> Head(h.hosts) = t)
          BY <1>6
        <4>3. k = 1 => ~(k > 1)
          OBVIOUS
        <4> QED  BY <1>3, <4>1, <4>2, <4>3
      <3>3. k > 1 => f(5) /\ h.hosts # <<t>>
        BY <1>3, <1>6
      <3>4. k = 0 \/ k = 1 \/ k > 1
        BY <1>6
      <3> QED  BY <3>1, <3>2, <3>3, <3>4
    <2>5. (\A i \in 1 .. 12 : ~f(i)) <=> Conforms(h)
      BY <1>5, <2>1, <2>2, <2>3, <2>4
    <2> QED  BY <2>5 DEF f
  <1>10. CASE FirstFailure(c) = Absent /\ \A i \in 1 .. 12 : ~c[i].fails
    <2>1. v = Asks("tcp", t.host, t.port)
      BY <1>4, <1>10
    <2>2. v.reason = NoReason
      BY <2>1, AsksFacts
    <2> QED  BY <1>9, <1>10, <2>2 DEF HeadOutcome, v
  <1>11. CASE FirstFailure(c) \in Refusals /\ FirstFailure(c) # Absent /\ \E i \in 1 .. 12 : c[i].fails
    <2>1. ~Conforms(h)
      BY <1>9, <1>11
    <2>2. v \in Refusals
      BY <1>4, <1>11
    <2> QED  BY <2>1, <2>2 DEF HeadOutcome, v
  <1> QED  BY <1>8, <1>10, <1>11

\* Every head, on every wire.
LEMMA ParseFacts ==
    ASSUME NEW r, IsHead(r.head), ~Deviates(r.head)
    PROVE  HeadOutcome(r, Parse(r.head))
  <1>1. r.head.wire \in {"h1", "h2", "ingress"}
    BY DEF IsHead
  <1>2. CASE r.head.wire = "h1"
    BY <1>2, H1Facts DEF Parse
  <1>3. CASE r.head.wire = "h2"
    BY <1>3, H2Facts DEF Parse
  <1>4. CASE r.head.wire = "ingress"
    BY <1>4, IngressFacts DEF Parse
  <1> QED  BY <1>1, <1>2, <1>3, <1>4

-----------------------------------------------------------------------------
(* Decisions *)

\* The verdict of the boundary, and of the ingress channel.
BoundaryVerdict(p, r) ==
    LET named == Parse(r.head) IN
    IF named.reason # NoReason THEN Denied(named.status, named.reason)
    ELSE IF named.network = "udp" /\ ~p.udp THEN Denied(403, "udp-disabled")
    ELSE authorize(p, named.host, named.port, named.network, r.answer)

IngressVerdict(r) ==
    LET named == Parse(r.head) IN
    IF named.reason # NoReason THEN Denied(named.status, named.reason)
    ELSE [Denied(200, NoReason) EXCEPT !.addresses = <<named.host.addr>>]

\* The policy is that of the descriptor, and a verdict the one of its request.
CheckInv ==
    /\ policy # Absent => loaded \in Loadable /\ policy = loadDescriptor(loaded)
    /\ verdict # Absent =>
        /\ request \in HeadRequests
        /\ \/ request.head.wire # "ingress" /\ policy # Absent /\ verdict = BoundaryVerdict(policy, request)
           \/ request.head.wire = "ingress" /\ verdict = IngressVerdict(request)

\* The invariant holds in every state.
LEMMA CheckInvariance == CheckSpec => []CheckInv
  <1>1. CheckInit => CheckInv
    BY DEF CheckInit, CheckInv
  <1>2. CheckInv /\ [CheckNext]_checkVars => CheckInv'
    <2> SUFFICES ASSUME CheckInv, [CheckNext]_checkVars PROVE CheckInv'
      OBVIOUS
    <2>1. ASSUME NEW d \in Loadable, Load(d) PROVE CheckInv'
      <3>1. verdict = Absent
        BY <2>1, CheckAssumption DEF CheckInv, Load
      <3> QED  BY <2>1, <3>1 DEF CheckInv, Load
    <2>2. ASSUME NEW r \in HeadRequests, Decide(r) PROVE CheckInv'
      <3>1. /\ policy # Absent /\ r.head.wire # "ingress" /\ request' = r
            /\ verdict' = BoundaryVerdict(policy, r) /\ UNCHANGED <<loaded, policy>>
        BY <2>2 DEF Decide, BoundaryVerdict
      <3> QED  BY <3>1 DEF CheckInv, BoundaryVerdict
    <2>3. ASSUME NEW r \in HeadRequests, DecideIngress(r) PROVE CheckInv'
      <3>1. /\ r.head.wire = "ingress" /\ request' = r
            /\ verdict' = IngressVerdict(r) /\ UNCHANGED <<loaded, policy>>
        BY <2>3 DEF DecideIngress, IngressVerdict
      <3> QED  BY <3>1 DEF CheckInv, IngressVerdict
    <2>4. CASE UNCHANGED checkVars
      BY <2>4 DEF checkVars, CheckInv, BoundaryVerdict, IngressVerdict
    <2> QED  BY <2>1, <2>2, <2>3, <2>4 DEF CheckNext
  <1> QED  BY <1>1, <1>2, PTL DEF CheckSpec

\* A policy that is loaded in the model has the shape the lemmas ask for.
LEMMA LoadableFacts ==
    ASSUME NEW d \in Loadable, loadDescriptor(d) # Absent
    PROVE  LoadsAs(d, loadDescriptor(d))
  <1>1. PICK n \in 0 .. MaxRules : d.rules \in [1 .. n -> RuleEntries]
    BY DEF Loadable
  <1>2. PICK m \in 0 .. MaxExceptions : d.resolved \in [1 .. m -> ExceptionEntries]
    BY DEF Loadable
  <1>3. n \in Nat /\ m \in Nat
    BY CheckAssumption
  <1>4. d.rules \in Seq(Range(d.rules)) /\ \A dr \in Range(d.rules) : dr \in RuleEntries
    BY <1>1, <1>3 DEF Range
  <1>5. d.resolved \in Seq(Range(d.resolved))
    BY <1>2, <1>3 DEF Range
  <1> QED  BY <1>4, <1>5, CheckAssumption DEF LoadsAs

\* A verdict of the boundary for a conforming request: refused for a dot, or for
\* UDP, or what the rules say of its destination.
LEMMA DecidedFacts ==
    ASSUME CheckInv, Decided
    PROVE  LET r == Destination(request) IN
           /\ LoadsAs(loaded, policy) /\ policy.udp = loaded.udp
           /\ \/ verdict = Denied(400, "authority-mismatch") /\ ~WellFormed(r) /\ r.network = "tcp"
              \/ verdict = Denied(403, "udp-disabled") /\ r.network = "udp" /\ ~loaded.udp
              \/ /\ ~(r.network = "udp" /\ ~loaded.udp)
                 /\ IF WellFormed(r) THEN verdict.status = 403 /\ Outcome(loaded, r, verdict)
                    ELSE /\ verdict.reason \in {"malformed-port", "malformed-target", "scoped-ip"}
                         /\ verdict.addresses = <<>> /\ ~verdict.err /\ verdict.status \in {400, 403}
  <1> DEFINE r == Destination(request)
             v == Parse(request.head)
  <1>1. /\ verdict # Absent /\ request \in HeadRequests /\ request.head.wire # "ingress"
        /\ Conforms(request.head) /\ ~Deviates(request.head) /\ policy # Absent
        /\ verdict = BoundaryVerdict(policy, request) /\ loaded \in Loadable
        /\ policy = loadDescriptor(loaded)
    BY DEF CheckInv, Decided
  <1>2. LoadsAs(loaded, policy) /\ policy.udp = loaded.udp
    BY <1>1, LoadableFacts, LoadFacts
  <1>3. IsHead(request.head) /\ IsAnswer(request.answer)
    BY <1>1, CheckAssumption
  <1>4. HeadOutcome(request, v)
    BY <1>1, <1>3, ParseFacts
  <1>5. \/ v.reason = NoReason /\ v = Asks(r.network, r.host, r.port)
        \/ v = Refused(400, "authority-mismatch") /\ ~WellFormed(r) /\ r.network = "tcp"
    BY <1>1, <1>4 DEF HeadOutcome
  <1>6. IsText(r.host) /\ r.answer = request.answer
    <2>1. request.head.target # Absent
      BY <1>1 DEF Conforms
    <2>2. IsText(request.head.target.host)
      BY <1>3, <2>1 DEF IsHead
    <2>3. IsText([kind |-> "bad"])
      BY DEF IsText
    <2>4. r.host = request.head.target.host \/ r.host = [kind |-> "bad"]
      BY DEF Destination, Decoded
    <2>5. r.answer = request.answer
      BY DEF Destination
    <2> HIDE DEF r
    <2> QED  BY <2>2, <2>3, <2>4, <2>5
  <1>7. verdict = IF v.reason # NoReason THEN Denied(v.status, v.reason)
                  ELSE IF v.network = "udp" /\ ~policy.udp THEN Denied(403, "udp-disabled")
                  ELSE authorize(policy, v.host, v.port, v.network, request.answer)
    BY <1>1 DEF BoundaryVerdict
  <1> HIDE DEF v, r
  <1>8. CASE v = Refused(400, "authority-mismatch") /\ ~WellFormed(r) /\ r.network = "tcp"
    <2>1. v.status = 400 /\ v.reason = "authority-mismatch"
      BY <1>8 DEF Refused
    <2>2. v.reason # NoReason
      BY <1>8, RefusalFacts DEF HeadReasons
    <2>3. verdict = Denied(400, "authority-mismatch")
      BY <1>7, <2>1, <2>2
    <2> QED  BY <1>2, <1>8, <2>3 DEF r
  <1>9. CASE v.reason = NoReason /\ v = Asks(r.network, r.host, r.port)
    <2>1. v.network = r.network /\ v.host = r.host /\ v.port = r.port
      BY <1>9, AsksFacts
    <2>2. CASE r.network = "udp" /\ ~loaded.udp
      <3>1. verdict = Denied(403, "udp-disabled")
        BY <1>2, <1>7, <1>9, <2>1, <2>2
      <3> QED  BY <1>2, <2>2, <3>1 DEF r
    <2>3. CASE ~(r.network = "udp" /\ ~loaded.udp)
      <3>1. verdict = authorize(policy, r.host, r.port, r.network, r.answer)
        BY <1>2, <1>6, <1>7, <1>9, <2>1, <2>3
      <3>2. IF WellFormed(r) THEN verdict.status = 403 /\ Outcome(loaded, r, verdict)
            ELSE /\ verdict.reason \in {"malformed-port", "malformed-target", "scoped-ip"}
                 /\ verdict.addresses = <<>> /\ ~verdict.err /\ verdict.status \in {400, 403}
        BY <1>2, <1>3, <1>6, <3>1, AuthorizeFacts
      <3> QED  BY <1>2, <2>3, <3>2 DEF r
    <2> QED  BY <2>2, <2>3
  <1> QED  BY <1>5, <1>8, <1>9

\* The fields of a refusal.
LEMMA DeniedFacts ==
    ASSUME NEW v, NEW status, NEW reason, v = Denied(status, reason)
    PROVE  /\ v.status = status /\ v.reason = reason
           /\ reason # NoReason => ~Allows(v)
  BY DEF Denied, Allows

-----------------------------------------------------------------------------

\* authorize: every address an allowed request may dial is one that a single
\* rule of the descriptor permits and admits for it, for every descriptor and
\* every answer of the resolver.
THEOREM PolicyAllowsByARule == CheckSpec => []AllowedByARule
  <1>1. CheckInv => AllowedByARule
    <2> SUFFICES ASSUME CheckInv, Decided, Allows(verdict)
                 PROVE  \E dr \in Permitting(loaded, Destination(request)) :
                            Range(verdict.addresses) \subseteq Admitted(loaded, dr, Destination(request))
      BY DEF AllowedByARule
    <2> DEFINE r == Destination(request)
    <2>1. verdict.reason = NoReason /\ ~verdict.err
      BY DEF Allows
    <2>2. verdict # Denied(400, "authority-mismatch") /\ verdict # Denied(403, "udp-disabled")
      <3>1. NoReason # "authority-mismatch" /\ NoReason # "udp-disabled"
        BY Zenon DEF NoReason
      <3>2. verdict = Denied(400, "authority-mismatch") => verdict.reason = "authority-mismatch"
        BY DeniedFacts
      <3>3. verdict = Denied(403, "udp-disabled") => verdict.reason = "udp-disabled"
        BY DeniedFacts
      <3> QED  BY <2>1, <3>1, <3>2, <3>3
    <2>3. WellFormed(r) /\ Outcome(loaded, r, verdict)
      BY <2>1, <2>2, DecidedFacts, ReasonFacts
    <2>4. ExpectedReason(loaded, r) # NoReason
      BY ReasonFacts DEF ExpectedReason
    <2> HIDE DEF r
    <2>5. PICK dr \in Permitting(loaded, r) : Range(verdict.addresses) = Admitted(loaded, dr, r)
      BY <2>1, <2>3, <2>4, ReasonFacts DEF Outcome
    <2> QED  BY <2>5 DEF r
  <1> QED  BY <1>1, CheckInvariance, PTL

\* authorize and connectUpstream: a request that no rule permits is refused
\* with the reason the rules imply, whatever their order and their number.
THEOREM PolicyRefusesAsSpecified == CheckSpec => []RefusedAsSpecified
  <1>1. CheckInv => RefusedAsSpecified
    <2> SUFFICES ASSUME CheckInv, Decided PROVE RefusedAsSpecified
      BY DEF RefusedAsSpecified
    <2> DEFINE r == Destination(request)
               Goal == IF r.network = "udp" /\ ~loaded.udp THEN verdict.reason = "udp-disabled"
                       ELSE IF ~WellFormed(r)
                       THEN verdict.reason \in {"malformed-port", "malformed-target", "scoped-ip",
                                                "authority-mismatch"}
                       ELSE Permitting(loaded, r) = {} <=> verdict.reason = ExpectedReason(loaded, r)
    <2>1. Goal => RefusedAsSpecified
      BY DEF RefusedAsSpecified
    <2>2. \/ verdict = Denied(400, "authority-mismatch") /\ ~WellFormed(r) /\ r.network = "tcp"
          \/ verdict = Denied(403, "udp-disabled") /\ r.network = "udp" /\ ~loaded.udp
          \/ /\ ~(r.network = "udp" /\ ~loaded.udp)
             /\ IF WellFormed(r) THEN Outcome(loaded, r, verdict)
                ELSE verdict.reason \in {"malformed-port", "malformed-target", "scoped-ip"}
      BY DecidedFacts
    <2>3. ExpectedReason(loaded, r) \in {"transport-not-allowed", "port-not-allowed",
                                         "ip-not-on-allowlist", "not-on-allowlist"}
      BY DEF ExpectedReason
    <2>4. ExpectedReason(loaded, r) # NoReason /\ ExpectedReason(loaded, r) # "resolved-address-denied"
      BY <2>3, ReasonFacts
    <2> HIDE DEF r
    <2>5. CASE verdict = Denied(400, "authority-mismatch") /\ ~WellFormed(r) /\ r.network = "tcp"
      <3>1. verdict.reason = "authority-mismatch"
        BY <2>5, DeniedFacts
      <3> QED  BY <2>1, <2>5, <3>1
    <2>6. CASE verdict = Denied(403, "udp-disabled") /\ r.network = "udp" /\ ~loaded.udp
      <3>1. verdict.reason = "udp-disabled"
        BY <2>6, DeniedFacts
      <3> QED  BY <2>1, <2>6, <3>1
    <2>7. CASE ~(r.network = "udp" /\ ~loaded.udp) /\ WellFormed(r) /\ Outcome(loaded, r, verdict)
      <3>1. Permitting(loaded, r) = {} <=> verdict.reason = ExpectedReason(loaded, r)
        BY <2>4, <2>7 DEF Outcome
      <3> QED  BY <2>1, <2>7, <3>1
    <2>8. CASE /\ ~(r.network = "udp" /\ ~loaded.udp) /\ ~WellFormed(r)
               /\ verdict.reason \in {"malformed-port", "malformed-target", "scoped-ip"}
      BY <2>1, <2>8
    <2> QED  BY <2>2, <2>5, <2>6, <2>7, <2>8
  <1> QED  BY <1>1, CheckInvariance, PTL

\* authorize: a request is allowed when each rule that permits it admits an
\* address for it; no rule is overlooked.
THEOREM PolicyAllowsWhenAllAdmit == CheckSpec => []AllowedWhenAllAdmit
  <1>1. CheckInv => AllowedWhenAllAdmit
    <2> DEFINE r == Destination(request)
    <2> SUFFICES ASSUME CheckInv, Decided, WellFormed(r), r.network = "udp" => loaded.udp,
                        Permitting(loaded, r) # {},
                        \A dr \in Permitting(loaded, r) : Admitted(loaded, dr, r) # {}
                 PROVE  Allows(verdict)
      BY DEF AllowedWhenAllAdmit
    <2>1. Outcome(loaded, r, verdict)
      BY DecidedFacts
    <2> HIDE DEF r
    <2>2. verdict.reason = NoReason /\ ~verdict.err
      BY <2>1 DEF Outcome
    <2> QED  BY <2>2 DEF Allows
  <1> QED  BY <1>1, CheckInvariance, PTL

\* readHead, connectTarget, upgradeTarget, serveH2 and ingressTarget: of all the
\* heads but those that Deviates lists, exactly the ones that conform to wire.md
\* and ingress.md get past them, on each wire.
THEOREM HeadsAreCheckedAlways == CheckSpec => []HeadsAreChecked
  <1>1. CheckInv => HeadsAreChecked
    <2> SUFFICES ASSUME CheckInv, verdict # Absent, ~Deviates(request.head) PROVE HeadsAreChecked
      BY DEF HeadsAreChecked
    <2> DEFINE h == request.head
               v == Parse(h)
    <2>1. request \in HeadRequests
      BY DEF CheckInv
    <2>2. HeadOutcome(request, v) /\ IsHead(h)
      BY <2>1, CheckAssumption, ParseFacts
    <2>3. CASE ~Conforms(h)
      <3>1. v \in Refusals
        BY <2>2, <2>3 DEF HeadOutcome
      <3>2. v.reason # NoReason
        BY <3>1, RefusalFacts
      <3>3. verdict = Denied(v.status, v.reason)
        BY <3>2 DEF CheckInv, BoundaryVerdict, IngressVerdict
      <3> HIDE DEF v
      <3>4. ~Allows(verdict) /\ verdict.status = v.status /\ verdict.reason = v.reason
        BY <3>2, <3>3, DeniedFacts
      <3>5. v.status \in {0, 400, 403, 405, 431, 505} /\ (v.status = 403 => v.reason = "port-not-permitted")
        BY <3>1 DEF Refusals
      <3> QED  BY <2>3, <3>4, <3>5 DEF HeadsAreChecked
    <2>4. CASE Conforms(h) /\ h.wire = "ingress"
      <3>1. v.reason = NoReason
        BY <2>2, <2>4 DEF HeadOutcome
      <3>2. verdict = [Denied(200, NoReason) EXCEPT !.addresses = <<v.host.addr>>]
        BY <2>4, <3>1 DEF CheckInv, IngressVerdict
      <3> HIDE DEF v
      <3>3. verdict.status = 200 /\ verdict.reason = NoReason /\ ~verdict.err
        BY <3>2 DEF Denied
      <3> QED  BY <2>4, <3>3 DEF HeadsAreChecked, Allows
    <2>5. CASE Conforms(h) /\ h.wire # "ingress"
      <3>1. Decided
        BY <2>5 DEF Decided
      <3>2. /\ verdict.status \in {200, 403, 400}
            /\ verdict.status = 400 => ~WellFormed(Destination(request))
        <4> DEFINE r == Destination(request)
        <4>1. \/ verdict = Denied(400, "authority-mismatch") /\ ~WellFormed(r)
              \/ verdict = Denied(403, "udp-disabled")
              \/ IF WellFormed(r) THEN verdict.status = 403 ELSE verdict.status \in {400, 403}
          BY <3>1, DecidedFacts
        <4> HIDE DEF r
        <4>2. verdict = Denied(400, "authority-mismatch") => verdict.status = 400
          BY DeniedFacts
        <4>3. verdict = Denied(403, "udp-disabled") => verdict.status = 403
          BY DeniedFacts
        <4> QED  BY <4>1, <4>2, <4>3 DEF r
      <3> QED  BY <2>5, <3>2 DEF HeadsAreChecked
    <2> QED  BY <2>3, <2>4, <2>5
  <1> QED  BY <1>1, CheckInvariance, PTL
=============================================================================
