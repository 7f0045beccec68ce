-------------------------- MODULE VirtualDNSProofs --------------------------
(***************************************************************************)
(* The resolver's safety properties, for pools, memories and name sets of  *)
(* any size.                                                               *)
(***************************************************************************)
EXTENDS VirtualDNS, SequenceTheorems, TLAPS

-----------------------------------------------------------------------------
(* Addresses and bindings *)

\* An address is determined by its family and its offset.
LEMMA AddrFacts ==
    /\ \A a \in Addrs : /\ a.fam \in Families
                        /\ a.off \in Nat
                        /\ a = [fam |-> a.fam, off |-> a.off]
    /\ \A f \in Families, k \in Nat :
          k < PoolSize[f] => [fam |-> f, off |-> k] \in Addrs
<1>1. ASSUME NEW a \in Addrs
      PROVE  a.fam \in Families /\ a.off \in Nat /\ a = [fam |-> a.fam, off |-> a.off]
  <2>1. PICK f \in Families : a \in [fam : {f}, off : 0 .. PoolSize[f] - 1]
    BY DEF Addrs
  <2>2. PoolSize[f] \in Nat
    BY SizesAssumption
  <2>3. QED
    BY <2>1, <2>2
<1>2. ASSUME NEW f \in Families, NEW k \in Nat, k < PoolSize[f]
      PROVE  [fam |-> f, off |-> k] \in Addrs
  <2>1. k \in 0 .. PoolSize[f] - 1
    BY <1>2, SizesAssumption
  <2>2. [fam |-> f, off |-> k] \in [fam : {f}, off : 0 .. PoolSize[f] - 1]
    BY <2>1
  <2>3. QED
    BY <2>2 DEF Addrs
<1>3. QED
  BY <1>1, <1>2

\* The fields of an element.
LEMMA BindingFacts ==
    \A b \in Binding : b.name \in Names /\ b.addr \in Addrs /\ b # Nil
BY NilAssumption DEF Binding

-----------------------------------------------------------------------------
(* The list operations *)

\* A list as a function, and its set of elements.
LEMMA ListFacts ==
    ASSUME NEW S, NEW s \in Seq(S)
    PROVE  /\ Len(s) \in Nat
           /\ DOMAIN s = 1 .. Len(s)
           /\ \A j \in 1 .. Len(s) : s[j] \in S
           /\ Range(s) = {s[j] : j \in 1 .. Len(s)}
           /\ Range(s) \subseteq S
           /\ IsInjective(s) <=> \A i, j \in 1 .. Len(s) : s[i] = s[j] => i = j
<1>1. Len(s) \in Nat /\ DOMAIN s = 1 .. Len(s)
  BY LenProperties
<1>2. \A j \in 1 .. Len(s) : s[j] \in S
  BY ElementOfSeq
<1>3. Range(s) = {s[j] : j \in 1 .. Len(s)} /\ Range(s) \subseteq S
  BY RangeEquality, RangeOfSeq
<1>4. QED
  BY <1>1, <1>2, <1>3 DEF IsInjective

\* A function on an initial segment of the positive integers is a list.
LEMMA FunctionIsList ==
    ASSUME NEW S, NEW n \in Nat, NEW s \in [1 .. n -> S]
    PROVE  s \in Seq(S) /\ Len(s) = n
<1>1. s \in Seq(S)
  OBVIOUS
<1>2. QED
  BY <1>1, LenProperties

\* MoveToFront permutes the list; a pair of elements changes its order only
\* when the moved element comes before the other one.
LEMMA MoveToFrontFacts ==
    ASSUME NEW S, NEW s \in Seq(S), NEW e \in Range(s), IsInjective(s)
    PROVE  /\ MoveToFront(s, e) \in Seq(S)
           /\ Len(MoveToFront(s, e)) = Len(s)
           /\ Range(MoveToFront(s, e)) = Range(s)
           /\ IsInjective(MoveToFront(s, e))
           /\ \A x, y : Before(MoveToFront(s, e), x, y)
                         => y # e /\ (x = e \/ Before(s, x, y))
<1> DEFINE k == IndexOf(s, e)
           t == MoveToFront(s, e)
           old(j) == IF j = 1 THEN k ELSE IF j <= k THEN j - 1 ELSE j
           new(j) == IF j = k THEN 1 ELSE IF j < k THEN j + 1 ELSE j
<1>1. /\ Len(s) \in Nat
      /\ \A j \in 1 .. Len(s) : s[j] \in S
      /\ \A i, j \in 1 .. Len(s) : s[i] = s[j] => i = j
      /\ Range(s) = {s[j] : j \in 1 .. Len(s)}
  BY ListFacts
<1>2. k \in 1 .. Len(s) /\ s[k] = e
  BY <1>1 DEF IndexOf
<1>3. t = [j \in 1 .. Len(s) |-> IF j = 1 THEN s[k]
                                 ELSE IF j <= k THEN s[j - 1] ELSE s[j]]
  BY DEF MoveToFront, Promoted
<1> HIDE DEF k, t
<1>4. \A j \in 1 .. Len(s) : old(j) \in 1 .. Len(s) /\ t[j] = s[old(j)]
  BY <1>1, <1>2, <1>3
<1>5. t \in [1 .. Len(s) -> S]
  BY <1>1, <1>3, <1>4
<1>6. t \in Seq(S) /\ Len(t) = Len(s)
  BY <1>1, <1>5, FunctionIsList
<1>7. \A j \in 1 .. Len(s) : new(j) \in 1 .. Len(s) /\ old(new(j)) = j
  BY <1>1, <1>2
<1>8. \A i, j \in 1 .. Len(s) : old(i) = old(j) => i = j
  BY <1>1, <1>2
<1>o. \A i, j \in 1 .. Len(s) : i < j => old(j) # k /\ (i = 1 \/ old(i) < old(j))
  BY <1>1, <1>2
<1>f. old(1) = k
  OBVIOUS
<1> HIDE DEF old, new
<1>9. Range(t) = {t[j] : j \in 1 .. Len(s)}
  BY <1>6, ListFacts
<1>10. Range(t) = Range(s)
  <2>1. Range(t) \subseteq Range(s)
    BY <1>1, <1>4, <1>9
  <2>2. \A j \in 1 .. Len(s) : s[j] = t[new(j)]
    BY <1>4, <1>7
  <2>3. Range(s) \subseteq Range(t)
    BY <1>1, <1>7, <1>9, <2>2
  <2>4. QED
    BY <2>1, <2>3
<1>11. IsInjective(t)
  <2>1. \A i, j \in 1 .. Len(s) : t[i] = t[j] => i = j
    BY <1>1, <1>4, <1>8
  <2>2. QED
    BY <1>6, <2>1, ListFacts
<1>12. ASSUME NEW x, NEW y, Before(t, x, y)
       PROVE  y # e /\ (x = e \/ Before(s, x, y))
  <2>1. PICK i \in 1 .. Len(s), j \in 1 .. Len(s) : i < j /\ t[i] = x /\ t[j] = y
    BY <1>6, <1>12 DEF Before
  <2>2. /\ old(i) \in 1 .. Len(s) /\ s[old(i)] = x
        /\ old(j) \in 1 .. Len(s) /\ s[old(j)] = y
        /\ old(j) # k /\ (i = 1 \/ old(i) < old(j))
    BY <1>4, <1>o, <2>1
  <2>3. y # e
    BY <1>1, <1>2, <2>2
  <2>4. i = 1 => x = e
    BY <1>2, <1>f, <2>2
  <2>5. old(i) < old(j) => Before(s, x, y)
    BY <2>2 DEF Before
  <2>6. QED
    BY <2>2, <2>3, <2>4, <2>5
<1>13. QED
  BY <1>6, <1>10, <1>11, <1>12 DEF t

\* PushFront puts a new element before all the others.
LEMMA PushFrontFacts ==
    ASSUME NEW S, NEW s \in Seq(S), NEW e \in S, IsInjective(s), e \notin Range(s)
    PROVE  /\ PushFront(s, e) \in Seq(S)
           /\ Len(PushFront(s, e)) = Len(s) + 1
           /\ Range(PushFront(s, e)) = Range(s) \cup {e}
           /\ IsInjective(PushFront(s, e))
           /\ \A x, y : Before(PushFront(s, e), x, y)
                         => (x = e /\ y \in Range(s)) \/ Before(s, x, y)
<1> DEFINE t == PushFront(s, e)
<1>1. /\ Len(s) \in Nat
      /\ \A j \in 1 .. Len(s) : s[j] \in S
      /\ \A i, j \in 1 .. Len(s) : s[i] = s[j] => i = j
      /\ Range(s) = {s[j] : j \in 1 .. Len(s)}
  BY ListFacts
<1>2. t = [j \in 1 .. Len(s) + 1 |-> IF j = 1 THEN e ELSE s[j - 1]]
  BY DEF PushFront
<1> HIDE DEF t
<1>3. /\ t[1] = e
      /\ \A j \in 2 .. Len(s) + 1 : t[j] = s[j - 1] /\ j - 1 \in 1 .. Len(s)
      /\ \A j \in 1 .. Len(s) : s[j] = t[j + 1] /\ j + 1 \in 1 .. Len(s) + 1
  BY <1>1, <1>2
<1>4. t \in [1 .. Len(s) + 1 -> S]
  BY <1>1, <1>2
<1>5. t \in Seq(S) /\ Len(t) = Len(s) + 1
  BY <1>1, <1>4, FunctionIsList
<1>6. Range(t) = {t[j] : j \in 1 .. Len(s) + 1}
  BY <1>5, ListFacts
<1>7. Range(t) = Range(s) \cup {e}
  <2>1. \A j \in 1 .. Len(s) + 1 : j = 1 \/ j \in 2 .. Len(s) + 1
    BY <1>1
  <2>2. Range(t) \subseteq Range(s) \cup {e}
    BY <1>1, <1>3, <1>6, <2>1
  <2>3. Range(s) \subseteq Range(t)
    BY <1>1, <1>3, <1>6
  <2>4. e \in Range(t)
    BY <1>1, <1>3, <1>6
  <2>5. QED
    BY <2>2, <2>3, <2>4
<1>8. IsInjective(t)
  <2>1. \A j \in 2 .. Len(s) + 1 : t[j] # e
    BY <1>1, <1>3
  <2>2. \A i, j \in 2 .. Len(s) + 1 : t[i] = t[j] => i = j
    BY <1>1, <1>3
  <2>3. \A i, j \in 1 .. Len(s) + 1 : t[i] = t[j] => i = j
    BY <1>1, <1>3, <2>1, <2>2
  <2>4. QED
    BY <1>5, <2>3, ListFacts
<1>9. ASSUME NEW x, NEW y, Before(t, x, y)
      PROVE  (x = e /\ y \in Range(s)) \/ Before(s, x, y)
  <2>1. PICK i \in 1 .. Len(s) + 1, j \in 1 .. Len(s) + 1 :
            i < j /\ t[i] = x /\ t[j] = y
    BY <1>5, <1>9 DEF Before
  <2>2. j \in 2 .. Len(s) + 1 /\ j - 1 \in 1 .. Len(s) /\ s[j - 1] = y
    BY <1>1, <1>3, <2>1
  <2>3. CASE i = 1
    BY <1>1, <1>3, <2>1, <2>2, <2>3
  <2>4. CASE i # 1
    <3>1. i - 1 \in 1 .. Len(s) /\ s[i - 1] = x /\ i - 1 < j - 1
      BY <1>1, <1>3, <2>1, <2>4
    <3>2. QED
      BY <2>2, <3>1 DEF Before
  <2>5. QED
    BY <2>3, <2>4
<1>10. QED
  BY <1>5, <1>7, <1>8, <1>9 DEF t

\* DropBack removes the element that all the others come before.
LEMMA DropBackFacts ==
    ASSUME NEW S, NEW s \in Seq(S), IsInjective(s), Len(s) > 0
    PROVE  /\ DropBack(s) \in Seq(S)
           /\ Len(DropBack(s)) = Len(s) - 1
           /\ s[Len(s)] \in Range(s)
           /\ Range(DropBack(s)) = Range(s) \ {s[Len(s)]}
           /\ IsInjective(DropBack(s))
           /\ \A x, y : Before(DropBack(s), x, y) => Before(s, x, y)
           /\ \A x \in Range(DropBack(s)) : Before(s, x, s[Len(s)])
<1> DEFINE t == DropBack(s)
           n == Len(s) - 1
<1>1. /\ Len(s) \in Nat
      /\ \A j \in 1 .. Len(s) : s[j] \in S
      /\ \A i, j \in 1 .. Len(s) : s[i] = s[j] => i = j
      /\ Range(s) = {s[j] : j \in 1 .. Len(s)}
  BY ListFacts
<1>2. /\ n \in Nat /\ n + 1 = Len(s)
      /\ t = [j \in 1 .. n |-> s[j]]
      /\ \A j \in 1 .. n : j \in 1 .. Len(s) /\ j < Len(s)
      /\ \A j \in 1 .. Len(s) : j \in 1 .. n \/ j = Len(s)
      /\ Len(s) \in 1 .. Len(s)
  BY <1>1 DEF DropBack
<1> HIDE DEF t, n
<1>3. t \in [1 .. n -> S] /\ \A j \in 1 .. n : t[j] = s[j]
  BY <1>1, <1>2
<1>4. t \in Seq(S) /\ Len(t) = n
  BY <1>2, <1>3, FunctionIsList
<1>5. Range(t) = {s[j] : j \in 1 .. n}
  BY <1>3, <1>4, ListFacts
<1>6. Range(t) = Range(s) \ {s[Len(s)]} /\ s[Len(s)] \in Range(s)
  BY <1>1, <1>2, <1>5
<1>7. IsInjective(t)
  <2>1. \A i, j \in 1 .. n : t[i] = t[j] => i = j
    BY <1>1, <1>2, <1>3
  <2>2. QED
    BY <1>4, <2>1, ListFacts
<1>8. \A x, y : Before(t, x, y) => Before(s, x, y)
  BY <1>2, <1>3, <1>4 DEF Before
<1>9. \A x \in Range(t) : Before(s, x, s[Len(s)])
  BY <1>2, <1>5 DEF Before
<1>10. QED
  BY <1>4, <1>6, <1>7, <1>8, <1>9 DEF t, n

-----------------------------------------------------------------------------
(* The inductive invariant *)

\* StaleFailsClosed holds of the next address only because no address beyond
\* `last` was issued; LeastRecentForgotten survives an eviction only because
\* the back of the list is the stalest remembered name.
IInv ==
    /\ TypeOK
    /\ IndicesAgree
    /\ StaleFailsClosed
    /\ IssuedUpToLast
    /\ OrderedByUse
    /\ LeastRecentForgotten

\* What a hit does, from resolve or from Reverse: element e of family f moves
\* to the front.
Use(f, e) ==
    /\ order' = [order EXCEPT ![f] = MoveToFront(@, e)]
    /\ Freshen(f, e.name)
    /\ UNCHANGED <<last, names, reverse, issued>>

\* The empty resolver that NewVirtualDNS returns satisfies the inductive
\* invariant.
LEMMA InitIInv == Init => IInv
<1> SUFFICES ASSUME Init PROVE IInv
  OBVIOUS
<1>1. TypeOK
  <2>1. \A f \in Families : 0 < Reserved[f]
    BY SizesAssumption
  <2>2. order \in [Families -> Seq(Binding)]
    BY EmptySeq DEF Init
  <2>3. reply \in Replies
    BY DEF Init, Replies
  <2>4. QED
    BY <2>1, <2>2, <2>3 DEF Init, TypeOK
<1>2. \A f \in Families :
         order[f] = <<>> /\ Len(order[f]) = 0 /\ IsInjective(order[f]) /\ Range(order[f]) = {}
  BY DEF Init, IsInjective, Range
<1>i. IndicesAgree
  BY <1>2, SizesAssumption DEF Init, IndicesAgree
<1>3. StaleFailsClosed /\ IssuedUpToLast /\ OrderedByUse
  BY <1>2 DEF Init, StaleFailsClosed, IssuedUpToLast, OrderedByUse
<1>4. LeastRecentForgotten
  BY NilAssumption DEF Init, LeastRecentForgotten, Known
<1>5. QED
  BY <1>1, <1>i, <1>3, <1>4 DEF IInv

\* The recency history after a use of name n of family f.
LEMMA FreshenFacts ==
    ASSUME TypeOK, NEW f \in Families, NEW n \in Names, Freshen(f, n)
    PROVE  /\ fresher' \in [Families -> SUBSET (Names \X Names)]
           /\ \A g \in Families : g # f => fresher'[g] = fresher[g]
           /\ \A x, y : <<x, y>> \in fresher[f] /\ y # n => <<x, y>> \in fresher'[f]
           /\ \A y \in Known(f) : y # n => <<n, y>> \in fresher'[f]
<1> DEFINE fresh == {p \in fresher[f] : p[2] # n} \cup {<<n, m>> : m \in Known(f) \ {n}}
<1>1. fresher \in [Families -> SUBSET (Names \X Names)]
  BY DEF TypeOK
<1>2. fresh \in SUBSET (Names \X Names)
  BY <1>1 DEF Known
<1>3. fresher' = [fresher EXCEPT ![f] = fresh]
  BY DEF Freshen
<1>4. /\ \A x, y : <<x, y>> \in fresher[f] /\ y # n => <<x, y>> \in fresh
      /\ \A y \in Known(f) : y # n => <<n, y>> \in fresh
  OBVIOUS
<1> HIDE DEF fresh
<1>5. /\ fresher'[f] = fresh
      /\ fresher' \in [Families -> SUBSET (Names \X Names)]
      /\ \A g \in Families : g # f => fresher'[g] = fresher[g]
  BY <1>1, <1>2, <1>3
<1>6. QED
  BY <1>4, <1>5

\* A remembered name is known, and it has one element in the list.
LEMMA ElementFacts ==
    ASSUME IInv, NEW f \in Families
    PROVE  /\ order[f] \in Seq(Binding) /\ Len(order[f]) \in Nat
           /\ Range(order[f]) \subseteq Binding
           /\ \A e \in Range(order[f]) :
                 e.name \in Known(f) /\ e.name \in Names /\ e.addr \in Addrs /\ e # Nil
           /\ \A x, y \in Range(order[f]) : x.name = y.name => x = y
<1>1. order[f] \in Seq(Binding)
  BY DEF IInv, TypeOK
<1>2. Range(order[f]) \subseteq Binding /\ Len(order[f]) \in Nat
  BY <1>1, ListFacts
<1>3. \A e \in Range(order[f]) : e.name \in Names /\ e.addr \in Addrs /\ e # Nil
  BY <1>2, BindingFacts
<1>4. ASSUME NEW e \in Range(order[f]) PROVE e.name \in Known(f)
  <2>1. e.addr.fam = f /\ reverse[e.addr] = e
    BY DEF IInv, IndicesAgree
  <2>2. issued[e.addr] = e.name
    BY <1>3, <2>1 DEF IInv, StaleFailsClosed
  <2>3. QED
    BY <1>3, <2>1, <2>2 DEF Known
<1>5. \A x, y \in Range(order[f]) : x.name = y.name => x = y
  BY DEF IInv, IndicesAgree
<1>6. QED
  BY <1>1, <1>2, <1>3, <1>4, <1>5

\* A hit keeps the invariant: the list is permuted, and the element that comes
\* first is the one just used.
LEMMA UseIInv ==
    ASSUME IInv, NEW f \in Families, NEW e \in Range(order[f]),
           Use(f, e), reply' \in Replies
    PROVE  IInv'
<1>0. TypeOK /\ IsInjective(order[f])
  BY DEF IInv, IndicesAgree
<1>1. /\ order[f] \in Seq(Binding)
      /\ e.name \in Names
      /\ \A x \in Range(order[f]) : x.name \in Known(f)
      /\ \A x, y \in Range(order[f]) : x.name = y.name => x = y
  BY ElementFacts
<1>2. /\ order'[f] = MoveToFront(order[f], e)
      /\ order' \in [Families -> Seq(Binding)]
      /\ \A g \in Families : g # f => order'[g] = order[g]
  <2>1. MoveToFront(order[f], e) \in Seq(Binding)
    BY <1>0, <1>1, MoveToFrontFacts
  <2>2. order' = [order EXCEPT ![f] = MoveToFront(order[f], e)]
    BY DEF Use
  <2>3. QED
    BY <1>0, <2>1, <2>2 DEF TypeOK
<1>3. /\ Len(order'[f]) = Len(order[f])
      /\ Range(order'[f]) = Range(order[f])
      /\ IsInjective(order'[f])
      /\ \A x, y : Before(order'[f], x, y)
                    => y # e /\ (x = e \/ Before(order[f], x, y))
  BY <1>0, <1>1, <1>2, MoveToFrontFacts
<1>4. /\ fresher' \in [Families -> SUBSET (Names \X Names)]
      /\ \A g \in Families : g # f => fresher'[g] = fresher[g]
      /\ \A x, y : <<x, y>> \in fresher[f] /\ y # e.name => <<x, y>> \in fresher'[f]
      /\ \A y \in Known(f) : y # e.name => <<e.name, y>> \in fresher'[f]
  BY <1>0, <1>1, FreshenFacts DEF Use
<1>5. UNCHANGED <<last, names, reverse, issued>>
  BY DEF Use
<1>6. TypeOK'
  BY <1>0, <1>2, <1>4, <1>5 DEF TypeOK
<1>7. IndicesAgree'
  <2>1. \A g \in Families : /\ Len(order'[g]) = Len(order[g])
                            /\ Range(order'[g]) = Range(order[g])
                            /\ IsInjective(order[g]) => IsInjective(order'[g])
    BY <1>2, <1>3
  <2>2. QED
    BY <1>5, <2>1, AddrFacts DEF IInv, IndicesAgree
<1>8. StaleFailsClosed' /\ IssuedUpToLast'
  BY <1>5 DEF IInv, StaleFailsClosed, IssuedUpToLast
<1>9. OrderedByUse'
  <2> SUFFICES ASSUME NEW g \in Families, NEW x \in Range(order'[g]),
                      NEW y \in Range(order'[g]), Before(order'[g], x, y)
               PROVE  <<x.name, y.name>> \in fresher'[g]
    BY DEF OrderedByUse
  <2>1. CASE g # f
    BY <1>2, <1>4, <2>1 DEF IInv, OrderedByUse
  <2>2. CASE g = f
    <3>1. /\ x \in Range(order[f]) /\ y \in Range(order[f]) /\ y.name # e.name
          /\ y.name \in Known(f)
          /\ x = e \/ Before(order[f], x, y)
      BY <1>1, <1>3, <2>2
    <3>2. Before(order[f], x, y) => <<x.name, y.name>> \in fresher[f]
      BY <3>1 DEF IInv, OrderedByUse
    <3>3. QED
      BY <1>4, <2>2, <3>1, <3>2
  <2>3. QED
    BY <2>1, <2>2
<1>10. LeastRecentForgotten'
  <2>1. \A g \in Families : Known(g)' = Known(g)
    BY <1>5 DEF Known
  <2> SUFFICES ASSUME NEW g \in Families, NEW m \in Known(g), names[g][m] = Nil
               PROVE  /\ Len(order'[g]) = MaxNames
                      /\ \A n \in Names :
                            names[g][n] # Nil => <<n, m>> \in fresher'[g]
    BY <1>5, <2>1 DEF LeastRecentForgotten
  <2>2. /\ Len(order[g]) = MaxNames
        /\ \A n \in Names : names[g][n] # Nil => <<n, m>> \in fresher[g]
    BY DEF IInv, LeastRecentForgotten
  <2>3. CASE g # f
    BY <1>2, <1>4, <2>2, <2>3
  <2>4. CASE g = f
    <3>1. m # e.name
      BY <2>4, ElementFacts DEF IInv, IndicesAgree
    <3>2. QED
      BY <1>3, <1>4, <2>2, <2>4, <3>1
  <2>5. QED
    BY <2>3, <2>4
<1>11. QED
  BY <1>6, <1>7, <1>8, <1>9, <1>10 DEF IInv

\* A new binding keeps the invariant: its address lies beyond every issued
\* one, and the element that makes room for it is the stalest.
LEMMA NewIInv ==
    ASSUME IInv, NEW f \in Families, NEW n \in Names, ResolveNew(f, n)
    PROVE  IInv'
<1> DEFINE addr == [fam |-> f, off |-> last[f] + 1]
           b    == [name |-> n, addr |-> addr]
           full == Len(order[f]) >= MaxNames
           old  == order[f][Len(order[f])]
           gone == IF full THEN {old} ELSE {}
           kept == IF full THEN DropBack(order[f]) ELSE order[f]
<1>0. TypeOK /\ IndicesAgree
  BY DEF IInv
<1>1. /\ names[f][n] = Nil
      /\ Usable(f, last[f] + 1)
      /\ last' = [last EXCEPT ![f] = addr.off]
      /\ order' = [order EXCEPT ![f] = PushFront(kept, b)]
      /\ names' = [names EXCEPT ![f] =
             [m \in Names |-> IF m = n THEN b
                              ELSE IF full /\ m = old.name THEN Nil ELSE names[f][m]]]
      /\ reverse' =
             [a \in Addrs |-> IF a = addr THEN b
                              ELSE IF full /\ a = old.addr THEN Nil ELSE reverse[a]]
      /\ reply' = [kind |-> "answer", addr |-> addr]
      /\ issued' = [issued EXCEPT ![addr] = n]
      /\ Freshen(f, n)
  BY DEF ResolveNew
<1>2. /\ last[f] \in Nat /\ last[f] + 1 < Reserved[f] /\ Reserved[f] \in Nat
      /\ addr \in Addrs /\ b \in Binding /\ addr.fam = f /\ addr.off = last[f] + 1
      /\ b.name = n /\ b.addr = addr
  <2>1. last[f] \in Nat /\ last[f] + 1 < Reserved[f] /\ last[f] + 1 < PoolSize[f]
    BY <1>0, <1>1, SizesAssumption DEF TypeOK, Usable
  <2>2. addr \in Addrs
    BY <2>1, AddrFacts
  <2>3. QED
    BY <2>1, <2>2, SizesAssumption DEF Binding
<1>3. issued[addr] = Nil
  BY <1>2 DEF IInv, IssuedUpToLast
<1>4. reverse[addr] = Nil
  <2>1. reverse[addr] # Nil => reverse[addr].name \in Names
    BY <1>0, <1>2, BindingFacts DEF TypeOK
  <2>2. QED
    BY <1>2, <1>3, <2>1, NilAssumption DEF IInv, StaleFailsClosed
<1>5. /\ order[f] \in Seq(Binding) /\ Len(order[f]) \in Nat /\ Len(order[f]) <= MaxNames
      /\ IsInjective(order[f])
      /\ \A e \in Range(order[f]) :
            e.name \in Known(f) /\ e.name \in Names /\ e.addr \in Addrs /\ e # Nil
      /\ \A x, y \in Range(order[f]) : x.name = y.name => x = y
  BY <1>0, ElementFacts DEF IndicesAgree
<1>6. /\ kept \in Seq(Binding)
      /\ Len(kept) = IF full THEN MaxNames - 1 ELSE Len(order[f])
      /\ Range(kept) = Range(order[f]) \ gone
      /\ full => old \in Range(order[f])
      /\ IsInjective(kept)
      /\ \A x, y : Before(kept, x, y) => Before(order[f], x, y)
      /\ full => \A x \in Range(kept) : Before(order[f], x, old)
  BY <1>5, DropBackFacts, SizesAssumption
<1> HIDE DEF kept
<1>7. b \notin Range(kept)
  BY <1>0, <1>1, <1>2, <1>5, <1>6 DEF IndicesAgree
<1>8. /\ order'[f] = PushFront(kept, b)
      /\ order' \in [Families -> Seq(Binding)]
      /\ \A g \in Families : g # f => order'[g] = order[g]
  <2>1. PushFront(kept, b) \in Seq(Binding)
    BY <1>2, <1>6, <1>7, PushFrontFacts
  <2>2. QED
    BY <1>0, <1>1, <2>1 DEF TypeOK
<1>9. /\ Len(order'[f]) = Len(kept) + 1
      /\ Range(order'[f]) = Range(kept) \cup {b}
      /\ IsInjective(order'[f])
      /\ \A x, y : Before(order'[f], x, y)
                    => (x = b /\ y \in Range(kept)) \/ Before(kept, x, y)
  BY <1>2, <1>6, <1>7, <1>8, PushFrontFacts
<1>10. /\ fresher' \in [Families -> SUBSET (Names \X Names)]
       /\ \A g \in Families : g # f => fresher'[g] = fresher[g]
       /\ \A x, y : <<x, y>> \in fresher[f] /\ y # n => <<x, y>> \in fresher'[f]
       /\ \A y \in Known(f) : y # n => <<n, y>> \in fresher'[f]
  BY <1>0, <1>1, FreshenFacts
<1>11. /\ \A g \in Families : g # f => names'[g] = names[g]
       /\ names'[f] = [m \in Names |->
              IF m = n THEN b
              ELSE IF full /\ m = old.name THEN Nil ELSE names[f][m]]
  BY <1>0, <1>1 DEF TypeOK
<1> HIDE DEF full, old, addr, b
<1>12. TypeOK'
  <2>1. names' \in [Families -> [Names -> Binding \cup {Nil}]]
    <3>1. names'[f] \in [Names -> Binding \cup {Nil}]
      BY <1>0, <1>2, <1>11 DEF TypeOK
    <3>2. QED
      BY <1>0, <1>1, <3>1 DEF TypeOK
  <2>2. reverse' \in [Addrs -> Binding \cup {Nil}]
    BY <1>0, <1>1, <1>2 DEF TypeOK
  <2>3. last' \in [Families -> Nat] /\ \A g \in Families : last'[g] < Reserved[g]
    BY <1>0, <1>1, <1>2 DEF TypeOK
  <2>4. reply' \in Replies
    BY <1>1, <1>2 DEF Replies
  <2>5. issued' \in [Addrs -> Names \cup {Nil}]
    BY <1>0, <1>1, <1>2 DEF TypeOK
  <2>6. QED
    BY <1>8, <1>10, <2>1, <2>2, <2>3, <2>4, <2>5 DEF TypeOK
<1>13. IndicesAgree'
  <2>1. \A g \in Families : Len(order'[g]) <= MaxNames /\ IsInjective(order'[g])
    <3>1. Len(order'[f]) <= MaxNames
      BY <1>5, <1>6, <1>9, SizesAssumption DEF full
    <3>2. QED
      BY <1>0, <1>8, <1>9, <3>1 DEF IndicesAgree
  <2>2. ASSUME NEW g \in Families, NEW e \in Range(order'[g])
        PROVE  e.addr.fam = g /\ names'[g][e.name] = e /\ reverse'[e.addr] = e
    <3>1. CASE g # f
      <4>1. e \in Range(order[g])
        BY <1>8, <2>2, <3>1
      <4>2. /\ e.addr.fam = g /\ names[g][e.name] = e /\ reverse[e.addr] = e
            /\ e.addr \in Addrs
        BY <1>0, <4>1, ElementFacts DEF IndicesAgree
      <4>3. e.addr # addr /\ (full => e.addr # old.addr)
        BY <1>0, <1>2, <1>6, <3>1, <4>2 DEF IndicesAgree
      <4>4. QED
        BY <1>1, <1>11, <3>1, <4>2, <4>3
    <3>2. CASE g = f /\ e = b
      BY <1>1, <1>2, <1>11, <3>2
    <3>3. CASE g = f /\ e # b
      <4>1. e \in Range(order[f]) /\ (full => e # old)
        BY <1>6, <1>9, <2>2, <3>3
      <4>2. /\ e.addr.fam = f /\ names[f][e.name] = e /\ reverse[e.addr] = e
            /\ e.addr \in Addrs /\ e.name \in Names /\ e # Nil
        BY <1>0, <1>5, <4>1 DEF IndicesAgree
      <4>3. e.name # n /\ e.addr # addr
        BY <1>1, <1>4, <4>2
      <4>4. full => e.name # old.name /\ e.addr # old.addr
        BY <1>0, <1>6, <4>1, <4>2 DEF IndicesAgree
      <4>5. QED
        BY <1>1, <1>11, <3>3, <4>2, <4>3, <4>4
    <3>4. QED
      BY <3>1, <3>2, <3>3
  <2>3. ASSUME NEW g \in Families, NEW m \in Names, names'[g][m] # Nil
        PROVE  names'[g][m].name = m /\ names'[g][m] \in Range(order'[g])
    <3>1. CASE g # f
      BY <1>0, <1>8, <1>11, <2>3, <3>1 DEF IndicesAgree
    <3>2. CASE g = f /\ m = n
      BY <1>2, <1>9, <1>11, <3>2
    <3>3. CASE g = f /\ m # n
      <4>1. names'[f][m] = names[f][m] /\ (full => m # old.name) /\ names[f][m] # Nil
        BY <1>11, <2>3, <3>3
      <4>2. names[f][m].name = m /\ names[f][m] \in Range(order[f])
        BY <1>0, <4>1 DEF IndicesAgree
      <4>3. QED
        BY <1>6, <1>9, <3>3, <4>1, <4>2
    <3>4. QED
      BY <3>1, <3>2, <3>3
  <2>4. ASSUME NEW a \in Addrs, reverse'[a] # Nil
        PROVE  reverse'[a].addr = a /\ reverse'[a] \in Range(order'[a.fam])
    <3>1. CASE a = addr
      BY <1>1, <1>2, <1>9, <3>1
    <3>2. CASE a # addr
      <4>1. reverse'[a] = reverse[a] /\ (full => a # old.addr) /\ reverse[a] # Nil
        BY <1>1, <2>4, <3>2
      <4>2. reverse[a].addr = a /\ reverse[a] \in Range(order[a.fam]) /\ a.fam \in Families
        BY <1>0, <4>1, AddrFacts DEF IndicesAgree
      <4>3. QED
        BY <1>6, <1>8, <1>9, <4>1, <4>2
    <3>3. QED
      BY <3>1, <3>2
  <2>5. QED
    BY <2>1, <2>2, <2>3, <2>4 DEF IndicesAgree
<1>14. StaleFailsClosed'
  BY <1>0, <1>1, <1>2 DEF IInv, StaleFailsClosed, TypeOK
<1>15. IssuedUpToLast'
  <2> SUFFICES ASSUME NEW a \in Addrs, issued'[a] # Nil
               PROVE  0 < a.off /\ a.off <= last'[a.fam]
    BY DEF IssuedUpToLast
  <2>1. CASE a = addr
    BY <1>0, <1>1, <1>2, <2>1 DEF TypeOK
  <2>2. CASE a # addr
    <3>1. issued[a] # Nil /\ a.fam \in Families /\ a.off \in Nat
      BY <1>0, <1>1, <2>2, AddrFacts DEF TypeOK
    <3>2. 0 < a.off /\ a.off <= last[a.fam]
      BY <3>1 DEF IInv, IssuedUpToLast
    <3>3. last[a.fam] \in Nat /\ last[a.fam] <= last'[a.fam]
      BY <1>0, <1>1, <1>2, <3>1 DEF TypeOK
    <3>4. last'[a.fam] \in Nat
      BY <1>12, <3>1 DEF TypeOK
    <3>5. QED
      BY <3>1, <3>2, <3>3, <3>4
  <2>3. QED
    BY <2>1, <2>2
<1>16. OrderedByUse'
  <2> SUFFICES ASSUME NEW g \in Families, NEW x \in Range(order'[g]),
                      NEW y \in Range(order'[g]), Before(order'[g], x, y)
               PROVE  <<x.name, y.name>> \in fresher'[g]
    BY DEF OrderedByUse
  <2>1. CASE g # f
    BY <1>8, <1>10, <2>1 DEF IInv, OrderedByUse
  <2>2. CASE g = f /\ x = b /\ y \in Range(kept)
    <3>1. y.name \in Known(f) /\ y.name # n
      BY <1>0, <1>1, <1>5, <1>6, <2>2 DEF IndicesAgree
    <3>2. QED
      BY <1>2, <1>10, <2>2, <3>1
  <2>3. CASE g = f /\ Before(kept, x, y)
    <3>0. kept \in Seq(Binding) /\ x \in Range(kept) /\ y \in Range(kept)
      <4>1. Range(kept) = {kept[j] : j \in 1 .. Len(kept)}
        BY <1>6, ListFacts
      <4>2. QED
        BY <1>6, <2>3, <4>1 DEF Before
    <3>1. /\ x \in Range(order[f]) /\ y \in Range(order[f])
          /\ Before(order[f], x, y) /\ y.name # n
      BY <1>0, <1>1, <1>5, <1>6, <2>3, <3>0 DEF IndicesAgree
    <3>2. <<x.name, y.name>> \in fresher[f]
      BY <3>1 DEF IInv, OrderedByUse
    <3>3. QED
      BY <1>10, <2>3, <3>1, <3>2
  <2>4. QED
    BY <1>9, <2>1, <2>2, <2>3
<1>17. LeastRecentForgotten'
  <2> SUFFICES ASSUME NEW g \in Families, NEW m \in Known(g)', names'[g][m] = Nil
               PROVE  /\ Len(order'[g]) = MaxNames
                      /\ \A k \in Names :
                            names'[g][k] # Nil => <<k, m>> \in fresher'[g]
    BY DEF LeastRecentForgotten
  <2>1. m \in Names /\ (m \in Known(g) \/ (g = f /\ m = n))
    <3>1. PICK a \in Addrs : a.fam = g /\ issued'[a] = m /\ m \in Names
      BY DEF Known
    <3>2. CASE a = addr
      BY <1>0, <1>1, <1>2, <3>1, <3>2 DEF TypeOK
    <3>3. CASE a # addr
      BY <1>0, <1>1, <3>1, <3>3 DEF TypeOK, Known
    <3>4. QED
      BY <3>2, <3>3
  <2>2. CASE g # f
    BY <1>8, <1>10, <1>11, <2>1, <2>2 DEF IInv, LeastRecentForgotten
  <2>3. CASE g = f
    <3>1. m # n
      BY <1>2, <1>11, <2>1, <2>3, BindingFacts
    <3>2. m \in Known(f) /\ ((full /\ m = old.name) \/ names[f][m] = Nil)
      BY <1>11, <2>1, <2>3, <3>1
    <3>3. full
      BY <1>5, <3>2, SizesAssumption DEF IInv, LeastRecentForgotten, full
    <3>4. Len(order'[f]) = MaxNames
      BY <1>6, <1>9, <3>3, SizesAssumption
    <3>5. ASSUME NEW k \in Names, names'[f][k] # Nil
          PROVE  <<k, m>> \in fresher'[f]
      <4>1. CASE k = n
        BY <1>10, <3>1, <3>2, <4>1
      <4>2. CASE k # n
        <5>1. names[f][k] # Nil /\ k # old.name
          BY <1>11, <3>3, <3>5, <4>2
        <5>2. CASE names[f][m] = Nil
          BY <1>10, <3>1, <3>2, <5>1, <5>2 DEF IInv, LeastRecentForgotten
        <5>3. CASE m = old.name
          <6>1. /\ names[f][k].name = k /\ names[f][k] \in Range(order[f])
                /\ names[f][k] \in Range(kept)
            BY <1>0, <1>6, <5>1 DEF IndicesAgree
          <6>2. Before(order[f], names[f][k], old) /\ old \in Range(order[f])
            BY <1>6, <3>3, <6>1
          <6>3. <<k, m>> \in fresher[f]
            BY <5>3, <6>1, <6>2 DEF IInv, OrderedByUse
          <6>4. QED
            BY <1>10, <3>1, <6>3
        <5>4. QED
          BY <3>2, <5>2, <5>3
      <4>3. QED
        BY <4>1, <4>2
    <3>6. QED
      BY <2>3, <3>4, <3>5
  <2>4. QED
    BY <2>2, <2>3
<1>18. QED
  BY <1>12, <1>13, <1>14, <1>15, <1>16, <1>17 DEF IInv

\* The invariant is inductive.
LEMMA NextIInv == IInv /\ [Next]_vars => IInv'
<1> SUFFICES ASSUME IInv, [Next]_vars PROVE IInv'
  OBVIOUS
<1>1. ASSUME UNCHANGED <<state, history>>, reply' \in Replies PROVE IInv'
  <2>1. UNCHANGED <<last, names, reverse, order, issued, fresher>>
    BY <1>1 DEF state, history
  <2>2. TypeOK' /\ IndicesAgree' /\ StaleFailsClosed' /\ IssuedUpToLast' /\ OrderedByUse'
    BY <1>1, <2>1 DEF IInv, TypeOK, IndicesAgree, StaleFailsClosed, IssuedUpToLast, OrderedByUse
  <2>3. LeastRecentForgotten'
    BY <2>1 DEF IInv, LeastRecentForgotten, Known
  <2>4. QED
    BY <2>2, <2>3 DEF IInv
<1>2. ASSUME NEW f \in Families, NEW n \in Names, ResolveHit(f, n) PROVE IInv'
  <2>1. names[f][n] \in Range(order[f]) /\ names[f][n].name = n
    BY <1>2 DEF ResolveHit, IInv, IndicesAgree
  <2>2. names[f][n].addr \in Addrs
    BY <2>1, ElementFacts
  <2>3. reply' \in Replies
    BY <1>2, <2>2 DEF ResolveHit, Replies
  <2>4. Use(f, names[f][n])
    BY <1>2, <2>1 DEF ResolveHit, Use
  <2>5. QED
    BY <2>1, <2>3, <2>4, UseIInv
<1>3. ASSUME NEW a \in Addrs, ReverseHit(a) PROVE IInv'
  <2>1. reverse[a] \in Range(order[a.fam]) /\ reverse[a].addr.fam = a.fam /\ a.fam \in Families
    BY <1>3, AddrFacts DEF ReverseHit, IInv, IndicesAgree
  <2>2. reverse[a].name \in Names
    BY <2>1, ElementFacts
  <2>3. reply' \in Replies
    BY <1>3, <2>2 DEF ReverseHit, Replies
  <2>4. Use(a.fam, reverse[a])
    BY <1>3, <2>1 DEF ReverseHit, Use
  <2>5. QED
    BY <2>1, <2>3, <2>4, UseIInv
<1>4. ASSUME NEW f \in Families, NEW s \in Spellings, Resolve(f, s) PROVE IInv'
  <2>1. CASE canonical(s) = Root
    BY <1>1, <1>4, <2>1 DEF Resolve, ResolveEmpty, Replies
  <2>2. CASE canonical(s) # Root
    <3>1. canonical(s) \in Names
      BY <2>2 DEF Spellings, canonical
    <3>2. CASE ResolveHit(f, canonical(s))
      BY <1>2, <3>1, <3>2
    <3>3. CASE ResolveExhausted(f, canonical(s))
      BY <1>1, <3>3 DEF ResolveExhausted, Replies
    <3>4. CASE ResolveNew(f, canonical(s))
      BY <3>1, <3>4, NewIInv
    <3>5. QED
      BY <1>4, <2>2, <3>2, <3>3, <3>4 DEF Resolve
  <2>3. QED
    BY <2>1, <2>2
<1>5. ASSUME NEW q \in Queries, HandleQuery(q) PROVE IInv'
  <2>1. CASE q.type \in Families /\ Resolve(q.type, q.name)
    <3>1. q.name \in Spellings
      BY DEF Queries
    <3>2. QED
      BY <1>4, <2>1, <3>1
  <2>2. CASE reply' = [kind |-> "empty"] /\ UNCHANGED <<state, history>>
    BY <1>1, <2>2 DEF Replies
  <2>3. QED
    BY <1>5, <2>1, <2>2 DEF HandleQuery
<1>6. ASSUME NEW d \in Destinations, Reverse(d) PROVE IInv'
  <2>1. Unmap(d) \in Addrs
    BY DEF Destinations, Unmap
  <2>2. CASE ReverseHit(Unmap(d))
    BY <1>3, <2>1, <2>2
  <2>3. CASE ReverseMiss(Unmap(d))
    BY <1>1, <2>1, <2>3 DEF ReverseMiss, Replies
  <2>4. QED
    BY <1>6, <2>2, <2>3 DEF Reverse
<1>7. CASE UNCHANGED vars
  BY <1>1, <1>7 DEF vars, state, history, IInv, TypeOK
<1>8. QED
  BY <1>5, <1>6, <1>7 DEF Next

\* The inductive invariant holds after any interleaving of resolve, Reverse
\* and HandleQuery.
LEMMA AlwaysIInv == Spec => []IInv
<1>1. QED
  BY InitIInv, NextIInv, PTL DEF Spec

-----------------------------------------------------------------------------
(* The theorems *)

\* Every state of the resolver is well typed; in particular `last` never
\* enters the reserved top of a pool.
THEOREM TypeCorrect == Spec => []TypeOK
<1>1. IInv => TypeOK
  BY DEF IInv
<1>2. QED
  BY <1>1, AlwaysIInv, PTL

\* The list, the name map and the address map always describe the same
\* bindings, at most MaxNames of them per family.
THEOREM IndicesAlwaysAgree == Spec => []IndicesAgree
<1>1. IInv => IndicesAgree
  BY DEF IInv
<1>2. QED
  BY <1>1, AlwaysIInv, PTL

\* A dialed address never recovers a name other than the one it was handed
\* out for, however long ago the guest cached it.
THEOREM StaleAlwaysFailsClosed == Spec => []StaleFailsClosed
<1>1. IInv => StaleFailsClosed
  BY DEF IInv
<1>2. QED
  BY <1>1, AlwaysIInv, PTL

\* The base address and the reserved top of a pool are never handed out.
THEOREM ReservedIsNeverIssued == Spec => []ReservedNeverIssued
<1>1. IInv => ReservedNeverIssued
  <2> SUFFICES ASSUME IInv, NEW a \in Addrs, issued[a] # Nil
               PROVE  0 < a.off /\ a.off < Reserved[a.fam]
    BY DEF ReservedNeverIssued
  <2>1. 0 < a.off /\ a.off <= last[a.fam]
    BY DEF IInv, IssuedUpToLast
  <2>2. a.fam \in Families /\ a.off \in Nat
    BY AddrFacts
  <2>3. last[a.fam] \in Nat /\ Reserved[a.fam] \in Nat /\ last[a.fam] < Reserved[a.fam]
    BY <2>2, SizesAssumption DEF IInv, TypeOK
  <2>4. QED
    BY <2>1, <2>2, <2>3
<1>2. QED
  BY <1>1, AlwaysIInv, PTL

\* Only the least recently used names are forgotten, and only when the memory
\* of the family is full.
THEOREM OnlyLeastRecentForgotten == Spec => []LeastRecentForgotten
<1>1. IInv => LeastRecentForgotten
  BY DEF IInv
<1>2. QED
  BY <1>1, AlwaysIInv, PTL

\* No address is ever handed out for two names.
THEOREM AddressesNeverReissued == Spec => NeverReissued
<1>1. ASSUME IInv, [Next]_vars
      PROVE  [\A a \in Addrs : issued[a] # Nil => issued'[a] = issued[a]]_vars
  <2>1. CASE UNCHANGED issued
    BY <2>1
  <2>2. ASSUME NEW f \in Families, NEW n \in Names, ResolveNew(f, n)
        PROVE  \A a \in Addrs : issued[a] # Nil => issued'[a] = issued[a]
    <3> DEFINE addr == [fam |-> f, off |-> last[f] + 1]
    <3>1. issued' = [issued EXCEPT ![addr] = n] /\ Usable(f, last[f] + 1)
      BY <2>2 DEF ResolveNew
    <3>2. last[f] \in Nat /\ issued \in [Addrs -> Names \cup {Nil}]
      BY <1>1 DEF IInv, TypeOK
    <3>3. addr \in Addrs => issued[addr] = Nil
      BY <1>1, <3>2 DEF IInv, IssuedUpToLast
    <3>4. QED
      BY <3>1, <3>2, <3>3
  <2>3. ASSUME NEW f \in Families, NEW s \in Spellings, Resolve(f, s)
        PROVE  \A a \in Addrs : issued[a] # Nil => issued'[a] = issued[a]
    <3>1. CASE canonical(s) \in Names /\ ResolveNew(f, canonical(s))
      BY <2>2, <3>1
    <3>2. CASE UNCHANGED issued
      BY <3>2
    <3>3. canonical(s) = Root \/ canonical(s) \in Names
      BY DEF Spellings, canonical
    <3>4. QED
      BY <2>3, <3>1, <3>2, <3>3
         DEF Resolve, ResolveEmpty, ResolveHit, ResolveExhausted, history
  <2>4. ASSUME NEW q \in Queries, HandleQuery(q)
        PROVE  \A a \in Addrs : issued[a] # Nil => issued'[a] = issued[a]
    <3>1. q.name \in Spellings
      BY DEF Queries
    <3>2. QED
      BY <2>3, <2>4, <3>1 DEF HandleQuery, history
  <2>5. ASSUME NEW d \in Destinations, Reverse(d) PROVE UNCHANGED issued
    BY <2>5 DEF Reverse, ReverseHit, ReverseMiss, history
  <2>6. QED
    BY <1>1, <2>1, <2>4, <2>5 DEF Next, vars, history
<1>2. QED
  BY <1>1, AlwaysIInv, PTL DEF Spec, NeverReissued

\* A remembered name keeps its address until it is forgotten, and a call that
\* fails forgets nothing.
THEOREM BindingsAlwaysStable == Spec => BindingsStable
<1> DEFINE Stable == \A f \in Families, n \in Names :
               /\ names[f][n] # Nil => names'[f][n] \in {names[f][n], Nil}
               /\ reply'.kind = "servfail" => names'[f][n] = names[f][n]
<1>1. ASSUME IInv, [Next]_vars PROVE [Stable]_vars
  <2>1. CASE UNCHANGED names
    BY <2>1
  <2>2. ASSUME NEW f \in Families, NEW n \in Names, ResolveNew(f, n) PROVE Stable
    <3>1. /\ names[f][n] = Nil
          /\ names \in [Families -> [Names -> Binding \cup {Nil}]]
          /\ reply'.kind = "answer"
      BY <1>1, <2>2 DEF ResolveNew, IInv, TypeOK
    <3>2. /\ \A g \in Families : g # f => names'[g] = names[g]
          /\ \A m \in Names : m # n => names'[f][m] \in {names[f][m], Nil}
      BY <2>2, <3>1 DEF ResolveNew
    <3>3. QED
      BY <3>1, <3>2
  <2>3. ASSUME NEW f \in Families, NEW s \in Spellings, Resolve(f, s) PROVE Stable
    <3>1. CASE canonical(s) \in Names /\ ResolveNew(f, canonical(s))
      BY <2>2, <3>1
    <3>2. CASE UNCHANGED names
      BY <3>2
    <3>3. canonical(s) = Root \/ canonical(s) \in Names
      BY DEF Spellings, canonical
    <3>4. QED
      BY <2>3, <3>1, <3>2, <3>3
         DEF Resolve, ResolveEmpty, ResolveHit, ResolveExhausted, state
  <2>4. ASSUME NEW q \in Queries, HandleQuery(q) PROVE Stable
    <3>1. q.name \in Spellings
      BY DEF Queries
    <3>2. CASE UNCHANGED names
      BY <3>2
    <3>3. QED
      BY <2>3, <2>4, <3>1, <3>2 DEF HandleQuery, state
  <2>5. ASSUME NEW d \in Destinations, Reverse(d) PROVE UNCHANGED names
    BY <2>5 DEF Reverse, ReverseHit, ReverseMiss, state
  <2>6. QED
    BY <1>1, <2>1, <2>4, <2>5 DEF Next, vars, state
<1>2. QED
  BY <1>1, AlwaysIInv, PTL DEF Spec, BindingsStable
=============================================================================
