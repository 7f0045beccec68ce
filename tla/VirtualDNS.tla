----------------------------- MODULE VirtualDNS -----------------------------
(***************************************************************************)
(* The synthetic resolver of the adapters, sdk/pkg/tun2connect/dns.go.     *)
(* It invents one address per (name, family), remembers at most MaxNames   *)
(* pairings per family, forgets the least recently used one, and never     *)
(* hands an address out twice.  Every exported method runs under d.mu, so  *)
(* one method is one action and Next is the interleaving of the sessions   *)
(* that share the resolver.                                                *)
(*                                                                         *)
(* An address is its family and its offset in the family's pool; offset 0  *)
(* is the pool's base address, which `last` starts from, and the offsets   *)
(* from Reserved[f] up are the reserved top of the pool.  A list element   *)
(* is its binding: bindings are immutable, and `names`, `reverse` and      *)
(* `order` hold pointers to the same elements.                             *)
(***************************************************************************)
EXTENDS Integers, Sequences, Functions

CONSTANTS
    Families,   \* the address families, "v4" and "v6"
    Names,      \* the non-empty canonical names
    Root,       \* the canonical form of the empty name and of "."
    PoolSize,   \* PoolSize[f]: addresses in the pool of f
    Reserved,   \* Reserved[f]: the first reserved offset of the pool of f
    MaxNames,   \* maxSyntheticNames
    Nil         \* an absent map entry

Addrs == UNION {[fam : {f}, off : 0 .. PoolSize[f] - 1] : f \in Families}

Binding == [name : Names, addr : Addrs]

ASSUME SizesAssumption ==
    /\ PoolSize \in [Families -> Nat]
    /\ Reserved \in [Families -> Nat]
    /\ MaxNames \in Nat \ {0}
    /\ \A f \in Families : 0 < Reserved[f] /\ Reserved[f] <= PoolSize[f]

ASSUME NilAssumption ==
    /\ Nil \notin Names
    /\ Nil \notin Binding
    /\ Nil \notin Addrs
    /\ Root \notin Names

\* A name as a caller spells it: in mixed case or not, with the trailing dot
\* of a DNS message or without.
Spellings == [name : Names \cup {Root}, mixed : BOOLEAN, dot : BOOLEAN]

\* strings.ToLower and TrimSuffix "." leave only the name.
canonical(s) == s.name

VARIABLES
    last,       \* last[f]: the address handed out last
    names,      \* names[f][n]: the element of name n, or Nil
    reverse,    \* reverse[a]: the element of address a, or Nil
    order,      \* order[f]: the elements, most recently used first
    reply,      \* what the last call returned
    issued,     \* history: issued[a] is the name a was handed out for
    fresher     \* history: <<n, m>> \in fresher[f] iff n was used after m

state   == <<last, names, reverse, order>>
history == <<issued, fresher>>
vars    == <<state, reply, history>>

-----------------------------------------------------------------------------
(* Lists: container/list as a sequence whose head is the front. *)

IndexOf(s, e) == CHOOSE i \in 1 .. Len(s) : s[i] = e

\* MoveToFront for the element at position i.
Promoted(s, i) ==
    [j \in 1 .. Len(s) |-> IF j = 1 THEN s[i]
                           ELSE IF j <= i THEN s[j - 1] ELSE s[j]]

\* Mutant: a use does not move the element.
MoveToFrontForgotten(s, e) == s

MoveToFront(s, e) == Promoted(s, IndexOf(s, e))

PushFront(s, e) == [j \in 1 .. Len(s) + 1 |-> IF j = 1 THEN e ELSE s[j - 1]]

\* Mutant: eviction leaves the element in the list.
DropBackForgotten(s) == s

DropBack(s) == [j \in 1 .. Len(s) - 1 |-> s[j]]

\* x is nearer to the front than y.
Before(s, x, y) == \E i, j \in 1 .. Len(s) : i < j /\ s[i] = x /\ s[j] = y

-----------------------------------------------------------------------------
Init ==
    /\ last = [f \in Families |-> 0]
    /\ names = [f \in Families |-> [n \in Names |-> Nil]]
    /\ reverse = [a \in Addrs |-> Nil]
    /\ order = [f \in Families |-> <<>>]
    /\ reply = [kind |-> "none"]
    /\ issued = [a \in Addrs |-> Nil]
    /\ fresher = [f \in Families |-> {}]

\* A name that was ever handed an address of family f.
Known(f) == {n \in Names : \E a \in Addrs : a.fam = f /\ issued[a] = n}

\* The history of a use of name n in family f: n is now fresher than every
\* other known name.
Freshen(f, n) ==
    fresher' = [fresher EXCEPT ![f] =
        {p \in @ : p[2] # n} \cup {<<n, m>> : m \in Known(f) \ {n}}]

\* Mutant: the first reserved address counts as usable.
UsableOffByOne(f, off) == off < PoolSize[f] /\ off <= Reserved[f]

\* The next address of the pool is usable: in the pool and not reserved.
Usable(f, off) == off < PoolSize[f] /\ off < Reserved[f]

\* resolve, the name is known: it becomes the most recently used one.
ResolveHit(f, n) ==
    /\ names[f][n] # Nil
    /\ order' = [order EXCEPT ![f] = MoveToFront(@, names[f][n])]
    /\ reply' = [kind |-> "answer", addr |-> names[f][n].addr]
    /\ Freshen(f, n)
    /\ UNCHANGED <<last, names, reverse, issued>>

\* Mutant: room is made before the pool is found to be used up.
ResolveExhaustedEvicts(f, n) ==
    LET old == order[f][Len(order[f])] IN
    /\ names[f][n] = Nil
    /\ ~Usable(f, last[f] + 1)
    /\ order' = [order EXCEPT ![f] = DropBack(@)]
    /\ names' = [names EXCEPT ![f][old.name] = Nil]
    /\ reverse' = [reverse EXCEPT ![old.addr] = Nil]
    /\ reply' = [kind |-> "servfail"]
    /\ UNCHANGED <<last, history>>

\* resolve, the pool is used up: nothing is evicted for a name that gets no
\* address.
ResolveExhausted(f, n) ==
    /\ names[f][n] = Nil
    /\ ~Usable(f, last[f] + 1)
    /\ reply' = [kind |-> "servfail"]
    /\ UNCHANGED <<state, history>>

\* Mutant: the new name inherits the address of the forgotten one.
ResolveNewReuses(f, n) ==
    LET full == Len(order[f]) >= MaxNames
        old  == order[f][Len(order[f])]
        addr == IF full THEN old.addr ELSE [fam |-> f, off |-> last[f] + 1]
        b    == [name |-> n, addr |-> addr]
    IN  /\ names[f][n] = Nil /\ Usable(f, last[f] + 1)
        /\ last' = [last EXCEPT ![f] = addr.off]
        /\ order' = [order EXCEPT ![f] = PushFront(IF full THEN DropBack(@) ELSE @, b)]
        /\ names' = [names EXCEPT ![f] = [m \in Names |->
               IF m = n THEN b ELSE IF full /\ m = old.name THEN Nil ELSE @[m]]]
        /\ reverse' = [reverse EXCEPT ![addr] = b]
        /\ reply' = [kind |-> "answer", addr |-> addr]
        /\ issued' = [issued EXCEPT ![addr] = n]
        /\ Freshen(f, n)

\* Mutant: the forgotten address is pointed at the new element, not deleted.
ResolveNewRepoints(f, n) ==
    LET addr == [fam |-> f, off |-> last[f] + 1]
        b    == [name |-> n, addr |-> addr]
        full == Len(order[f]) >= MaxNames
        old  == order[f][Len(order[f])]
    IN  /\ names[f][n] = Nil /\ Usable(f, last[f] + 1)
        /\ last' = [last EXCEPT ![f] = addr.off]
        /\ order' = [order EXCEPT ![f] = PushFront(IF full THEN DropBack(@) ELSE @, b)]
        /\ names' = [names EXCEPT ![f] = [m \in Names |->
               IF m = n THEN b ELSE IF full /\ m = old.name THEN Nil ELSE @[m]]]
        /\ reverse' = [a \in Addrs |->
               IF a = addr \/ (full /\ a = old.addr) THEN b ELSE reverse[a]]
        /\ reply' = [kind |-> "answer", addr |-> addr]
        /\ issued' = [issued EXCEPT ![addr] = n]
        /\ Freshen(f, n)

\* resolve, a new name: the oldest binding makes room, the address follows
\* the one handed out last.
ResolveNew(f, n) ==
    LET addr == [fam |-> f, off |-> last[f] + 1]
        b    == [name |-> n, addr |-> addr]
        full == Len(order[f]) >= MaxNames
        old  == order[f][Len(order[f])]
        kept == IF full THEN DropBack(order[f]) ELSE order[f]
    IN  /\ names[f][n] = Nil
        /\ Usable(f, last[f] + 1)
        /\ last' = [last EXCEPT ![f] = addr.off]
        /\ order' = [order EXCEPT ![f] = PushFront(kept, b)]
        /\ names' = [names EXCEPT ![f] =
               [m \in Names |-> IF m = n THEN b
                                ELSE IF full /\ m = old.name THEN Nil ELSE @[m]]]
        /\ reverse' =
               [a \in Addrs |-> IF a = addr THEN b
                                ELSE IF full /\ a = old.addr THEN Nil ELSE reverse[a]]
        /\ reply' = [kind |-> "answer", addr |-> addr]
        /\ issued' = [issued EXCEPT ![addr] = n]
        /\ Freshen(f, n)

\* resolve of the empty name.
ResolveEmpty ==
    /\ reply' = [kind |-> "servfail"]
    /\ UNCHANGED <<state, history>>

Resolve(f, s) ==
    IF canonical(s) = Root
    THEN ResolveEmpty
    ELSE \/ ResolveHit(f, canonical(s))
         \/ ResolveExhausted(f, canonical(s))
         \/ ResolveNew(f, canonical(s))

\* HandleQuery: a question of class IN and type A or AAAA resolves; any other
\* question gets an empty answer and leaves the resolver alone.  The builder
\* cannot fail for a question that parsed.
HandleQuery(q) ==
    \/ /\ q.class = "IN" /\ q.type \in Families
       /\ Resolve(q.type, q.name)
    \/ /\ ~(q.class = "IN" /\ q.type \in Families)
       /\ reply' = [kind |-> "empty"]
       /\ UNCHANGED <<state, history>>

\* The questions a guest may ask; type A is written as its family.
Queries == [class : {"IN", "CH"}, type : Families \cup {"other"}, name : Spellings]

\* The destination of a flow: an address, written in IPv4-mapped form or not.
\* An address outside the pools is like one that is never handed out (offset
\* 0 or reserved): no map has it.
Destinations == [addr : Addrs, mapped : BOOLEAN]

Unmap(d) == d.addr

\* Reverse, the address is bound: its name becomes the most recently used one.
ReverseHit(a) ==
    /\ reverse[a] # Nil
    /\ order' = [order EXCEPT ![reverse[a].addr.fam] = MoveToFront(@, reverse[a])]
    /\ reply' = [kind |-> "name", addr |-> a, name |-> reverse[a].name]
    /\ Freshen(reverse[a].addr.fam, reverse[a].name)
    /\ UNCHANGED <<last, names, reverse, issued>>

\* Reverse, a miss: the caller forwards the literal address.
ReverseMiss(a) ==
    /\ reverse[a] = Nil
    /\ reply' = [kind |-> "literal", addr |-> a]
    /\ UNCHANGED <<state, history>>

Reverse(d) == ReverseHit(Unmap(d)) \/ ReverseMiss(Unmap(d))

Next ==
    \/ \E q \in Queries : HandleQuery(q)
    \/ \E d \in Destinations : Reverse(d)

Spec == Init /\ [][Next]_vars

-----------------------------------------------------------------------------
(* Properties *)

\* Addresses are handed out in order, so an issued one is not beyond `last`.
IssuedUpToLast ==
    \A a \in Addrs : issued[a] # Nil => 0 < a.off /\ a.off <= last[a.fam]

\* The list is sorted by use.
OrderedByUse ==
    \A f \in Families : \A x, y \in Range(order[f]) :
        Before(order[f], x, y) => <<x.name, y.name>> \in fresher[f]

Replies ==
    [kind : {"none", "servfail", "empty"}]
    \cup [kind : {"answer", "literal"}, addr : Addrs]
    \cup [kind : {"name"}, addr : Addrs, name : Names]

\* Types: every element is a binding, `last` stays below the reserved top of
\* the pool, and the recency history relates names.
TypeOK ==
    /\ last \in [Families -> Nat]
    /\ \A f \in Families : last[f] < Reserved[f]
    /\ names \in [Families -> [Names -> Binding \cup {Nil}]]
    /\ reverse \in [Addrs -> Binding \cup {Nil}]
    /\ order \in [Families -> Seq(Binding)]
    /\ reply \in Replies
    /\ issued \in [Addrs -> Names \cup {Nil}]
    /\ fresher \in [Families -> SUBSET (Names \X Names)]

\* The element list, the name map and the address map describe the same
\* bindings, each name and each address once, and no more than MaxNames of
\* them per family (resolve and Reverse update the three separately).
IndicesAgree ==
    /\ \A f \in Families :
        /\ Len(order[f]) <= MaxNames
        /\ IsInjective(order[f])
        /\ \A e \in Range(order[f]) :
            e.addr.fam = f /\ names[f][e.name] = e /\ reverse[e.addr] = e
        /\ \A n \in Names : names[f][n] # Nil =>
            names[f][n].name = n /\ names[f][n] \in Range(order[f])
    /\ \A a \in Addrs : reverse[a] # Nil =>
            reverse[a].addr = a /\ reverse[a] \in Range(order[a.fam])

\* An address leads to the name it was handed out for or to no name at all:
\* a guest that dials a cached copy of a forgotten address never reaches
\* another name ("Addresses are never reused", dns.go).
StaleFailsClosed ==
    \A a \in Addrs : reverse[a] # Nil => reverse[a].name = issued[a]

\* An address that was handed out is never handed out for another name.
NeverReissued ==
    [][\A a \in Addrs : issued[a] # Nil => issued'[a] = issued[a]]_vars

\* The base address and the reserved top of the pool, where the adapters put
\* their own interface and resolver addresses, are never handed out.
ReservedNeverIssued ==
    \A a \in Addrs : issued[a] # Nil => 0 < a.off /\ a.off < Reserved[a.fam]

\* "The mapping holds while the name stays among the most recently used
\* maxSyntheticNames names of its family": a forgotten name is staler than
\* every remembered one, and a name is only forgotten when MaxNames others
\* are remembered.
LeastRecentForgotten ==
    \A f \in Families : \A m \in Known(f) : names[f][m] = Nil =>
        /\ Len(order[f]) = MaxNames
        /\ \A n \in Names : names[f][n] # Nil => <<n, m>> \in fresher[f]

\* A call that fails forgets nothing, and a name that is still remembered
\* keeps its address from call to call.
BindingsStable ==
    [][\A f \in Families, n \in Names :
        /\ names[f][n] # Nil => names'[f][n] \in {names[f][n], Nil}
        /\ reply'.kind = "servfail" => names'[f][n] = names[f][n]]_vars
=============================================================================
