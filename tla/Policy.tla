------------------------------- MODULE Policy -------------------------------
(***************************************************************************)
(* The boundary's policy, sdk/cmd/connect-proxy/policy.go: how a           *)
(* descriptor is loaded into lookup tables and how authorize applies them  *)
(* to one destination.  Operators only; the machines that use them are     *)
(* Boundary and PolicyCheck.                                               *)
(*                                                                         *)
(* An address is a member of Addresses and a prefix is the set of the      *)
(* addresses it contains.  A hostname is its sequence of labels.  Text is  *)
(* abstracted to what the code tells apart in it:                          *)
(*   [kind |-> "addr", addr, zone, dot]   text that parses as an address,  *)
(*                                        with a zone, with a trailing dot *)
(*   [kind |-> "name", labels, raw]       a hostname; raw when it still    *)
(*                                        has upper case or a final dot    *)
(*   [kind |-> "star"]                    "*"                              *)
(*   [kind |-> "bad"]                     anything else                    *)
(* The IPv4-mapped form of an address is the address itself: both the      *)
(* loader and authorize remove the mapping before they compare.            *)
(***************************************************************************)
EXTENDS Integers, Sequences, SequencesExt

CONSTANTS
    Addresses,  \* the addresses of the model
    Special,    \* the special-purpose ones among them
    MaxPort,    \* the largest port, 65535
    MaxDepth,   \* the largest depth of a suffix rule, 126
    Absent      \* a field that is not there, an error, a nil pointer

ASSUME PolicyAssumption ==
    /\ Special \subseteq Addresses
    /\ MaxPort \in Nat \ {0}
    /\ MaxDepth \in Nat \ {0}
    /\ Absent \notin Addresses
    /\ Absent \notin Seq(Addresses) \cup Seq([addr : Addresses, zone : BOOLEAN])

-----------------------------------------------------------------------------
(* Ports, transports and names *)

\* parsePort: ports are 16 bits wide and 0 is not a port.
ParsesAsPort(n) == n \in 1 .. MaxPort

\* Mutant: the last port of a range is left out.
permitsHalfOpen(ports, port) ==
    ports = Absent \/ \E r \in ports : r[1] <= port /\ port < r[2]

\* portSet.permits, for the port list of a rule.
permits(ports, port) ==
    ports = Absent \/ \E r \in ports : r[1] <= port /\ port <= r[2]

\* parsePorts: an absent list is any port, an empty one is an error; "n" is
\* the range <<n, n>>.
PortsValid(ports) ==
    \/ ports = Absent
    \/ /\ ports # {}
       /\ \A r \in ports : ParsesAsPort(r[1]) /\ ParsesAsPort(r[2]) /\ r[1] <= r[2]

\* parseTransports: absent means TCP only.
Transports(t) == IF t = Absent THEN {"tcp"} ELSE t

TransportsValid(t) == t = Absent \/ (t # {} /\ t \subseteq {"tcp", "udp"})

\* netip.ParseAddr: a final dot is not part of an address.
ParsesAsAddr(text) == text.kind = "addr" /\ ~text.dot

\* normalizeName and validName: lower case, one final dot removed; an address
\* is not a name, and neither is "*".
normalizeName(text) == IF text.kind = "name" THEN text.labels ELSE Absent

-----------------------------------------------------------------------------
(* loadDescriptor *)

\* specialPurpose: every address of the prefix is special-purpose.  (The code
\* asks for one range that contains the prefix.)
specialPurpose(prefix) == prefix \subseteq Special

publicAddress(address) == address \notin Special

\* An ID of more than 64 characters.
LongID == "longer than 64"

\* The error checks of addRule.  `name`, `suffix`, `ip` and `cidr` are texts,
\* of which exactly one is present; an address or prefix that does not parse
\* or has a zone is an error.
RuleValid(dr) ==
    /\ \E k \in {"name", "suffix", "ip", "cidr"} :
        \A l \in {"name", "suffix", "ip", "cidr"} : (dr[l] # Absent) <=> (l = k)
    /\ dr.id # LongID
    /\ PortsValid(dr.ports)
    /\ TransportsValid(dr.transports)
    /\ dr.resolve # Absent =>
        /\ dr.name # Absent /\ dr.name.kind # "star"
        /\ dr.resolve # <<>>
        /\ \A i \in DOMAIN dr.resolve : ParsesAsAddr(dr.resolve[i]) /\ ~dr.resolve[i].zone
    /\ dr.depth # 0 => dr.suffix # Absent /\ dr.depth \in 1 .. MaxDepth
    /\ dr.name # Absent => dr.name.kind = "star" \/ normalizeName(dr.name) # Absent
    /\ dr.suffix # Absent => normalizeName(dr.suffix) # Absent
    /\ dr.ip # Absent => ParsesAsAddr(dr.ip) /\ ~dr.ip.zone
    /\ dr.cidr # Absent => dr.cidr \subseteq Addresses

\* The rule that addRule stores for a valid entry.
LoadedRule(dr) ==
    [id |-> dr.id, ports |-> dr.ports, transports |-> Transports(dr.transports),
     resolve |-> IF dr.resolve = Absent THEN Absent
                 ELSE [i \in DOMAIN dr.resolve |-> dr.resolve[i].addr],
     prefix |-> IF dr.ip # Absent THEN {dr.ip.addr}
                ELSE IF dr.cidr # Absent THEN dr.cidr ELSE {}]

\* The shape of an entry, valid or not: names have labels, address texts hold
\* addresses, and no rule is a nil pointer.
IsText(t) ==
    /\ t.kind = "name" => t.labels \in Seq(Range(t.labels)) \ {<<>>} /\ t.labels # Absent
    /\ t.kind = "addr" => t.addr \in Addresses

IsEntry(dr) ==
    /\ dr.name # Absent => IsText(dr.name)
    /\ dr.suffix # Absent => IsText(dr.suffix)
    /\ dr.resolve # Absent =>
        /\ dr.resolve \in Seq(Range(dr.resolve))
        /\ \A t \in Range(dr.resolve) : IsText(t)
    /\ LoadedRule(dr) # Absent

\* The shape of what the resolver says.
IsAnswer(answer) == answer = Absent \/ answer \in Seq([addr : Addresses, zone : BOOLEAN])

EmptyPolicy(udp) ==
    [udp |-> udp, names |-> <<>>, suffixes |-> <<>>, wildcard |-> <<>>,
     literals |-> <<>>, exceptions |-> <<>>]

\* addRule for a valid entry: the rule goes to the end of one table.  The map
\* `names` is the sequence of its (name, rule) pairs in insertion order.
addRule(p, dr) ==
    LET r == LoadedRule(dr) IN
    IF dr.name # Absent /\ dr.name.kind = "star"
    THEN [p EXCEPT !.wildcard = Append(@, r)]
    ELSE IF dr.name # Absent
    THEN [p EXCEPT !.names = Append(@, [name |-> normalizeName(dr.name), rule |-> r])]
    ELSE IF dr.suffix # Absent
    THEN [p EXCEPT !.suffixes =
             Append(@, [suffix |-> normalizeName(dr.suffix), depth |-> dr.depth, rule |-> r])]
    ELSE [p EXCEPT !.literals = Append(@, r)]

\* The loop over the rules of descriptor d, which are valid.
addRules(d) ==
    LET p[i \in 0 .. Len(d.rules)] ==
            IF i = 0 THEN EmptyPolicy(d.udp) ELSE addRule(p[i - 1], d.rules[i])
    IN  p[Len(d.rules)]

\* An entry of resolved_addresses, a record of the fields that it has: a
\* special-purpose prefix and ports, nothing else.
ExceptionValid(dr) ==
    /\ DOMAIN dr = {"cidr", "ports"}
    /\ dr.cidr \subseteq Addresses /\ specialPurpose(dr.cidr) /\ PortsValid(dr.ports)

\* loadDescriptor: one invalid entry makes the whole descriptor invalid.
\* `header` stands for the JSON syntax, the schema number, the version, the
\* sandbox label and default "deny".
loadDescriptor(d) ==
    IF /\ d.header = "valid"
       /\ \A i \in DOMAIN d.rules : RuleValid(d.rules[i])
       /\ \A i \in DOMAIN d.resolved : ExceptionValid(d.resolved[i])
    THEN [addRules(d) EXCEPT
             !.exceptions = [i \in DOMAIN d.resolved |->
                 [prefix |-> d.resolved[i].cidr, ports |-> d.resolved[i].ports]]]
    ELSE Absent

-----------------------------------------------------------------------------
(* authorize *)

\* The empty string: a verdict without a reason.
NoReason == ""

\* Mutant: a later candidate overwrites a closer reason.
examineLastReason(found, r, port, network) ==
    IF found.rule # Absent THEN found
    ELSE IF ~permits(r.ports, port) THEN [found EXCEPT !.reason = "port-not-allowed"]
    ELSE IF network \notin r.transports THEN [found EXCEPT !.reason = "transport-not-allowed"]
    ELSE [rule |-> r, reason |-> NoReason]

\* selectRule's look at one candidate, after those before it.
examine(found, r, port, network) ==
    IF found.rule # Absent THEN found
    ELSE IF ~permits(r.ports, port)
    THEN [found EXCEPT !.reason = IF @ = NoReason THEN "port-not-allowed" ELSE @]
    ELSE IF network \notin r.transports THEN [found EXCEPT !.reason = "transport-not-allowed"]
    ELSE [rule |-> r, reason |-> NoReason]

\* selectRule: the first rule that permits the port and the transport; when
\* there is none, the reason of the closest candidate.
selectRule(candidates, port, network) ==
    LET found[i \in 0 .. Len(candidates)] ==
            IF i = 0 THEN [rule |-> Absent, reason |-> NoReason]
            ELSE examine(found[i - 1], candidates[i], port, network)
    IN  found[Len(candidates)]

literalRule(p, address, port) ==
    \E i \in DOMAIN p.literals :
        address \in p.literals[i].prefix /\ permits(p.literals[i].ports, port)

excepted(p, address, port) ==
    \E i \in DOMAIN p.exceptions :
        address \in p.exceptions[i].prefix /\ permits(p.exceptions[i].ports, port)

listed(addresses, address) == addresses # Absent /\ Contains(addresses, address)

\* A suffix rule applies to longer names only, within its depth.
SuffixApplies(s, name) ==
    /\ IsStrictSuffix(s.suffix, name)
    /\ s.depth > 0 => Len(name) - Len(s.suffix) <= s.depth

\* The loops that collect: the elements of s that are in S, in their order.
Keep(s, S) ==
    LET kept[i \in 0 .. Len(s)] ==
            IF i = 0 THEN <<>>
            ELSE IF s[i] \in S THEN Append(kept[i - 1], s[i]) ELSE kept[i - 1]
    IN  kept[Len(s)]

Rules(entries) == [i \in DOMAIN entries |-> entries[i].rule]

\* Mutant: the exact rules of every name are candidates.
NameCandidatesOfAnyName(p, name) == Rules(p.names) \o Rules(p.suffixes) \o p.wildcard

\* The candidates for a name: exact rules, suffix rules, then "*".
NameCandidates(p, name) ==
    LET exact    == {e \in Range(p.names) : e.name = name}
        applying == {s \in Range(p.suffixes) : SuffixApplies(s, name)}
    IN  Rules(Keep(p.names, exact)) \o Rules(Keep(p.suffixes, applying)) \o p.wildcard

\* Mutant: the prefix of a literal rule is not looked at.
LiteralCandidatesOfAnyPrefix(p, address) == p.literals

LiteralCandidates(p, address) ==
    Keep(p.literals, {r \in Range(p.literals) : address \in r.prefix})

Denied(status, reason) ==
    [addresses |-> <<>>, rule |-> Absent, reason |-> reason, status |-> status, err |-> FALSE]

authorizeLiteral(p, text, port, network) ==
    LET found == selectRule(LiteralCandidates(p, text.addr), port, network) IN
    IF text.zone THEN Denied(403, "scoped-ip")
    ELSE IF found.rule # Absent
    THEN [addresses |-> <<text.addr>>, rule |-> found.rule.id, reason |-> NoReason,
          status |-> 403, err |-> FALSE]
    ELSE Denied(403, IF found.reason # NoReason THEN found.reason ELSE "ip-not-on-allowlist")

\* The addresses of an answer.
AddrsOf(resolved) == [i \in DOMAIN resolved |-> resolved[i].addr]

\* Mutant: whatever a permitted name resolves to is dialed.
KeptAddressesUnchecked(p, r, resolved, port) ==
    AddrsOf(Keep(resolved, {x \in Range(resolved) : ~x.zone}))

\* authorize may dial this address for a name that rule r permits.
MayDial(p, r, a, port) ==
    listed(r.resolve, a) \/ literalRule(p, a, port) \/ excepted(p, a, port) \/ publicAddress(a)

\* The addresses of an answer that may be dialed; an address with a zone is
\* skipped.
KeptAddresses(p, r, resolved, port) ==
    AddrsOf(Keep(resolved, {x \in Range(resolved) : ~x.zone /\ MayDial(p, r, x.addr, port)}))

\* A name is resolved after a rule is selected; `answer` is what the resolver
\* would say, Absent for a failure, and it is used only without a static list.
authorizeName(p, name, port, network, answer) ==
    LET found    == selectRule(NameCandidates(p, name), port, network)
        static   == found.rule.resolve
        resolved == IF static = Absent THEN answer
                    ELSE [i \in DOMAIN static |-> [addr |-> static[i], zone |-> FALSE]]
        kept     == KeptAddresses(p, found.rule, resolved, port)
    IN  IF found.rule = Absent
        THEN Denied(403, IF found.reason # NoReason THEN found.reason ELSE "not-on-allowlist")
        ELSE IF resolved = Absent
        THEN [addresses |-> <<>>, rule |-> found.rule.id, reason |-> NoReason,
              status |-> 403, err |-> TRUE]
        ELSE IF kept = <<>> THEN [Denied(403, "resolved-address-denied") EXCEPT
                                     !.rule = found.rule.id]
        ELSE [addresses |-> kept, rule |-> found.rule.id, reason |-> NoReason,
              status |-> 403, err |-> FALSE]

authorize(p, host, port, network, answer) ==
    IF ~ParsesAsPort(port) THEN Denied(400, "malformed-port")
    ELSE IF ParsesAsAddr(host) THEN authorizeLiteral(p, host, port, network)
    ELSE IF normalizeName(host) = Absent THEN Denied(400, "malformed-target")
    ELSE authorizeName(p, normalizeName(host), port, network, answer)

\* The verdict lets the boundary dial.
Allows(v) == v.reason = NoReason /\ ~v.err
=============================================================================
