---------------------------- MODULE Configurator ----------------------------
(***************************************************************************)
(* The policy configurator (plugins/policy/configurator): transactions     *)
(* that assign sets of policies to pods. Commit translates the policies of *)
(* each pod into a list of rules per direction and hands them to every     *)
(* registered renderer, which keeps a table of rules per pod.              *)
(*                                                                         *)
(* Policies are identified by numbers, the order in which sort.Sort        *)
(* arranges them.                                                          *)
(***************************************************************************)
EXTENDS Subnets, Lists, FiniteSets, FiniteSetsExt, TLC

CONSTANTS
  Pods, NoIP,
  IPAddress,          \* address of each pod in the cache, or NoIP
  PortNumbers,        \* ports packets are sent to
  PolicyIDs,
  PolicyInputs,       \* the contents policies may have: functions of their IDs
  Renderers,
  MaxTxns,            \* bound on transactions
  MaxErrors           \* bound on commits a renderer refuses

ASSUME ConfiguratorAssumption ==
  /\ IPAddress \in [Pods -> Addresses \cup {NoIP}]
  /\ PolicyIDs \subseteq Nat \ {0}
  /\ PortNumbers \subseteq Nat \ {0}
  /\ {MaxTxns, MaxErrors} \subseteq Nat

Protocols == {"TCP", "UDP"}
MatchIngress == "ingress"       \* from the point of view of the pod
MatchEgress == "egress"
NoList == <<0>>                 \* pod not in the transaction

VARIABLES
  policies,           \* the policies, by ID
  txn,                \* "none", "update" or "resync"
  config,             \* of the transaction: a list of IDs per pod, or NoList
  tables,             \* per renderer and pod: the rules of both directions
  assigned,           \* history: the policies last committed for each pod, or NoList
  failed,             \* renderers that refused a commit
  txns, errors

Rules == [policy : PolicyIDs \cup {0}, kind : {"any", "pod", "block"}, src : Nets, dst : Nets,
          proto : Protocols, port : PortNumbers \cup {0}, action : {"permit", "deny"}]
IDLists == UNION {Bijection(1..Cardinality(ids), ids) : ids \in SUBSET PolicyIDs}

TypeOK ==
  /\ policies \in PolicyInputs
  /\ txn \in {"none", "update", "resync"}
  /\ config \in [Pods -> IDLists \cup {NoList}] /\ assigned \in [Pods -> IDLists \cup {NoList}]
  /\ tables \in [Renderers -> [Pods -> [ingress : Seq(Rules), egress : Seq(Rules)]]]
  /\ failed \subseteq Renderers
  /\ txns \in 0..MaxTxns /\ errors \in 0..MaxErrors

vars == <<policies, txn, config, tables, assigned, failed, txns, errors>>

----------------------------------------------------------------------------
(* Subnets.                                                                *)

\* Seeded fault: the bit is added, not inverted.
AddBit(a, bit) == a + 2^(AddrBits - 1 - bit)

\* The address with one bit inverted; bits are counted from the left.
FlipBit(a, bit) ==
  LET w == 2^(AddrBits - 1 - bit) IN IF (a \div w) % 2 = 0 THEN a + w ELSE a - w

\* A pointer to a subnet: to one of its own, or to the variable of the loop over
\* the blocks.
Own(n) == [net |-> n, ofLoop |-> FALSE]

\* Seeded fault: the last bit is not flipped.
SiblingsUnflipped(len1, net2) ==
  [i \in 1..(net2.len - len1) |-> Own([ip |-> Mask(net2.ip, len1 + i), len |-> len1 + i])]

\* The subnets that make up a subnet with prefix len1 together with net2 under it.
Siblings(len1, net2) ==
  [i \in 1..(net2.len - len1) |->
     Own([ip |-> FlipBit(Mask(net2.ip, len1 + i), len1 + i - 1), len |-> len1 + i])]

subtractSubnet(ptr, net2) ==
  LET net1 == ptr.net
      disjoint == IF net1.len > net2.len THEN ~InNet(net2, net1.ip) ELSE ~InNet(net1, net2.ip)
  IN CASE disjoint -> <<ptr>>
       [] ~disjoint /\ net1.len >= net2.len -> <<>>
       [] ~disjoint /\ net1.len < net2.len -> Siblings(net1.len, net2)

\* The subnets of a block without its exceptions.
BlockSubnets(block) ==
  Fold(LAMBDA subnets, except : FlatMap(LAMBDA ptr : subtractSubnet(ptr, except), subnets),
           <<[net |-> block.net, ofLoop |-> TRUE]>>, block.except)

\* Go 1.9 has one variable for all iterations: after the loop it is the last block.
AllSubnets(blocks) ==
  FlatMap(LAMBDA ptr : <<IF ptr.ofLoop THEN blocks[Len(blocks)].net ELSE ptr.net>>,
          FlatMap(BlockSubnets, blocks))

----------------------------------------------------------------------------
(* Rules. The fields before the action determine the ID of a rule.         *)

Rule(id, kind, src, dst, proto, port, action) ==
  [policy |-> id, kind |-> kind, src |-> src, dst |-> dst, proto |-> proto, port |-> port,
   action |-> action]

\* appendRule skips a rule whose ID is there.
AppendRule(rules, rule) == IF rule \in Range(rules) THEN rules ELSE Append(rules, rule)

AnyPort == 0
Ports(match) ==
  IF match.ports # <<>> THEN match.ports
  ELSE <<[proto |-> "TCP", num |-> AnyPort], [proto |-> "UDP", num |-> AnyPort]>>

\* The other side of the traffic: anything, peers that have an address, blocks.
Remotes(match) ==
  (IF match.anyL3 THEN <<[kind |-> "any", net |-> AnyNet]>> ELSE <<>>)
  \o FlatMap(LAMBDA p : IF IPAddress[p] = NoIP THEN <<>>
                         ELSE <<[kind |-> "pod", net |-> OneHost(IPAddress[p])]>>, match.pods)
  \o FlatMap(LAMBDA n : <<[kind |-> "block", net |-> n]>>, AllSubnets(match.blocks))

PermitRule(direction, id, remote, port) ==
  Rule(id, remote.kind,
       IF direction = MatchIngress THEN remote.net ELSE AnyNet,
       IF direction = MatchIngress THEN AnyNet ELSE remote.net,
       port.proto, port.num, "permit")

MatchRules(direction, id, match) ==
  FlatMap(LAMBDA remote : FlatMap(LAMBDA port : <<PermitRule(direction, id, remote, port)>>,
                                  Ports(match)),
          Remotes(match))

PolicyRules(direction, policy) ==
  FlatMap(LAMBDA m : MatchRules(direction, policy.id, m),
          SelectSeq(policy.matches, LAMBDA m : m.type = direction))

DenyRest ==
  <<Rule(0, "any", AnyNet, AnyNet, "TCP", AnyPort, "deny"),
    Rule(0, "any", AnyNet, AnyNet, "UDP", AnyPort, "deny")>>

Applies(policy, direction) == policy.type \in {direction, "all"}

MatchesAll(match) == match.anyL3 /\ match.ports = <<>>

generateRules(direction, ps) ==
  LET applying == SelectSeq(ps, LAMBDA p : Applies(p, direction))
      permits == Fold(AppendRule, <<>>, FlatMap(LAMBDA p : PolicyRules(direction, p), applying))
      allAllowed == \E p \in Range(applying) : \E m \in Range(p.matches) :
                      m.type = direction /\ MatchesAll(m)
  IN IF applying # <<>> /\ ~allAllowed THEN permits \o DenyRest ELSE permits

----------------------------------------------------------------------------
(* Transactions.                                                           *)

NoRules == [ingress |-> <<>>, egress |-> <<>>]
SortedByID(ids) == SortSeq(Listed(ids), <)

\* Seeded fault: the policies are not sorted.
Unsorted(ids) == ids

\* sort.Sort(policies)
Sorted(ids) == SortedByID(Range(ids))

\* Seeded fault: two sets are compared by their sizes.
EqualsByLength(cp, cp2) == Len(cp) = Len(cp2)

\* Lists of the same IDs at the same places.
Equals(cp, cp2) == cp = cp2

\* Rules are evaluated from the perspective of the vswitch.
RulesFor(contents, sorted) ==
  LET ps == FlatMap(LAMBDA id : <<contents[id] @@ [id |-> id]>>, sorted)
  IN [ingress |-> generateRules(MatchEgress, ps), egress |-> generateRules(MatchIngress, ps)]

Init ==
  /\ policies \in PolicyInputs
  /\ txn = "none" /\ config = [p \in Pods |-> NoList]
  /\ tables = [r \in Renderers |-> [p \in Pods |-> NoRules]]
  /\ assigned = [p \in Pods |-> NoList]
  /\ failed = {}
  /\ txns = 0 /\ errors = 0

NewTxn(resync) ==
  /\ txn = "none" /\ txns < MaxTxns
  /\ txn' = IF resync THEN "resync" ELSE "update"
  /\ txns' = txns + 1
  /\ UNCHANGED <<policies, config, tables, assigned, failed, errors>>

Configure(p, ids) ==
  /\ txn # "none"
  /\ config' = [config EXCEPT ![p] = ids]
  /\ UNCHANGED <<policies, txn, tables, assigned, failed, txns, errors>>

\* The pods whose rules are rendered; pods without an address are skipped.
Rendered == {p \in Pods : config[p] # NoList /\ IPAddress[p] # NoIP}

\* What a transaction leaves of old. The renderers' transactions are started for the
\* first pod to render: without one not even a resync changes anything.
Committed(old, new, empty) ==
  [p \in Pods |-> IF p \in Rendered THEN new[p]
                  ELSE IF txn = "resync" /\ Rendered # {} THEN empty ELSE old[p]]

\* The pods come in the order of a Go map and a set of policies is processed once: each
\* pod takes the rules of the first pod with an equal set.
Processed(sorted) ==
  {first \in [Rendered -> Rendered] : \A p \in Rendered :
     /\ Equals(sorted[first[p]], sorted[p])
     /\ \A q \in Rendered : Equals(sorted[q], sorted[p]) => first[q] = first[p]}

\* Some renderers, if they are asked, refuse to commit and keep what they have.
Commit ==
  /\ txn # "none"
  /\ \E sorted \in {[p \in Rendered |-> Sorted(config[p])]} :
     \E rules \in {[p \in Rendered |-> RulesFor(policies, sorted[first[p]])] : first \in Processed(sorted)},
        refusing \in SUBSET (IF Rendered = {} THEN {} ELSE Renderers) :
       /\ errors' = errors + Cardinality(refusing) /\ errors' <= MaxErrors
       /\ failed' = failed \cup refusing
       /\ tables' = [r \in Renderers |->
                       IF r \in refusing THEN tables[r] ELSE Committed(tables[r], rules, NoRules)]
  /\ assigned' = Committed(assigned, config, NoList)
  /\ txn' = "none" /\ config' = [p \in Pods |-> NoList]
  /\ UNCHANGED <<policies, txns>>

Next ==
  \/ \E resync \in BOOLEAN : NewTxn(resync)
  \/ \E p \in Pods, ids \in IDLists : Configure(p, ids)
  \/ Commit

Spec == Init /\ [][Next]_vars

----------------------------------------------------------------------------
(* Properties.                                                             *)

Packets(p, direction) ==
  {[src |-> IF direction = MatchIngress THEN a ELSE IPAddress[p],
    dst |-> IF direction = MatchIngress THEN IPAddress[p] ELSE a,
    remote |-> a, proto |-> proto, port |-> port] :
      a \in Addresses, proto \in Protocols, port \in PortNumbers}

\* The first rule that matches decides; without one the packet passes.
Passes(rules, pkt) ==
  LET hits == {i \in 1..Len(rules) :
                 /\ InNet(rules[i].src, pkt.src) /\ InNet(rules[i].dst, pkt.dst)
                 /\ rules[i].proto = pkt.proto /\ rules[i].port \in {AnyPort, pkt.port}}
  IN hits = {} \/ rules[Min(hits)].action = "permit"

\* What a match says of a packet (configurator_api.go, type Match).
Selects(match, pkt) ==
  /\ \/ match.anyL3
     \/ \E p \in Range(match.pods) : IPAddress[p] = pkt.remote
     \/ \E b \in Range(match.blocks) :
          InNet(b.net, pkt.remote) /\ \A e \in Range(b.except) : ~InNet(e, pkt.remote)
  /\ \/ match.ports = <<>>
     \/ \E q \in Range(match.ports) : q.proto = pkt.proto /\ q.num \in {AnyPort, pkt.port}

\* What a set of policies says of a packet (configurator_api.go, type ContivPolicy).
Allows(ids, direction, pkt) ==
  LET applying == {policies[id] : id \in {i \in Range(ids) : Applies(policies[i], direction)}}
  IN applying = {} \/ \E p \in applying : \E m \in Range(p.matches) :
                        m.type = direction /\ Selects(m, pkt)

\* Tables change only at the end of a transaction.
Configured == {p \in Pods : txn = "none" /\ assigned[p] # NoList}

Covered(nets) == {a \in Addresses : \E n \in nets : InNet(n, a)}

\* subtractSubnet returns disjoint subnets that have exactly the addresses of net1
\* that net2 does not have, wherever the two are in the tree of prefixes. Being about
\* an operator, it is evaluated in initial states only.
SubtractExact ==
  txns = 0 => \A net1, net2 \in {n \in Nets : Mask(n.ip, n.len) = n.ip} :
    LET result == subtractSubnet(Own(net1), net2) IN
    /\ Covered({ptr.net : ptr \in Range(result)}) = Covered({net1}) \ Covered({net2})
    /\ \A i, j \in 1..Len(result) :
         i # j => Covered({result[i].net}) \cap Covered({result[j].net}) = {}

\* The rules of a renderer let through exactly the packets that the policies last
\* committed for the pod allow, whatever is nested or overlaps in their blocks,
\* exceptions, peers and ports, and although other renderers refuse a commit.
RulesImplementPolicies ==
  \A r \in Renderers \ failed, p \in Configured :
    /\ \A pkt \in Packets(p, MatchIngress) :
         Passes(tables[r][p].egress, pkt) <=> Allows(assigned[p], MatchIngress, pkt)
    /\ \A pkt \in Packets(p, MatchEgress) :
         Passes(tables[r][p].ingress, pkt) <=> Allows(assigned[p], MatchEgress, pkt)

\* The same set of policies always results in the same list of rules, in whatever
\* order and transaction the policies are given: the ACL renderer shares lists.
SameSetSameRules ==
  \A r \in Renderers \ failed : \A p, q \in Configured :
    Range(assigned[p]) = Range(assigned[q]) => tables[r][p] = tables[r][q]
=============================================================================
