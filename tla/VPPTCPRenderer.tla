--------------------------- MODULE VPPTCPRenderer ---------------------------
(***************************************************************************)
(* The renderer of policies into session rules of the VPP TCP stack        *)
(* (plugins/policy/renderer/vpptcp) with its cache. A session rule is in   *)
(* the local table of a namespace, which connections of its pod leave by,  *)
(* or in the global table, which connections from other hosts arrive by.   *)
(* Connections between pods of the host see only the local table of the    *)
(* pod that opens them, so its rules are combined with the egress rules of *)
(* the other pods.                                                         *)
(*                                                                         *)
(* A table is the set of its rules: the code keeps it as a sorted list     *)
(* only to find and compare them. Addresses are of one family, and the     *)
(* copies of rules for the other family are left out.                      *)
(***************************************************************************)
EXTENDS Subnets, Lists, FiniteSets, FiniteSetsExt, TLC

CONSTANTS
  Pods,
  NsIndex,            \* index of the session namespace of each pod, or NoNs
  NoNs,
  IPOf,               \* address of the pod, by namespace
  PortNumbers,        \* ports connections are made to
  Profiles,           \* for each pod, pairs of an ingress and an egress list of rules
  ProxyRules,         \* session rules of others in VPP
  chanBufSize,        \* requests that are sent before their replies are read
  MaxTxns,            \* bound on transactions
  MaxRenders,         \* bound on calls of Render
  MaxErrors,          \* bound on requests that VPP fails to carry out
  MaxRestarts         \* bound on restarts of the agent

Namespaces == DOMAIN IPOf
Protocols == {"TCP", "UDP"}
AnyPort == 0
Permit == "permit"
Deny == "deny"

Denies(rules) == \E r \in Range(rules) : r.action = Deny

\* The configurator's lists: permits, and then nothing or the denial of the rest.
\* Left out are two kinds of permits next to a denial: those the two halves of the
\* denied address space override, and those that are skipped as the default.
ASSUME VPPTCPAssumption ==
  /\ NsIndex \in [Pods -> Namespaces \cup {NoNs}]
  /\ IPOf \in [Namespaces -> Addresses]
  /\ \A p \in UNION {Profiles[pod] : pod \in Pods} : \A rules \in {p.ingress, p.egress} :
       Denies(rules) => \A r \in Range(rules) :
         r.action = Permit => IF r.any THEN r.port # AnyPort ELSE r.net.len > 1
  /\ chanBufSize \in Nat \ {0}
  /\ {MaxTxns, MaxRenders, MaxErrors, MaxRestarts} \subseteq Nat

VARIABLES
  config, tables,     \* the cache: rules by namespace, and the session rules made of them
  txn,                \* the transaction: its config and whether it is a resync, or None
  vpp,                \* session rules in VPP
  replies,            \* what is left in the channel of replies
  synced,             \* history: no request failed since the last restart or resync
  txns, renders, errors, restarts

vars == <<config, tables, txn, vpp, replies, synced, txns, renders, errors, restarts>>

None == <<>>
NoConfig == [ns \in {} |-> None]

----------------------------------------------------------------------------
(* Conversion of Contiv rules into session rules.                          *)

\* Seeded fault: the length of the prefix is not set.
HalvesWithoutPrefix == <<[ip |-> 0, len |-> 0], [ip |-> 2^(AddrBits - 1), len |-> 0]>>

\* The half of the addresses that starts with 0, and the other.
Halves == <<[ip |-> 0, len |-> 1], [ip |-> 2^(AddrBits - 1), len |-> 1]>>

\* One session rule, or two for a rule that is not about a network; none for a
\* permit that says what is the default. The port is the local one in the global
\* table and the remote one in a local table. The tag is made of the namespace, the
\* direction, the ID of the rule, and which half it is.
Convert(scope, ns, direction, lcl, rule) ==
  LET Session(rmt, half) ==
        [scope |-> scope, lcl |-> lcl, rmt |-> rmt, proto |-> rule.proto, port |-> rule.port,
         action |-> rule.action, tag |-> <<ns, direction, rule.id, half>>]
  IN CASE rule.any /\ rule.port = AnyPort /\ rule.action = Permit -> <<>>
       [] rule.any /\ ~(rule.port = AnyPort /\ rule.action = Permit) ->
            <<Session(Halves[1], 1), Session(Halves[2], 2)>>
       [] ~rule.any -> <<Session(rule.net, 0)>>

\* Compare, without the tag.
SameRule(a, b) ==
  /\ a.scope = b.scope /\ a.action = b.action /\ a.lcl = b.lcl /\ a.rmt = b.rmt
  /\ a.proto = b.proto /\ a.port = b.port

\* Insert keeps the first of the rules that differ only in their tags.
InsertAll(list) ==
  {list[i] : i \in {j \in 1..Len(list) : \A k \in 1..(j - 1) : ~SameRule(list[k], list[j])}}

Global == 0           \* scope of the global table; a local table has that of its namespace

convertEgressRules(ns, egress) ==
  InsertAll(FlatMap(LAMBDA r : Convert(Global, ns, "egress", OneHost(IPOf[ns]), r), egress))

convertIngressRules(ns, ingress) ==
  InsertAll(FlatMap(LAMBDA r : Convert(ns, ns, "ingress", AnyNet, r), ingress))

----------------------------------------------------------------------------
(* Sets of ports, of which {AnyPort} stands for all.                       *)

Has(ports, port) == AnyPort \in ports \/ port \in ports

IsSubsetOf(ports, ports2) ==
  \/ Has(ports2, AnyPort)
  \/ ~Has(ports, AnyPort) /\ \A port \in ports : Has(ports2, port)

Intersection(ports, ports2) ==
  IF Has(ports, AnyPort) THEN ports2
  ELSE IF Has(ports2, AnyPort) THEN ports ELSE ports \cap ports2

\* getAllowedEgressPorts, getAllowedIngressPorts
AllowedPorts(ip, rules, proto) ==
  {r.port : r \in {s \in Range(rules) : /\ s.action = Permit /\ s.proto = proto
                                        /\ s.any \/ InNet(s.net, ip)}}

----------------------------------------------------------------------------
(* Combination of ingress rules with the egress rules of others.           *)

\* Ports of another namespace by ingress rules and by its egress rules.
InPorts(c, ns, rmt, proto) ==
  IF Denies(c[ns].ingress) THEN AllowedPorts(IPOf[rmt], c[ns].ingress, proto) ELSE {AnyPort}
EgPorts(c, ns, rmt, proto) == AllowedPorts(IPOf[ns], c[rmt].egress, proto)

\* Seeded fault: the combination is left out if the namespace has no rules.
RestrictedIfDenied(c, ns, proto) ==
  {rmt \in DOMAIN c \ {ns} :
     /\ Denies(c[rmt].egress) /\ Denies(c[ns].ingress)
     /\ ~IsSubsetOf(InPorts(c, ns, rmt, proto), EgPorts(c, ns, rmt, proto))}

\* The other namespaces whose egress rules allow less than the ingress rules do.
Restricted(c, ns, proto) ==
  {rmt \in DOMAIN c \ {ns} :
     /\ Denies(c[rmt].egress)
     /\ ~IsSubsetOf(InPorts(c, ns, rmt, proto), EgPorts(c, ns, rmt, proto))}

\* The rules put in place of those for the one address of a restricted namespace.
CombinedFor(c, ns, rmt, proto) ==
  LET Combined(port, action) ==
        [id |-> <<"combined", rmt, proto, port, action>>, any |-> FALSE, net |-> OneHost(IPOf[rmt]),
         proto |-> proto, port |-> port, action |-> action]
  IN Listed({Combined(port, Permit) :
                 port \in Intersection(InPorts(c, ns, rmt, proto), EgPorts(c, ns, rmt, proto))})
     \o <<Combined(AnyPort, Deny)>>

getCombinedIngressRules(c, ns) ==
  LET Replaced(r) == ~r.any /\ \E rmt \in Restricted(c, ns, r.proto) : r.net = OneHost(IPOf[rmt])
  IN SelectSeq(c[ns].ingress, LAMBDA r : ~Replaced(r))
     \o FlatMap(LAMBDA pair : CombinedFor(c, ns, pair[1], pair[2]),
                Listed({pair \in (DOMAIN c) \X Protocols : pair[1] \in Restricted(c, ns, pair[2])}))

\* refreshTables
TablesOf(c) ==
  UNION {convertEgressRules(ns, c[ns].egress) : ns \in DOMAIN c}
  \cup UNION {convertIngressRules(ns, getCombinedIngressRules(c, ns)) : ns \in DOMAIN c}

\* SessionTables.Diff
Diff(st, st2) == [added |-> st \ st2, removed |-> st2 \ st]

----------------------------------------------------------------------------
(* VPP and the channel to it.                                              *)

\* Is the rule one of the renderer? (the prefix of the tag)
OwnRule(sr) == sr \notin ProxyRules

Ok == [kind |-> "ok"]
Refused == [kind |-> "refused"]
Details(sr) == [kind |-> "details", rule |-> sr]
PingReply == [kind |-> "ping"]

\* VPP adds a rule unless there is one with the same fields or the same tag, and
\* removes a rule if it is there; A request may also fail for a
\* reason of its own.
Handle(st, req) ==
  LET refused == \/ req.fails
                 \/ req.add /\ \E sr \in st.vpp : SameRule(sr, req.rule) \/ sr.tag = req.rule.tag
                 \/ ~req.add /\ req.rule \notin st.vpp
  IN [vpp |-> CASE refused -> st.vpp
                [] ~refused /\ req.add -> st.vpp \cup {req.rule}
                [] ~refused /\ ~req.add -> st.vpp \ {req.rule},
      replies |-> Append(st.replies, IF refused THEN Refused ELSE Ok)]

\* Seeded fault: the tag is not looked at.
DumpAll ==
  LET stream == replies \o FlatMap(LAMBDA sr : <<Details(sr)>>, Listed(vpp)) \o <<PingReply>>
      n == Min({i \in 1..Len(stream) : stream[i].kind # "details"})
  IN [done |-> stream[n] = PingReply,
      rules |-> {stream[i].rule : i \in 1..(n - 1)},
      left |-> SubSeq(stream, n + 1, Len(stream))]

\* The answer to a dump is one message for each rule, and then the reply to a ping.
\* dumpRules reads up to the first message that is not about a rule: the end, or an
\* error.
Dump ==
  LET stream == replies \o FlatMap(LAMBDA sr : <<Details(sr)>>, Listed(vpp)) \o <<PingReply>>
      n == Min({i \in 1..Len(stream) : stream[i].kind # "details"})
  IN [done |-> stream[n] = PingReply,
      rules |-> {sr \in {stream[i].rule : i \in 1..(n - 1)} : OwnRule(sr)},
      left |-> SubSeq(stream, n + 1, Len(stream))]

\* Read as the reply to a request, details of a rule are an error, and the reply to a
\* ping is not.
IsError(reply) == reply \notin {Ok, PingReply}

\* A batch is sent, and as many replies are read, up to the first error; the replies
\* after it are left in the channel.
SendBatch(st, batch) ==
  LET sent == Fold(Handle, [vpp |-> st.vpp, replies |-> st.replies], batch)
      bad == {i \in 1..Len(batch) : IsError(sent.replies[i])}
      read == IF bad = {} THEN Len(batch) ELSE Min(bad)
  IN IF st.wasError THEN st
     ELSE [vpp |-> sent.vpp, replies |-> SubSeq(sent.replies, read + 1, Len(sent.replies)),
           wasError |-> bad # {}]

\* The requests, chanBufSize at a time.
Batches(requests) ==
  LET n == (Len(requests) + chanBufSize - 1) \div chanBufSize
      End(i) == IF i = n THEN Len(requests) ELSE i * chanBufSize
  IN [i \in 1..n |-> SubSeq(requests, (i - 1) * chanBufSize + 1, End(i))]

Requests(rules, add) ==
  FlatMap(LAMBDA sr : <<[add |-> add, rule |-> sr, fails |-> FALSE]>>, Listed(rules))

\* Seeded fault: rules are added before others are removed.
AddFirst(diff) == Requests(diff.added, TRUE) \o Requests(diff.removed, FALSE)

\* Rules are removed first.
Ordered(diff) == Requests(diff.removed, FALSE) \o Requests(diff.added, TRUE)

\* updateRules, where request number failing (0 for none) fails.
updateRules(requests, failing, left) ==
  LET marked == IF failing = 0 THEN requests ELSE [requests EXCEPT ![failing].fails = TRUE]
  IN Fold(SendBatch, [vpp |-> vpp, replies |-> left, wasError |-> FALSE], Batches(marked))

----------------------------------------------------------------------------
(* Transactions.                                                           *)

Init ==
  /\ config = NoConfig /\ tables = {}
  /\ txn = None
  /\ vpp = ProxyRules
  /\ replies = <<>>
  /\ synced = TRUE
  /\ txns = 0 /\ renders = 0 /\ errors = 0 /\ restarts = 0

\* A transaction starts with the rules of all namespaces, or with none.
NewTxn(resync) ==
  /\ txn = None /\ txns < MaxTxns
  /\ txn' = [resync |-> resync, config |-> IF resync THEN NoConfig ELSE config]
  /\ txns' = txns + 1
  /\ UNCHANGED <<config, tables, vpp, replies, synced, renders, errors, restarts>>

\* Rules for a pod that has no namespace in VPP are ignored.
Render(pod, profile) ==
  /\ txn # None /\ renders < MaxRenders /\ renders' = renders + 1
  /\ txn' = IF NsIndex[pod] = NoNs THEN txn
            ELSE [txn EXCEPT !.config = (NsIndex[pod] :> profile) @@ @]
  /\ UNCHANGED <<config, tables, vpp, replies, synced, txns, errors, restarts>>

\* The transaction ends; the cache changes if it was successful.
Finish(new, left, ok) ==
  /\ txn' = None
  /\ replies' = left
  /\ IF ok THEN tables' = new /\ config' = txn.config ELSE UNCHANGED <<tables, config>>
  /\ UNCHANGED <<txns, renders, restarts>>

\* Changes, updateRules and the commit of the cache. Of a resync the changes are
\* those from the rules in VPP.
Commit ==
  /\ txn # None
  /\ LET new == TablesOf(txn.config)
         dump == Dump
         old == IF txn.resync THEN dump.rules ELSE tables
         left == IF txn.resync THEN dump.left ELSE replies
         requests == Ordered(Diff(new, old))
     IN /\ txn.resync => dump.done
        /\ \E failing \in 0..(IF errors < MaxErrors THEN Len(requests) ELSE 0) :
             LET end == updateRules(requests, failing, left) IN
             /\ vpp' = end.vpp
             /\ errors' = errors + (IF failing = 0 THEN 0 ELSE 1)
             /\ synced' = IF txn.resync THEN failing = 0 /\ replies = <<>> ELSE failing = 0 /\ synced
             /\ Finish(new, end.replies, ~end.wasError)

\* Replies left in the channel spoil the dump.
CommitFails ==
  /\ txn # None /\ txn.resync /\ ~Dump.done
  /\ Finish({}, Dump.left, FALSE)
  /\ UNCHANGED <<vpp, synced, errors>>

\* The agent is started again, with an empty cache and a new channel, and VPP is not.
Restart ==
  /\ restarts < MaxRestarts /\ restarts' = restarts + 1
  /\ config' = NoConfig /\ tables' = {}
  /\ txn' = None /\ replies' = <<>>
  /\ synced' = FALSE
  /\ UNCHANGED <<vpp, txns, renders, errors>>

Next ==
  \/ \E resync \in BOOLEAN : NewTxn(resync)
  \/ \E pod \in Pods : \E profile \in Profiles[pod] : Render(pod, profile)
  \/ Commit \/ CommitFails \/ Restart

Spec == Init /\ [][Next]_vars

----------------------------------------------------------------------------
(* Properties.                                                             *)

\* Networks without bits behind the prefix.
ProperNets == {n \in Nets : InNet(n, n.ip)}

SessionRules == [scope : Namespaces \cup {Global}, lcl : ProperNets, rmt : ProperNets, proto : Protocols,
                 port : PortNumbers \cup {AnyPort}, action : {Permit, Deny}]
IsSessionRule(sr) == [f \in DOMAIN sr \ {"tag"} |-> sr[f]] \in SessionRules

IsConfig(c) ==
  \A ns \in DOMAIN c : \E pod \in Pods : NsIndex[pod] = ns /\ c[ns] \in Profiles[pod]

TypeOK ==
  /\ IsConfig(config)
  /\ txn = None \/ (txn.resync \in BOOLEAN /\ IsConfig(txn.config))
  /\ \A sr \in tables \cup vpp : IsSessionRule(sr)
  /\ \A i \in 1..Len(replies) :
       replies[i] \in {Ok, Refused, PingReply} \/ IsSessionRule(replies[i].rule)
  /\ synced \in BOOLEAN
  /\ txns \in 0..MaxTxns /\ renders \in 0..MaxRenders
  /\ errors \in 0..MaxErrors /\ restarts \in 0..MaxRestarts

\* VPP: of the rules that match, the one with the longest remote prefix decides,
\* and of these one with a port before one without.
Accepts(table, lcl, rmt, proto, port) ==
  LET hits == {sr \in table : /\ InNet(sr.lcl, lcl) /\ InNet(sr.rmt, rmt)
                              /\ sr.proto = proto /\ sr.port \in {AnyPort, port}}
      Before(a, b) == a.rmt.len > b.rmt.len \/ (a.rmt.len = b.rmt.len /\ a.port >= b.port)
  IN \A sr \in hits : (\A other \in hits : Before(sr, other)) => sr.action = Permit

\* A list of Contiv rules (renderer/api.go): the first rule that matches decides.
Passes(rules, rmt, proto, port) ==
  LET hits == {i \in 1..Len(rules) : /\ rules[i].any \/ InNet(rules[i].net, rmt)
                                     /\ rules[i].proto = proto /\ rules[i].port \in {AnyPort, port}}
  IN hits = {} \/ rules[Min(hits)].action = Permit

OfScope(scope) == {sr \in vpp : sr.scope = scope /\ OwnRule(sr)}

PodAt(ip) == {ns \in DOMAIN config : IPOf[ns] = ip}

InSync == synced /\ txn = None

\* As long as requests succeed, and again after a resync on a fresh channel, VPP
\* has exactly the rules of the cache: no diff leaves or repeats a rule, also when
\* only the tag of a rule changes.
VPPMatchesCache == InSync => {sr \in vpp : OwnRule(sr)} = tables

\* Connections are accepted exactly if the Contiv rules of both ends that are on
\* this host let them pass: from a pod to another address, by the pod's ingress
\* rules and by the egress rules of the pod there; to a pod from elsewhere, by its
\* egress rules.
SessionRulesImplementPolicies ==
  InSync => \A ns \in DOMAIN config, rmt \in Addresses, proto \in Protocols, port \in PortNumbers :
    /\ rmt # IPOf[ns] =>
         (Accepts(OfScope(ns), IPOf[ns], rmt, proto, port)
            <=> /\ Passes(config[ns].ingress, rmt, proto, port)
                /\ \A dst \in PodAt(rmt) : Passes(config[dst].egress, IPOf[ns], proto, port))
    /\ Accepts(OfScope(Global), IPOf[ns], rmt, proto, port)
         <=> Passes(config[ns].egress, rmt, proto, port)

\* The rules of others in VPP stay, also in a resync after a failure or a restart.
ProxyRulesKept == ProxyRules \subseteq vpp
=============================================================================
