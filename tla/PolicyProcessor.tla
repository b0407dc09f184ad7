-------------------------- MODULE PolicyProcessor ---------------------------
(***************************************************************************)
(* The policy processor (plugins/policy/processor) on top of the lookups   *)
(* of the policy cache (plugins/policy/cache), and the conversion of       *)
(* network policies by KSR. For every change of a pod or a policy the      *)
(* processor determines the pods of this node whose configuration is       *)
(* outdated and has the configurator replace it; pods it overlooks keep    *)
(* what they have.                                                         *)
(*                                                                         *)
(* A selector has labels, in the order in which its map is iterated over,  *)
(* and expressions. Changes of K8s arrive at once: modules KSR and         *)
(* PolicyPlugin have their way. Committing a transaction is one step:      *)
(* module Configurator has its parts and its errors.                       *)
(***************************************************************************)
EXTENDS Integers, Sequences, FiniteSets, Functions

CONSTANTS
  PodIDs, PolicyIDs,
  Namespace,          \* of each pod and each policy
  IgnoredNamespace,   \* kube-system
  Labels,             \* key and value
  IPs, Blocks,
  HostNetwork,        \* addresses of the pods of this node
  NoIP, NoBlock, NoSelector,
  NoData,             \* the pod or the policy does not exist
  PodInputs,          \* the data each pod may have
  PolicyInputs,       \* the K8s network policy each policy may be
  InitialPods,        \* the pods that may exist when the agent starts
  MaxEvents           \* bound on events

PodData == [labels : SUBSET Labels, ip : IPs \cup {NoIP}]

\* Selectors the lookup of pods evaluates: one or two labels (for three it
\* intersects the last two only, for none it finds nothing) and at most one
\* expression, a label that is required. Without an expression of this kind the
\* others select nothing; with one they are ignored or empty the result.
Requires(sel) == {i \in DOMAIN sel.matchExpressions : sel.matchExpressions[i].operator = "In"}
Evaluated(sel) ==
  /\ Len(sel.matchLabels) \in 0..2
  /\ sel.matchLabels = <<>> => sel.matchExpressions # <<>>
  /\ \A i \in DOMAIN sel.matchExpressions :
       i = 1 /\ i \in Requires(sel) /\ Len(sel.matchExpressions[i].values) = 1

\* Ports are numbers of 16 bits.
UInt16Size == 65536

\* The network policies K8s accepts. Ports are numbers here.
Expressions ==
  [key : STRING, operator : {"In", "NotIn", "Exists", "DoesNotExist"}, values : Seq(STRING)]
Selectors == [matchLabels : Seq(Labels), matchExpressions : Seq(Expressions)]
Peers == [podSelector : Selectors \cup {NoSelector}, namespaceSelector : Selectors \cup {NoSelector},
          ipBlock : Blocks \cup {NoBlock}]
PolicyRules == [peers : SUBSET Peers, ports : SUBSET [protocol : STRING, number : 0..(UInt16Size - 1)]]
NetworkPolicies == [podSelector : Selectors, policyTypes : SUBSET {"Ingress", "Egress"},
                    ingress : SUBSET PolicyRules, egress : SUBSET PolicyRules]

VARIABLES
  k8s,                \* pods and network policies of K8s
  cache,              \* pods and policies in the indexes of the cache
  podIPAddressMap,    \* NoIP where there is no entry
  configured,         \* policies per pod as last rendered, with the addresses of the peers
  ignored,            \* history: pods whose last event the processor ignored
  events

vars == <<k8s, cache, podIPAddressMap, configured, ignored, events>>

----------------------------------------------------------------------------
(* Conversion by KSR.                                                      *)

\* An operator that is not known becomes IN.
Operator(operator) ==
  CASE operator = "NotIn" -> "NOT_IN"
    [] operator = "Exists" -> "EXISTS"
    [] operator = "DoesNotExist" -> "DOES_NOT_EXIST"
    [] OTHER -> "IN"

labelSelectorToProto(sel) ==
  [labels |-> sel.matchLabels,
   exprs  |-> [i \in DOMAIN sel.matchExpressions |->
                 [sel.matchExpressions[i] EXCEPT !.operator = Operator(@)]]]

\* A port without a protocol is a TCP port.
portsToProto(ports) ==
  {[protocol |-> IF port.protocol = "UDP" THEN "UDP" ELSE "TCP", number |-> port.number] : port \in ports}

\* Selectors of namespaces are converted, and nobody reads them.
peersToProto(peers) ==
  {[pods  |-> IF peer.podSelector = NoSelector THEN NoSelector ELSE labelSelectorToProto(peer.podSelector),
    block |-> IF {peer.podSelector, peer.namespaceSelector} # {NoSelector} THEN NoBlock ELSE peer.ipBlock] :
     peer \in peers}

policyToProto(policy) ==
  LET Rules(rules) == {[peers |-> peersToProto(rule.peers), ports |-> portsToProto(rule.ports)] : rule \in rules}
  IN [pods    |-> labelSelectorToProto(policy.podSelector),
      type    |-> CASE policy.policyTypes = {"Ingress", "Egress"} -> "INGRESS_AND_EGRESS"
                    [] policy.policyTypes = {"Ingress"} -> "INGRESS"
                    [] policy.policyTypes = {"Egress"} -> "EGRESS"
                    [] OTHER -> "DEFAULT",
      ingress |-> Rules(policy.ingress),
      egress  |-> Rules(policy.egress)]

\* A peer is a block of addresses, or it selects pods (or it selects namespaces).
SupportedPeer(peer) ==
  /\ peer.ipBlock # NoBlock => {peer.podSelector, peer.namespaceSelector} = {NoSelector}
  /\ peer.podSelector # NoSelector =>
       /\ NoSelector # labelSelectorToProto(peer.podSelector)
       /\ \/ Evaluated(peer.podSelector)
          \/ Requires(peer.podSelector) = {} /\ peer.podSelector.matchExpressions # <<>>

\* Policies are found by the labels of their selector.
SupportedPolicy(policy) ==
  /\ policy \in NetworkPolicies
  /\ NoData # policy /\ NoData # policyToProto(policy)
  /\ NoSelector # labelSelectorToProto(policy.podSelector)
  /\ Evaluated(policy.podSelector) /\ policy.podSelector.matchLabels # <<>>
  /\ \A rule \in policy.ingress \cup policy.egress : \A peer \in rule.peers : SupportedPeer(peer)

ASSUME ProcessorAssumption ==
  /\ Namespace \in [PodIDs \cup PolicyIDs -> STRING]
  /\ HostNetwork \subseteq IPs /\ NoIP \notin IPs /\ NoBlock \notin Blocks /\ NoSelector \notin Selectors
  /\ \A p \in PodIDs : PodInputs[p] \subseteq PodData /\ NoData \notin PodInputs[p]
  /\ InitialPods \subseteq [PodIDs -> PodData \cup {NoData}]
  /\ \A pods \in InitialPods : \A p \in PodIDs : pods[p] \in PodInputs[p] \cup {NoData}
  /\ \A id \in PolicyIDs : \A policy \in PolicyInputs[id] : SupportedPolicy(policy)
  /\ MaxEvents \in Nat

----------------------------------------------------------------------------
(* State.                                                                  *)

Ports == [proto : {"TCP", "UDP"}, number : 0..(UInt16Size - 1)]
Matches == [type : {"ingress", "egress"}, any : BOOLEAN, peers : SUBSET (PodIDs \X IPs),
            blocks : SUBSET Blocks, ports : SUBSET Ports]
Configuration == [id : PolicyIDs, type : 0..2, matches : SUBSET Matches]

\* Pods and policies are what was put; only addresses that exist get into the
\* rules, and ports are numbers of 16 bits.
TypeOK ==
  /\ \A p \in PodIDs : {k8s.pods[p], cache.pods[p]} \subseteq PodInputs[p] \cup {NoData}
  /\ \A id \in PolicyIDs :
       /\ k8s.policies[id] \in PolicyInputs[id] \cup {NoData}
       /\ cache.policies[id] \in {policyToProto(policy) : policy \in PolicyInputs[id]} \cup {NoData}
  /\ podIPAddressMap \in [PodIDs -> IPs \cup {NoIP}]
  /\ configured \in [PodIDs -> SUBSET Configuration]
  /\ ignored \subseteq PodIDs
  /\ events \in 0..MaxEvents

NoPods == [p \in PodIDs |-> NoData]
NoPolicies == [id \in PolicyIDs |-> NoData]

\* What exists when the agent starts does not get into the cache with the resync
\* (module PolicyPlugin).
Init ==
  /\ k8s \in [pods : InitialPods, policies : {NoPolicies}]
  /\ cache = [pods |-> NoPods, policies |-> NoPolicies]
  /\ podIPAddressMap = [p \in PodIDs |-> NoIP]
  /\ configured = [p \in PodIDs |-> {}]
  /\ ignored = {}
  /\ events = 0

----------------------------------------------------------------------------
(* Lookups in the cache c.                                                 *)

Pods(c) == {p \in PodIDs : c.pods[p] # NoData}
Policies(c) == {id \in PolicyIDs : c.policies[id] # NoData}

\* The index of pods by namespace and label.
PodsByNSLabel(c, ns, label) == {p \in Pods(c) : Namespace[p] = ns /\ label \in c.pods[p].labels}

\* Two labels that have no pod in common end the lookup with no result.
NoneFound(c, ns, labels) ==
  \E i \in 2..Len(labels) : PodsByNSLabel(c, ns, labels[i - 1]) \cap PodsByNSLabel(c, ns, labels[i]) = {}

\* Neighbouring labels are intersected; the last intersection is the result.
getPodsByNSLabelSelector(c, ns, labels) ==
  LET With(i) == PodsByNSLabel(c, ns, labels[i])
      n == Len(labels)
  IN CASE n = 1 -> With(1)
       [] NoneFound(c, ns, labels) -> {}
       [] OTHER -> With(n - 1) \cap With(n)

\* The index of pods by namespace and key.
LookupPodsByNSKey(c, ns, key) ==
  {p \in Pods(c) : Namespace[p] = ns /\ \E label \in c.pods[p].labels : label.key = key}

\* The pods of a namespace are looked up in an index that does not exist (the
\* parameter hides its name).
LookupPodsByNamespace(c, ns) == {}

\* What is in the second argument and not in the first.
Difference(a, b) == b \ a

ConstructLabels(key, values) == [i \in DOMAIN values |-> [key |-> key, value |-> values[i]]]

\* Every expression may end the lookup; otherwise the result are the pods of
\* the expressions IN: the other sets are overwritten.
getMatchExpressionPods(c, ns, exprs) ==
  LET Of(operator) == {i \in DOMAIN exprs : exprs[i].operator = operator}
      LabelsOf(i) == ConstructLabels(exprs[i].key, exprs[i].values)
      PodsOf(i) == getPodsByNSLabelSelector(c, ns, LabelsOf(i))
      WithKey(i) == LookupPodsByNSKey(c, ns, exprs[i].key)
      all == LookupPodsByNamespace(c, ns)
      notIn(i) == UNION {Difference(all, PodsOf(j)) : j \in Of("NOT_IN") \cap 1..i}
      fails ==
        \/ \E i \in Of("IN") : NoneFound(c, ns, LabelsOf(i))
        \/ \E i \in Of("NOT_IN") : IF NoneFound(c, ns, LabelsOf(i)) THEN all = {} ELSE notIn(i) = {}
        \/ \E i \in Of("EXISTS") : WithKey(i) = {}
        \/ \E i \in Of("DOES_NOT_EXIST") :
             IF WithKey(i) = {} THEN all = {} ELSE Difference(all, WithKey(i)) = {}
  IN IF fails THEN {} ELSE UNION {PodsOf(i) : i \in Of("IN")}

LookupPodsByNSLabelSelector(c, ns, sel) ==
  CASE sel = NoSelector -> LookupPodsByNamespace(c, ns)
    [] sel # NoSelector /\ sel.labels = <<>> -> getMatchExpressionPods(c, ns, sel.exprs)
    [] sel # NoSelector /\ sel.labels # <<>> /\ sel.exprs = <<>> ->
         getPodsByNSLabelSelector(c, ns, sel.labels)
    [] OTHER -> getPodsByNSLabelSelector(c, ns, sel.labels) \cap getMatchExpressionPods(c, ns, sel.exprs)

\* Policies with one of the labels of the pod that select the pod.
LookupPoliciesByPod(c, p) ==
  {id \in Policies(c) :
     /\ p \in Pods(c)
     /\ Namespace[id] = Namespace[p]
     /\ Range(c.policies[id].pods.labels) \cap c.pods[p].labels # {}
     /\ p \in LookupPodsByNSLabelSelector(c, Namespace[id], c.policies[id].pods)}

----------------------------------------------------------------------------
(* Process.                                                                *)

\* Seeded fault: peers without an address are kept.
AllPeers(c, ps) == {<<q, c.pods[q].ip>> : q \in ps}

\* The addresses generateRules finds for the pods of a match.
PeersWithAddress(c, ps) == {<<q, c.pods[q].ip>> : q \in {r \in ps : c.pods[r].ip # NoIP}}

Port(port) ==
  [proto |-> IF port.protocol = "UDP" THEN "UDP" ELSE "TCP", number |-> port.number % UInt16Size]

\* A rule without peers matches any pod and any address.
MatchOf(c, id, type, rule) ==
  [type   |-> type,
   any    |-> rule.peers = {},
   peers  |-> PeersWithAddress(c, UNION {LookupPodsByNSLabelSelector(c, Namespace[id], peer.pods) :
                                           peer \in rule.peers}),
   blocks |-> {peer.block : peer \in rule.peers} \ {NoBlock},
   ports  |-> {Port(port) : port \in rule.ports}]

calculateMatches(c, id) ==
  {MatchOf(c, id, "ingress", rule) : rule \in c.policies[id].ingress}
    \cup {MatchOf(c, id, "egress", rule) : rule \in c.policies[id].egress}

PolicyType(policy) ==
  CASE policy.type = "EGRESS" -> 1
    [] policy.type = "INGRESS_AND_EGRESS" -> 2
    [] OTHER -> 0

Process(c, ps) ==
  LET Configure(p) == {[id |-> id, type |-> PolicyType(c.policies[id]), matches |-> calculateMatches(c, id)] :
                         id \in LookupPoliciesByPod(c, p)}
      rendered == {p \in ps \cap Pods(c) : c.pods[p].ip # NoIP}
  IN configured' = [p \in PodIDs |-> IF p \in rendered THEN Configure(p) ELSE configured[p]]

----------------------------------------------------------------------------
(* Pods with outdated configuration.                                       *)

isMatchLabel(p, data, labels, ns) == Namespace[p] = ns /\ Range(labels) \subseteq data.labels

\* The first key that exists decides, and a key that should not exist is required.
isMatchExpression(p, data, exprs, ns) ==
  LET HasKey(i) == Namespace[p] = ns /\ \E label \in data.labels : label.key = exprs[i].key
      HasLabels(i) == isMatchLabel(p, data, ConstructLabels(exprs[i].key, exprs[i].values), ns)
      Returns(i) == exprs[i].operator = "EXISTS" /\ HasKey(i)
  IN \A i \in DOMAIN exprs :
       \/ \E j \in 1..(i - 1) : Returns(j)
       \/ /\ exprs[i].operator = "IN" => HasLabels(i)
          /\ exprs[i].operator = "NOT_IN" => ~HasLabels(i)
          /\ exprs[i].operator = "DOES_NOT_EXIST" => HasKey(i)

\* Without labels and expressions every pod matches.
calculateLabelSelectorMatches(p, data, sel, ns) ==
  \/ sel = NoSelector
  \/ /\ sel.labels # <<>> => isMatchLabel(p, data, sel.labels, ns)
     /\ sel.exprs # <<>> => isMatchExpression(p, data, sel.exprs, ns)

\* Policies one of whose rules has a peer that matches the pod.
PoliciesWithPeer(c, p, data) ==
  {id \in Policies(c) :
     \E rule \in c.policies[id].ingress \cup c.policies[id].egress : \E peer \in rule.peers :
       calculateLabelSelectorMatches(p, data, peer.pods, Namespace[id])}

PodsOfPolicies(c, ids) ==
  UNION {LookupPodsByNSLabelSelector(c, Namespace[id], c.policies[id].pods) : id \in ids}

\* Seeded fault: only the new labels are looked at.
OutdatedByNewLabels(c, p, old, new) == {p} \cup PodsOfPolicies(c, PoliciesWithPeer(c, p, new))

\* The pod itself, and the pods of policies whose peers match its old or new labels.
OutdatedByUpdate(c, p, old, new) ==
  {p} \cup PodsOfPolicies(c, PoliciesWithPeer(c, p, old) \cup PoliciesWithPeer(c, p, new))

OnHost(c, ps) == {p \in ps : c.pods[p].ip \in HostNetwork}

----------------------------------------------------------------------------
(* Events: the change in K8s, the update of the index, the watcher.        *)

Event == events < MaxEvents /\ events' = events + 1

PutPod(p, data) ==
  /\ Event
  /\ k8s' = [k8s EXCEPT !.pods[p] = data]
  /\ cache' = [cache EXCEPT !.pods[p] = data]

\* AddPod does nothing, with an address or without one.
AddPod(p, data) ==
  /\ k8s.pods[p] = NoData
  /\ PutPod(p, data)
  /\ ignored' = ignored \cup {p}
  /\ UNCHANGED <<podIPAddressMap, configured>>

\* UpdatePod, and AddPod after it. In K8s a pod keeps its address until it is deleted.
UpdatePod(p, data) ==
  /\ k8s.pods[p] \notin {NoData, data}
  /\ data.ip = NoIP => k8s.pods[p].ip = NoIP
  /\ PutPod(p, data)
  /\ \/ /\ Namespace[p] = IgnoredNamespace \/ data.ip = NoIP
        /\ ignored' = ignored \cup {p}
        /\ UNCHANGED <<podIPAddressMap, configured>>
     \/ /\ Namespace[p] # IgnoredNamespace /\ data.ip # NoIP
        /\ podIPAddressMap' = [podIPAddressMap EXCEPT ![p] = data.ip]
        /\ Process(cache', OnHost(cache', OutdatedByUpdate(cache', p, k8s.pods[p], data)))
        /\ ignored' = ignored \ {p}

\* The deleted pod is gone from the cache; whether the others are on this host
\* is decided by the map.
DelPod(p) ==
  /\ k8s.pods[p] # NoData
  /\ Event
  /\ k8s' = [k8s EXCEPT !.pods[p] = NoData]
  /\ cache' = [cache EXCEPT !.pods[p] = NoData]
  /\ \/ /\ Namespace[p] = IgnoredNamespace
        /\ ignored' = ignored \cup {p}
        /\ UNCHANGED configured
     \/ /\ Namespace[p] # IgnoredNamespace
        /\ LET outdated == PodsOfPolicies(cache', PoliciesWithPeer(cache', p, k8s.pods[p]))
           IN Process(cache', {q \in outdated : podIPAddressMap[q] \in HostNetwork})
        /\ ignored' = ignored \ {p}
  /\ UNCHANGED podIPAddressMap

SetPolicy(id, policy) ==
  /\ Event
  /\ k8s' = [k8s EXCEPT !.policies[id] = policy]
  /\ cache' = [cache EXCEPT !.policies[id] = IF policy = NoData THEN NoData ELSE policyToProto(policy)]
  /\ UNCHANGED <<podIPAddressMap, ignored>>

PodsOfPolicy(c, id, policy) ==
  LookupPodsByNSLabelSelector(c, Namespace[id], policyToProto(policy).pods)

AddPolicy(id, policy) ==
  /\ k8s.policies[id] = NoData
  /\ SetPolicy(id, policy)
  /\ Process(cache', OnHost(cache', PodsOfPolicy(cache', id, policy)))

\* UpdatePolicy, and AddPolicy after it for some of the same pods
UpdatePolicy(id, policy) ==
  /\ k8s.policies[id] \notin {NoData, policy}
  /\ SetPolicy(id, policy)
  /\ Process(cache', OnHost(cache', PodsOfPolicy(cache', id, k8s.policies[id])
                                    \cup PodsOfPolicy(cache', id, policy)))

DelPolicy(id) ==
  /\ k8s.policies[id] # NoData
  /\ SetPolicy(id, NoData)
  /\ Process(cache', OnHost(cache', PodsOfPolicy(cache', id, k8s.policies[id])))

\* AddNamespace, DelNamespace and UpdateNamespace: no pods are determined.
NamespaceEvent ==
  /\ Event
  /\ Process(cache, {})
  /\ UNCHANGED <<k8s, cache, podIPAddressMap, ignored>>

\* Resync: all pods of the cache, those of other hosts too
Resync ==
  /\ Event
  /\ Process(cache, Pods(cache))
  /\ ignored' = {}
  /\ UNCHANGED <<k8s, cache, podIPAddressMap>>

\* The data of an event differs from what there was.
Next ==
  \/ \E p \in PodIDs :
       \/ DelPod(p)
       \/ \E data \in PodInputs[p] \ {k8s.pods[p]} : AddPod(p, data) \/ UpdatePod(p, data)
  \/ \E id \in PolicyIDs :
       \/ DelPolicy(id)
       \/ \E policy \in PolicyInputs[id] \ {k8s.policies[id]} : AddPolicy(id, policy) \/ UpdatePolicy(id, policy)
  \/ NamespaceEvent \/ Resync

Spec == Init /\ [][Next]_vars

----------------------------------------------------------------------------
(* Properties.                                                             *)

\* What K8s means by an expression on the labels of a pod.
Holds(labels, e) ==
  LET hasValue == \E i \in DOMAIN e.values : [key |-> e.key, value |-> e.values[i]] \in labels
      hasKey == \E label \in labels : label.key = e.key
  IN CASE e.operator = "In" -> hasValue
       [] e.operator = "NotIn" -> ~hasValue
       [] e.operator = "Exists" -> hasKey
       [] e.operator = "DoesNotExist" -> ~hasKey

\* What K8s means by a selector of pods, if it is one the code evaluates.
Selects(ns, sel, p) ==
  /\ sel # NoSelector /\ Evaluated(sel)
  /\ cache.pods[p] # NoData /\ Namespace[p] = ns
  /\ Range(sel.matchLabels) \subseteq cache.pods[p].labels
  /\ \A e \in Range(sel.matchExpressions) : Holds(cache.pods[p].labels, e)

\* The policies a pod should have, from the network policies of K8s and the
\* pods that are known.
WantedMatch(id, type, rule) ==
  [type   |-> type,
   any    |-> rule.peers = {},
   peers  |-> {pair \in PodIDs \X IPs :
                 \E peer \in rule.peers : /\ Selects(Namespace[id], peer.podSelector, pair[1])
                                          /\ cache.pods[pair[1]].ip = pair[2]},
   blocks |-> {peer.ipBlock : peer \in rule.peers} \ {NoBlock},
   ports  |-> {[proto |-> IF port.protocol = "UDP" THEN "UDP" ELSE "TCP", number |-> port.number] :
                 port \in rule.ports}]

Wanted(p) ==
  {LET policy == k8s.policies[id]
   IN [id |-> id,
       type |-> IF "Egress" \in policy.policyTypes THEN IF "Ingress" \in policy.policyTypes THEN 2 ELSE 1 ELSE 0,
       matches |-> {WantedMatch(id, "ingress", rule) : rule \in policy.ingress}
                     \cup {WantedMatch(id, "egress", rule) : rule \in policy.egress}] :
     id \in {i \in PolicyIDs : k8s.policies[i] # NoData /\ Selects(Namespace[i], k8s.policies[i].podSelector, p)}}

\* The policies without peers whose last event was ignored.
Seen(policies) ==
  {[pol EXCEPT !.matches = {[m EXCEPT !.peers = {x \in m.peers : x[1] \notin ignored}] : m \in pol.matches}] :
     pol \in policies}

\* No pod is overlooked (the comments at the handlers of the processor: the list
\* of pods with outdated policy configuration is determined): after every event,
\* each pod of this node has exactly the policies of K8s that select it now, with
\* the pods and addresses their peers stand for now, through the conversion of
\* KSR, the lookups by labels and expressions and the processor. This concerns pods that got their
\* address with an update, and peers the processor did not ignore (AddPod does
\* nothing for a pod that comes with an address).
NoOutdatedPods ==
  \A p \in Pods(cache) \ ignored :
    (cache.pods[p].ip \in HostNetwork /\ podIPAddressMap[p] = cache.pods[p].ip)
      => Seen(configured[p]) = Seen(Wanted(p))
=============================================================================
