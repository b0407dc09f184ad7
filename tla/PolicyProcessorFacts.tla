------------------------ MODULE PolicyProcessorFacts ------------------------
(***************************************************************************)
(* What the policy processor computes from its cache, for all pods and all *)
(* network policies with selectors that the lookups evaluate: the policies *)
(* a pod should have, and the pods an event makes outdated.                *)
(*                                                                         *)
(* A pod that an event does not have rendered keeps what it has: then no   *)
(* peer of its policies is the pod that changed, as the selectors that     *)
(* find a pod in the cache match it in the processor, too.                 *)
(***************************************************************************)
EXTENDS PolicyProcessor, TLAPS

(* The selectors. D has the data of the pods in the cache.                 *)

SelectsIn(D, ns, sel, p) ==
  /\ sel # NoSelector /\ Evaluated(sel)
  /\ D[p] # NoData /\ Namespace[p] = ns
  /\ Range(sel.matchLabels) \subseteq D[p].labels
  /\ \A e \in Range(sel.matchExpressions) : Holds(D[p].labels, e)

\* The labels of a selector.
LEMMA LabelsOfSelector ==
  ASSUME NEW sel \in Selectors
  PROVE  /\ Len(sel.matchLabels) \in Nat /\ DOMAIN sel.matchLabels = 1..Len(sel.matchLabels)
         /\ sel.matchLabels = <<>> <=> Len(sel.matchLabels) = 0
         /\ \A x : x \in Range(sel.matchLabels) <=> \E i \in 1..Len(sel.matchLabels) : x = sel.matchLabels[i]
<1>1. sel.matchLabels \in Seq(Labels)
  BY DEF Selectors
<1>. QED BY <1>1 DEF Range

\* An evaluated selector has no expression or one that requires a label.
LEMMA ExpressionOfSelector ==
  ASSUME NEW sel \in Selectors, Evaluated(sel)
  PROVE  \/ sel.matchExpressions = <<>> /\ Range(sel.matchExpressions) = {}
         \/ /\ sel.matchExpressions # <<>> /\ DOMAIN sel.matchExpressions = {1}
            /\ sel.matchExpressions[1] \in Expressions
            /\ sel.matchExpressions[1].operator = "In" /\ Len(sel.matchExpressions[1].values) = 1
            /\ Range(sel.matchExpressions) = {sel.matchExpressions[1]}
<1>1. PICK es : es = sel.matchExpressions
  OBVIOUS
<1>2. es \in Seq(Expressions)
  BY <1>1 DEF Selectors
<1>3. \A i \in DOMAIN es : i = 1 /\ es[i].operator = "In" /\ Len(es[i].values) = 1
  BY <1>1 DEF Evaluated, Requires
<1>4. CASE es = <<>>
  BY <1>1, <1>4 DEF Range
<1>5. CASE es # <<>>
  <2>1. Len(es) \in Nat \ {0} /\ DOMAIN es = 1..Len(es)
    BY <1>2, <1>5
  <2>2. DOMAIN es = {1}
    BY <1>3, <2>1
  <2>3. es[1] \in Expressions
    BY <1>2, <2>1, <2>2
  <2>4. Range(es) = {es[1]}
    BY <2>2 DEF Range
  <2>. QED BY <1>1, <1>3, <1>5, <2>2, <2>3, <2>4
<1>. QED BY <1>4, <1>5
\* One label, or two whose sets of pods are intersected.
LEMMA LookupByLabels ==
  ASSUME NEW c, NEW ns, NEW labels, Len(labels) \in 1..2, NEW p \in PodIDs
  PROVE  p \in getPodsByNSLabelSelector(c, ns, labels)
           <=> \A i \in 1..Len(labels) : p \in PodsByNSLabel(c, ns, labels[i])
<1>1. CASE Len(labels) = 1
  <2>1. getPodsByNSLabelSelector(c, ns, labels) = PodsByNSLabel(c, ns, labels[1])
    BY <1>1 DEF getPodsByNSLabelSelector, NoneFound
  <2>2. 1..Len(labels) = {1}
    BY <1>1
  <2>. QED BY <2>1, <2>2
<1>2. CASE Len(labels) = 2
  <2>1. NoneFound(c, ns, labels)
          <=> PodsByNSLabel(c, ns, labels[1]) \cap PodsByNSLabel(c, ns, labels[2]) = {}
    <3>1. 2..Len(labels) = {2} /\ 2 - 1 = 1
      BY <1>2
    <3>. QED BY Zenon, <3>1 DEF NoneFound
  <2>2. getPodsByNSLabelSelector(c, ns, labels)
          = IF NoneFound(c, ns, labels) THEN {}
            ELSE PodsByNSLabel(c, ns, labels[1]) \cap PodsByNSLabel(c, ns, labels[2])
    BY <1>2 DEF getPodsByNSLabelSelector
  <2>3. 1..Len(labels) = {1, 2}
    BY <1>2
  <2>. QED BY <2>1, <2>2, <2>3
<1>. QED BY <1>1, <1>2

\* One expression that requires a label.
LEMMA LookupByExpression ==
  ASSUME NEW c, NEW ns, NEW exprs, DOMAIN exprs = {1}, exprs[1].operator = "IN",
         DOMAIN exprs[1].values = {1}, NEW p \in PodIDs
  PROVE  p \in getMatchExpressionPods(c, ns, exprs)
           <=> p \in PodsByNSLabel(c, ns, [key |-> exprs[1].key, value |-> exprs[1].values[1]])
<1>1. PICK labels : labels = ConstructLabels(exprs[1].key, exprs[1].values)
  OBVIOUS
<1>2. DOMAIN labels = {1} /\ labels[1] = [key |-> exprs[1].key, value |-> exprs[1].values[1]]
  BY <1>1 DEF ConstructLabels
<1>3. Len(labels) = 1
  <2>1. labels = <<labels[1]>>
    BY <1>1, <1>2 DEF ConstructLabels
  <2>. QED BY <2>1
<1>4. ~NoneFound(c, ns, labels)
  BY <1>3 DEF NoneFound
<1>5. getPodsByNSLabelSelector(c, ns, labels) = PodsByNSLabel(c, ns, labels[1])
  BY <1>3, <1>4 DEF getPodsByNSLabelSelector
<1>6. getMatchExpressionPods(c, ns, exprs) = getPodsByNSLabelSelector(c, ns, labels)
  <2>. DEFINE Of(operator) == {i \in DOMAIN exprs : exprs[i].operator = operator}
              PodsOf(i) == getPodsByNSLabelSelector(c, ns, ConstructLabels(exprs[i].key, exprs[i].values))
  <2>1. Of("IN") = {1} /\ Of("NOT_IN") = {} /\ Of("EXISTS") = {} /\ Of("DOES_NOT_EXIST") = {}
    OBVIOUS
  <2>2. UNION {PodsOf(i) : i \in Of("IN")} = PodsOf(1)
    BY <2>1
  <2>3. \A i \in Of("IN") : ~NoneFound(c, ns, ConstructLabels(exprs[i].key, exprs[i].values))
    BY <1>1, <1>4, <2>1
  <2>4. getMatchExpressionPods(c, ns, exprs) = UNION {PodsOf(i) : i \in Of("IN")}
    BY Zenon, <2>1, <2>3 DEF getMatchExpressionPods
  <2>. QED BY <1>1, <2>2, <2>4
<1>. QED BY <1>2, <1>5, <1>6
\* The conversion of a selector keeps its labels, and In is IN.
LEMMA ConvertedSelector ==
  ASSUME NEW sel \in Selectors, NEW q, q = labelSelectorToProto(sel)
  PROVE  /\ q.labels = sel.matchLabels
         /\ q.exprs = <<>> <=> sel.matchExpressions = <<>>
         /\ DOMAIN q.exprs = DOMAIN sel.matchExpressions
         /\ \A i \in DOMAIN q.exprs :
              /\ q.exprs[i].key = sel.matchExpressions[i].key
              /\ q.exprs[i].values = sel.matchExpressions[i].values
              /\ q.exprs[i].operator = "IN" <=> sel.matchExpressions[i].operator = "In"
<1>1. PICK es : es = sel.matchExpressions
  OBVIOUS
<1>2. es \in Seq(Expressions) /\ DOMAIN es = 1..Len(es) /\ Len(es) \in Nat
  BY <1>1 DEF Selectors
<1>3. q.labels = sel.matchLabels /\ q.exprs = [i \in DOMAIN es |-> [es[i] EXCEPT !.operator = Operator(@)]]
  BY <1>1 DEF labelSelectorToProto
<1>4. DOMAIN q.exprs = DOMAIN es
  BY <1>3
<1>5. q.exprs = <<>> <=> es = <<>>
  <2>1. ASSUME es = <<>> PROVE q.exprs = <<>>
    <3>1. DOMAIN es = {}
      BY <2>1
    <3>. QED BY <1>3, <3>1
  <2>2. ASSUME q.exprs = <<>> PROVE es = <<>>
    <3>1. DOMAIN q.exprs = {}
      BY <2>2
    <3>2. 1 \notin 1..Len(es)
      BY Zenon, <1>2, <1>4, <3>1
    <3>. QED BY <1>2, <3>2
  <2>. QED BY <2>1, <2>2
<1>6. ASSUME NEW i \in DOMAIN es
      PROVE  /\ q.exprs[i].key = es[i].key /\ q.exprs[i].values = es[i].values
             /\ q.exprs[i].operator = "IN" <=> es[i].operator = "In"
  <2>1. es[i] \in Expressions
    BY <1>2
  <2>2. q.exprs[i] = [es[i] EXCEPT !.operator = Operator(es[i].operator)]
    BY <1>3
  <2>3. /\ q.exprs[i].key = es[i].key /\ q.exprs[i].values = es[i].values
        /\ q.exprs[i].operator = Operator(es[i].operator)
    BY <2>1, <2>2 DEF Expressions
  <2>4. es[i].operator \in {"In", "NotIn", "Exists", "DoesNotExist"}
    BY <2>1 DEF Expressions
  <2>5. Operator(es[i].operator) = "IN" <=> es[i].operator = "In"
    BY <2>4 DEF Operator
  <2>. QED BY <2>3, <2>5
<1>. QED BY Zenon, <1>1, <1>3, <1>4, <1>5, <1>6
\* LookupPodsByNSLabelSelector: what it finds for a selector that it evaluates is what the
\* selector means.
LEMMA LookupSelects ==
  ASSUME NEW sel \in Selectors, Evaluated(sel), sel # NoSelector,
         NoSelector # labelSelectorToProto(sel), NEW c, NEW ns, NEW p \in PodIDs
  PROVE  p \in LookupPodsByNSLabelSelector(c, ns, labelSelectorToProto(sel)) <=> SelectsIn(c.pods, ns, sel, p)
<1>1. PICK q : q = labelSelectorToProto(sel)
  OBVIOUS
<1>2. PICK e : e = sel.matchExpressions[1]
  OBVIOUS
<1>3. /\ q.labels = sel.matchLabels /\ (q.exprs = <<>> <=> sel.matchExpressions = <<>>)
      /\ DOMAIN q.exprs = DOMAIN sel.matchExpressions
      /\ \A i \in DOMAIN q.exprs :
           /\ q.exprs[i].key = sel.matchExpressions[i].key
           /\ q.exprs[i].values = sel.matchExpressions[i].values
           /\ q.exprs[i].operator = "IN" <=> sel.matchExpressions[i].operator = "In"
  BY <1>1, ConvertedSelector
<1>4. /\ Len(sel.matchLabels) \in 0..2 /\ (sel.matchLabels = <<>> <=> Len(sel.matchLabels) = 0)
      /\ \A x : x \in Range(sel.matchLabels) <=> \E i \in 1..Len(sel.matchLabels) : x = sel.matchLabels[i]
  BY Zenon, LabelsOfSelector DEF Evaluated
<1>5. ASSUME sel.matchLabels # <<>>
      PROVE  p \in getPodsByNSLabelSelector(c, ns, q.labels)
               <=> p \in Pods(c) /\ Namespace[p] = ns /\ Range(sel.matchLabels) \subseteq c.pods[p].labels
  <2>1. Len(q.labels) \in 1..2
    BY <1>3, <1>4, <1>5
  <2>2. p \in getPodsByNSLabelSelector(c, ns, q.labels)
          <=> \A i \in 1..Len(q.labels) : p \in PodsByNSLabel(c, ns, q.labels[i])
    BY <2>1, LookupByLabels
  <2>3. 1 \in 1..Len(q.labels)
    BY <1>3, <1>4, <1>5
  <2>. QED BY <1>3, <1>4, <2>2, <2>3 DEF PodsByNSLabel
<1>6. ASSUME sel.matchExpressions # <<>>
      PROVE  /\ Range(sel.matchExpressions) = {e}
             /\ p \in getMatchExpressionPods(c, ns, q.exprs)
                  <=> p \in Pods(c) /\ Namespace[p] = ns /\ Holds(c.pods[p].labels, e)
  <2>1. /\ DOMAIN sel.matchExpressions = {1} /\ e \in Expressions
        /\ e.operator = "In" /\ Len(e.values) = 1 /\ Range(sel.matchExpressions) = {e}
    BY <1>2, <1>6, ExpressionOfSelector
  <2>2. DOMAIN e.values = {1}
    BY <2>1 DEF Expressions
  <2>3. /\ DOMAIN q.exprs = {1} /\ q.exprs[1].operator = "IN"
        /\ q.exprs[1].key = e.key /\ q.exprs[1].values = e.values
    BY <1>2, <1>3, <2>1
  <2>4. p \in getMatchExpressionPods(c, ns, q.exprs)
          <=> p \in PodsByNSLabel(c, ns, [key |-> e.key, value |-> e.values[1]])
    BY SMTT(60), <2>2, <2>3, LookupByExpression
  <2>5. Holds(c.pods[p].labels, e) <=> [key |-> e.key, value |-> e.values[1]] \in c.pods[p].labels
    BY <2>1, <2>2 DEF Holds
  <2>. QED BY <2>1, <2>4, <2>5 DEF PodsByNSLabel
<1>7. p \in Pods(c) <=> c.pods[p] # NoData
  BY DEF Pods
<1>8. CASE sel.matchLabels = <<>>
  <2>1. sel.matchExpressions # <<>>
    BY <1>8 DEF Evaluated
  <2>2. LookupPodsByNSLabelSelector(c, ns, q) = getMatchExpressionPods(c, ns, q.exprs)
    BY <1>1, <1>3, <1>8 DEF LookupPodsByNSLabelSelector
  <2>3. Range(sel.matchLabels) = {}
    BY <1>4, <1>8
  <2>. QED BY <1>1, <1>6, <1>7, <2>1, <2>2, <2>3 DEF SelectsIn
<1>9. CASE sel.matchLabels # <<>> /\ sel.matchExpressions = <<>>
  <2>1. LookupPodsByNSLabelSelector(c, ns, q) = getPodsByNSLabelSelector(c, ns, q.labels)
    BY <1>1, <1>3, <1>9 DEF LookupPodsByNSLabelSelector
  <2>2. Range(sel.matchExpressions) = {}
    BY <1>9, ExpressionOfSelector
  <2>. QED BY <1>1, <1>5, <1>7, <1>9, <2>1, <2>2 DEF SelectsIn
<1>10. CASE sel.matchLabels # <<>> /\ sel.matchExpressions # <<>>
  <2>1. LookupPodsByNSLabelSelector(c, ns, q)
          = getPodsByNSLabelSelector(c, ns, q.labels) \cap getMatchExpressionPods(c, ns, q.exprs)
    BY <1>1, <1>3, <1>10 DEF LookupPodsByNSLabelSelector
  <2>. QED BY <1>1, <1>5, <1>6, <1>7, <1>10, <2>1 DEF SelectsIn
<1>. QED BY <1>8, <1>9, <1>10
\* A peer without a selector, or with expressions none of which requires a label, finds no pod.
LEMMA LookupNothing ==
  /\ \A c, ns : LookupPodsByNSLabelSelector(c, ns, NoSelector) = {}
  /\ \A c, ns : \A sel \in Selectors :
       Requires(sel) = {} /\ sel.matchExpressions # <<>> /\ NoSelector # labelSelectorToProto(sel)
         => LookupPodsByNSLabelSelector(c, ns, labelSelectorToProto(sel)) = {}
<1>1. ASSUME NEW c, NEW ns PROVE LookupPodsByNSLabelSelector(c, ns, NoSelector) = {}
  BY DEF LookupPodsByNSLabelSelector, LookupPodsByNamespace
<1>2. ASSUME NEW c, NEW ns, NEW sel \in Selectors, Requires(sel) = {}, sel.matchExpressions # <<>>,
             NoSelector # labelSelectorToProto(sel)
      PROVE  LookupPodsByNSLabelSelector(c, ns, labelSelectorToProto(sel)) = {}
  <2>1. PICK q : q = labelSelectorToProto(sel)
    OBVIOUS
  <2>2. q.exprs # <<>> /\ {i \in DOMAIN q.exprs : q.exprs[i].operator = "IN"} = {}
    <3>1. /\ q.exprs = <<>> <=> sel.matchExpressions = <<>>
          /\ DOMAIN q.exprs = DOMAIN sel.matchExpressions
          /\ \A i \in DOMAIN q.exprs : q.exprs[i].operator = "IN" <=> sel.matchExpressions[i].operator = "In"
      BY SMTT(60), <2>1, ConvertedSelector
    <3>. QED BY <1>2, <3>1 DEF Requires
  <2>3. getMatchExpressionPods(c, ns, q.exprs) = {}
    BY <2>2 DEF getMatchExpressionPods
  <2>. QED BY <1>2, <2>1, <2>2, <2>3 DEF LookupPodsByNSLabelSelector
<1>. QED BY <1>1, <1>2

\* calculateLabelSelectorMatches: a selector that finds a pod in the cache matches it.
LEMMA SelectedMatches ==
  ASSUME NEW sel \in Selectors, NEW D, NEW ns, NEW p, SelectsIn(D, ns, sel, p)
  PROVE  calculateLabelSelectorMatches(p, D[p], labelSelectorToProto(sel), ns)
<1>1. PICK q : q = labelSelectorToProto(sel)
  OBVIOUS
<1>2. PICK e : e = sel.matchExpressions[1]
  OBVIOUS
<1>3. /\ q.labels = sel.matchLabels /\ (q.exprs = <<>> <=> sel.matchExpressions = <<>>)
      /\ DOMAIN q.exprs = DOMAIN sel.matchExpressions
      /\ \A i \in DOMAIN q.exprs :
           /\ q.exprs[i].key = sel.matchExpressions[i].key
           /\ q.exprs[i].values = sel.matchExpressions[i].values
           /\ q.exprs[i].operator = "IN" <=> sel.matchExpressions[i].operator = "In"
  BY <1>1, ConvertedSelector
<1>4. isMatchLabel(p, D[p], q.labels, ns)
  BY <1>3 DEF SelectsIn, isMatchLabel
<1>5. ASSUME sel.matchExpressions # <<>> PROVE isMatchExpression(p, D[p], q.exprs, ns)
  <2>1. /\ DOMAIN sel.matchExpressions = {1} /\ e \in Expressions
        /\ e.operator = "In" /\ Len(e.values) = 1 /\ Range(sel.matchExpressions) = {e}
    BY <1>2, <1>5, ExpressionOfSelector DEF SelectsIn
  <2>2. DOMAIN e.values = {1}
    BY <2>1 DEF Expressions
  <2>3. /\ DOMAIN q.exprs = {1} /\ q.exprs[1].operator = "IN"
        /\ q.exprs[1].key = e.key /\ q.exprs[1].values = e.values
    BY <1>2, <1>3, <2>1
  <2>4. Namespace[p] = ns /\ [key |-> e.key, value |-> e.values[1]] \in D[p].labels
    BY Zenon, <2>1, <2>2 DEF SelectsIn, Holds
  <2>5. Range(ConstructLabels(q.exprs[1].key, q.exprs[1].values)) = {[key |-> e.key, value |-> e.values[1]]}
    BY ZenonT(60), <2>2, <2>3 DEF Range, ConstructLabels
  <2>6. isMatchLabel(p, D[p], ConstructLabels(q.exprs[1].key, q.exprs[1].values), ns)
    BY <2>4, <2>5 DEF isMatchLabel
  <2>. QED BY <2>3, <2>6 DEF isMatchExpression
<1>. QED BY <1>1, <1>3, <1>4, <1>5 DEF calculateLabelSelectorMatches
\* The lookups find pods of the cache.
LEMMA LookupFindsPods ==
  \A c, ns, sel : LookupPodsByNSLabelSelector(c, ns, sel) \subseteq Pods(c)
<1>1. ASSUME NEW c, NEW ns, NEW labels PROVE getPodsByNSLabelSelector(c, ns, labels) \subseteq Pods(c)
  <2>1. \A label : PodsByNSLabel(c, ns, label) \subseteq Pods(c)
    BY DEF PodsByNSLabel
  <2>. QED BY <2>1 DEF getPodsByNSLabelSelector
<1>2. ASSUME NEW c, NEW ns, NEW exprs PROVE getMatchExpressionPods(c, ns, exprs) \subseteq Pods(c)
  BY <1>1 DEF getMatchExpressionPods
<1>. QED BY <1>1, <1>2 DEF LookupPodsByNSLabelSelector, LookupPodsByNamespace

----------------------------------------------------------------------------
(* What a pod should have, from the policies K of K8s and the data D.      *)

PeersIn(D, id, rule) ==
  {pair \in PodIDs \X IPs :
     \E peer \in rule.peers : /\ SelectsIn(D, Namespace[id], peer.podSelector, pair[1])
                              /\ D[pair[1]].ip = pair[2]}

MatchIn(D, id, type, rule) ==
  [type   |-> type,
   any    |-> rule.peers = {},
   peers  |-> PeersIn(D, id, rule),
   blocks |-> {peer.ipBlock : peer \in rule.peers} \ {NoBlock},
   ports  |-> {[proto |-> IF port.protocol = "UDP" THEN "UDP" ELSE "TCP", number |-> port.number] :
                 port \in rule.ports}]

MatchesIn(D, id, policy) ==
  {MatchIn(D, id, "ingress", rule) : rule \in policy.ingress}
    \cup {MatchIn(D, id, "egress", rule) : rule \in policy.egress}

TypeIn(policy) ==
  IF "Egress" \in policy.policyTypes THEN IF "Ingress" \in policy.policyTypes THEN 2 ELSE 1 ELSE 0

ConfigIn(D, id, policy) == [id |-> id, type |-> TypeIn(policy), matches |-> MatchesIn(D, id, policy)]

PoliciesIn(K, D, p) == {i \in PolicyIDs : K[i] # NoData /\ SelectsIn(D, Namespace[i], K[i].podSelector, p)}

WantedIn(K, D, p) == {ConfigIn(D, id, K[id]) : id \in PoliciesIn(K, D, p)}

LEMMA WantedIs == \A p : Wanted(p) = WantedIn(k8s.policies, cache.pods, p)
<1>1. \A ns, sel, p : Selects(ns, sel, p) <=> SelectsIn(cache.pods, ns, sel, p)
  BY SMTT(60) DEF Selects, SelectsIn
<1>2. \A id, type, rule : WantedMatch(id, type, rule) = MatchIn(cache.pods, id, type, rule)
  BY ZenonT(60), <1>1 DEF WantedMatch, MatchIn, PeersIn
<1>. QED BY <1>1, <1>2 DEF Wanted, WantedIn, PoliciesIn, ConfigIn, MatchesIn, TypeIn

\* The converted peer finds the pods the peer stands for.
LEMMA PeerSelects ==
  ASSUME NEW peer \in Peers, SupportedPeer(peer), NEW c, NEW ns, NEW p \in PodIDs,
         NEW sel, sel = IF peer.podSelector = NoSelector THEN NoSelector
                        ELSE labelSelectorToProto(peer.podSelector)
  PROVE  /\ p \in LookupPodsByNSLabelSelector(c, ns, sel) <=> SelectsIn(c.pods, ns, peer.podSelector, p)
         /\ SelectsIn(c.pods, ns, peer.podSelector, p) => calculateLabelSelectorMatches(p, c.pods[p], sel, ns)
<1>1. CASE peer.podSelector = NoSelector
  BY <1>1, LookupNothing DEF SelectsIn
<1>2. CASE peer.podSelector # NoSelector
  <2>1. /\ peer.podSelector \in Selectors /\ sel = labelSelectorToProto(peer.podSelector)
        /\ NoSelector # labelSelectorToProto(peer.podSelector)
    BY <1>2 DEF Peers, SupportedPeer
  <2>2. SelectsIn(c.pods, ns, peer.podSelector, p) => calculateLabelSelectorMatches(p, c.pods[p], sel, ns)
    BY <2>1, SelectedMatches
  <2>3. CASE Evaluated(peer.podSelector)
    BY <1>2, <2>1, <2>2, <2>3, LookupSelects
  <2>4. CASE ~Evaluated(peer.podSelector)
    <3>1. Requires(peer.podSelector) = {} /\ peer.podSelector.matchExpressions # <<>>
      BY <1>2, <2>4 DEF SupportedPeer
    <3>2. LookupPodsByNSLabelSelector(c, ns, sel) = {}
      BY <2>1, <3>1, LookupNothing
    <3>. QED BY <2>4, <3>2 DEF SelectsIn
  <2>. QED BY <2>3, <2>4
<1>. QED BY <1>1, <1>2
\* The data of the pods.
PodsTyped(D) == \A p \in PodIDs : D[p] # NoData => D[p] \in PodData

RuleToProto(rule) == [peers |-> peersToProto(rule.peers), ports |-> portsToProto(rule.ports)]

LEMMA UInt16SizeType == UInt16Size \in Nat \ {0}
BY SMT DEF UInt16Size

SelectorToProto(peer) ==
  IF peer.podSelector = NoSelector THEN NoSelector ELSE labelSelectorToProto(peer.podSelector)

PeerToProto(peer) ==
  [pods  |-> SelectorToProto(peer),
   block |-> IF {peer.podSelector, peer.namespaceSelector} # {NoSelector} THEN NoBlock ELSE peer.ipBlock]

LEMMA PeersToProto ==
  ASSUME NEW peers
  PROVE  /\ \A x : x \in peersToProto(peers) <=> \E peer \in peers : x = PeerToProto(peer)
         /\ \A peer : PeerToProto(peer).pods = SelectorToProto(peer)
<1>1. peersToProto(peers) = {PeerToProto(peer) : peer \in peers}
  BY DEF peersToProto, PeerToProto, SelectorToProto
<1>2. \A peer : PeerToProto(peer).pods = SelectorToProto(peer)
  BY DEF PeerToProto
<1>. QED BY <1>1, <1>2

\* calculateMatches: the match of a converted rule is the match the rule means.
LEMMA MatchMeans ==
  ASSUME NEW rule \in PolicyRules, \A peer \in rule.peers : SupportedPeer(peer),
         NEW c, PodsTyped(c.pods), NEW id, NEW type
  PROVE  MatchOf(c, id, type, RuleToProto(rule)) = MatchIn(c.pods, id, type, rule)
<1> DEFINE ns == Namespace[id]
           found == UNION {LookupPodsByNSLabelSelector(c, ns, x.pods) : x \in peersToProto(rule.peers)}
<1>1. rule.peers \subseteq Peers /\ rule.ports \subseteq [protocol : STRING, number : 0..(UInt16Size - 1)]
  BY DEF PolicyRules
<1>2. peersToProto(rule.peers) = {} <=> rule.peers = {}
  BY PeersToProto
<1>3. \A p : p \in found <=> \E peer \in rule.peers : p \in LookupPodsByNSLabelSelector(c, ns, SelectorToProto(peer))
  <2>1. \A p : p \in found <=> \E x \in peersToProto(rule.peers) : p \in LookupPodsByNSLabelSelector(c, ns, x.pods)
    OBVIOUS
  <2>. QED BY <2>1, PeersToProto
<1>4. \A p : p \in found <=> p \in PodIDs /\ \E peer \in rule.peers : SelectsIn(c.pods, ns, peer.podSelector, p)
  <2>1. ASSUME NEW p, p \in found PROVE p \in PodIDs /\ p \in Pods(c)
    BY <1>3, <2>1, LookupFindsPods DEF Pods
  <2>2. ASSUME NEW p \in PodIDs, NEW peer \in rule.peers
        PROVE  p \in LookupPodsByNSLabelSelector(c, ns, SelectorToProto(peer)) <=> SelectsIn(c.pods, ns, peer.podSelector, p)
    <3>1. PICK sel : sel = SelectorToProto(peer)
      OBVIOUS
    <3>2. peer \in Peers /\ SupportedPeer(peer)
      BY <1>1
    <3>. QED BY <3>1, <3>2, PeerSelects DEF SelectorToProto
  <2>. QED BY <1>3, <2>1, <2>2
<1>5. PeersWithAddress(c, found) = PeersIn(c.pods, id, rule)
  <2>1. ASSUME NEW x \in PeersWithAddress(c, found) PROVE x \in PeersIn(c.pods, id, rule)
    <3>1. PICK q \in found : c.pods[q].ip # NoIP /\ x = <<q, c.pods[q].ip>>
      BY <2>1 DEF PeersWithAddress
    <3>2. PICK peer \in rule.peers : q \in PodIDs /\ SelectsIn(c.pods, ns, peer.podSelector, q)
      BY <1>4
    <3>3. c.pods[q].ip \in IPs
      BY <3>1, <3>2 DEF SelectsIn, PodsTyped, PodData
    <3>4. x \in PodIDs \X IPs /\ x[1] = q /\ x[2] = c.pods[q].ip
      BY <3>1, <3>2, <3>3
    <3>. QED BY <3>2, <3>4 DEF PeersIn
  <2>2. ASSUME NEW x \in PeersIn(c.pods, id, rule) PROVE x \in PeersWithAddress(c, found)
    <3>1. /\ x \in PodIDs \X IPs /\ c.pods[x[1]].ip = x[2]
          /\ \E peer \in rule.peers : SelectsIn(c.pods, ns, peer.podSelector, x[1])
      BY SMTT(60), <2>2 DEF PeersIn
    <3>2. x[1] \in found /\ x[2] # NoIP /\ x = <<x[1], x[2]>>
      BY <1>4, <3>1, ProcessorAssumption
    <3>. QED BY SMTT(60), <3>1, <3>2 DEF PeersWithAddress
  <2>. QED BY Zenon, <2>1, <2>2
<1>6. {x.block : x \in peersToProto(rule.peers)} \ {NoBlock} = {peer.ipBlock : peer \in rule.peers} \ {NoBlock}
  <2>1. \A peer \in rule.peers :
          (IF {peer.podSelector, peer.namespaceSelector} # {NoSelector} THEN NoBlock ELSE peer.ipBlock) = peer.ipBlock
    BY DEF SupportedPeer
  <2>2. \A b : (\E x \in peersToProto(rule.peers) : b = x.block) <=> (\E peer \in rule.peers : b = peer.ipBlock)
    <3>1. \A peer \in rule.peers : PeerToProto(peer).block = peer.ipBlock
      BY <2>1 DEF PeerToProto
    <3>. QED BY <3>1, PeersToProto
  <2>. QED BY SMTT(60), <2>2
<1>7. {Port(port) : port \in portsToProto(rule.ports)}
        = {[proto |-> IF port.protocol = "UDP" THEN "UDP" ELSE "TCP", number |-> port.number] : port \in rule.ports}
  <2>1. ASSUME NEW port \in rule.ports
        PROVE  Port([protocol |-> IF port.protocol = "UDP" THEN "UDP" ELSE "TCP", number |-> port.number])
                 = [proto |-> IF port.protocol = "UDP" THEN "UDP" ELSE "TCP", number |-> port.number]
    <3>1. port.number \in 0..(UInt16Size - 1)
      BY <1>1
    <3>2. port.number % UInt16Size = port.number
      BY <3>1, UInt16SizeType
    <3>. QED BY <3>2 DEF Port
  <2>2. ASSUME NEW x \in portsToProto(rule.ports)
        PROVE  \E port \in rule.ports :
                 Port(x) = [proto |-> IF port.protocol = "UDP" THEN "UDP" ELSE "TCP", number |-> port.number]
    BY ZenonT(60), <2>1, <2>2 DEF portsToProto
  <2>3. ASSUME NEW port \in rule.ports
        PROVE  \E x \in portsToProto(rule.ports) :
                 Port(x) = [proto |-> IF port.protocol = "UDP" THEN "UDP" ELSE "TCP", number |-> port.number]
    BY Zenon, <2>1, <2>3 DEF portsToProto
  <2>. QED BY <2>2, <2>3
<1>8. /\ RuleToProto(rule).peers = peersToProto(rule.peers)
      /\ RuleToProto(rule).ports = portsToProto(rule.ports)
  BY DEF RuleToProto
<1>. QED BY Zenon, <1>2, <1>5, <1>6, <1>7, <1>8 DEF MatchOf, MatchIn
\* The policies of the cache are the converted network policies.
Converted(K, c) ==
  \A id \in PolicyIDs :
    /\ K[id] # NoData => SupportedPolicy(K[id])
    /\ c.policies[id] = IF K[id] = NoData THEN NoData ELSE policyToProto(K[id])

ConfigureOf(c, p) ==
  {[id |-> id, type |-> PolicyType(c.policies[id]), matches |-> calculateMatches(c, id)] :
     id \in LookupPoliciesByPod(c, p)}

LEMMA ConvertedPolicy ==
  ASSUME NEW policy, SupportedPolicy(policy), NEW q, q = policyToProto(policy)
  PROVE  /\ q.pods = labelSelectorToProto(policy.podSelector) /\ PolicyType(q) = TypeIn(policy)
         /\ q.ingress = {RuleToProto(rule) : rule \in policy.ingress}
         /\ q.egress = {RuleToProto(rule) : rule \in policy.egress}
<1>1. q.pods = labelSelectorToProto(policy.podSelector)
  BY DEF policyToProto
<1>2. q.ingress = {RuleToProto(rule) : rule \in policy.ingress}
  BY DEF policyToProto, RuleToProto
<1>3. q.egress = {RuleToProto(rule) : rule \in policy.egress}
  BY DEF policyToProto, RuleToProto
<1>4. PolicyType(q) = TypeIn(policy)
  <2>1. PICK types : types = policy.policyTypes
    OBVIOUS
  <2>2. q.type = CASE types = {"Ingress", "Egress"} -> "INGRESS_AND_EGRESS"
                   [] types = {"Ingress"} -> "INGRESS"
                   [] types = {"Egress"} -> "EGRESS"
                   [] OTHER -> "DEFAULT"
    BY <2>1 DEF policyToProto
  <2>3. types \subseteq {"Ingress", "Egress"}
    BY <2>1 DEF SupportedPolicy, NetworkPolicies
  <2>4. \/ types = {"Ingress", "Egress"} /\ "Egress" \in types /\ "Ingress" \in types
        \/ types = {"Ingress"} /\ "Egress" \notin types
        \/ types = {"Egress"} /\ "Egress" \in types /\ "Ingress" \notin types
        \/ types = {} /\ "Egress" \notin types
    BY Zenon, <2>3
  <2>5. {"Ingress", "Egress"} # {"Ingress"} /\ {"Ingress", "Egress"} # {"Egress"} /\ {"Ingress"} # {"Egress"}
    OBVIOUS
  <2>. QED BY <2>1, <2>2, <2>4, <2>5 DEF PolicyType, TypeIn
<1>. QED BY <1>1, <1>2, <1>3, <1>4

\* What Process gives to a pod is what the pod should have.
LEMMA ConfiguresWanted ==
  ASSUME NEW K, NEW c, Converted(K, c), PodsTyped(c.pods), NEW p \in Pods(c)
  PROVE  ConfigureOf(c, p) = WantedIn(K, c.pods, p)
<1>1. p \in PodIDs
  BY DEF Pods
<1>2. \A id : id \in Policies(c) <=> id \in PolicyIDs /\ K[id] # NoData
  BY DEF Policies, Converted, SupportedPolicy
<1>3. ASSUME NEW id \in PolicyIDs, K[id] # NoData
      PROVE  /\ id \in LookupPoliciesByPod(c, p) <=> SelectsIn(c.pods, Namespace[id], K[id].podSelector, p)
             /\ PolicyType(c.policies[id]) = TypeIn(K[id])
             /\ calculateMatches(c, id) = MatchesIn(c.pods, id, K[id])
  <2>1. PICK policy : policy = K[id]
    OBVIOUS
  <2>2. PICK q : q = policyToProto(policy)
    OBVIOUS
  <2>3. SupportedPolicy(policy) /\ c.policies[id] = q
    BY SMTT(60), <1>3, <2>1, <2>2 DEF Converted
  <2>4. /\ q.pods = labelSelectorToProto(policy.podSelector) /\ PolicyType(q) = TypeIn(policy)
        /\ q.ingress = {RuleToProto(rule) : rule \in policy.ingress}
        /\ q.egress = {RuleToProto(rule) : rule \in policy.egress}
    BY <2>2, <2>3, ConvertedPolicy
  <2>5. PICK sel : sel = policy.podSelector
    BY SMTT(60)
  <2>6. /\ sel \in Selectors /\ Evaluated(sel) /\ sel.matchLabels # <<>> /\ sel # NoSelector
        /\ NoSelector # labelSelectorToProto(sel)
    BY SMTT(60), <2>3, <2>5, ProcessorAssumption DEF SupportedPolicy, NetworkPolicies
  <2>7. p \in LookupPodsByNSLabelSelector(c, Namespace[id], q.pods)
          <=> SelectsIn(c.pods, Namespace[id], sel, p)
    BY SMTT(60), <1>1, <2>4, <2>5, <2>6, LookupSelects
  <2>8. SelectsIn(c.pods, Namespace[id], sel, p)
          => Namespace[id] = Namespace[p] /\ Range(q.pods.labels) \cap c.pods[p].labels # {}
    <3>1. q.pods.labels = sel.matchLabels
      BY <2>4, <2>5 DEF labelSelectorToProto
    <3>2. sel.matchLabels[1] \in Range(sel.matchLabels)
      <4>1. sel.matchLabels \in Seq(Labels) /\ Len(sel.matchLabels) > 0
        BY <2>6 DEF Selectors
      <4>2. 1 \in 1..Len(sel.matchLabels)
        BY <4>1
      <4>. QED BY ZenonT(60), <2>6, <4>2, LabelsOfSelector
    <3>. QED BY <3>1, <3>2 DEF SelectsIn
  <2>9. id \in LookupPoliciesByPod(c, p) <=> SelectsIn(c.pods, Namespace[id], sel, p)
    BY <1>2, <1>3, <2>3, <2>7, <2>8 DEF LookupPoliciesByPod
  <2>10. \A rule \in policy.ingress \cup policy.egress : \A type :
           MatchOf(c, id, type, RuleToProto(rule)) = MatchIn(c.pods, id, type, rule)
    <3>1. \A rule \in policy.ingress \cup policy.egress :
            rule \in PolicyRules /\ \A peer \in rule.peers : SupportedPeer(peer)
      BY <2>3 DEF SupportedPolicy, NetworkPolicies
    <3>. QED BY <3>1, MatchMeans
  <2>11. calculateMatches(c, id) = MatchesIn(c.pods, id, policy)
    BY <2>3, <2>4, <2>10 DEF calculateMatches, MatchesIn
  <2>. QED BY <2>1, <2>3, <2>4, <2>5, <2>9, <2>11
<1>4. \A id : id \in LookupPoliciesByPod(c, p) <=> id \in PoliciesIn(K, c.pods, p)
  BY SMTT(60), <1>2, <1>3 DEF LookupPoliciesByPod, PoliciesIn
<1>. QED BY <1>3, <1>4 DEF ConfigureOf, WantedIn, ConfigIn, PoliciesIn
----------------------------------------------------------------------------
(* What an event changes for a pod p that it does not have rendered.       *)

\* Pod q is no peer of the policies of p.
NoPeer(K, D, p, q) ==
  \A id \in PoliciesIn(K, D, p) : \A rule \in K[id].ingress \cup K[id].egress :
    \A x \in PeersIn(D, id, rule) : x[1] # q

\* The policies that select p are found, and p is found by them.
LEMMA PodOfPolicy ==
  ASSUME NEW policy, SupportedPolicy(policy), NEW c, NEW id, NEW p \in PodIDs
  PROVE  p \in PodsOfPolicy(c, id, policy) <=> SelectsIn(c.pods, Namespace[id], policy.podSelector, p)
<1>1. PICK sel : sel = policy.podSelector
  BY SMTT(60)
<1>2. sel \in Selectors /\ Evaluated(sel) /\ sel # NoSelector /\ NoSelector # labelSelectorToProto(sel)
  BY <1>1, ProcessorAssumption DEF SupportedPolicy, NetworkPolicies
<1>3. policyToProto(policy).pods = labelSelectorToProto(sel)
  BY <1>1, ConvertedPolicy
<1>. QED BY <1>1, <1>2, <1>3, LookupSelects DEF PodsOfPolicy

\* A pod p that is not outdated by a change of pod q, before or after which D are the data,
\* has no policy with the peer q.
LEMMA NoPeerUnlessOutdated ==
  ASSUME NEW K, NEW c, Converted(K, c), NEW D, NEW p \in PodIDs, NEW q \in PodIDs, D[p] = c.pods[p],
         p \notin PodsOfPolicies(c, PoliciesWithPeer(c, q, D[q]))
  PROVE  NoPeer(K, D, p, q)
<1>1. SUFFICES ASSUME NEW id \in PoliciesIn(K, D, p), NEW rule \in K[id].ingress \cup K[id].egress,
                      NEW x \in PeersIn(D, id, rule), x[1] = q
               PROVE  FALSE
  BY SMTT(60) DEF NoPeer
<1>2. PICK policy : policy = K[id]
  BY SMTT(60)
<1>3. id \in PolicyIDs /\ SupportedPolicy(policy) /\ c.policies[id] = policyToProto(policy)
  BY SMTT(60), <1>2 DEF PoliciesIn, Converted
<1>4. PICK peer \in rule.peers : SelectsIn(D, Namespace[id], peer.podSelector, q)
  BY SMTT(60), <1>1 DEF PeersIn
<1>5. rule \in PolicyRules /\ peer \in Peers /\ SupportedPeer(peer)
  <2>1. rule \in PolicyRules
    BY SMTT(60), <1>2, <1>3 DEF SupportedPolicy, NetworkPolicies
  <2>2. peer \in Peers
    BY SMTT(60), <2>1 DEF PolicyRules
  <2>. QED BY SMTT(60), <1>2, <1>3, <2>1, <2>2 DEF SupportedPolicy
<1>6. peer.podSelector \in Selectors /\ peer.podSelector # NoSelector
  BY SMTT(60), <1>4, <1>5 DEF SelectsIn, Peers
<1>7. calculateLabelSelectorMatches(q, D[q], labelSelectorToProto(peer.podSelector), Namespace[id])
  BY SMTT(60), <1>4, <1>6, SelectedMatches
<1>8. PICK y \in peersToProto(rule.peers) : y.pods = labelSelectorToProto(peer.podSelector)
  <2>1. SelectorToProto(peer) = labelSelectorToProto(peer.podSelector)
    BY SMTT(60), <1>6 DEF SelectorToProto
  <2>. QED BY SMTT(60), <2>1, PeersToProto
<1>9. RuleToProto(rule) \in c.policies[id].ingress \cup c.policies[id].egress
  BY SMTT(60), <1>2, <1>3, ConvertedPolicy
<1>10. RuleToProto(rule).peers = peersToProto(rule.peers)
  BY SMTT(60) DEF RuleToProto
<1>11. id \in PoliciesWithPeer(c, q, D[q])
  <2>1. id \in Policies(c)
    BY ZenonT(60), <1>3 DEF Policies, SupportedPolicy
  <2>2. \E z \in RuleToProto(rule).peers : calculateLabelSelectorMatches(q, D[q], z.pods, Namespace[id])
    BY SMTT(60), <1>7, <1>8, <1>10
  <2>. QED BY ZenonT(60), <1>9, <2>1, <2>2 DEF PoliciesWithPeer
<1>12. p \in LookupPodsByNSLabelSelector(c, Namespace[id], c.policies[id].pods)
  <2>1. SelectsIn(c.pods, Namespace[id], policy.podSelector, p)
    BY <1>2 DEF PoliciesIn, SelectsIn
  <2>. QED BY SMTT(60), <1>3, <2>1, PodOfPolicy DEF PodsOfPolicy
<1>. QED BY SMTT(60), <1>11, <1>12 DEF PodsOfPolicies

\* Only policy id differs.
SamePoliciesBut(K, L, id) == \A i \in PolicyIDs : i # id => L[i] = K[i]

\* A policy that does not select p, before and after it changes, makes no difference.
LEMMA PolicyChanges ==
  ASSUME NEW K, NEW L, NEW D, NEW p, NEW id, SamePoliciesBut(K, L, id),
         id \notin PoliciesIn(K, D, p), id \notin PoliciesIn(L, D, p)
  PROVE  WantedIn(L, D, p) = WantedIn(K, D, p)
<1>1. PoliciesIn(L, D, p) = PoliciesIn(K, D, p)
  BY SMTT(60) DEF PoliciesIn, SamePoliciesBut
<1>2. \A i \in PoliciesIn(K, D, p) : L[i] = K[i]
  BY DEF PoliciesIn, SamePoliciesBut
<1>. QED BY SMTT(60), <1>1, <1>2 DEF WantedIn

\* Only addresses that exist get into the rules, and ports are numbers of 16 bits.
LEMMA WantedTyped ==
  ASSUME NEW K, NEW D, \A id \in PolicyIDs : K[id] # NoData => SupportedPolicy(K[id]), NEW p
  PROVE  WantedIn(K, D, p) \subseteq Configuration
<1>1. SUFFICES ASSUME NEW id \in PolicyIDs, K[id] # NoData PROVE ConfigIn(D, id, K[id]) \in Configuration
  BY SMTT(60) DEF WantedIn, PoliciesIn
<1>2. ASSUME NEW type \in {"ingress", "egress"}, NEW rule \in K[id].ingress \cup K[id].egress
      PROVE  MatchIn(D, id, type, rule) \in Matches
  <2>1. rule \in PolicyRules
    BY SMTT(60), <1>1 DEF SupportedPolicy, NetworkPolicies
  <2>2. rule.peers \subseteq Peers /\ rule.ports \subseteq [protocol : STRING, number : 0..(UInt16Size - 1)]
    BY SMTT(60), <2>1 DEF PolicyRules
  <2>3. PeersIn(D, id, rule) \in SUBSET (PodIDs \X IPs)
    BY DEF PeersIn
  <2>4. {peer.ipBlock : peer \in rule.peers} \ {NoBlock} \in SUBSET Blocks
    BY SMTT(60), <2>2 DEF Peers
  <2>5. {[proto |-> IF port.protocol = "UDP" THEN "UDP" ELSE "TCP", number |-> port.number] :
           port \in rule.ports} \in SUBSET Ports
    BY <2>2 DEF Ports
  <2>6. (rule.peers = {}) \in BOOLEAN
    OBVIOUS
  <2>. QED BY SMTT(60), <2>3, <2>4, <2>5, <2>6 DEF MatchIn, Matches
<1>3. MatchesIn(D, id, K[id]) \in SUBSET Matches
  BY <1>2 DEF MatchesIn
<1>4. TypeIn(K[id]) \in 0..2
  BY SMTT(60) DEF TypeIn
<1>. QED BY SMTT(60), <1>3, <1>4 DEF ConfigIn, Configuration

----------------------------------------------------------------------------
(* Configurations that agree but for the peers in S.                       *)

MatchAgrees(S, m, n) ==
  /\ m.type = n.type /\ m.any = n.any /\ m.blocks = n.blocks /\ m.ports = n.ports
  /\ m.peers \subseteq n.peers /\ \A x \in n.peers \ m.peers : x[1] \in S

MatchesAgree(S, M, N) ==
  /\ \A m \in M : \E n \in N : MatchAgrees(S, m, n)
  /\ \A n \in N : \E m \in M : MatchAgrees(S, m, n)

PolicyAgrees(S, a, b) == a.id = b.id /\ a.type = b.type /\ MatchesAgree(S, a.matches, b.matches)

Agrees(S, A, B) ==
  /\ \A a \in A : \E b \in B : PolicyAgrees(S, a, b)
  /\ \A b \in B : \E a \in A : PolicyAgrees(S, a, b)

LEMMA AgreesReflexive == \A S, A : Agrees(S, A, A)
BY DEF Agrees, PolicyAgrees, MatchesAgree, MatchAgrees

LEMMA AgreesTransitive ==
  ASSUME NEW S, NEW T, NEW A, NEW B, NEW C, Agrees(S, A, B), Agrees(T, B, C)
  PROVE  Agrees(S \cup T, A, C)
<1>1. \A m, n, q : MatchAgrees(S, m, n) /\ MatchAgrees(T, n, q) => MatchAgrees(S \cup T, m, q)
  BY DEF MatchAgrees
<1>2. \A M, N, Q : MatchesAgree(S, M, N) /\ MatchesAgree(T, N, Q) => MatchesAgree(S \cup T, M, Q)
  BY Zenon, <1>1 DEF MatchesAgree
<1>3. \A a, b, d : PolicyAgrees(S, a, b) /\ PolicyAgrees(T, b, d) => PolicyAgrees(S \cup T, a, d)
  BY Zenon, <1>2 DEF PolicyAgrees
<1>. QED BY Zenon, <1>3 DEF Agrees

\* Configurations that agree look the same without the peers in S.
SeenMatch(S, m) == [m EXCEPT !.peers = {x \in m.peers : x[1] \notin S}]
SeenPolicy(S, a) == [a EXCEPT !.matches = {SeenMatch(S, m) : m \in a.matches}]
SeenPolicies(S, A) == {SeenPolicy(S, a) : a \in A}

LEMMA AgreesSeen ==
  ASSUME NEW A \in SUBSET Configuration, NEW B \in SUBSET Configuration, NEW S, Agrees(S, A, B)
  PROVE  SeenPolicies(S, A) = SeenPolicies(S, B)
<1>1. ASSUME NEW m \in Matches, NEW n \in Matches, MatchAgrees(S, m, n)
      PROVE  SeenMatch(S, m) = SeenMatch(S, n)
  <2>1. {x \in m.peers : x[1] \notin S} = {x \in n.peers : x[1] \notin S}
    BY <1>1 DEF MatchAgrees
  <2>. QED BY SMTT(60), <1>1, <2>1 DEF MatchAgrees, SeenMatch, Matches
<1>2. ASSUME NEW a \in A, NEW b \in B, PolicyAgrees(S, a, b)
      PROVE  SeenPolicy(S, a) = SeenPolicy(S, b)
  <2>1. a \in Configuration /\ b \in Configuration /\ a.matches \subseteq Matches /\ b.matches \subseteq Matches
    BY DEF Configuration
  <2>2. {SeenMatch(S, m) : m \in a.matches} = {SeenMatch(S, n) : n \in b.matches}
    <3>1. ASSUME NEW m \in a.matches PROVE \E n \in b.matches : SeenMatch(S, m) = SeenMatch(S, n)
      BY <1>1, <1>2, <2>1 DEF PolicyAgrees, MatchesAgree
    <3>2. ASSUME NEW n \in b.matches PROVE \E m \in a.matches : SeenMatch(S, m) = SeenMatch(S, n)
      BY <1>1, <1>2, <2>1 DEF PolicyAgrees, MatchesAgree
    <3>. QED BY <3>1, <3>2
  <2>. QED BY ZenonT(60), <1>2, <2>1, <2>2 DEF PolicyAgrees, SeenPolicy, Configuration
<1>. QED BY <1>2 DEF Agrees, SeenPolicies
LEMMA AgreesMonotone ==
  ASSUME NEW S, NEW T, S \subseteq T, NEW A, NEW B, Agrees(S, A, B)
  PROVE  Agrees(T, A, B)
<1>1. \A m, n : MatchAgrees(S, m, n) => MatchAgrees(T, m, n)
  BY DEF MatchAgrees
<1>2. \A M, N : MatchesAgree(S, M, N) => MatchesAgree(T, M, N)
  BY SMTT(60), <1>1 DEF MatchesAgree
<1>. QED BY SMTT(60), <1>2 DEF Agrees, PolicyAgrees

----------------------------------------------------------------------------
(* A pod changes that is no peer of p.                                     *)

\* The other policies of p stay.
LEMMA SamePolicies ==
  ASSUME NEW K, NEW D, NEW E, NEW p, E[p] = D[p]
  PROVE  PoliciesIn(K, E, p) = PoliciesIn(K, D, p)
BY SMTT(60) DEF PoliciesIn, SelectsIn

\* A pod that appears as a peer is the only difference.
LEMMA PeerAppears ==
  ASSUME NEW K, NEW D, NEW E, NEW p \in PodIDs, NEW q, p # q,
         \A r \in PodIDs : r # q => E[r] = D[r], NoPeer(K, D, p, q)
  PROVE  Agrees({q}, WantedIn(K, D, p), WantedIn(K, E, p))
<1>1. PoliciesIn(K, E, p) = PoliciesIn(K, D, p)
  BY SMTT(60), SamePolicies
<1>2. ASSUME NEW id \in PoliciesIn(K, D, p) PROVE PolicyAgrees({q}, ConfigIn(D, id, K[id]), ConfigIn(E, id, K[id]))
  <2>1. ASSUME NEW type, NEW rule \in K[id].ingress \cup K[id].egress
        PROVE  MatchAgrees({q}, MatchIn(D, id, type, rule), MatchIn(E, id, type, rule))
    <3>1. ASSUME NEW x \in PodIDs \X IPs, x[1] # q
          PROVE  x \in PeersIn(D, id, rule) <=> x \in PeersIn(E, id, rule)
      <4>1. x[1] \in PodIDs /\ E[x[1]] = D[x[1]]
        BY SMTT(60), <3>1
      <4>. QED BY SMTT(60), <4>1 DEF PeersIn, SelectsIn
    <3>2. PeersIn(D, id, rule) \subseteq PodIDs \X IPs /\ PeersIn(E, id, rule) \subseteq PodIDs \X IPs
      BY SMTT(60) DEF PeersIn
    <3>3. \A x \in PeersIn(D, id, rule) : x[1] # q
      BY SMTT(60) DEF NoPeer
    <3>. QED BY ZenonT(60), <3>1, <3>2, <3>3 DEF MatchAgrees, MatchIn
  <2>2. MatchesAgree({q}, MatchesIn(D, id, K[id]), MatchesIn(E, id, K[id]))
    BY SMTT(60), <2>1 DEF MatchesAgree, MatchesIn
  <2>. QED BY SMTT(60), <2>2 DEF PolicyAgrees, ConfigIn
<1>. QED BY <1>1, <1>2 DEF Agrees, WantedIn

\* A pod that is no peer before and after makes no difference.
LEMMA NoPeerChanges ==
  ASSUME NEW K, NEW D, NEW E, NEW p \in PodIDs, NEW q, p # q,
         \A r \in PodIDs : r # q => E[r] = D[r], NoPeer(K, D, p, q), NoPeer(K, E, p, q)
  PROVE  WantedIn(K, E, p) = WantedIn(K, D, p)
<1>1. PoliciesIn(K, E, p) = PoliciesIn(K, D, p)
  BY SMTT(60), SamePolicies
<1>2. ASSUME NEW id \in PoliciesIn(K, D, p) PROVE ConfigIn(D, id, K[id]) = ConfigIn(E, id, K[id])
  <2>1. ASSUME NEW rule \in K[id].ingress \cup K[id].egress
        PROVE  PeersIn(D, id, rule) = PeersIn(E, id, rule)
    <3>1. ASSUME NEW x \in PodIDs \X IPs, x[1] # q
          PROVE  x \in PeersIn(D, id, rule) <=> x \in PeersIn(E, id, rule)
      <4>1. x[1] \in PodIDs /\ E[x[1]] = D[x[1]]
        BY SMTT(60), <3>1
      <4>. QED BY SMTT(60), <4>1 DEF PeersIn, SelectsIn
    <3>2. PeersIn(D, id, rule) \subseteq PodIDs \X IPs /\ PeersIn(E, id, rule) \subseteq PodIDs \X IPs
      BY SMTT(60) DEF PeersIn
    <3>3. \A x \in PeersIn(D, id, rule) \cup PeersIn(E, id, rule) : x[1] # q
      BY SMTT(60), <1>1 DEF NoPeer
    <3>. QED BY SMTT(60), <3>1, <3>2, <3>3
  <2>2. \A type : \A rule \in K[id].ingress \cup K[id].egress : MatchIn(D, id, type, rule) = MatchIn(E, id, type, rule)
    BY ZenonT(60), <2>1 DEF MatchIn
  <2>3. MatchesIn(D, id, K[id]) = MatchesIn(E, id, K[id])
    BY SMTT(60), <2>2 DEF MatchesIn
  <2>. QED BY SMTT(60), <2>3 DEF ConfigIn
<1>. QED BY SMTT(60), <1>1, <1>2 DEF WantedIn

\* What was ignored of a pod that is no peer does not matter.
LEMMA NoPeerSeen ==
  ASSUME NEW K, NEW D, NEW p, NEW q, NEW S, NEW A, Agrees(S, A, WantedIn(K, D, p)), NoPeer(K, D, p, q)
  PROVE  Agrees(S \ {q}, A, WantedIn(K, D, p))
<1>1. ASSUME NEW id \in PoliciesIn(K, D, p), NEW a, PolicyAgrees(S, a, ConfigIn(D, id, K[id]))
      PROVE  PolicyAgrees(S \ {q}, a, ConfigIn(D, id, K[id]))
  <2>1. ASSUME NEW n \in MatchesIn(D, id, K[id]), NEW m, MatchAgrees(S, m, n)
        PROVE  MatchAgrees(S \ {q}, m, n)
    <3>1. \A x \in n.peers : x[1] # q
      BY SMTT(60), <2>1 DEF MatchesIn, MatchIn, NoPeer
    <3>. QED BY ZenonT(60), <2>1, <3>1 DEF MatchAgrees
  <2>2. ConfigIn(D, id, K[id]).matches = MatchesIn(D, id, K[id])
    BY DEF ConfigIn
  <2>3. MatchesAgree(S, a.matches, MatchesIn(D, id, K[id]))
    BY <1>1, <2>2 DEF PolicyAgrees
  <2>4. MatchesAgree(S \ {q}, a.matches, MatchesIn(D, id, K[id]))
    BY ZenonT(60), <2>1, <2>3 DEF MatchesAgree
  <2>. QED BY ZenonT(60), <1>1, <2>2, <2>4 DEF PolicyAgrees
<1>. QED BY SMTT(60), <1>1 DEF Agrees, WantedIn
\* Pods that do not exist, that have no address or that are in another namespace are no peers.
LEMMA NoPeerOf ==
  ASSUME NEW K, NEW D, NEW p, NEW q,
         D[q] = NoData \/ D[q].ip = NoIP \/ Namespace[q] # Namespace[p]
  PROVE  NoPeer(K, D, p, q)
<1>1. SUFFICES ASSUME NEW id \in PoliciesIn(K, D, p), NEW rule, NEW x \in PeersIn(D, id, rule), x[1] = q
               PROVE  FALSE
  BY DEF NoPeer
<1>2. Namespace[id] = Namespace[p]
  BY SMTT(60), <1>1 DEF PoliciesIn, SelectsIn
<1>3. PICK peer \in rule.peers : SelectsIn(D, Namespace[id], peer.podSelector, q) /\ D[q].ip \in IPs
  BY <1>1 DEF PeersIn
<1>. QED BY <1>2, <1>3, ProcessorAssumption DEF SelectsIn
=============================================================================
