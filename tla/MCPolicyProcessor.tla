------------------------- MODULE MCPolicyProcessor --------------------------
(* Instances of PolicyProcessor: three pods of a namespace, one of them on *)
(* another node, a pod of kube-system, and two policies.                   *)
EXTENDS PolicyProcessor

MCPodIDs == {"web", "db", "client", "dns"}
MCPolicyIDs == {"pol1", "pol2"}
MCNamespace == [x \in MCPodIDs \cup MCPolicyIDs |-> IF x = "dns" THEN "kube-system" ELSE "default"]
Label(key, value) == [key |-> key, value |-> value]
a == Label("app", "a")
b == Label("tier", "b")
MCLabels == {a, b}
MCIPs == {11, 12, 13, 14, 21}
MCHostNetwork == {11, 12, 13, 14}

PodWith(labels, ip) == [labels |-> labels, ip |-> ip]
MCPodInputs ==
  [web    |-> {PodWith({a}, NoIP), PodWith({a}, 11), PodWith({b}, 11), PodWith({a, b}, 11)},
   db     |-> {PodWith({b}, NoIP), PodWith({}, NoIP), PodWith({b}, 12), PodWith({b}, 13), PodWith({}, 12)},
   client |-> {PodWith({a, b}, NoIP), PodWith({a, b}, 21), PodWith({a}, 21)},
   dns    |-> {PodWith({b}, NoIP), PodWith({b}, 14)}]

Selector(labels, exprs) == [matchLabels |-> labels, matchExpressions |-> exprs]
With(labels) == Selector(labels, <<>>)
Expr(key, operator, values) == [key |-> key, operator |-> operator, values |-> values]

Peer(sel, ns, block) == [podSelector |-> sel, namespaceSelector |-> ns, ipBlock |-> block]
PodsWith(sel) == Peer(sel, NoSelector, NoBlock)
Rule(peers, ports) == [peers |-> peers, ports |-> ports]
Policy(sel, types, ingress, egress) ==
  [podSelector |-> sel, policyTypes |-> types, ingress |-> ingress, egress |-> egress]
Number(protocol, n) == [protocol |-> protocol, number |-> n]

MCPolicyInputs ==
  [pol1 |-> {Policy(With(<<a>>), {},
                    {Rule({PodsWith(With(<<b>>))}, {Number("TCP", 80)})}, {}),
             Policy(Selector(<<b>>, <<Expr("tier", "In", <<"b">>)>>), {"Ingress", "Egress"},
                    {Rule({}, {Number("none", 80), Number("UDP", 53)})},
                    {Rule({PodsWith(With(<<a, b>>)), Peer(NoSelector, With(<<a>>), NoBlock)}, {})})},
   pol2 |-> {Policy(With(<<a, b>>), {"Egress"}, {},
                    {Rule({PodsWith(Selector(<<>>, <<Expr("tier", "In", <<"b">>)>>)),
                           PodsWith(Selector(<<a>>, <<Expr("tier", "NotIn", <<"b">>),
                                                      Expr("app", "Exists", <<>>)>>)),
                           PodsWith(Selector(<<>>, <<Expr("tier", "DoesNotExist", <<>>)>>)),
                           Peer(NoSelector, NoSelector, "block")}, {})})}]

MCInitialPods ==
  {NoPods, [p \in PodIDs |-> IF p = "db" THEN PodWith({b}, 12) ELSE NoData]}
=============================================================================
