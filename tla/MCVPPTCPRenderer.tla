-------------------------- MODULE MCVPPTCPRenderer --------------------------
(***************************************************************************)
(* Lists of rules for the VPPTCP renderer, on a host with three pods.      *)
(***************************************************************************)
EXTENDS VPPTCPRenderer

MCPods == {"a", "b", "c", "hostNetwork"}
MCNsIndex == [p \in MCPods |-> CASE p = "a" -> 1 [] p = "b" -> 2 [] p = "c" -> 3 [] OTHER -> NoNs]
MCIPOf == [ns \in 1..3 |-> CASE ns = 1 -> 1 [] ns = 2 -> 2 [] ns = 3 -> 6]

Rule(id, n, proto, port, action) ==
  [id |-> <<id>>, any |-> n = AnyNet, net |-> n, proto |-> proto, port |-> port, action |-> action]
Net(ip, len) == [ip |-> ip, len |-> len]
Rest == <<Rule("TCP:NONE", AnyNet, "TCP", AnyPort, Deny), Rule("UDP:NONE", AnyNet, "UDP", AnyPort, Deny)>>

\* Everything is allowed; by a policy of its own.
All == <<Rule("all-TCP", AnyNet, "TCP", AnyPort, Permit), Rule("all-UDP", AnyNet, "UDP", AnyPort, Permit)>>

\* One address, twice by two policies; a network around it; ports of everything.
One(id) == <<Rule(id, OneHost(2), "TCP", 80, Permit)>>
Around == <<Rule("net", Net(2, 2), "TCP", AnyPort, Permit), Rule("net2", Net(0, 2), "UDP", 81, Permit)>>
ByPort == <<Rule("p80", AnyNet, "TCP", 80, Permit), Rule("p81", AnyNet, "UDP", 81, Permit)>>

Mixed == [ingress |-> One("p1") \o One("p2") \o Around \o Rest, egress |-> ByPort \o Rest]
Second == [ingress |-> One("p2") \o Rest, egress |-> <<>>]
Closed == [ingress |-> All \o One("p1"), egress |-> Rest]
Ported == [ingress |-> ByPort \o Rest, egress |-> Around \o One("p2") \o Rest]

MCProfiles ==
  [p \in MCPods |-> CASE p = "a" -> {Mixed, Second} [] p = "b" -> {Closed, Ported}
                      [] p = "c" -> {Mixed} [] OTHER -> {Closed}]

MCProxyRules ==
  {[scope |-> Global, lcl |-> AnyNet, rmt |-> AnyNet, proto |-> "TCP", port |-> AnyPort,
    action |-> Permit, tag |-> <<"proxy">>]}
=============================================================================
