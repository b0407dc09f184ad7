--------------------------- MODULE MCConfigurator ---------------------------
(***************************************************************************)
(* Inputs of the policy configurator: the contents of two policies.        *)
(***************************************************************************)
EXTENDS Configurator

MCPods == {"web", "db", "pending"}
MCIPAddress == [p \in MCPods |-> CASE p = "web" -> 1 [] p = "db" -> 6 [] OTHER -> NoIP]

Symmetry == Permutations(Renderers)

Net(ip, len) == [ip |-> ip, len |-> len]
Block(n, except) == [net |-> n, except |-> except]
Match(type, pods, blocks, ports) ==
  [type |-> type, anyL3 |-> FALSE, pods |-> pods, blocks |-> blocks, ports |-> ports]
AnyMatch(type, ports) ==
  [type |-> type, anyL3 |-> TRUE, pods |-> <<>>, blocks |-> <<>>, ports |-> ports]

TCP80 == <<[proto |-> "TCP", num |-> 80]>>
Mixed == <<[proto |-> "UDP", num |-> AnyPort], [proto |-> "TCP", num |-> 80]>>

\* Peers, ports, directions and several matches; policies that allow nothing, or
\* everything in one direction.
P(type, matches) == [type |-> type, matches |-> matches]
Peers ==
  P("all", <<Match(MatchEgress, <<"web", "db">>, <<>>, Mixed), Match(MatchIngress, <<"db">>, <<>>, <<>>)>>)
Nothing == P(MatchIngress, <<>>)
AllIngress == P("all", <<AnyMatch(MatchIngress, <<>>)>>)
OtherDirection == P(MatchEgress, <<AnyMatch(MatchIngress, <<>>)>>)
TwoMatches == P("all", <<AnyMatch(MatchEgress, TCP80), Match(MatchIngress, <<>>, <<>>, <<>>)>>)

\* Exceptions that are nested, next to each other or in each other; several blocks
\* of which only the last is taken as it is.
Except(blocks) == P("all", <<Match(MatchIngress, <<"db", "pending">>, blocks, TCP80)>>)
Nested == Except(<<Block(Net(0, 1), <<Net(2, 2), Net(3, 3)>>)>>)
Adjacent == Except(<<Block(Net(0, 0), <<Net(4, 1), Net(3, 3)>>)>>)
TwoNets == Except(<<Block(Net(0, 0), <<Net(5, 3), Net(4, 2)>>), Block(Net(4, 2), <<>>)>>)

MCPolicyInputs ==
  {<<Peers, Adjacent>>, <<Nothing, Nested>>, <<AllIngress, OtherDirection>>, <<TwoMatches, TwoNets>>}

\* Two blocks in one match.
TwoBlocks ==
  {<<P("all", <<Match(MatchIngress, <<>>, <<Block(n, <<>>), Block(Net(6, 2), <<>>)>>, <<>>)>>)>> :
     n \in {Net(0, 1), Net(4, 2)}}
=============================================================================
