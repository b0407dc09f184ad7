--------------------------- MODULE MCPolicyPlugin ---------------------------
(* Instances of PolicyPlugin: a new cluster, and one in which one item is  *)
(* outdated in etcd and another was deleted.                               *)
EXTENDS PolicyPlugin

CONSTANTS i1, i2, o1, o2, o3, v1, v2

\* The last two differ in fields that are not reflected.
MCtoProto == [obj \in Objects |-> IF obj = o1 THEN v1 ELSE v2]

Item1Only(obj) == [i \in Items |-> IF i = i1 THEN obj ELSE NoValue]
MCInitialData ==
  {<<Item1Only(o1), [i \in Items |-> v2]>>}
=============================================================================
