------------------------------ MODULE NodeIDs ------------------------------
(***************************************************************************)
(* What the node ID allocation promises to the rest of the system: every   *)
(* node of the cluster owns at most one number, no number has two owners,  *)
(* a node keeps its number while it is down, and only a working node gives *)
(* its number back.                                                        *)
(***************************************************************************)
EXTENDS Naturals

CONSTANTS
  Nodes,              \* the nodes of the cluster (their service labels)
  Numbers             \* the numbers there are, 0 not among them

VARIABLES
  reserved,           \* the number a node owns, 0 when it owns none
  active              \* the nodes that run with their number

Init ==
  /\ reserved = [n \in Nodes |-> 0]
  /\ active = {}

\* A node without a number is given one that nobody owns. It may fail
\* before it learns of it.
Reserve(n) ==
  /\ reserved[n] = 0
  /\ \E i \in Numbers :
       /\ \A m \in Nodes : reserved[m] # i
       /\ reserved' = [reserved EXCEPT ![n] = i]
  /\ active' \in {active, active \cup {n}}

Activate(n) ==
  /\ reserved[n] # 0
  /\ active' = active \cup {n}
  /\ UNCHANGED reserved

Deactivate(n) ==
  /\ active' = active \ {n}
  /\ UNCHANGED reserved

Free(n) ==
  /\ n \in active
  /\ reserved' = [reserved EXCEPT ![n] = 0]
  /\ active' = active \ {n}

Next == \E n \in Nodes : Reserve(n) \/ Activate(n) \/ Deactivate(n) \/ Free(n)

Spec == Init /\ [][Next]_<<reserved, active>>
=============================================================================
