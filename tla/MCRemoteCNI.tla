---------------------------- MODULE MCRemoteCNI ----------------------------
(* Instances of RemoteCNI: AF_PACKET interfaces with the TCP stack of VPP  *)
(* for sandboxes of two pods, one of which stays, and TAP interfaces       *)
(* without it for two sandboxes of one pod on a node that has served many  *)
(* requests.                                                               *)
EXTENDS RemoteCNI

CONSTANTS c1, c2

MCSetups ==
  {[useTAP |-> FALSE, tcpStack |-> TRUE, offloadDisabled |-> FALSE,
    pod |-> [c \in Containers |-> IF c = c1 THEN "pod1" ELSE "pod2"], served |-> 0,
    retries |-> [c \in Containers |-> IF c = c1 THEN 2 ELSE 0]],
   [useTAP |-> TRUE, tcpStack |-> FALSE, offloadDisabled |-> TRUE,
    pod |-> [c \in Containers |-> "pod1"], served |-> LastOctet - 2,
    retries |-> [c \in Containers |-> IF c = c1 THEN 2 ELSE 0]]}
=============================================================================
