-------------------------------- MODULE IPAM --------------------------------
(***************************************************************************)
(* IP address management (plugins/contiv/ipam/ipam.go) of the nodes of a   *)
(* cluster. Every node derives its pod network from the pod subnet and its *)
(* host ID, and assigns the addresses of that network to its pods. There   *)
(* is no communication: addresses are unique in the cluster only because   *)
(* the networks are disjoint.                                              *)
(*                                                                         *)
(* Addresses are numbers. Sizes stand for the prefix lengths of the        *)
(* configuration: NetworkSize is 2^(32 - PodNetworkPrefixLen), HostParts   *)
(* is 2^(PodNetworkPrefixLen - length of the subnet prefix).               *)
(***************************************************************************)
EXTENDS Naturals

CONSTANTS
  HostIDs,            \* the host IDs of the nodes
  PodIDs,             \* network namespaces of pods
  PodSubnet,          \* first address of the subnet of all pods
  HostParts,          \* number of pod networks in the subnet
  NetworkSize,        \* number of addresses of a pod network
  AddrSize            \* number of addresses: uint32 arithmetic

ASSUME IPAMAssumption ==
  /\ HostIDs \subseteq Nat
  /\ PodSubnet \in Nat
  /\ HostParts \in Nat \ {0, 1}     \* the network prefix is longer than the subnet's
  /\ NetworkSize \in Nat \ {0}
  /\ AddrSize \in Nat \ {0}
  /\ PodSubnet + HostParts * NetworkSize <= AddrSize

VARIABLE assignedPodIPs     \* per host: the map from addresses to pods, as pairs

gatewayPodSeqID == 1

\* hostID is trimmed to the bits there are for it.
convertToHostIPPart(hostID, parts) == hostID % parts

\* The network of a host in a subnet: the part of the host is shifted to its place.
applyHostID(subnet, parts, size, hostID) ==
  (subnet + convertToHostIPPart(hostID, parts) * size) % AddrSize

\* Seeded fault: the host part is not shifted to its place.
PodNetworkUnshifted(hostID) == applyHostID(PodSubnet, HostParts, 1, hostID)

PodNetwork(hostID) == applyHostID(PodSubnet, HostParts, NetworkSize, hostID)

PodGatewayIP(hostID) == (PodNetwork(hostID) + gatewayPodSeqID) % AddrSize

\* Seeded fault: the sequence number is counted from one.
PodIPShifted(h, j) == PodNetwork(h) + j + 1

PodIP(h, j) == (PodNetwork(h) + j) % AddrSize

IPAMTypeOK ==
  /\ assignedPodIPs \in [HostIDs -> SUBSET ((0..(AddrSize - 1)) \X PodIDs)]

IPAMInit == assignedPodIPs = [h \in HostIDs |-> {}]

Assigned(h, ip) == \E a \in assignedPodIPs[h] : a[1] = ip

\* Seeded fault: the address of the gateway is taken for a pod.
AssignableGateway(h, j) == ~Assigned(h, PodIP(h, j))

\* The addresses the loop of NextPodIP does not skip.
Assignable(h, j) == j # gatewayPodSeqID /\ ~Assigned(h, PodIP(h, j))

\* NextPodIP takes the first address that is free. (An empty pod ID is refused;
\* PodIDs are not empty.)
NextPodIP(h, pod) ==
  \E j \in 1..(NetworkSize - 1) :
    /\ Assignable(h, j)
    /\ \A k \in 1..(j - 1) : ~Assignable(h, k)
    /\ assignedPodIPs' = [assignedPodIPs EXCEPT ![h] = @ \cup {<<PodIP(h, j), pod>>}]

NoFreeIP(h) == \A j \in 1..(NetworkSize - 1) : ~Assignable(h, j)

\* ReleasePodIP frees one address of the pod; without one it is an error.
ReleasePodIP(h, pod) ==
  \E a \in assignedPodIPs[h] :
    /\ a[2] = pod
    /\ assignedPodIPs' = [assignedPodIPs EXCEPT ![h] = @ \ {a}]

HasPodIP(h, pod) == \E a \in assignedPodIPs[h] : a[2] = pod

IPAMNext ==
  \E h \in HostIDs, pod \in PodIDs : NextPodIP(h, pod) \/ ReleasePodIP(h, pod)

IPAMSpec == IPAMInit /\ [][IPAMNext]_assignedPodIPs

----------------------------------------------------------------------------
(* Properties.                                                             *)

\* No address is assigned twice in the cluster, on one node or on two, although
\* every node assigns addresses on its own.
ClusterWideUnique ==
  \A g, h \in HostIDs : \A a \in assignedPodIPs[g], b \in assignedPodIPs[h] :
    a[1] = b[1] => g = h /\ a = b

\* A pod never gets an address that has another use: the network address or
\* the gateway of any node of the cluster.
NoReservedAddress ==
  \A g, h \in HostIDs : \A a \in assignedPodIPs[g] :
    a[1] \notin {PodNetwork(h), PodGatewayIP(h)}
=============================================================================
