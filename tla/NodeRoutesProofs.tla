-------------------------- MODULE NodeRoutesProofs --------------------------
(***************************************************************************)
(* Addresses of pods are unique in the cluster and never a reserved one,   *)
(* and the routes of a node lead to the pods of the nodes it knows, for    *)
(* any number of hosts, pods and addresses.                                *)
(***************************************************************************)
EXTENDS NodeRoutes, FiniteSetTheorems, TLAPS

----------------------------------------------------------------------------
(* The addresses of pods.                                                  *)

\* The host IDs fit into the bits between the two prefixes.
HostIDsFit == \A h \in HostIDs : h < HostParts

\* Every assigned address lies in the pod network of its node, above the
\* network address, and is not the gateway.
InOwnNetwork ==
  \A h \in HostIDs : \A a \in assignedPodIPs[h] :
    \E j \in 1..(NetworkSize - 1) : j # gatewayPodSeqID /\ a[1] = PodIP(h, j)

\* The map of one node has one pod for an address.
OnePodPerIP ==
  \A h \in HostIDs : \A a, b \in assignedPodIPs[h] : a[1] = b[1] => a = b

IPAMInv == IPAMTypeOK /\ InOwnNetwork /\ OnePodPerIP

\* convertToHostIPPart, applyHostID: the network of a host ID that is not trimmed starts
\* at its multiple of the network size and does not wrap around.
LEMMA NetworkOfHost ==
  ASSUME NEW subnet \in Nat, NEW parts \in Nat \ {0}, NEW size \in Nat \ {0},
         subnet + parts * size <= AddrSize,
         NEW h \in Nat, h < parts, NEW j \in 0..(size - 1)
  PROVE  /\ applyHostID(subnet, parts, size, h) = subnet + h * size
         /\ subnet + h * size \in Nat
         /\ subnet + h * size + j < subnet + parts * size
<1>. USE IPAMAssumption
<1>1. convertToHostIPPart(h, parts) = h
  BY DEF convertToHostIPPart
<1>2. h * size \in Nat /\ parts * size \in Nat
  OBVIOUS
<1>3. h * size + size <= parts * size
  <2>1. (h + 1) * size <= parts * size
    OBVIOUS
  <2>2. (h + 1) * size = h * size + size
    OBVIOUS
  <2>. QED BY SMTT(60), <2>1, <2>2
<1>4. subnet + h * size + j < subnet + parts * size
  BY SMTT(60), <1>2, <1>3
<1>5. applyHostID(subnet, parts, size, h) = subnet + h * size
  BY SMTT(60), <1>1, <1>2, <1>4 DEF applyHostID
<1>. QED BY SMTT(60), <1>2, <1>4, <1>5

\* Multiples of a size are at least the size apart.
LEMMA MultiplesApart ==
  ASSUME NEW size \in Nat \ {0}, NEW g \in Nat, NEW h \in Nat,
         NEW i \in 0..(size - 1), NEW j \in 0..(size - 1),
         g * size + i = h * size + j
  PROVE  g = h /\ i = j
<1>1. g * size \in Nat /\ h * size \in Nat
  OBVIOUS
<1>2. ASSUME NEW a \in Nat, NEW b \in Nat, a < b
      PROVE  a * size + size <= b * size
  <2>1. (a + 1) * size <= b * size
    BY <1>2
  <2>2. (a + 1) * size = a * size + size
    OBVIOUS
  <2>. QED BY <2>1, <2>2
<1>3. ~(g < h)
  BY <1>1, <1>2
<1>4. ~(h < g)
  BY SMTT(60), <1>1, <1>2
<1>. QED BY <1>1, <1>3, <1>4

\* The addresses of a pod network, in numbers.
LEMMA AddressValue ==
  ASSUME HostIDsFit, NEW h \in HostIDs, NEW j \in 0..(NetworkSize - 1)
  PROVE  /\ PodIP(h, j) = PodSubnet + h * NetworkSize + j
         /\ PodNetwork(h) = PodSubnet + h * NetworkSize
         /\ PodSubnet + h * NetworkSize + j < PodSubnet + HostParts * NetworkSize
<1>. USE IPAMAssumption
<1>1. h \in Nat /\ h < HostParts
  BY DEF HostIDsFit
<1>2. /\ PodNetwork(h) = PodSubnet + h * NetworkSize
      /\ PodSubnet + h * NetworkSize \in Nat
      /\ PodSubnet + h * NetworkSize + j < PodSubnet + HostParts * NetworkSize
  BY Zenon, <1>1, NetworkOfHost DEF PodNetwork
<1>3. PodIP(h, j) = PodSubnet + h * NetworkSize + j
  BY SMTT(60), <1>2 DEF PodIP
<1>. QED BY SMTT(60), <1>2, <1>3

\* The pod networks of two nodes have no address in common.
LEMMA NetworksDisjoint ==
  ASSUME HostIDsFit,
         NEW g \in HostIDs, NEW h \in HostIDs,
         NEW i \in 0..(NetworkSize - 1), NEW j \in 0..(NetworkSize - 1),
         PodIP(g, i) = PodIP(h, j)
  PROVE  g = h /\ i = j
<1>1. g \in Nat /\ h \in Nat /\ g * NetworkSize \in Nat /\ h * NetworkSize \in Nat
  BY SMTT(60), IPAMAssumption
<1>2. g * NetworkSize + i = h * NetworkSize + j
  BY SMTT(60), <1>1, AddressValue, IPAMAssumption
<1>. QED BY SMTT(60), <1>1, <1>2, MultiplesApart, IPAMAssumption

\* A node that starts has assigned nothing.
LEMMA IPAMInitInv == IPAMInit => IPAMInv
  BY DEF IPAMInit, IPAMInv, IPAMTypeOK, InOwnNetwork, OnePodPerIP

\* NextPodIP and ReleasePodIP keep the invariant.
LEMMA IPAMStepInv == IPAMInv /\ [IPAMNext]_assignedPodIPs => IPAMInv'
<1>. SUFFICES ASSUME IPAMInv, [IPAMNext]_assignedPodIPs PROVE IPAMInv'
  BY SMTT(60)
<1>. USE DEF IPAMInv
<1>1. CASE UNCHANGED assignedPodIPs
  BY <1>1 DEF IPAMTypeOK, InOwnNetwork, OnePodPerIP
<1>2. ASSUME NEW h \in HostIDs, NEW pod \in PodIDs, NextPodIP(h, pod)
      PROVE  IPAMInv'
  <2>1. PICK j \in 1..(NetworkSize - 1) :
          /\ Assignable(h, j)
          /\ assignedPodIPs' = [assignedPodIPs EXCEPT ![h] = @ \cup {<<PodIP(h, j), pod>>}]
    BY Zenon, <1>2 DEF NextPodIP
  <2>2. PodIP(h, j) \in 0..(AddrSize - 1)
    <3>1. PodNetwork(h) \in Nat
      BY SMTT(60), IPAMAssumption DEF PodNetwork, applyHostID, convertToHostIPPart
    <3>. QED BY SMTT(60), <3>1, IPAMAssumption DEF PodIP
  <2>3. IPAMTypeOK'
    BY SMTT(60), <2>1, <2>2 DEF IPAMTypeOK
  <2>4. assignedPodIPs'[h] = assignedPodIPs[h] \cup {<<PodIP(h, j), pod>>}
        /\ \A g \in HostIDs \ {h} : assignedPodIPs'[g] = assignedPodIPs[g]
    BY SMTT(60), <2>1 DEF IPAMTypeOK
  <2>5. InOwnNetwork'
    BY SMTT(60), <2>1, <2>4 DEF InOwnNetwork, Assignable
  <2>6. OnePodPerIP'
    BY SMTT(60), <2>1, <2>4 DEF OnePodPerIP, Assignable, Assigned
  <2>. QED BY SMTT(60), <2>3, <2>5, <2>6
<1>3. ASSUME NEW h \in HostIDs, NEW pod \in PodIDs, ReleasePodIP(h, pod)
      PROVE  IPAMInv'
  <2>1. PICK a \in assignedPodIPs[h] :
          assignedPodIPs' = [assignedPodIPs EXCEPT ![h] = @ \ {a}]
    BY Zenon, <1>3 DEF ReleasePodIP
  <2>2. IPAMTypeOK'
    BY <2>1 DEF IPAMTypeOK
  <2>3. \A g \in HostIDs : assignedPodIPs'[g] \subseteq assignedPodIPs[g]
    BY SMTT(60), <2>1 DEF IPAMTypeOK
  <2>4. InOwnNetwork' /\ OnePodPerIP'
    BY <2>3 DEF InOwnNetwork, OnePodPerIP
  <2>. QED BY <2>2, <2>4
<1>. QED BY <1>1, <1>2, <1>3 DEF IPAMNext

\* The invariant holds in every state.
THEOREM IPAMInvariance == IPAMSpec => []IPAMInv
  BY IPAMInitInv, IPAMStepInv, PTL DEF IPAMSpec

\* The networks of two nodes are disjoint, and one node has one pod for an address.
LEMMA UniqueByInv ==
  ASSUME HostIDsFit
  PROVE  IPAMInv => ClusterWideUnique
<1>. SUFFICES ASSUME IPAMInv, NEW g \in HostIDs, NEW h \in HostIDs,
                     NEW a \in assignedPodIPs[g], NEW b \in assignedPodIPs[h],
                     a[1] = b[1]
              PROVE  g = h /\ a = b
  BY SMTT(60) DEF ClusterWideUnique
<1>1. PICK i \in 1..(NetworkSize - 1) : a[1] = PodIP(g, i)
  BY SMTT(60) DEF IPAMInv, InOwnNetwork
<1>2. PICK j \in 1..(NetworkSize - 1) : b[1] = PodIP(h, j)
  BY SMTT(60) DEF IPAMInv, InOwnNetwork
<1>3. i \in 0..(NetworkSize - 1) /\ j \in 0..(NetworkSize - 1)
  BY IPAMAssumption
<1>4. g = h
  BY ZenonT(60), <1>1, <1>2, <1>3, NetworksDisjoint, HostIDsFit
<1>. QED BY SMTT(60), <1>4 DEF IPAMInv, OnePodPerIP

\* NextPodIP skips both reserved addresses in its own network, the networks are disjoint.
LEMMA ReservedByInv ==
  ASSUME HostIDsFit
  PROVE  IPAMInv => NoReservedAddress
<1>. SUFFICES ASSUME IPAMInv, NEW g \in HostIDs, NEW h \in HostIDs,
                     NEW a \in assignedPodIPs[g]
              PROVE  a[1] # PodNetwork(h) /\ a[1] # PodGatewayIP(h)
  BY SMTT(60) DEF NoReservedAddress
<1>1. PICK i \in 1..(NetworkSize - 1) : i # gatewayPodSeqID /\ a[1] = PodIP(g, i)
  BY DEF IPAMInv, InOwnNetwork
<1>2. i \in 0..(NetworkSize - 1) /\ i # 0 /\ i # 1
  BY SMTT(60), <1>1, IPAMAssumption DEF gatewayPodSeqID
<1>3. 0 \in 0..(NetworkSize - 1) /\ 1 \in 0..(NetworkSize - 1)
  BY SMTT(60), <1>2, IPAMAssumption
<1>4. PodGatewayIP(h) = PodIP(h, 1)
  BY SMTT(60) DEF PodGatewayIP, PodIP, gatewayPodSeqID
<1>5. PodNetwork(h) = PodIP(h, 0)
  <2>1. h * NetworkSize \in Nat
    BY SMTT(60), IPAMAssumption
  <2>. QED BY SMTT(60), <1>3, <2>1, AddressValue, HostIDsFit, IPAMAssumption
<1>6. a[1] # PodIP(h, 1)
  BY SMTT(60), <1>1, <1>2, <1>3, NetworksDisjoint, HostIDsFit
<1>7. a[1] # PodIP(h, 0)
  BY SMTT(60), <1>1, <1>2, <1>3, NetworksDisjoint, HostIDsFit
<1>. QED BY SMTT(60), <1>4, <1>5, <1>6, <1>7

\* No address is ever assigned twice in the cluster (NextPodIP, applyHostID),
\* for every number of nodes and every size of subnet and networks.
THEOREM PodIPsUnique ==
  ASSUME HostIDsFit
  PROVE  IPAMSpec => []ClusterWideUnique
  BY UniqueByInv, IPAMInvariance, PTL

\* No pod ever has the network address or the gateway of a node as its address
\* (NextPodIP).
THEOREM ReservedAddressesFree ==
  ASSUME HostIDsFit
  PROVE  IPAMSpec => []NoReservedAddress
  BY ReservedByInv, IPAMInvariance, PTL

----------------------------------------------------------------------------
(* The routes between the nodes.                                           *)

\* The configuration has room for every host ID, allocated from 1, and the subnets
\* of pods and of vswitches do not overlap.
ConfigFits ==
  /\ HostIDsFit
  /\ NoHost \notin HostIDs
  /\ \A h \in HostIDs : h < VSwitchHostParts /\ h < HostNodeSize
  /\ vethHostEndIPHostSeqID < VSwitchNetworkSize
  /\ \/ PodSubnet + HostParts * NetworkSize <= VSwitchSubnet
     \/ VSwitchSubnet + VSwitchHostParts * VSwitchNetworkSize <= PodSubnet

\* A node is announced by a resync or a change that is still on its way.
Announced(h) ==
  \/ resyncEv # None /\ h \in resyncEv
  \/ \E i \in 1..Len(changeChan) : changeChan[i] = <<"Put", h>>

\* There are no routes but those of some host ID, and unless a transaction was refused
\* since the last resync every node in etcd has its routes or is announced.
RoutesInv ==
  /\ RoutesTypeOK
  /\ IPAMInv
  /\ routes \subseteq RoutesFor(HostIDs)
  /\ ~unsynced => \A h \in ids \ {ownID} : computeRoutesForHost(h) \subseteq routes \/ Announced(h)

----------------------------------------------------------------------------

\* computeHostIPAddress: the address of a host tells its ID.
LEMMA HostAddressValue ==
  ASSUME ConfigFits, NEW h \in HostIDs \cup {NoHost}
  PROVE  HostIPAddress(h) = HostNodeSubnet + h /\ HostIPAddress(h) \in 0..(AddrSize - 1)
<1>1. h \in Nat /\ h < HostNodeSize
  <2>1. CASE h \in HostIDs
    BY SMTT(60), <2>1, IPAMAssumption DEF ConfigFits
  <2>2. CASE h = NoHost
    BY SMTT(60), <2>2, NodeRoutesAssumption DEF NoHost
  <2>. QED BY SMTT(60), <2>1, <2>2
<1>2. HostNodeSize \in Nat /\ HostNodeSubnet \in Nat /\ HostNodeSubnet + HostNodeSize <= AddrSize
  BY NodeRoutesAssumption
<1>3. convertToHostIPPart(h, HostNodeSize) = h
  BY SMTT(60), <1>1, <1>2 DEF convertToHostIPPart
<1>4. HostIPAddress(h) = (HostNodeSubnet + h) % AddrSize
  BY SMTT(60), <1>3 DEF HostIPAddress
<1>5. AddrSize \in Nat \ {0}
  BY IPAMAssumption
<1>6. HostNodeSubnet + h \in 0..(AddrSize - 1)
  BY SMTT(60), <1>1, <1>2, <1>5
<1>. QED BY SMTT(60), <1>4, <1>5, <1>6

\* routeToOtherHostNetworks: the next hop of a route tells the host.
LEMMA NextHops ==
  ASSUME ConfigFits, NEW g \in HostIDs \cup {NoHost}, NEW h \in HostIDs \cup {NoHost},
         NEW r \in computeRoutesForHost(h), r[3] = HostIPAddress(g)
  PROVE  g = h
<1>1. r[3] = HostIPAddress(h)
  BY SMTT(60) DEF computeRoutesForHost, routeToOtherHostPods, routeToOtherHostStack
<1>2. HostIPAddress(g) = HostNodeSubnet + g /\ HostIPAddress(h) = HostNodeSubnet + h
  BY SMTT(60), HostAddressValue
<1>3. g \in Nat /\ h \in Nat /\ HostNodeSubnet \in Nat
  <2>1. HostIDs \subseteq Nat
    BY SMTT(60), IPAMAssumption
  <2>2. HostNodeSubnet \in Nat
    BY NodeRoutesAssumption
  <2>. QED BY SMTT(60), <2>1, <2>2 DEF NoHost
<1>4. HostNodeSubnet + g = HostNodeSubnet + h
  BY Zenon, <1>1, <1>2
<1>. QED BY SMTT(60), <1>3, <1>4

\* OtherHostVSwitchNetwork: the addresses of a vswitch network, in numbers.
LEMMA VSwitchValue ==
  ASSUME ConfigFits, NEW h \in HostIDs, NEW j \in 0..(VSwitchNetworkSize - 1)
  PROVE  /\ VSwitchNetwork(h) = VSwitchSubnet + h * VSwitchNetworkSize
         /\ VSwitchSubnet + h * VSwitchNetworkSize \in Nat
         /\ VSwitchSubnet + h * VSwitchNetworkSize + j
              < VSwitchSubnet + VSwitchHostParts * VSwitchNetworkSize
  BY ZenonT(60), NetworkOfHost, IPAMAssumption, NodeRoutesAssumption DEF ConfigFits, VSwitchNetwork

\* VEthHostEndIP: the host's end of the veth is in the vswitch network of the host.
LEMMA HostEndValue ==
  ASSUME ConfigFits, NEW h \in HostIDs
  PROVE  VEthHostEndIP(h) = VSwitchSubnet + h * VSwitchNetworkSize + 2
<1>1. 2 \in 0..(VSwitchNetworkSize - 1)
  BY SMTT(60), NodeRoutesAssumption DEF ConfigFits, vethHostEndIPHostSeqID
<1>2. /\ VSwitchNetwork(h) = VSwitchSubnet + h * VSwitchNetworkSize
      /\ VSwitchSubnet + h * VSwitchNetworkSize \in Nat
      /\ VSwitchSubnet + h * VSwitchNetworkSize + 2
              < VSwitchSubnet + VSwitchHostParts * VSwitchNetworkSize
  BY SMTT(60), <1>1, VSwitchValue
<1>3. VSwitchSubnet + h * VSwitchNetworkSize + 2 < AddrSize
  <2>1. VSwitchHostParts * VSwitchNetworkSize \in Nat
    BY SMTT(60), NodeRoutesAssumption
  <2>. QED BY SMTT(60), <1>2, <2>1, NodeRoutesAssumption, IPAMAssumption
<1>. QED BY SMTT(60), <1>2, <1>3, IPAMAssumption DEF VEthHostEndIP, vethHostEndIPHostSeqID

\* The addresses of another node's pods match the route to its pods, and of all routes
\* to other networks none.
LEMMA PodMatches ==
  ASSUME ConfigFits, NEW g \in HostIDs, NEW h \in HostIDs, NEW j \in 0..(NetworkSize - 1)
  PROVE  /\ Matches(routeToOtherHostPods(h), PodIP(h, j))
         /\ \A r \in computeRoutesForHost(g) : Matches(r, PodIP(h, j)) => g = h
<1>. USE IPAMAssumption, NodeRoutesAssumption
<1>1. HostIDsFit
  BY SMTT(60) DEF ConfigFits
<1>2. /\ PodIP(h, j) = PodSubnet + h * NetworkSize + j
      /\ PodNetwork(h) = PodSubnet + h * NetworkSize
      /\ PodSubnet + h * NetworkSize + j < PodSubnet + HostParts * NetworkSize
  BY SMTT(60), <1>1, AddressValue
<1>3. h * NetworkSize \in Nat /\ HostParts * NetworkSize \in Nat
  BY SMTT(60)
<1>4. Matches(routeToOtherHostPods(h), PodIP(h, j))
  BY SMTT(60), <1>2, <1>3 DEF Matches, routeToOtherHostPods
<1>5. ASSUME Matches(routeToOtherHostPods(g), PodIP(h, j)) PROVE g = h
  <2>1. PodNetwork(g) = PodSubnet + g * NetworkSize
    <3>1. 0 \in 0..(NetworkSize - 1)
      BY SMTT(60)
    <3>. QED BY SMTT(60), <1>1, <3>1, AddressValue
  <2>2. g * NetworkSize \in Nat
    BY SMTT(60)
  <2>3. PodIP(h, j) \in PodNetwork(g)..(PodNetwork(g) + NetworkSize - 1)
    BY SMTT(60), <1>5 DEF Matches, routeToOtherHostPods
  <2>4. PICK i \in 0..(NetworkSize - 1) : g * NetworkSize + i = h * NetworkSize + j
    <3>. DEFINE i == PodIP(h, j) - PodNetwork(g)
    <3>1. i \in 0..(NetworkSize - 1)
      BY SMTT(60), <1>2, <1>3, <2>1, <2>2, <2>3
    <3>2. g * NetworkSize + i = h * NetworkSize + j
      BY SMTT(60), <1>2, <1>3, <2>1, <2>2
    <3>. HIDE DEF i
    <3>. QED BY SMTT(60), <3>1, <3>2
  <2>. QED BY SMTT(60), <2>4, MultiplesApart
<1>6. ~Matches(routeToOtherHostStack(g), PodIP(h, j))
  <2>1. VSwitchNetworkSize - 1 \in 0..(VSwitchNetworkSize - 1)
    BY SMTT(60)
  <2>2. /\ VSwitchNetwork(g) = VSwitchSubnet + g * VSwitchNetworkSize
        /\ VSwitchSubnet + g * VSwitchNetworkSize \in Nat
        /\ VSwitchSubnet + g * VSwitchNetworkSize + (VSwitchNetworkSize - 1)
             < VSwitchSubnet + VSwitchHostParts * VSwitchNetworkSize
    BY SMTT(60), <2>1, VSwitchValue
  <2>3. g * VSwitchNetworkSize \in Nat /\ VSwitchHostParts * VSwitchNetworkSize \in Nat
    BY SMTT(60)
  <2>. QED BY SMTT(60), <1>2, <1>3, <2>2, <2>3 DEF Matches, routeToOtherHostStack, ConfigFits
<1>. QED BY SMTT(60), <1>4, <1>5, <1>6 DEF computeRoutesForHost

\* The host's end of the veth matches the route to the host's stack, and no other.
LEMMA StackMatches ==
  ASSUME ConfigFits, NEW g \in HostIDs, NEW h \in HostIDs
  PROVE  /\ Matches(routeToOtherHostStack(h), VEthHostEndIP(h))
         /\ \A r \in computeRoutesForHost(g) : Matches(r, VEthHostEndIP(h)) => g = h
<1>. USE IPAMAssumption, NodeRoutesAssumption
<1>1. 0 \in 0..(VSwitchNetworkSize - 1) /\ 2 \in 0..(VSwitchNetworkSize - 1)
  BY SMTT(60) DEF ConfigFits, vethHostEndIPHostSeqID
<1>2. /\ VEthHostEndIP(h) = VSwitchSubnet + h * VSwitchNetworkSize + 2
      /\ VSwitchNetwork(h) = VSwitchSubnet + h * VSwitchNetworkSize
      /\ VSwitchSubnet + h * VSwitchNetworkSize + 2
           < VSwitchSubnet + VSwitchHostParts * VSwitchNetworkSize
  BY SMTT(60), <1>1, HostEndValue, VSwitchValue
<1>3. h * VSwitchNetworkSize \in Nat /\ VSwitchHostParts * VSwitchNetworkSize \in Nat
  BY SMTT(60)
<1>4. Matches(routeToOtherHostStack(h), VEthHostEndIP(h))
  BY SMTT(60), <1>1, <1>2, <1>3 DEF Matches, routeToOtherHostStack
<1>5. ASSUME Matches(routeToOtherHostStack(g), VEthHostEndIP(h)) PROVE g = h
  <2>1. VSwitchNetwork(g) = VSwitchSubnet + g * VSwitchNetworkSize
    BY SMTT(60), <1>1, VSwitchValue
  <2>2. g * VSwitchNetworkSize \in Nat
    BY SMTT(60)
  <2>3. VEthHostEndIP(h) \in VSwitchNetwork(g)..(VSwitchNetwork(g) + VSwitchNetworkSize - 1)
    BY SMTT(60), <1>5 DEF Matches, routeToOtherHostStack
  <2>4. PICK i \in 0..(VSwitchNetworkSize - 1) :
          g * VSwitchNetworkSize + i = h * VSwitchNetworkSize + 2
    <3>. DEFINE i == VEthHostEndIP(h) - VSwitchNetwork(g)
    <3>1. i \in 0..(VSwitchNetworkSize - 1)
      BY SMTT(60), <1>2, <1>3, <2>1, <2>2, <2>3
    <3>2. g * VSwitchNetworkSize + i = h * VSwitchNetworkSize + 2
      BY SMTT(60), <1>2, <1>3, <2>1, <2>2
    <3>. HIDE DEF i
    <3>. QED BY SMTT(60), <3>1, <3>2
  <2>. QED BY SMTT(60), <1>1, <2>4, MultiplesApart
<1>6. ~Matches(routeToOtherHostPods(g), VEthHostEndIP(h))
  <2>1. NetworkSize - 1 \in 0..(NetworkSize - 1) /\ HostIDsFit
    BY SMTT(60) DEF ConfigFits
  <2>2. /\ PodNetwork(g) = PodSubnet + g * NetworkSize
        /\ PodSubnet + g * NetworkSize + (NetworkSize - 1) < PodSubnet + HostParts * NetworkSize
    BY SMTT(60), <2>1, AddressValue
  <2>3. g * NetworkSize \in Nat /\ HostParts * NetworkSize \in Nat
    BY SMTT(60)
  <2>. QED BY SMTT(60), <1>2, <1>3, <2>2, <2>3 DEF Matches, routeToOtherHostPods, ConfigFits
<1>. QED BY SMTT(60), <1>4, <1>5, <1>6 DEF computeRoutesForHost

----------------------------------------------------------------------------

\* The networks of all hosts are addresses, their sizes are numbers.
LEMMA RoutesAreRoutes ==
  RoutesFor(HostIDs) \subseteq (0..(AddrSize - 1)) \X Nat \X (0..(AddrSize - 1))
<1>1. ASSUME NEW n \in Nat PROVE n % AddrSize \in 0..(AddrSize - 1)
  BY SMTT(60), IPAMAssumption
<1>2. ASSUME NEW h \in HostIDs, NEW parts \in Nat \ {0}
      PROVE  convertToHostIPPart(h, parts) \in Nat
  BY SMTT(60), IPAMAssumption DEF convertToHostIPPart
<1>3. ASSUME NEW h \in HostIDs
      PROVE  /\ PodNetwork(h) \in 0..(AddrSize - 1)
             /\ VSwitchNetwork(h) \in 0..(AddrSize - 1)
             /\ HostIPAddress(h) \in 0..(AddrSize - 1)
  <2>1. HostParts \in Nat \ {0} /\ VSwitchHostParts \in Nat \ {0} /\ HostNodeSize \in Nat \ {0}
    BY SMTT(60), IPAMAssumption, NodeRoutesAssumption
  <2>2. NetworkSize \in Nat /\ VSwitchNetworkSize \in Nat /\ {PodSubnet, VSwitchSubnet, HostNodeSubnet} \subseteq Nat
    BY SMTT(60), IPAMAssumption, NodeRoutesAssumption
  <2>3. /\ convertToHostIPPart(h, HostParts) * NetworkSize \in Nat
        /\ convertToHostIPPart(h, VSwitchHostParts) * VSwitchNetworkSize \in Nat
        /\ convertToHostIPPart(h, HostNodeSize) \in Nat
    BY SMTT(60), <1>2, <2>1, <2>2
  <2>. QED BY SMTT(60), <1>1, <2>2, <2>3 DEF PodNetwork, VSwitchNetwork, HostIPAddress, applyHostID
<1>4. NetworkSize \in Nat /\ VSwitchNetworkSize \in Nat
  BY SMTT(60), IPAMAssumption, NodeRoutesAssumption
<1>. QED BY SMTT(60), <1>3, <1>4 DEF RoutesFor, computeRoutesForHost, routeToOtherHostPods, routeToOtherHostStack

\* Resync and changes of known hosts only add routes of known hosts.
LEMMA RoutesForSubset ==
  ASSUME NEW hosts, hosts \subseteq HostIDs
  PROVE  /\ RoutesFor(hosts) \subseteq RoutesFor(HostIDs)
         /\ \A h \in hosts : computeRoutesForHost(h) \subseteq RoutesFor(hosts)
  BY SMTT(60) DEF RoutesFor

\* The bounds are numbers.
LEMMA Bounds == MaxChanges \in Nat /\ MaxResyncs \in Nat /\ MaxFailures \in Nat
  BY SMTT(60), NodeRoutesAssumption

\* At the start nothing is synchronised.
LEMMA RoutesInitInv == RoutesInit => RoutesInv
<1>. SUFFICES ASSUME RoutesInit PROVE RoutesInv
  OBVIOUS
<1>1. IPAMInv
  BY SMTT(60), IPAMInitInv DEF RoutesInit
<1>2. RoutesTypeOK
  <2>1. changes \in 0..MaxChanges /\ resyncs \in 0..MaxResyncs /\ failures \in 0..MaxFailures
    BY SMTT(60), Bounds DEF RoutesInit
  <2>2. ids \subseteq HostIDs /\ changeChan \in Seq({"Put", "Delete"} \X HostIDs)
    BY DEF RoutesInit
  <2>3. resyncEv \in (SUBSET HostIDs) \cup {None} /\ unsynced \in BOOLEAN
    BY Zenon DEF RoutesInit
  <2>4. routes = {} /\ IPAMTypeOK
    BY SMTT(60), <1>1 DEF RoutesInit, IPAMInv
  <2>. QED BY SMTT(60), <2>1, <2>2, <2>3, <2>4 DEF RoutesTypeOK
<1>. QED BY <1>1, <1>2 DEF RoutesInit, RoutesInv

\* A node that leaves takes its addresses with it.
LEMMA LeaveIPAM ==
  ASSUME IPAMInv, NEW h \in HostIDs, assignedPodIPs' = [assignedPodIPs EXCEPT ![h] = {}]
  PROVE  IPAMInv'
<1>1. IPAMTypeOK' /\ \A g \in HostIDs : assignedPodIPs'[g] \subseteq assignedPodIPs[g]
  BY DEF IPAMInv, IPAMTypeOK
<1>. QED BY SMTT(60), <1>1 DEF IPAMInv, InOwnNetwork, OnePodPerIP

\* What leaves the addresses alone keeps the invariant of the IPAM.
LEMMA SameIPAM == ASSUME IPAMInv, UNCHANGED assignedPodIPs PROVE IPAMInv'
  BY SMTT(60), IPAMStepInv

\* An event that is appended announces what was announced before, and itself.
LEMMA AppendAnnounces ==
  ASSUME NEW op \in {"Put", "Delete"}, NEW g \in HostIDs,
         changeChan \in Seq({"Put", "Delete"} \X HostIDs),
         changeChan' = Append(changeChan, <<op, g>>), UNCHANGED resyncEv
  PROVE  /\ changeChan' \in Seq({"Put", "Delete"} \X HostIDs)
         /\ \A h \in HostIDs : Announced(h) => Announced(h)'
         /\ op = "Put" => Announced(g)'
<1>1. <<op, g>> \in {"Put", "Delete"} \X HostIDs
  BY SMTT(60)
<1>2. /\ changeChan' \in Seq({"Put", "Delete"} \X HostIDs)
      /\ Len(changeChan') = Len(changeChan) + 1
      /\ changeChan'[Len(changeChan) + 1] = <<op, g>>
      /\ \A i \in 1..Len(changeChan) : changeChan'[i] = changeChan[i]
  BY SMTT(60), <1>1
<1>3. Len(changeChan) \in Nat
  BY SMTT(60)
<1>4. Len(changeChan) + 1 \in 1..Len(changeChan')
      /\ \A i \in 1..Len(changeChan) : i \in 1..Len(changeChan')
  BY SMTT(60), <1>2, <1>3
<1>5. op = "Put" => Announced(g)'
  BY SMTT(60), <1>2, <1>4 DEF Announced
<1>6. ASSUME NEW h \in HostIDs, Announced(h) PROVE Announced(h)'
  BY SMTT(60), <1>2, <1>4, <1>6 DEF Announced, None
<1>. QED BY SMTT(60), <1>2, <1>5, <1>6

\* Every step keeps the invariant.
LEMMA RoutesStepInv ==
  ASSUME ConfigFits
  PROVE  RoutesInv /\ [RoutesNext]_routeVars => RoutesInv'
<1>. SUFFICES ASSUME RoutesInv, [RoutesNext]_routeVars PROVE RoutesInv'
  BY SMTT(60)
<1>. USE DEF RoutesInv
<1>0. NoHost \notin HostIDs
  BY SMTT(60) DEF ConfigFits
<1>1. ASSUME NEW h \in HostIDs, Join(h) PROVE RoutesInv'
  <2>1. IPAMInv'
    BY SMTT(60), <1>1, SameIPAM DEF Join
  <2>2. /\ changeChan' \in Seq({"Put", "Delete"} \X HostIDs)
        /\ \A g \in HostIDs : Announced(g) => Announced(g)'
        /\ Announced(h)'
    BY SMTT(60), <1>1, AppendAnnounces DEF Join, Change, RoutesTypeOK
  <2>3. RoutesTypeOK'
    <3>1. changes' \in 0..MaxChanges
      BY SMTT(60), <1>1, Bounds DEF Join, Change, RoutesTypeOK
    <3>. QED BY SMTT(60), <1>1, <2>1, <2>2, <3>1 DEF Join, RoutesTypeOK, IPAMInv
  <2>. QED BY SMTT(60), <1>1, <2>1, <2>2, <2>3 DEF Join, RoutesTypeOK
<1>2. ASSUME NEW h \in HostIDs, Leave(h) PROVE RoutesInv'
  <2>1. IPAMInv'
    BY ZenonT(60), <1>2, LeaveIPAM DEF Leave
  <2>2. /\ changeChan' \in Seq({"Put", "Delete"} \X HostIDs)
        /\ \A g \in HostIDs : Announced(g) => Announced(g)'
    BY SMTT(60), <1>2, AppendAnnounces DEF Leave, Change, RoutesTypeOK
  <2>3. RoutesTypeOK'
    <3>1. changes' \in 0..MaxChanges
      BY SMTT(60), <1>2, Bounds DEF Leave, Change, RoutesTypeOK
    <3>. QED BY SMTT(60), <1>2, <2>1, <2>2, <3>1 DEF Leave, RoutesTypeOK, IPAMInv
  <2>. QED BY SMTT(60), <1>2, <2>1, <2>2, <2>3 DEF Leave, RoutesTypeOK
<1>3. ASSUME NEW h \in HostIDs, NEW pod \in PodIDs, PodChange(h, pod) PROVE RoutesInv'
  <2>1. IPAMInv'
    BY SMTT(60), <1>3, IPAMStepInv DEF PodChange, IPAMNext
  <2>2. RoutesTypeOK'
    BY SMTT(60), <1>3, <2>1 DEF PodChange, RoutesTypeOK, IPAMInv
  <2>. QED BY ZenonT(60), <1>3, <2>1, <2>2 DEF PodChange, Announced
<1>4. CASE ListIDs
  <2>1. IPAMInv'
    BY SMTT(60), <1>4, SameIPAM DEF ListIDs
  <2>2. RoutesTypeOK'
    <3>1. resyncs' \in 0..MaxResyncs
      BY SMTT(60), <1>4, Bounds DEF ListIDs, RoutesTypeOK
    <3>. QED BY ZenonT(60), <1>4, <2>1, <3>1 DEF ListIDs, RoutesTypeOK, IPAMInv
  <2>3. \A h \in ids : Announced(h)'
    BY SMTT(60), <1>0, <1>4 DEF ListIDs, Announced, RoutesTypeOK, None
  <2>. QED BY SMTT(60), <1>4, <2>1, <2>2, <2>3 DEF ListIDs
<1>5. CASE NodeResync
  <2>1. IPAMInv'
    BY SMTT(60), <1>5, SameIPAM DEF NodeResync
  <2>2. resyncEv \in SUBSET HostIDs
    <3>1. resyncEv # None
      BY SMTT(60), <1>5 DEF NodeResync
    <3>2. resyncEv \in (SUBSET HostIDs) \cup {None}
      BY SMTT(60) DEF RoutesTypeOK
    <3>. QED BY SMTT(60), <3>1, <3>2
  <2>3. /\ routes' \subseteq RoutesFor(HostIDs) /\ routes \subseteq routes'
    BY SMTT(60), <1>5, <2>2, RoutesForSubset DEF NodeResync
  <2>4. RoutesTypeOK'
    <3>1. routes' \subseteq (0..(AddrSize - 1)) \X Nat \X (0..(AddrSize - 1))
      BY SMTT(60), <2>3, RoutesAreRoutes
    <3>2. failures' \in 0..MaxFailures
      <4>1. failures' = failures \/ (failures < MaxFailures /\ failures' = failures + 1)
        BY <1>5 DEF NodeResync, RefusedByVPP
      <4>. QED BY SMTT(60), <4>1, Bounds DEF RoutesTypeOK
    <3>3. unsynced' \in BOOLEAN
      BY <1>5, Zenon DEF NodeResync, RefusedByVPP, RoutesTypeOK
    <3>4. resyncEv' \in (SUBSET HostIDs) \cup {None}
      BY <1>5, Zenon DEF NodeResync
    <3>5. IPAMTypeOK' /\ UNCHANGED <<ids, changeChan, changes, resyncs>>
      BY SMTT(60), <1>5, <2>1 DEF NodeResync, IPAMInv
    <3>. QED BY SMTT(60), <3>1, <3>2, <3>3, <3>4, <3>5 DEF RoutesTypeOK
  <2>5. ASSUME ~unsynced', NEW h \in ids \ {ownID}
        PROVE  computeRoutesForHost(h) \subseteq routes' \/ Announced(h)'
    <3>1. routes' = routes \cup RoutesFor(resyncEv \ {ownID}) /\ ~unsynced
      <4>1. ~RefusedByVPP
        BY SMTT(60), <2>5 DEF RefusedByVPP
      <4>2. routes' = routes \cup RoutesFor(resyncEv \ {ownID}) /\ UNCHANGED unsynced
        BY SMTT(60), <1>5, <4>1 DEF NodeResync
      <4>. QED BY SMTT(60), <2>5, <4>2
    <3>2. CASE h \in resyncEv
      BY SMTT(60), <2>2, <3>1, <3>2, RoutesForSubset
    <3>3. CASE h \notin resyncEv
      <4>1. computeRoutesForHost(h) \subseteq routes
            \/ \E i \in 1..Len(changeChan) : changeChan[i] = <<"Put", h>>
        BY Zenon, <3>1, <3>3 DEF Announced
      <4>. QED BY SMTT(60), <1>5, <2>3, <4>1 DEF NodeResync, Announced
    <3>. QED BY SMTT(60), <3>2, <3>3
  <2>. QED BY SMTT(60), <1>5, <2>1, <2>3, <2>4, <2>5 DEF NodeResync
<1>6. CASE NodeChange
  <2>. DEFINE ev == Head(changeChan)
  <2>1. IPAMInv'
    BY SMTT(60), <1>6, SameIPAM DEF NodeChange
  <2>2. /\ ev \in {"Put", "Delete"} \X HostIDs
        /\ changeChan' \in Seq({"Put", "Delete"} \X HostIDs)
        /\ \A i \in 1..Len(changeChan) :
             changeChan[i] = ev \/ \E k \in 1..Len(changeChan') : changeChan'[k] = changeChan[i]
    <3>1. changeChan \in Seq({"Put", "Delete"} \X HostIDs) /\ changeChan # <<>>
      BY SMTT(60), <1>6 DEF NodeChange, RoutesTypeOK
    <3>2. changeChan' = Tail(changeChan)
      BY SMTT(60), <1>6 DEF NodeChange
    <3>3. /\ ev = changeChan[1] /\ Len(changeChan) \in Nat \ {0}
          /\ changeChan' \in Seq({"Put", "Delete"} \X HostIDs)
          /\ Len(changeChan') = Len(changeChan) - 1
          /\ \A k \in 1..Len(changeChan') : changeChan'[k] = changeChan[k + 1]
      BY SMTT(60), <3>1, <3>2
    <3>4. ev \in {"Put", "Delete"} \X HostIDs
      BY SMTT(60), <3>1, <3>3
    <3>5. ASSUME NEW i \in 1..Len(changeChan), i # 1
          PROVE  \E k \in 1..Len(changeChan') : changeChan'[k] = changeChan[i]
      <4>1. i - 1 \in 1..Len(changeChan')
        BY SMTT(60), <3>3, <3>5
      <4>2. changeChan'[i - 1] = changeChan[i]
        BY SMTT(60), <3>3, <4>1
      <4>. QED BY SMTT(60), <4>1, <4>2
    <3>. QED BY SMTT(60), <3>3, <3>4, <3>5
  <2>3. /\ routes' \subseteq RoutesFor(HostIDs)
        /\ \A h \in HostIDs : computeRoutesForHost(h) \subseteq routes
                              => computeRoutesForHost(h) \subseteq routes'
        /\ ~unsynced' => ~unsynced
        /\ ~unsynced' /\ ev[1] = "Put" => computeRoutesForHost(ev[2]) \subseteq routes'
    <3>1. CASE UNCHANGED routes /\ RefusedByVPP
      BY <3>1 DEF RefusedByVPP
    <3>2. CASE ev[1] = "Put" /\ routes' = routes \cup RoutesFor({ev[2]}) /\ UNCHANGED unsynced
      BY ZenonT(60), <2>2, <3>2, RoutesForSubset
    <3>3. CASE ev[1] # "Put" /\ routes' = routes \ RoutesFor({NoHost}) /\ UNCHANGED unsynced
      <4>1. ASSUME NEW h \in HostIDs, NEW r \in computeRoutesForHost(h) PROVE r \notin RoutesFor({NoHost})
        <5>1. SUFFICES ASSUME r \in computeRoutesForHost(NoHost) PROVE FALSE
          BY SMTT(60) DEF RoutesFor
        <5>2. r[3] = HostIPAddress(NoHost)
          BY SMTT(60), <5>1 DEF computeRoutesForHost, routeToOtherHostPods, routeToOtherHostStack
        <5>. QED BY SMTT(60), <1>0, <5>2, NextHops
      <4>. QED BY ZenonT(60), <3>3, <4>1
    <3>. QED BY ZenonT(60), <1>6, <3>1, <3>2, <3>3 DEF NodeChange, GetValue
  <2>4. RoutesTypeOK'
    <3>1. routes' \subseteq (0..(AddrSize - 1)) \X Nat \X (0..(AddrSize - 1))
      BY SMTT(60), <2>3, RoutesAreRoutes
    <3>2. failures' \in 0..MaxFailures
      <4>1. failures' = failures \/ (failures < MaxFailures /\ failures' = failures + 1)
        BY <1>6 DEF NodeChange, RefusedByVPP
      <4>. QED BY SMTT(60), <4>1, Bounds DEF RoutesTypeOK
    <3>3. unsynced' \in BOOLEAN
      BY <1>6, Zenon DEF NodeChange, RefusedByVPP, RoutesTypeOK
    <3>. QED BY SMTT(60), <1>6, <2>1, <2>2, <3>1, <3>2, <3>3 DEF NodeChange, RoutesTypeOK, IPAMInv
  <2>5. ASSUME ~unsynced', NEW h \in ids \ {ownID}
        PROVE  computeRoutesForHost(h) \subseteq routes' \/ Announced(h)'
    <3>1. h \in HostIDs /\ UNCHANGED resyncEv
      BY SMTT(60), <1>6 DEF NodeChange, RoutesTypeOK
    <3>2. CASE ev = <<"Put", h>>
      BY SMTT(60), <2>3, <2>5, <3>2
    <3>3. CASE ev # <<"Put", h>>
      <4>1. CASE computeRoutesForHost(h) \subseteq routes
        BY SMTT(60), <2>3, <3>1, <4>1
      <4>2. CASE resyncEv # None /\ h \in resyncEv
        BY Zenon, <3>1, <4>2 DEF Announced
      <4>3. ASSUME NEW i \in 1..Len(changeChan), changeChan[i] = <<"Put", h>>
            PROVE  Announced(h)'
        BY ZenonT(60), <2>2, <3>3, <4>3 DEF Announced
      <4>. QED BY ZenonT(60), <2>3, <2>5, <4>1, <4>2, <4>3 DEF Announced
    <3>. QED BY SMTT(60), <3>2, <3>3
  <2>. QED BY ZenonT(60), <1>6, <2>1, <2>3, <2>4, <2>5 DEF NodeChange
<1>7. CASE UNCHANGED routeVars
  BY SMTT(60), <1>7, SameIPAM DEF routeVars, RoutesTypeOK, Announced, IPAMInv, IPAMTypeOK
<1>. QED BY SMTT(60), <1>1, <1>2, <1>3, <1>4, <1>5, <1>6, <1>7 DEF RoutesNext

\* When nothing is on its way every node has its routes, and addresses match no others.
LEMMA ReachByInv ==
  ASSUME ConfigFits
  PROVE  RoutesInv => RoutesReachPods
<1>. SUFFICES ASSUME RoutesInv, CaughtUp, NEW h \in ids \ {ownID},
                     NEW ip \in {VEthHostEndIP(h)} \cup {a[1] : a \in assignedPodIPs[h]}
              PROVE  NodesReachedAt(ip) = {h}
  BY SMTT(60) DEF RoutesReachPods
<1>1. h \in HostIDs
  BY SMTT(60) DEF RoutesInv, RoutesTypeOK
<1>2. ~Announced(h)
  <2>1. resyncEv = None /\ changeChan = <<>>
    BY SMTT(60) DEF CaughtUp
  <2>2. Len(changeChan) = 0
    BY SMTT(60), <2>1
  <2>. QED BY SMTT(60), <2>1, <2>2 DEF Announced
<1>3. computeRoutesForHost(h) \subseteq routes
  BY SMTT(60), <1>2 DEF RoutesInv, CaughtUp
<1>4. /\ \E r \in computeRoutesForHost(h) : Matches(r, ip)
      /\ \A g \in HostIDs : \A r \in computeRoutesForHost(g) : Matches(r, ip) => g = h
  <2>1. CASE ip = VEthHostEndIP(h)
    <3>1. Matches(routeToOtherHostStack(h), ip)
      BY SMTT(60), <1>1, <2>1, StackMatches
    <3>2. ASSUME NEW g \in HostIDs, NEW r \in computeRoutesForHost(g), Matches(r, ip) PROVE g = h
      BY SMTT(60), <1>1, <2>1, <3>2, StackMatches
    <3>3. routeToOtherHostStack(h) \in computeRoutesForHost(h)
      BY SMTT(60) DEF computeRoutesForHost
    <3>. QED BY SMTT(60), <3>1, <3>2, <3>3
  <2>2. CASE ip \in {a[1] : a \in assignedPodIPs[h]}
    <3>1. PICK j \in 1..(NetworkSize - 1) : ip = PodIP(h, j)
      BY SMTT(60), <1>1, <2>2 DEF RoutesInv, IPAMInv, InOwnNetwork
    <3>2. j \in 0..(NetworkSize - 1)
      BY SMTT(60), IPAMAssumption
    <3>3. Matches(routeToOtherHostPods(h), ip)
      BY SMTT(60), <1>1, <3>1, <3>2, PodMatches
    <3>4. ASSUME NEW g \in HostIDs, NEW r \in computeRoutesForHost(g), Matches(r, ip) PROVE g = h
      BY SMTT(60), <1>1, <3>1, <3>2, <3>4, PodMatches
    <3>5. routeToOtherHostPods(h) \in computeRoutesForHost(h)
      BY SMTT(60) DEF computeRoutesForHost
    <3>. QED BY SMTT(60), <3>3, <3>4, <3>5
  <2>. QED BY SMTT(60), <2>1, <2>2
<1>5. h \in NodesReachedAt(ip)
  <2>1. \A r \in computeRoutesForHost(h) : r[3] = HostIPAddress(h)
    BY SMTT(60) DEF computeRoutesForHost, routeToOtherHostPods, routeToOtherHostStack
  <2>. QED BY SMTT(60), <1>1, <1>3, <1>4, <2>1 DEF NodesReachedAt
<1>6. ASSUME NEW g \in NodesReachedAt(ip) PROVE g = h
  <2>1. PICK r \in routes : Matches(r, ip) /\ r[3] = HostIPAddress(g) /\ g \in HostIDs
    BY SMTT(60), <1>6 DEF NodesReachedAt
  <2>2. PICK k \in HostIDs : r \in computeRoutesForHost(k)
    BY SMTT(60), <2>1 DEF RoutesInv, RoutesFor
  <2>3. k = h
    BY SMTT(60), <1>4, <2>1, <2>2
  <2>. QED BY SMTT(60), <2>1, <2>2, <2>3, NextHops
<1>. QED BY <1>5, <1>6

\* The invariant holds in every state.
THEOREM RoutesInvariance ==
  ASSUME ConfigFits
  PROVE  RoutesSpec => []RoutesInv
  BY RoutesInitInv, RoutesStepInv, PTL DEF RoutesSpec

\* Once the events are processed, packets to the pods and to the stack of another node go
\* to that node only, however resyncs and changes overtake each other and whatever VPP
\* refused before the last resync (nodeResync, nodeChangePropageteEvent).
THEOREM RoutesCorrect ==
  ASSUME ConfigFits
  PROVE  RoutesSpec => []RoutesReachPods
  BY ReachByInv, RoutesInvariance, PTL

\* While nodes join and leave, addresses of pods stay unique and apart from the reserved
\* ones (NextPodIP), and every variable keeps its type.
THEOREM AddressesCorrect ==
  ASSUME ConfigFits
  PROVE  RoutesSpec => [](RoutesTypeOK /\ ClusterWideUnique /\ NoReservedAddress)
<1>1. RoutesInv => RoutesTypeOK /\ ClusterWideUnique /\ NoReservedAddress
  BY UniqueByInv, ReservedByInv DEF RoutesInv, ConfigFits
<1>. QED BY <1>1, RoutesInvariance, PTL
=============================================================================
