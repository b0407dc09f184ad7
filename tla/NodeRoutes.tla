----------------------------- MODULE NodeRoutes -----------------------------
(***************************************************************************)
(* The routes of one node to the pods of the other nodes                   *)
(* (plugins/contiv/node.go). Nodes announce themselves by their allocated  *)
(* ID in etcd; this node hears about them from a resync with all IDs and   *)
(* from change events, and configures for each host ID a route to the      *)
(* host's pod network and one to its IP stack, both through the host's     *)
(* address. Networks and addresses follow from the host ID (ipam.go). The  *)
(* nodes assign addresses to pods as in module IPAM.                       *)
(***************************************************************************)
EXTENDS IPAM, Sequences

CONSTANTS
  ownID,              \* host ID of this node
  VSwitchSubnet,      \* first address of the subnet for the vswitches and their hosts
  VSwitchHostParts,   \* number of vswitch networks in it
  VSwitchNetworkSize, \* number of addresses of a vswitch network
  HostNodeSubnet,     \* first address of the network of the hosts
  HostNodeSize,       \* number of its addresses
  MaxChanges,         \* bound on nodes joining and leaving
  MaxResyncs,         \* bound on resyncs
  MaxFailures         \* bound on transactions VPP refuses

ASSUME NodeRoutesAssumption ==
  /\ ownID \in HostIDs
  /\ {VSwitchSubnet, HostNodeSubnet} \subseteq Nat
  /\ {VSwitchHostParts, VSwitchNetworkSize, HostNodeSize} \subseteq Nat \ {0}
  /\ VSwitchSubnet + VSwitchHostParts * VSwitchNetworkSize <= AddrSize
  /\ HostNodeSubnet + HostNodeSize <= AddrSize
  /\ {MaxChanges, MaxResyncs, MaxFailures} \subseteq Nat

NoHost == 0           \* Id of an empty Identifier
None == {NoHost}      \* no resync event

VARIABLES
  ids,                \* allocated IDs in etcd
  changeChan,         \* change events on their way
  resyncEv,           \* IDs of the resync event on its way
  routes,             \* routes in VPP: network, number of its addresses, next hop
  unsynced,           \* not resynced since the start or since a refused transaction
  changes, resyncs, failures

routeVars == <<assignedPodIPs, ids, changeChan, resyncEv, routes, unsynced, changes, resyncs, failures>>

RoutesTypeOK ==
  /\ IPAMTypeOK
  /\ ids \subseteq HostIDs
  /\ changeChan \in Seq({"Put", "Delete"} \X HostIDs)
  /\ resyncEv \in (SUBSET HostIDs) \cup {None}
  /\ routes \subseteq (0..(AddrSize - 1)) \X Nat \X (0..(AddrSize - 1))
  /\ unsynced \in BOOLEAN
  /\ changes \in 0..MaxChanges /\ resyncs \in 0..MaxResyncs /\ failures \in 0..MaxFailures

RoutesInit ==
  /\ IPAMInit
  /\ ids \in {hosts \in SUBSET HostIDs : ownID \in hosts}
  /\ changeChan = <<>> /\ resyncEv = None
  /\ routes = {} /\ unsynced = TRUE
  /\ changes = 0 /\ resyncs = 0 /\ failures = 0

Change(op, h) ==
  /\ changes < MaxChanges /\ changes' = changes + 1
  /\ changeChan' = Append(changeChan, <<op, h>>)

\* A node allocates its ID, as in module NodeIDAllocator.
Join(h) ==
  /\ h \notin ids
  /\ ids' = ids \cup {h}
  /\ Change("Put", h)
  /\ UNCHANGED <<assignedPodIPs, resyncEv, routes, unsynced, resyncs, failures>>

\* A node shuts down and releases its ID.
Leave(h) ==
  /\ h \in ids \ {ownID}
  /\ ids' = ids \ {h}
  /\ Change("Delete", h)
  /\ assignedPodIPs' = [assignedPodIPs EXCEPT ![h] = {}]
  /\ UNCHANGED <<resyncEv, routes, unsynced, resyncs, failures>>

PodChange(h, pod) ==
  /\ h \in ids
  /\ \/ ~HasPodIP(h, pod) /\ NextPodIP(h, pod)
     \/ ReleasePodIP(h, pod)
  /\ UNCHANGED <<ids, changeChan, resyncEv, routes, unsynced, changes, resyncs, failures>>

\* The IDs are listed; the event is received later, before or after changes.
ListIDs ==
  /\ resyncEv = None /\ resyncs < MaxResyncs
  /\ resyncEv' = ids
  /\ unsynced' = FALSE
  /\ resyncs' = resyncs + 1
  /\ UNCHANGED <<assignedPodIPs, ids, changeChan, routes, changes, failures>>

VSwitchNetwork(h) == applyHostID(VSwitchSubnet, VSwitchHostParts, VSwitchNetworkSize, h)

vethHostEndIPHostSeqID == 2

VEthHostEndIP(h) == (VSwitchNetwork(h) + vethHostEndIPHostSeqID) % AddrSize

HostIPAddress(h) == (HostNodeSubnet + convertToHostIPPart(h, HostNodeSize)) % AddrSize

routeToOtherHostPods(h) == <<PodNetwork(h), NetworkSize, HostIPAddress(h)>>
routeToOtherHostStack(h) == <<VSwitchNetwork(h), VSwitchNetworkSize, HostIPAddress(h)>>

computeRoutesForHost(h) == {routeToOtherHostPods(h), routeToOtherHostStack(h)}

RoutesFor(hosts) == UNION {computeRoutesForHost(h) : h \in hosts}

RefusedByVPP == failures < MaxFailures /\ failures' = failures + 1 /\ unsynced' = TRUE

\* Seeded fault: a resync starts from no routes.
NodeResyncDiscards ==
  /\ resyncEv # None
  /\ resyncEv' = None
  /\ \/ routes' = RoutesFor(resyncEv \ {ownID}) /\ UNCHANGED <<unsynced, failures>>
     \/ RefusedByVPP /\ UNCHANGED routes
  /\ UNCHANGED <<assignedPodIPs, ids, changeChan, changes, resyncs>>

\* nodeResync adds the routes to the other hosts one by one, until VPP refuses.
NodeResync ==
  /\ resyncEv # None
  /\ resyncEv' = None
  /\ \/ routes' = routes \cup RoutesFor(resyncEv \ {ownID}) /\ UNCHANGED <<unsynced, failures>>
     \/ /\ RefusedByVPP
        /\ \E hosts \in SUBSET (resyncEv \ {ownID}) : routes' = routes \cup RoutesFor(hosts)
  /\ UNCHANGED <<assignedPodIPs, ids, changeChan, changes, resyncs>>

\* The Identifier the handler gets from the event: GetValue of a Delete leaves
\* it empty.
GetValue(ev) == IF ev[1] = "Put" THEN ev[2] ELSE NoHost

\* nodeChangePropageteEvent
NodeChange ==
  /\ changeChan # <<>>
  /\ changeChan' = Tail(changeChan)
  /\ LET ev == Head(changeChan)
         forHost == RoutesFor({GetValue(ev)}) IN
     \/ /\ routes' = IF ev[1] = "Put" THEN routes \cup forHost ELSE routes \ forHost
        /\ UNCHANGED <<unsynced, failures>>
     \/ RefusedByVPP /\ UNCHANGED routes
  /\ UNCHANGED <<assignedPodIPs, ids, resyncEv, changes, resyncs>>

RoutesNext ==
  \/ \E h \in HostIDs : Join(h) \/ Leave(h)
  \/ \E h \in HostIDs, pod \in PodIDs : PodChange(h, pod)
  \/ ListIDs \/ NodeResync \/ NodeChange

RoutesSpec == RoutesInit /\ [][RoutesNext]_routeVars

----------------------------------------------------------------------------
(* Properties.                                                             *)

CaughtUp == changeChan = <<>> /\ resyncEv = None /\ ~unsynced

Matches(r, ip) == ip \in r[1]..(r[1] + r[2] - 1)

\* The nodes VPP sends a packet to the address to.
NodesReachedAt(ip) ==
  {h \in HostIDs : \E r \in routes : Matches(r, ip) /\ r[3] = HostIPAddress(h)}

\* Once the events are processed, packets to any pod of another node, or to the node's
\* own IP stack, go to that node and to no other: the routes of nodes that left and the
\* networks of all nodes do not get in the way. A transaction VPP refused is made good
\* by the next resync, whatever changes overtake it.
RoutesReachPods ==
  CaughtUp => \A h \in ids \ {ownID} :
    \A ip \in {VEthHostEndIP(h)} \cup {a[1] : a \in assignedPodIPs[h]} :
      NodesReachedAt(ip) = {h}

\* Once the events are processed there are no routes to nodes that left
\* (the comment at handleNodeEvents).
NoRoutesToRemovedNodes ==
  CaughtUp => \A r \in routes : \E h \in ids : r[3] = HostIPAddress(h)
=============================================================================
