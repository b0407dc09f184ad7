------------------------------ MODULE RemoteCNI ------------------------------
(***************************************************************************)
(* The CNI server of one node (plugins/contiv/remote_cni_server.go): it    *)
(* configures the connectivity of the vswitch on resync, and connects and  *)
(* disconnects containers on requests from kubelet, which come through the *)
(* CNI binary (cmd/contiv-cni). One mutex serialises resync and requests;  *)
(* requests wait on a condition variable until the vswitch is configured.  *)
(* No step is rolled back when a later one fails.                          *)
(*                                                                         *)
(* A container is connected by one interface of VPP (AF_PACKET with veths, *)
(* or TAP) and by entries in VPP and in the container's network namespace. *)
(* A container stands for its namespace too. The names of its interfaces   *)
(* are made of its ID (cut to 15 characters, which keeps IDs apart).       *)
(***************************************************************************)
EXTENDS IPAM

CONSTANTS
  Containers,         \* sandboxes kubelet creates
  Pods,               \* pods, by namespace and name
  hostID,             \* host ID of this node
  Setups,             \* configurations of the agent, pods of the sandboxes, requests
                      \* served so far, bounds on DEL requests for the sandboxes
  LastOctet,          \* last address of VPP's interfaces to containers, 255
  MaxErrors,          \* bound on failing transactions, calls and writes
  MaxRestarts,        \* bound on restarts of the agent
  MaxResyncs,         \* bound on resyncs
  MaxRetries          \* largest bound on requests of a kind for a sandbox

ASSUME RemoteCNIAssumption ==
  /\ HostIDs = {hostID} /\ PodIDs = Containers
  /\ Setups \subseteq [useTAP : BOOLEAN, tcpStack : BOOLEAN, offloadDisabled : BOOLEAN,
                       pod : [Containers -> Pods], served : Nat,
                       retries : [Containers -> 0..MaxRetries]]
  /\ {LastOctet, MaxErrors, MaxRestarts, MaxResyncs} \subseteq Nat
  /\ MaxRetries \in Nat \ {0}

VARIABLES
  setup,              \* the one of Setups that is used
  lock,               \* holder of the mutex
  pc,                 \* progress of the requests
  tries,              \* requests sent
  vswitchConnectivityConfigured,
  resyncPC,           \* progress of resync: a part of the vswitch, or "idle"
  vswitch,            \* the connection to the host: veths and AF_PACKET configured,
                      \* and the interface when VPP has it
  waitExpired,        \* history: the last resync went on without the interface
  ifs,                \* interfaces of containers: container, its address, VPP's address
  entries,            \* what else is configured for a container: step, container, address
  etcd,               \* persisted keys of containers, and of the connection to the host
  configuredContainers,   \* index of connected containers
  results,            \* kubelet: results of ADD: container, address, gateway
  counter,            \* "counter of connected containers"
  older,              \* history: containers added before the agent was restarted
  errors, restarts, resyncs

cniVars == <<assignedPodIPs, setup, lock, pc, tries, vswitchConnectivityConfigured, resyncPC,
             vswitch, waitExpired, ifs, entries, etcd, configuredContainers, results, counter, older,
             errors, restarts, resyncs>>

Requests == {"add", "del"} \X Containers
Free == <<"free", "">>
Resync == <<"resync", "">>

Keys == IF setup.useTAP THEN {"vpp"} ELSE {"linux", "vpp"}
ContainerKeys(c) == {c} \X Keys
Parts == {"nic", "veth", "af", "wait", "route", "hostRoute"}
VswitchKeys == {"vswitch"} \X {"veth", "af"}

\* VPP has the interface towards the host.
Interconnected == "interface" \in vswitch

\* The steps of Add between the transaction with the interfaces and persistChanges.
NetSteps == {"tap", "stn", "appNamespace", "route", "arp", "arpInContainer",
             "routesInContainer", "ipContainer", "offload"}

Forwarding == {"stn", "route"}        \* what makes VPP send packets to the container
Outlasting == Forwarding \cup {"appNamespace", "arp", "ipContainer"}  \* Delete leaves these in VPP

Answers == {"ok", "okNoNetns", "error"}
Processed == {"ip", "txn", "persist", "register", "release"} \cup NetSteps
Addresses == 0..(AddrSize - 1)

CNITypeOK ==
  /\ IPAMTypeOK
  /\ setup \in Setups
  /\ lock \in Requests \cup {Free, Resync}
  /\ pc \in [Requests -> {"none", "lock", "wait"} \cup Processed \cup Answers]
  /\ tries \in [Requests -> 0..MaxRetries]
  /\ vswitchConnectivityConfigured \in BOOLEAN
  /\ resyncPC \in {"idle", "lock", "persist"} \cup Parts
  /\ vswitch \subseteq {"veth", "af", "interface"} /\ waitExpired \in BOOLEAN
  /\ ifs \subseteq Containers \X Addresses \X Nat
  /\ entries \subseteq NetSteps \X Containers \X Addresses
  /\ etcd \subseteq VswitchKeys \cup (Containers \X {"linux", "vpp"})
  /\ {configuredContainers, older} \subseteq SUBSET Containers
  /\ results \subseteq Containers \X Addresses \X Addresses
  /\ {counter, errors, restarts, resyncs} \subseteq Nat

CNIInit ==
  /\ IPAMInit
  /\ setup \in Setups
  /\ lock = Free
  /\ pc = [r \in Requests |-> "none"]
  /\ tries = [r \in Requests |-> 0]
  /\ vswitchConnectivityConfigured = FALSE
  /\ resyncPC = "idle"
  /\ vswitch = {} /\ waitExpired = FALSE /\ ifs = {} /\ entries = {} /\ etcd = {}
  /\ configuredContainers = {} /\ results = {} /\ older = {}
  /\ counter = setup.served
  /\ errors = 0 /\ restarts = 0 /\ resyncs = 0

NoError == UNCHANGED errors
OneError == errors < MaxErrors /\ errors' = errors + 1

----------------------------------------------------------------------------
(* Resync: configureVswitchConnectivity, under the mutex.                  *)

Waiting == {r \in Requests : pc[r] = "wait"}

\* Seeded fault: Signal instead of Broadcast.
SignalOne ==
  pc' = IF Waiting = {} THEN pc
        ELSE [pc EXCEPT ![CHOOSE r \in Waiting : TRUE] = "lock"]

Broadcast == pc' = [r \in Requests |-> IF r \in Waiting THEN "lock" ELSE pc[r]]

ResyncLeaves == lock' = Free /\ resyncPC' = "idle"

ConnectionVars == <<assignedPodIPs, ifs, entries, configuredContainers, results, counter>>
ResyncVars == <<ConnectionVars, setup, tries, older, restarts>>

\* The agent is resynced when it has started, and later when something failed.
StartResync ==
  /\ resyncPC = "idle" /\ resyncs < MaxResyncs /\ resyncs <= restarts + errors
  /\ resyncPC' = "lock" /\ resyncs' = resyncs + 1
  /\ UNCHANGED <<ResyncVars, lock, pc, vswitchConnectivityConfigured, vswitch, waitExpired, etcd, errors>>

\* The vswitch counts as configured when VPP has the interface towards the host.
SkipResync ==
  /\ resyncPC = "lock" /\ lock = Free /\ Interconnected
  /\ vswitchConnectivityConfigured' = TRUE
  /\ Broadcast
  /\ resyncPC' = "idle"
  /\ UNCHANGED <<ResyncVars, lock, vswitch, waitExpired, etcd, errors, resyncs>>

LockResync ==
  /\ resyncPC = "lock" /\ lock = Free /\ ~Interconnected
  /\ lock' = Resync /\ resyncPC' = "nic"
  /\ UNCHANGED <<ResyncVars, pc, vswitchConnectivityConfigured, vswitch, waitExpired, etcd, errors, resyncs>>

NextPart(p) ==
  CASE p = "nic" -> "veth" [] p = "veth" -> "af" [] p = "af" -> "wait" [] p = "wait" -> "route"
    [] p = "route" -> "hostRoute" [] p = "hostRoute" -> "persist"

\* The agent accepts an AF_PACKET interface whose veth it does not know, and creates
\* it when the veth appears: some time after the transactions that configure the two.
\* Only resync looks whether the interface is there, when it starts and in its loop.
InterfaceAppears ==
  /\ {"veth", "af"} \subseteq vswitch /\ ~Interconnected
  /\ resyncPC \in {"lock", "wait"}
  /\ vswitch' = vswitch \cup {"interface"}
  /\ UNCHANGED <<ResyncVars, lock, pc, vswitchConnectivityConfigured, resyncPC, waitExpired, etcd,
                 errors, resyncs>>

\* The physical interface or a loopback, with other configured interfaces; veths;
\* AF_PACKET; the default route of VPP; the route of the host to the pods. An error
\* of the transaction with the veths is logged only.
ConfigurePart ==
  /\ lock = Resync /\ resyncPC \in Parts \ {"wait"}
  /\ \/ NoError /\ vswitch' = vswitch \cup ({resyncPC} \cap {"veth", "af"})
     \/ OneError /\ resyncPC = "veth" /\ UNCHANGED vswitch
  /\ resyncPC' = NextPart(resyncPC)
  /\ UNCHANGED <<ResyncVars, lock, pc, vswitchConnectivityConfigured, waitExpired, etcd, resyncs>>

\* The loop that waits for the interface ends after a second at the latest.
WaitForInterface ==
  /\ lock = Resync /\ resyncPC = "wait"
  /\ waitExpired' = ~Interconnected
  /\ resyncPC' = NextPart(resyncPC)
  /\ UNCHANGED <<ResyncVars, lock, pc, vswitchConnectivityConfigured, vswitch, etcd, errors, resyncs>>

\* An early return: what was configured or written stays, requests keep waiting.
ResyncFails ==
  /\ lock = Resync /\ resyncPC \notin {"veth", "wait"}
  /\ \/ UNCHANGED <<vswitch, etcd>>
     \/ resyncPC = "af" /\ vswitch' = vswitch \cup {"af"} /\ UNCHANGED etcd
     \/ /\ resyncPC = "persist" /\ UNCHANGED vswitch
        /\ \E keys \in SUBSET VswitchKeys : etcd' = etcd \cup keys
  /\ OneError
  /\ ResyncLeaves
  /\ UNCHANGED <<ResyncVars, pc, vswitchConnectivityConfigured, waitExpired, resyncs>>

\* The changes are persisted and the waiting requests are woken up. (An error of
\* enableTCPSession is returned after that.)
ResyncSucceeds ==
  /\ lock = Resync /\ resyncPC = "persist"
  /\ etcd' = etcd \cup VswitchKeys
  /\ vswitchConnectivityConfigured' = TRUE
  /\ Broadcast
  /\ ResyncLeaves
  /\ UNCHANGED <<ResyncVars, vswitch, waitExpired, errors, resyncs>>

----------------------------------------------------------------------------
(* Requests.                                                               *)

Others == <<setup, tries, vswitchConnectivityConfigured, resyncPC, vswitch, waitExpired, older, restarts, resyncs>>

Goto(r, l) == pc' = [pc EXCEPT ![r] = l]
Answer(r, a) == Goto(r, a) /\ lock' = Free

Deleted(c) == pc[<<"del", c>>] \in {"ok", "okNoNetns"}

\* kubelet adds a sandbox once, after it has deleted earlier ones of the pod. It may
\* give up on the answer and delete the sandbox, and it deletes again when a deletion
\* failed.
MayCall(r) ==
  /\ tries[r] < (IF r[1] = "add" THEN 1 ELSE setup.retries[r[2]])
  /\ pc[r] \in {"none", "error"}
  /\ r[1] = "del" => tries[<<"add", r[2]>>] > 0
  /\ r[1] = "add" => \A c \in Containers :
       (setup.pod[c] = setup.pod[r[2]] /\ tries[<<"add", c>>] > 0) => Deleted(c)

\* cmdAdd and cmdDel of the CNI binary forward the request.
Call(r) ==
  /\ MayCall(r)
  /\ Goto(r, "lock")
  /\ tries' = [tries EXCEPT ![r] = @ + 1]
  /\ UNCHANGED <<ConnectionVars, setup, lock, vswitchConnectivityConfigured, resyncPC, vswitch, waitExpired,
                 etcd, older, errors, restarts, resyncs>>

FirstStep(r) == IF r[1] = "add" THEN "ip" ELSE "txn"

\* Seeded fault: the request does not wait for the vswitch.
LockWithoutWait(r) ==
  /\ pc[r] = "lock" /\ lock = Free
  /\ Goto(r, FirstStep(r)) /\ lock' = r
  /\ UNCHANGED <<Others, ConnectionVars, etcd, errors>>

\* The head of both handlers; Wait releases the mutex.
Lock(r) ==
  /\ pc[r] = "lock" /\ lock = Free
  /\ IF vswitchConnectivityConfigured
       THEN Goto(r, FirstStep(r)) /\ lock' = r
       ELSE Goto(r, "wait") /\ UNCHANGED lock
  /\ UNCHANGED <<Others, ConnectionVars, etcd, errors>>

At(r, op, l) == r[1] = op /\ lock = r /\ pc[r] = l

\* The address of the pod from the IPAM. Requests are counted, also those that fail.
AssignIP(r) ==
  /\ At(r, "add", "ip")
  /\ counter' = counter + 1
  /\ \/ NextPodIP(hostID, r[2]) /\ Goto(r, "txn") /\ UNCHANGED lock
     \/ NoFreeIP(hostID) /\ Answer(r, "error") /\ UNCHANGED assignedPodIPs
  /\ UNCHANGED <<Others, ifs, entries, etcd, configuredContainers, results, errors>>

IPOf(c) == {a[1] : a \in {b \in assignedPodIPs[hostID] : b[2] = c}}

\* The host part of VPP's address of the interface.
ipAddrForPodVPPIf == counter + 1

\* The interface in the container (veth or TAP) with the address of the pod, and its
\* peer in VPP.
PodInterface(c, ip) == <<c, ip, ipAddrForPodVPPIf>>

\* The order of the steps after the step l.
NextStep(l) ==
  CASE l = "txn" -> IF setup.useTAP THEN "tap" ELSE IF setup.tcpStack THEN "stn" ELSE "route"
    [] l = "tap" -> IF setup.tcpStack THEN "stn" ELSE "route"
    [] l = "stn" -> "appNamespace"
    [] l \in {"appNamespace", "route"} -> "arp"
    [] l = "arp" -> "arpInContainer"
    [] l = "arpInContainer" -> "routesInContainer"
    [] l = "routesInContainer" /\ setup.tcpStack -> "ipContainer"
    [] l = "offload" -> "persist"
    [] OTHER -> IF setup.offloadDisabled THEN "offload" ELSE "persist"

\* The transaction with the interfaces; when it fails it may have been applied. There
\* are no addresses after the last octet: the transaction fails.
ConfigureInterfaces(r) ==
  /\ At(r, "add", "txn")
  /\ \E ip \in IPOf(r[2]) :
       LET with == ifs \cup {PodInterface(r[2], ip)} IN
       \/ /\ ipAddrForPodVPPIf <= LastOctet
          /\ NoError /\ Goto(r, NextStep("txn")) /\ UNCHANGED lock
          /\ ifs' = with
       \/ /\ IF ipAddrForPodVPPIf <= LastOctet THEN OneError ELSE NoError
          /\ Answer(r, "error")
          /\ ifs' \in {ifs, with}
  /\ UNCHANGED <<Others, assignedPodIPs, entries, etcd, configuredContainers, results, counter>>

\* An entry for packets to an address replaces the earlier one.
WithEntry(l, c, ip) ==
  {e \in entries : l \in Forwarding /\ e[1] \in Forwarding => e[3] # ip} \cup {<<l, c, ip>>}

\* One of the steps; one that fails may have been carried out.
ConfigureNetwork(r) ==
  \E l \in NetSteps, ip \in IPOf(r[2]) :
    /\ At(r, "add", l)
    /\ \/ NoError /\ Goto(r, NextStep(l)) /\ UNCHANGED lock /\ entries' = WithEntry(l, r[2], ip)
       \/ OneError /\ Answer(r, "error") /\ entries' \in {entries, WithEntry(l, r[2], ip)}
    /\ UNCHANGED <<Others, assignedPodIPs, ifs, etcd, configuredContainers, results, counter>>

\* Seeded fault: errors of persistChanges are ignored.
PersistIgnoresErrors(r) ==
  /\ At(r, "add", "persist")
  /\ UNCHANGED lock /\ Goto(r, "register")
  /\ \/ NoError /\ etcd' = etcd \cup ContainerKeys(r[2])
     \/ OneError /\ \E keys \in SUBSET ContainerKeys(r[2]) : etcd' = etcd \cup keys
  /\ UNCHANGED <<Others, ConnectionVars>>

\* persistChanges writes the keys one by one, in any order, up to an error.
Persist(r) ==
  /\ At(r, "add", "persist")
  /\ \/ NoError /\ Goto(r, "register") /\ UNCHANGED lock /\ etcd' = etcd \cup ContainerKeys(r[2])
     \/ /\ OneError /\ Answer(r, "error")
        /\ \E keys \in SUBSET ContainerKeys(r[2]) : etcd' = etcd \cup keys
  /\ UNCHANGED <<Others, ConnectionVars>>

\* What the CNI binary makes of the reply: the address (of the network address/32) and
\* the gateway.
CNIResult(c, ip) == <<c, ip, PodGatewayIP(hostID)>>

RegisterContainer(c) == configuredContainers' = configuredContainers \cup {c}
UnregisterContainer(c) == configuredContainers' = configuredContainers \ {c}

Register(r) ==
  /\ At(r, "add", "register")
  /\ RegisterContainer(r[2])
  /\ results' = results \cup {CNIResult(r[2], ip) : ip \in IPOf(r[2])}
  /\ Answer(r, "ok")
  /\ UNCHANGED <<Others, assignedPodIPs, ifs, entries, etcd, counter, errors>>

InterfacesOf(c) == {i \in ifs : i[1] = c}

\* What disappears from the container with its interface.
EntriesOf(c) == {e \in entries : e[2] = c /\ e[1] \notin Outlasting}

\* Seeded fault: the address is released together with the interfaces, before
\* it is known that they are removed.
RemoveAndRelease(r) ==
  /\ At(r, "del", "txn")
  /\ \/ /\ NoError /\ Goto(r, "persist") /\ UNCHANGED lock
        /\ ifs' = ifs \ InterfacesOf(r[2]) /\ entries' = entries \ EntriesOf(r[2])
     \/ OneError /\ Answer(r, "error") /\ UNCHANGED <<ifs, entries>>
  /\ assignedPodIPs' = [assignedPodIPs EXCEPT ![hostID] = {a \in @ : a[2] # r[2]}]
  /\ UNCHANGED <<Others, etcd, configuredContainers, results, counter>>

RemoveInterfaces(r) ==
  /\ At(r, "del", "txn")
  /\ \/ /\ NoError /\ Goto(r, "persist") /\ UNCHANGED lock
        /\ ifs' = ifs \ InterfacesOf(r[2]) /\ entries' = entries \ EntriesOf(r[2])
     \/ /\ OneError /\ Answer(r, "error")
        /\ \/ UNCHANGED <<ifs, entries>>
           \/ ifs' = ifs \ InterfacesOf(r[2]) /\ entries' = entries \ EntriesOf(r[2])
  /\ UNCHANGED <<Others, assignedPodIPs, etcd, configuredContainers, results, counter>>

\* Seeded fault: the key of the interface of VPP is forgotten.
UnpersistLinuxOnly(r) ==
  /\ At(r, "del", "persist")
  /\ \/ NoError /\ Goto(r, "release") /\ UNCHANGED lock /\ etcd' = etcd \ {<<r[2], "linux">>}
     \/ OneError /\ Answer(r, "error") /\ UNCHANGED etcd
  /\ UNCHANGED <<Others, ConnectionVars>>

\* Before the keys are removed a TAP is looked for in the container, which may fail.
Unpersist(r) ==
  /\ At(r, "del", "persist")
  /\ \/ NoError /\ Goto(r, "release") /\ UNCHANGED lock /\ etcd' = etcd \ ContainerKeys(r[2])
     \/ /\ OneError /\ Answer(r, "error")
        /\ \E keys \in SUBSET ContainerKeys(r[2]) : etcd' = etcd \ keys
  /\ UNCHANGED <<Others, ConnectionVars>>

ResultsOf(c) == {res \in results : res[1] = c}

\* The container leaves the index whether or not its address can be released.
\* When kubelet gives no namespace the address is not looked for, and that is no
\* error.
Release(r) ==
  /\ At(r, "del", "release")
  /\ UnregisterContainer(r[2])
  /\ \/ ReleasePodIP(hostID, r[2]) /\ Answer(r, "ok") /\ results' = results \ ResultsOf(r[2])
     \/ ~HasPodIP(hostID, r[2]) /\ Answer(r, "error") /\ UNCHANGED <<assignedPodIPs, results>>
     \/ /\ Answer(r, "okNoNetns") /\ results' = results \ ResultsOf(r[2])
        /\ UNCHANGED assignedPodIPs
  /\ UNCHANGED <<Others, ifs, entries, etcd, counter, errors>>

----------------------------------------------------------------------------

\* VPP and the agent restart, after Close (which removes the veths to the host) or a
\* crash: memory is lost, open requests fail, and the agent configures VPP again with
\* what is persisted: interfaces, and none of the other entries of a container.
Restart ==
  /\ restarts < MaxRestarts
  /\ restarts' = restarts + 1
  /\ assignedPodIPs' = [h \in HostIDs |-> {}]
  /\ lock' = Free /\ resyncPC' = "idle"
  /\ pc' = [r \in Requests |-> IF pc[r] \in {"none"} \cup Answers THEN pc[r] ELSE "error"]
  /\ vswitchConnectivityConfigured' = FALSE
  /\ configuredContainers' = {} /\ counter' = 0
  /\ vswitch' = {p \in {"veth", "af"} : <<"vswitch", p>> \in etcd} /\ waitExpired' = FALSE
  /\ entries' = {}
  /\ ifs' = {i \in ifs : <<i[1], "vpp">> \in etcd}
  /\ older' = {c \in Containers : tries[<<"add", c>>] > 0}
  /\ UNCHANGED <<setup, tries, etcd, results, errors, resyncs>>

ResyncStep ==
  \/ SkipResync \/ LockResync \/ ConfigurePart \/ WaitForInterface
  \/ ResyncFails \/ ResyncSucceeds

Step(r) ==
  \/ AssignIP(r) \/ ConfigureInterfaces(r) \/ ConfigureNetwork(r) \/ Persist(r) \/ Register(r)
  \/ RemoveInterfaces(r) \/ Unpersist(r) \/ Release(r)

CNINext ==
  \/ StartResync \/ ResyncStep \/ InterfaceAppears \/ Restart
  \/ \E r \in Requests : Call(r) \/ Lock(r) \/ Step(r)

CNISpec == CNIInit /\ [][CNINext]_cniVars

\* Handlers run on, and a mutex that stays free is taken by those who wait for
\* it. Neither kubelet nor resync has to do anything.
CNIFairSpec ==
  /\ CNISpec
  /\ WF_cniVars(ResyncStep)
  /\ WF_cniVars(\E r \in Requests : Step(r))
  /\ \A r \in Requests : WF_cniVars(Lock(r))

----------------------------------------------------------------------------
(* Properties.                                                             *)

\* What Add configures besides the interfaces.
Wanted ==
  {"arp", "arpInContainer", "routesInContainer"}
    \cup (IF setup.useTAP THEN {"tap"} ELSE {})
    \cup (IF setup.tcpStack THEN {"stn", "appNamespace", "ipContainer"} ELSE {"route"})
    \cup (IF setup.offloadDisabled THEN {"offload"} ELSE {})

\* getContainerConfig: the sandbox the other plugins find for a pod.
getContainerConfig(pod) == {c \in configuredContainers : setup.pod[c] = pod}

\* What other plugins find for a pod (GetIfName, GetNsIndex), and nobody deletes, has its
\* interface with the address kubelet was told, every entry of its own, all its keys, and
\* VPP sends packets to the address there: neither failed requests nor what Delete leaves
\* of earlier containers get in the way.
ConnectedIsComplete ==
  \A pod \in Pods : \A c \in getContainerConfig(pod) :
    pc[<<"del", c>>] = "none" =>
      \E i \in ifs :
        /\ i[1] = c /\ IPOf(c) = {i[2]}
        /\ ResultsOf(c) = {<<c, i[2], PodGatewayIP(hostID)>>}
        /\ Wanted \X {c} \X {i[2]} \subseteq entries
        /\ ContainerKeys(c) \subseteq etcd

\* Among the interfaces and results of ADD since the agent started, no two have one
\* address, of the pod or of VPP, whatever steps of Add and Delete fail and although
\* nothing is rolled back (NextPodIP, ReleasePodIP, counter). A restart forgets the
\* addresses of older containers.
PodIPsExclusive ==
  /\ \A i, j \in ifs :
       (i[2] = j[2] \/ i[3] = j[3]) => i = j \/ i[1] \in older \/ j[1] \in older
  /\ \A a, b \in results : a[2] = b[2] => a = b \/ a[1] \in older \/ b[1] \in older

\* After a Delete that succeeded the container has no interface and nothing is
\* configured inside of it, its keys are gone from etcd, other plugins do not find it
\* and its address is free; also when Add failed half way or was still waiting when
\* Delete arrived. (It came with the network namespace; without it Delete may overtake
\* Add and still succeed. What Add configured in VPP for the address stays.)
DeletedIsDisconnected ==
  \A c \in Containers : pc[<<"del", c>>] = "ok" =>
    /\ InterfacesOf(c) = {} /\ EntriesOf(c) = {}
    /\ etcd \cap ContainerKeys(c) = {}
    /\ c \notin configuredContainers
    /\ ~HasPodIP(hostID, c)

\* No request is processed before VPP has the interface towards the host (vswitchCond),
\* also after a restart and whatever else of the connectivity failed to be configured,
\* unless resync gave up waiting for the interface and went on without it.
InterconnectFirst == \A r \in Requests : pc[r] \in Processed => Interconnected \/ waitExpired

\* Once the vswitch is configured every request is answered, those that waited
\* for it included (Broadcast), unless the agent restarts.
EveryRequestAnswered ==
  \A r \in Requests :
    (pc[r] \in {"lock", "wait"} /\ vswitchConnectivityConfigured) ~> (pc[r] \in Answers)
=============================================================================
