# Verification of the Contiv-VPP agents

TLA+ models of the Contiv-VPP agents, model-checked with TLC on small instances
many of them with properties proved by TLAPS for every instance.

## The system

Every node of a Kubernetes cluster runs the Contiv agent, one Go process that
configures the VPP vswitch of the node. One Contiv-KSR agent per cluster reflects
Kubernetes resources into etcd. The parts talk as follows:

    K8s API --> KSR --> etcd --> policy plugin --> policy cache --> policy processor
                         ^ |                                              |
                         | |                                      policy configurator
                         | |                                         /           \
                         | |                                 ACL renderer   VPPTCP renderer
                         | |                                         \           /
    kubelet --> CNI server + IPAM --> (persisted through kvdbproxy)        VPP
                         | |                                               ^
                         | +--> node ID allocator, node events --> routes -+

* The *node ID allocator* gives the node a small number by a conditional write to
  etcd. *IPAM* derives the networks of the node from it and assigns addresses to
  pods without talking to anybody.
* *Node events*: each agent watches the numbers and keeps routes to the other nodes.
* The *remote CNI server* configures the connectivity of the vswitch on resync, and
  connects and disconnects containers for kubelet. What it configured it persists in
  etcd; *kvdbproxy* filters the events these writes cause.
* *KSR* lists and watches namespaces, pods and policies, and writes them to etcd.
* The *policy plugin* receives resync and change events from etcd and hands them to
  the *policy cache*; the *processor* finds the pods whose policies are outdated; the
  *configurator* translates the policies of a pod into rules; the *renderers* turn
  the rules into ACLs and into session rules of the VPP TCP stack.

## Modules

| Part | Modules | Code |
|---|---|---|
| Node ID allocator | `NodeIDAllocator`, abstract `NodeIDs`; proofs in `NodeIDAllocatorProofs` | `plugins/contiv/node_id_allocator.go` |
| IPAM | `IPAM`; proofs in `NodeRoutesProofs` | `plugins/contiv/ipam/ipam.go` |
| Node events and routes, with IPAM | `NodeRoutes`, `NodeRoutesProofs` | `plugins/contiv/node.go` |
| CNI server and binary, container index, with IPAM | `RemoteCNI`, `MCRemoteCNI` | `plugins/contiv` (`remote_cni_server.go`, `host.go`, `pod.go`, `containeridx`), `cmd/contiv-cni` |
| KV database proxy and persistChanges | `KVDBProxy`; proofs in `AgentProofs` | `plugins/kvdbproxy`, `persistChanges` in `plugins/contiv/remote_cni_server.go` |
| KSR | `KSR`; proofs in `PolicyPluginProofs` | `plugins/ksr` |
| Policy plugin and cache, with KSR | `PolicyPlugin`, `MCPolicyPlugin`, `PolicyPluginProofs` | `plugins/policy/plugin_impl_policy.go`, `cache`, the resync orchestrator of cn-infra |
| Policy processor, lookups of the cache, conversion of network policies | `PolicyProcessor`, `MCPolicyProcessor`, `PolicyProcessorFacts`, `PolicyProcessorProofs` | `plugins/policy/processor`, `cache`, `plugins/ksr/policy_reflector.go` |
| Policy configurator | `Configurator`, `MCConfigurator`; proofs in `AgentProofs` | `plugins/policy/configurator` |
| ACL renderer and its cache | `ACLRenderer`, `MCACLRenderer`, `RuleListFacts`, `ACLRendererProofs` | `plugins/policy/renderer/acl`, the local client of cn-infra, the ACL plugin of the vpp-agent |
| VPPTCP renderer and its cache | `VPPTCPRenderer`, `MCVPPTCPRenderer` | `plugins/policy/renderer/vpptcp` |
| Shared | `Subnets` (networks on short addresses), `Lists` (loops over lists, sets listed in some order) | |

Operators called "Seeded fault" stand next to the definition they are a faulty form
of. No specification uses them; put in place of the definition, each makes the
property it was written for fail, which shows that the property depends on the code.

### How the modules correspond to the code

*NodeIDAllocator.* The state is etcd below `allocatedIDs/` and, per node, the fields
of `idAllocator`. `getID` is cut at its etcd requests: `FindExistingEntry`,
`ListAllIDs`, `WriteSucceeded`/`WriteRefused`. Agents interleave between them, an
agent may crash anywhere, and a request that failed may have been carried out. The
number is returned modulo `UInt8Size` (`uint8(ia.ID)`).

*IPAM.* Addresses are numbers and prefix lengths are sizes; `HostIPPart` is the
trimming in `convertToHostIPPart`, `PodNetwork` is `applyHostID` in `uint32`
arithmetic, `NextPodIP` and `ReleasePodIP` are the methods of that name.

*NodeRoutes* extends IPAM. Nodes join and leave (their entry in etcd), their IPAMs
assign addresses, and one node handles the resync and the change events, which come
from two channels in either order. Two routes belong to a node, one to its pods and one to
its IP stack, both through its address; `computeRoutesForHost` makes them from the host ID.
VPP may refuse a transaction.

*RemoteCNI* extends IPAM. A container is a sandbox of a pod; `Call` and `CNIResult` are
the CNI binary that turns one call of kubelet into one request and the reply into a
result. Add and Delete are cut where something outside of the process changes: the
transaction of the interface, each entry that follows it (STN rule and application
namespace or route, ARP, the commands inside of the container), the write to etcd, the
index. Resync is cut into its parts (`Parts`), with the early return when VPP has the interface
to the host. The vpp-agent accepts an AF_PACKET interface before its veth is there and
creates it later (`InterfaceAppears`); resync waits for it for a second and then goes on with or without it
(`WaitForInterface`, remembered in `waitExpired`). The mutex and the condition variable are explicit. Every step may
fail and nothing is rolled back, as in the code. What Delete does not remove (`Outlasting`)
stays in VPP. `Setups` has the kind of interface, the TCP
stack and where the counter of interfaces stands. A restart loses the memory of the
agent and makes VPP agree with what is persisted.

*KVDBProxy.* `persistChanges`, called with a set of keys to remove or to put (the whole set is in
VPP already), writes them key by key, each after its entry in the ignore list, and returns at the first
error. Beside it run the filter goroutine that holds the mutex
while it sends to a plugin, the plugin, and somebody else who writes foreign keys. Three histories name what
the code cannot keep apart or does not repair: keys a failed call had not come to (`unsaved`), entries
without an event to come (`unanswered`), keys written while an event of theirs was on its way (`overlapped`).

*KSR.* An item is a namespace, pod or policy under its key. Its notifications are
handled in order, those of different items in any order. The conversions to protobuf
messages are one parameter `toProto`, a function of the object that need not be
injective. A failed write is logged and forgotten; a restarted KSR lists what exists.

*PolicyPlugin* extends KSR. The resync orchestrator starts one part after the other, once: the
data of K8s are listed and sent (`StartResync`, or `ListFails` when etcd does not answer), the orchestrator goes on
when they are received or after its timeout (`ResyncTimeout`), and tells the plugin to start (`HandleResync`, or
`SkipResync` if nothing is pending). The two goroutines of the plugin exclude each other by a lock (`Locked`).
`handleResync` keeps it while it applies the resync event and then the delayed changes, one
step each (`HandleResync`, `ApplyChange`, `ResyncDone`), and KSR goes on writing in between;
`Fails` is the error of a watcher that makes it return. `pendingResync` and `pendingChanges`
are the fields of the plugin.

*PolicyProcessor.* One action per handler of the processor, each preceded by the update
of the cache that triggers it. The inputs are network policies of K8s, converted by
`policyToProto`. Pods are selected twice in the code, by the indexes of the cache
(`LookupPodsByNSLabelSelector`, for the rules) and by matching a pod with a selector
(`calculateLabelSelectorMatches`, for the outdated pods), and both are translated with their
treatment of expressions; the property compares them with what K8s means (`Selects`).
`configured` is what the last `Process` told the configurator about a pod.

*Configurator.* A transaction is `NewTxn`, any number of `Configure`, `Commit`. Sets of policies
processed before in the same commit are found by `Equals`, which compares the IDs.
`generateRules` is translated with its loops as folds, including that
`&block.Network` points into the variable of the loop. Addresses have `AddrBits` bits.

*ACLRenderer.* The cache has a base and, in a transaction, a head of copied lists.
`Commit` is cut into the resync of the cache, the update of one interface
(in any order, as Go maps have none), the changes sent to VPP, which may fail half way, and the merge of one list
after the other. A list of rules is a number, as the code only compares lists. The state behind the renderer is
`lastRev`, the objects the local client was given last, and `vpp`, the ACLs. Two facts of that code matter.
`DumpACL` of the vpp-agent returns nothing and no error, so that a resync empties the cache (`ResyncCache`; `forgotten`
remembers that there were ACLs). And the renderer changes the interfaces of an ACL in the very object
that the local client holds as the previous value: `ModifyACL` detaches the ACL from the interfaces it is about
to have (`OldInterfaces`), not from those it had. `wanted` is the history of what transactions asked for.

*VPPTCPRenderer.* Transactions, the conversion to session rules of the global and the
local tables, the combination with the egress rules of pods of the same host, and the
requests with a channel of replies that an error leaves unread. Which rule wins in VPP
(longest remote prefix, then the rule with a port) is not in the repository; `Accepts`
states what the code and its mock of VPP assume.

## What is checked

Each run is one `.cfg` with its module: `tlc -config X.cfg M`. The runs that pass:

**node_id** (`NodeIDAllocator`, three nodes, two crashes, errors or shutdowns). Host
IDs of running agents are unique; numbers stay dense and no node holds two, whatever is
freed between listing and writing; an entry disappears only in the shutdown of its own
node although `releaseID` deletes by number; every node finally joins although the
retries are limited; the whole implements `NodeIDs`, allocation that survives crashes.
`UInt8Size` is 3, so that the number of the third node wraps around to 0, as 256 does in the code.

**node_routes** (`NodeRoutes`, three nodes, two pods, three changes). Addresses are
unique in the cluster, no pod has a network or gateway address, and once the events are
processed a packet to any pod matches the route to its node and no other. Host ID 3 is the
last one that fits into its two bits. The same holds for the IP stack of each node. Networks have four addresses, so that the pool of two
is exhausted and refilled.

**cni** (`MCRemoteCNI`, two sandboxes of one pod or of two, requests that kubelet repeats, two
resyncs, a restart, an error at any step; AF_PACKET interfaces with the TCP stack, and TAP interfaces
with the counter near its limit). A container in the index that nobody deletes has its
interface, every entry the configuration wants, its keys and one result; no two interfaces made
since the agent started have one address, of the pod or of VPP; a successful Delete with
a namespace leaves no interface, nothing inside of the container, no key, no address and nothing in the index, also if it
overtook Add or Add failed half way (`DeletedIsDisconnected`; the STN rule, the application namespace, the route and the ARP entry
in VPP are never removed by the code); nothing is processed before VPP
has the interface to the host or resync has given up waiting for it; every request is answered once
the vswitch is configured.

**kvdbproxy** (`KVDBProxy`, two own keys and a foreign one, three calls or foreign writes, a failing one).
Own events are ignored unless their key was written again too early (the
limitation stated in the code); when nothing is under way, VPP and the data store agree but for the keys a failed call had
not come to, and the list has no entry that an event should have removed; the writer is never
blocked for good by the filter that holds the mutex.

**policy_plugin** (`MCPolicyPlugin`: KSR and the policy plugin, two items, two changes, the
resync of the agent, one failing write, one restart of KSR, one error of a watcher). Etcd follows K8s,
the last change of each item reaches the cache or is the last one delayed, and no event stays on its way, with one exception
(`Missed`): a resync event received after the plugin was told to start stays pending for good, with all changes
behind it. It starts from a new cluster and from one where etcd is outdated.

**policy_processor** (`MCPolicyProcessor`, four pods, one of them on another node and one in
kube-system, two network policies, six events). After
every event each pod of this node has exactly the policies that select it, with the pods,
addresses, blocks and ports the network policies of K8s stand for, peers selected by
expressions included. Six events are enough for two pods with
addresses, a policy and a change of labels or of the address that concerns a peer. `ProcessorAssumption` restricts
the inputs to the selectors the code evaluates.

**configurator** (`MCConfigurator`, addresses of three bits, two transactions). Rules
let through exactly what the policies say, packet by packet, with nested, adjacent and
overlapping exceptions, peers without address, sets of policies processed before and a renderer that refuses; equal sets of
policies give equal lists; `subtractSubnet` is exact for every pair of subnets.

**acl** (`MCACLRenderer`, two interfaces, three contents of lists, three transactions with or without resync, one
request that fails half way; interfaces are symmetric; one direction, as directions share nothing but the set of
interfaces). The cache stays consistent and
never renders a change without its ACL, whatever fails; until an error every list of the cache has its ACL, with its
rules and on all of its interfaces, and there is no other ACL unless a resync has forgotten it (`VPPEnforcesCache`); and the
rules last given to an interface are enforced on it (`WantedIsEnforced`). Both say what is there, not that nothing
else is: see Observations.

**vpptcp** (`MCVPPTCPRenderer`, three pods, three transactions, one error, one restart). VPP
has the rules of the cache while requests succeed, and again after a resync on a fresh channel;
they accept exactly the connections the rules of both ends let pass; rules of others stay.
`chanBufSize` is 4, smaller than the batches, so that they are split.

Deadlock is not checked in any run: every model stops when its bounds are used up.

### Where the code does something else

Three runs show a disagreement between the code and its comments; TLC's trace is
the shortest scenario.

* **node_routes_removed**: a node leaves. `nodeChangePropageteEvent` reads the value of
  the delete event, which is empty, and removes the routes of host 0; the routes of the node stay.
* **policy_resync**: `PolicyCache.Resync` parses the event and notifies watchers,
  but registers nothing, although its comment says the content is replaced.
* **configurator_blocks**: `generateRules` keeps a pointer to the variable of the loop
  over IP blocks; of two blocks without exceptions both become the last one.

## Bounds

Each bound is a constant named `Max...` and occurs in the guard of what it bounds: changes,
resyncs, errors, restarts, transactions. One error is enough to separate "before
the error" from "after", as nothing in the code counts errors; two transactions are needed for a second one to
meet what the first one left, and the renderers
have three because lists are shared, left and shared again. The orchestrator runs the resync of the policy plugin once. The inputs of
`Configurator`, `VPPTCPRenderer` and `PolicyProcessor` are chosen in their MC modules so that rules overlap,
nest, coincide and contradict each other.

## Fairness

* `NodeIDAllocator`: weak fairness of the steps of `getID` of each node. It is
  straight-line code over requests that return, and Kubernetes restarts agents that end.
* `RemoteCNI`: weak fairness of the handler that holds the mutex, of resync, and of every
  request that waits for a mutex that stays free.
  Neither kubelet nor a resync has to happen.
* `KVDBProxy`: weak fairness of the filter, the plugin that reads the channel and the write itself;
  strong fairness of the writer that takes the mutex (`AddIgnoreEntry`), which the filter takes again and again.
  Since Go 1.9 a mutex is handed over to a goroutine that has waited for a millisecond.
* `PolicyPlugin`: weak fairness of the reflectors and of the two goroutines; the orchestrator tells the plugin
  to start once it is past the other parts. That the listing is ever done is not assumed.
* All others are checked for safety only.

## What is proved

`tlapm` checks all proofs; nothing is assumed but the named assumptions on constants. Every theorem is about
any number of steps: the bounds of the runs are natural numbers, without a limit.

**NodeIDAllocatorProofs**: `TypeCorrect`, `AllocationHolds`, `HostIDsUnique`, `Dense`,
`OwnerReleases`, `Refinement`, for any finite set of nodes and any number of attempts, crashes
and errors. Uniqueness of the host IDs is not inductive: a write could collide if a running
node did not own its entry, and the candidate could grow without bound if a node that writes
owned an entry already. The inductive invariant `AllocationInvariant` adds that keys are
unique, that a node about to write owns nothing, that a running node owns the entry of
its number, and that numbers are dense. Density is a pigeonhole argument (`CandidateBound`): the numbers below the
candidate belong to different nodes, none of them the writer. `UniqueHostIDs` has the condition that there are no more
nodes than values of the returned type; then the numbers are at most that many, and modulo the size of the type
they stay apart (`WrapAround`). `Refinement` shows that each step is
a step or a stutter of `NodeIDs`.

**NodeRoutesProofs**, about IPAM: `PodIPsUnique` and `ReservedAddressesFree`, for all sizes of subnets and networks and
all sets of host IDs that fit into the bits between the prefixes (`HostIDsFit`, in the statement: it is
false without). The inductive invariant says that each host assigns addresses of its own network only,
one pod for each; disjointness of networks is a lemma of integer arithmetic.
About the routes: `RoutesCorrect` (`RoutesReachPods`) and `AddressesCorrect`, on top of those about IPAM, for any number
of nodes, changes, resyncs and refused transactions. `ConfigFits`, in the statements, says what the
configuration must provide: room for every host ID in each of the three subnets, host IDs from 1, and
subnets of pods and vswitches that do not overlap. The inductive invariant adds that there are no routes but
those of some host ID, and that every node in etcd has its routes or is still announced by an event on its way.
The rest is arithmetic: the networks of different hosts are disjoint, and a next hop tells its host.

**PolicyPluginProofs**, about KSR: `KSRTypeCorrect` and `EtcdFollowsK8s`, for all sets of items, every conversion, any state
of etcd at the start and any number of failures and restarts. `StoreFollowsK8s` is not inductive: it says
nothing of items with notifications. `KSRInv` adds that the last notification on its way is the current
state of the item. About the plugin behind it: `PluginTypes` and `LastChangeWins` (`ChangesReachCache`). The last
event of an item, in the channel or, if there is none, among the delayed changes, has the value in etcd; if there is
none either, the cache has it. A resync cannot bring an older value back, because it registers nothing.

**AgentProofs**, about the KV database proxy: `ProxyTypes`, `OwnEvents` and `Convergence`, for any number of keys, values, writes and
failures. The invariant counts: a key that was not written again too early has one event on its way or one write
under way at most, and the ignore list has its entry exactly as long, or has an entry no event will come for. The configurator is the
other half: `TablesFollowTransactions` and `RulesShared` (`SameSetSameRules`), for any number of pods, policies, renderers and transactions. The inductive
invariant is that a renderer that refused nothing has the rules generated from the policies last committed for a pod, in the middle of
a transaction as well, and that a set found among those processed before is the same set. The policies of a pod are sorted, so that equal sets
give equal lists. What the generated rules let through is not proved.

**RuleListFacts** and **ACLRendererProofs**: `RendererTypes`, `CacheStaysConsistent` and `NeverPanics`, for any number of
interfaces, directions, contents of lists, transactions and errors; finitely many interfaces and `NoPrivate`, which is no ID, are
the assumptions. The first module has what each operation on lists keeps (assigning, unassigning, inserting). The
inductive invariant `RendererInv` holds whatever VPP refuses and whenever a resync empties the cache: lists and index agree in base and
head, a list of the head is a copy of one of the base with the same ID and rules or is new, a list that is used has
its ACL, and IDs are finitely many, so that a new one exists.

**PolicyProcessorFacts** and **PolicyProcessorProofs**: `ProcessorTypeCorrect` and `NoPodOverlooked` (`NoOutdatedPods`), for any number of pods,
policies, namespaces and events, for the selectors `ProcessorAssumption` describes. The lemmas of the first module say that the lookups by the
indexes of the cache, the matching of a pod with a selector, and the meaning of the selector in K8s agree. The inductive invariant says
that the cache holds the conversion of what K8s has, or nothing for a pod that was ignored, and that a pod with an address has been told the
policies that select it. Each handler finds every pod whose policies or peers the event changes; for all others the set of
policies and their matches are the same before and after.

Only model-checked:

* liveness under fairness, which is out of the reach of this version of TLAPS: `EveryNodeJoins`,
  `EveryRequestAnswered`, `PersistTerminates` and `EventsApplied`;
* what VPP enforces of the cache of the ACL renderer (`VPPEnforcesCache`, `WantedIsEnforced`);
* the CNI server and the VPPTCP renderer;
* what the rules of the configurator let through (`RulesImplementPolicies`, `SubtractExact`) and its type invariant: they are
  about loops over lists, and need induction over data.

## What is not modelled

* The CRI shim, the LD_PRELOAD label injector, flavors and mains, flags and logs:
  forwarding, text manipulation or wiring, with no state of their own.
* Selectors outside of `ProcessorAssumption`: the two ways in which the code evaluates them, and K8s, disagree (see below).
  Namespace selectors are converted, and ignored by the processor as in the code.
* Names, MAC addresses and contents of interfaces; the conversion of a rule into the
  fields of an ACL rule; IPv6 copies of session rules; keys and identifiers as strings.
* The reconnection of informers in client-go, and kvdbsync beyond its events.
* Mocks and generated code.

## Observations

Facts of the code met while modelling that limit what the properties say. Each is in a model
as behaviour, excluded by a named assumption, or outside of the models, as indicated.

* The pool of assigned addresses is in memory only: after a restart a new container may get the address of
  one that is still there. `PodIPsExclusive` excepts the containers of the time before (`older`).
* A Delete without a network namespace succeeds and leaves the address assigned (`okNoNetns`).
* The presence of the interface towards the host makes a later resync return early, also if the routes behind
  it failed (`SkipResync`); the counter of containers also counts failed Adds (`AssignIP`). It becomes the last
  byte of addresses in VPP, so that an agent serves 254 Adds before Add fails.
* A failed transaction of the veths is logged only, the wait for the interface ends after a second, and requests are let in
  (`waitExpired`).
* Close removes the host's route, and a later resync that returns early does not restore it. Of what Add configures only the
  interfaces are persisted, and Delete leaves the STN rule, the application namespace, the route and the ARP entry in VPP
  (`Outlasting`).
* A Delete without a network namespace may overtake Add: the container is in the index afterwards, although it is gone.
* `nodeChangePropageteEvent` does not exclude the own host ID, so that a change of the own entry
  makes a route to this node (`RoutesReachPods` is about the other nodes).
* Host IDs beyond the bits between the prefixes are trimmed and collide: `HostIDsFit`, in the theorems, leaves them out. Numbers
  from 256 wrap around to 0, and in a cluster of more than 256 nodes two agents have one host ID: the condition of `UniqueHostIDs`.
* A delete of a node's entry that etcd carries out after its client gave up may remove the entry of the restarted agent
  (not modelled).
* The ignore list of kvdbproxy has one entry per key; overlapping writes of a key get through (`overlapped`).
  After an error of `persistChanges` nothing writes the keys it had not come to (`unsaved`).
* A resync of the ACL renderer does not replace the ACLs in VPP, although the comment at `acl_renderer.go:82` says so: the dump is empty,
  the ACLs of the time before stay attached, and new ones with new IDs join them (`forgotten`). An interface that leaves a list which others keep stays attached
  to its ACL, next to the new one, although `acl_renderer.go:98` says that existing rules are replaced: the vpp-agent compares the
  changed object with itself. Which of two ACLs of an interface comes first is decided in VPP and not modelled; that the positions are set by
  asynchronous requests is not modelled either.
* After an error of VPP the cache of the ACL renderer describes the state before the transaction, while the local client has the objects of
  the failed one. VPP refusing to delete an ACL that is still attached is such an error (`SendFails`). Lists that
  are no longer used stay in the cache.
* After an error the VPPTCP renderer leaves replies in the channel that the next transaction reads as its own. A
  permit for 0.0.0.0/0, for a /1, or of one protocol from anywhere, together with a denial of the rest,
  meets the two /1 networks the denial is installed as (excluded by `VPPTCPAssumption`).
* An error of a watcher drops the delayed changes behind it (`Fails`). A resync event that is late stays pending, and
  with it every later change (`Missed`).
* Items deleted while KSR is down stay in etcd, and a failed write is not retried (`lost`). A deletion an
  informer learns of only after a reconnection has a type the reflectors reject (not modelled).
* `AddPod` does nothing, so that a pod that first appears with its address is
  unknown until its next update (`ignored`).
* A selector without labels selects no pod, although the comment at `cache_impl.go:101` says all; with three or
  more labels only the last two count. Of expressions only those with `In` and one value select pods: with
  two values it selects nothing, what the other operators find is overwritten (`match_expression.go:94`), and `NotIn` and
  `DoesNotExist` take a difference the wrong way round from an index of namespaces that does not exist. The other
  evaluation, `isMatchExpression`, returns at the first key that exists and requires the key that should not exist. Policies are found
  by the labels of their selector only. The model has all of this; the property is about selectors that
  `Evaluated` describes, peers that select nothing included.
* Named ports become port 0, a port without a number is a nil pointer in `calculateMatches`, and `LookupPod` reports a
  pod it did not find as found, without data (outside of the inputs).
* A resync of the configurator that renders no pod leaves the renderers as they are, as their
  transactions are never told.
