-------------------------- MODULE NodeIDAllocator --------------------------
(***************************************************************************)
(* Allocation of the number that identifies a node of the cluster          *)
(* (plugins/contiv/node_id_allocator.go), driven by the life of the agent  *)
(* that asks for it (Init and Close in plugins/contiv/plugin_impl_contiv.go).*)
(*                                                                         *)
(* An allocation is a key allocatedIDs/<Id> in etcd whose value carries    *)
(* the service label of its owner. Agents of different nodes interleave    *)
(* between any two requests to etcd; an agent may crash at any time and is *)
(* restarted, its keys stay.                                               *)
(***************************************************************************)
EXTENDS Naturals, FiniteSets

CONSTANTS
  Nodes,              \* service labels, one per node of the cluster
  maxAttempts,        \* 10 in the code
  UInt8Size,          \* 2^8 in the code: getID returns uint8(ia.ID)
  MaxDisturbances     \* bound: crashes, etcd errors and shutdowns in a behaviour

ASSUME NodesAssumption == IsFiniteSet(Nodes)
ASSUME BoundsAssumption ==
  /\ maxAttempts \in Nat
  /\ UInt8Size \in Nat \ {0}
  /\ MaxDisturbances \in Nat

VARIABLES
  entries,            \* etcd below allocatedIDs/: uid.Identifier values
  pc,                 \* where the agent of the node is
  allocated,          \* idAllocator.allocated
  ID,                 \* idAllocator.ID
  attempts,           \* the local variable of getID
  uid,                \* what getID returned to Init; 0 when the agent is not running
  disturbances

vars == <<entries, pc, allocated, ID, attempts, uid, disturbances>>

PCs == {"down", "find", "list", "write", "running"}

Identifiers == [Id : Nat \ {0}, Name : Nodes]

TypeOK ==
  /\ entries \subseteq Identifiers
  /\ pc \in [Nodes -> PCs]
  /\ allocated \in [Nodes -> BOOLEAN]
  /\ ID \in [Nodes -> Nat]
  /\ attempts \in [Nodes -> Nat]
  /\ uid \in [Nodes -> Nat]
  /\ disturbances \in 0..MaxDisturbances

Init ==
  /\ entries = {}
  /\ pc = [n \in Nodes |-> "down"]
  /\ allocated = [n \in Nodes |-> FALSE]
  /\ ID = [n \in Nodes |-> 0]
  /\ attempts = [n \in Nodes |-> 0]
  /\ uid = [n \in Nodes |-> 0]
  /\ disturbances = 0

----------------------------------------------------------------------------
(* Helpers of the allocator.                                               *)

KeyExists(i) == \E e \in entries : e.Id = i

Owns(n) == \E e \in entries : e.Name = n

\* findFirstAvailableIndex on the sorted result of listAllIDs: the smallest
\* number of 1, 2, ... that has no key.
FirstAvailable(i) ==
  /\ ~KeyExists(i)
  /\ \A j \in 1..(i - 1) : KeyExists(j)

\* Seeded fault: a plain Put in place of PutIfNotExists.
PutAlwaysSucceeds(i) == TRUE

\* PutIfNotExists: the etcd transaction succeeds iff the key has no value.
PutSucceeds(i) == ~KeyExists(i)

\* The agent stops; the next one starts with a new idAllocator.
Stop(n) ==
  /\ pc' = [pc EXCEPT ![n] = "down"]
  /\ allocated' = [allocated EXCEPT ![n] = FALSE]
  /\ ID' = [ID EXCEPT ![n] = 0]
  /\ attempts' = [attempts EXCEPT ![n] = 0]
  /\ uid' = [uid EXCEPT ![n] = 0]

Disturb ==
  /\ disturbances < MaxDisturbances
  /\ disturbances' = disturbances + 1

\* getID returns successfully with id as the ID of the allocator.
ReturnID(n, id) ==
  /\ allocated' = [allocated EXCEPT ![n] = TRUE]
  /\ uid' = [uid EXCEPT ![n] = id % UInt8Size]
  /\ pc' = [pc EXCEPT ![n] = "running"]

----------------------------------------------------------------------------
(* getID, called once from Init of the agent.                              *)

PluginInit(n) ==
  /\ pc[n] = "down"
  /\ pc' = [pc EXCEPT ![n] = "find"]
  /\ UNCHANGED <<entries, allocated, ID, attempts, uid, disturbances>>

\* Seeded fault: the entry of any node is taken for the node's own.
FindAnyEntry(n) ==
  /\ pc[n] = "find"
  /\ \/ \E e \in entries :
          /\ ID' = [ID EXCEPT ![n] = e.Id]
          /\ ReturnID(n, e.Id)
     \/ /\ entries = {}
        /\ pc' = [pc EXCEPT ![n] = "list"]
        /\ UNCHANGED <<allocated, ID, uid>>
  /\ UNCHANGED <<entries, attempts, disturbances>>

\* The node takes over the entry that carries its label, if there is one.
FindExistingEntry(n) ==
  /\ pc[n] = "find"
  /\ \/ \E e \in entries :
          /\ e.Name = n
          /\ ID' = [ID EXCEPT ![n] = e.Id]
          /\ ReturnID(n, e.Id)
     \/ /\ ~Owns(n)
        /\ pc' = [pc EXCEPT ![n] = "list"]
        /\ UNCHANGED <<allocated, ID, uid>>
  /\ UNCHANGED <<entries, attempts, disturbances>>

\* Seeded fault: numbering starts at 0.
ListFromZero(n) ==
  /\ pc[n] = "list"
  /\ attempts' = [attempts EXCEPT ![n] = @ + 1]
  /\ \E i \in 0..Cardinality(entries) :
       /\ ~KeyExists(i) /\ \A j \in 0..(i - 1) : KeyExists(j)
       /\ ID' = [ID EXCEPT ![n] = i]
  /\ pc' = [pc EXCEPT ![n] = "write"]
  /\ UNCHANGED <<entries, allocated, uid, disturbances>>

\* Seeded fault: gaps are not filled, the number after the last one is taken.
ListLastPlusOne(n) ==
  /\ pc[n] = "list"
  /\ attempts' = [attempts EXCEPT ![n] = @ + 1]
  /\ \E i \in 1..(Cardinality(Nodes) + 1) :
       /\ \A e \in entries : e.Id < i
       /\ i > 1 => KeyExists(i - 1)
       /\ ID' = [ID EXCEPT ![n] = i]
  /\ pc' = [pc EXCEPT ![n] = "write"]
  /\ UNCHANGED <<entries, allocated, uid, disturbances>>

\* One pass of the loop up to the write: list the keys, sort them and take
\* the first number that is free.
ListAllIDs(n) ==
  /\ pc[n] = "list"
  /\ attempts' = [attempts EXCEPT ![n] = @ + 1]
  /\ \E i \in 1..(Cardinality(entries) + 1) :
       /\ FirstAvailable(i)
       /\ ID' = [ID EXCEPT ![n] = i]
  /\ pc' = [pc EXCEPT ![n] = "write"]
  /\ UNCHANGED <<entries, allocated, uid, disturbances>>

WriteSucceeded(n) ==
  /\ pc[n] = "write"
  /\ PutSucceeds(ID[n])
  /\ entries' = entries \cup {[Id |-> ID[n], Name |-> n]}
  /\ ReturnID(n, ID[n])
  /\ UNCHANGED <<ID, attempts, disturbances>>

\* Seeded fault: the same number is tried again and again.
RetrySameNumber(n) ==
  /\ pc[n] = "write"
  /\ ~PutSucceeds(ID[n])
  /\ UNCHANGED vars

\* The key was taken in the meantime: list again, or give up with
\* errUnableToAllocateID, which makes Init of the agent fail.
WriteRefused(n) ==
  /\ pc[n] = "write"
  /\ ~PutSucceeds(ID[n])
  /\ \/ /\ attempts[n] <= maxAttempts
        /\ pc' = [pc EXCEPT ![n] = "list"]
        /\ UNCHANGED <<allocated, ID, attempts, uid>>
     \/ /\ attempts[n] > maxAttempts
        /\ Stop(n)
  /\ UNCHANGED <<entries, disturbances>>

\* An etcd request of getID fails. A failed PutIfNotExists may have been
\* executed by etcd all the same.
EtcdError(n) ==
  /\ pc[n] \in {"find", "list", "write"}
  /\ Disturb
  /\ \/ UNCHANGED entries
     \/ /\ pc[n] = "write"
        /\ PutSucceeds(ID[n])
        /\ entries' = entries \cup {[Id |-> ID[n], Name |-> n]}
  /\ Stop(n)

----------------------------------------------------------------------------
(* The end of an agent.                                                    *)

\* Seeded fault: an agent that is shut down removes the whole prefix.
DeletePrefix(n) ==
  /\ pc[n] = "running"
  /\ Disturb
  /\ entries' = {}
  /\ Stop(n)

\* Close -> releaseID: the key is deleted whoever owns it. The error of a
\* failed Delete is dropped by Close; etcd may or may not have executed it.
Close(n) ==
  /\ pc[n] = "running"
  /\ Disturb
  /\ \/ entries' = {e \in entries : e.Id # ID[n]}
     \/ UNCHANGED entries
  /\ Stop(n)

\* An agent that dies with a request under way may have had it executed.
Crash(n) ==
  /\ pc[n] # "down"
  /\ Disturb
  /\ \/ UNCHANGED entries
     \/ /\ pc[n] = "write"
        /\ PutSucceeds(ID[n])
        /\ entries' = entries \cup {[Id |-> ID[n], Name |-> n]}
  /\ Stop(n)

----------------------------------------------------------------------------

GetIDStep(n) ==
  \/ PluginInit(n)
  \/ FindExistingEntry(n)
  \/ ListAllIDs(n)
  \/ WriteSucceeded(n)
  \/ WriteRefused(n)

Next ==
  \E n \in Nodes :
    \/ GetIDStep(n)
    \/ EtcdError(n)
    \/ Close(n)
    \/ Crash(n)

Spec == Init /\ [][Next]_vars

\* getID is straight-line code over etcd requests that return, and an agent
\* that stopped is started again by Kubernetes.
FairSpec == Spec /\ \A n \in Nodes : WF_vars(GetIDStep(n))

----------------------------------------------------------------------------
(* Properties.                                                             *)

Running == {n \in Nodes : pc[n] = "running"}

\* Two agents that run never work with the same host ID, the uint8 that
\* getID handed to Init and from which IPAM derives the node's networks, in a
\* cluster of up to 2^8 nodes: the last of its numbers wraps around to 0.
UniqueHostIDs ==
  Cardinality(Nodes) <= UInt8Size => \A m, n \in Running : m # n => uid[m] # uid[n]

\* The numbers stay dense: whatever the interleaving of listings, writes,
\* crashes and releases, no number above the size of the cluster is ever
\* allocated or attempted, and no node holds two of them.
DenseAllocation ==
  /\ \A e \in entries : e.Id <= Cardinality(Nodes)
  /\ \A n \in Nodes : pc[n] = "write" => ID[n] <= Cardinality(Nodes)
  /\ \A e, f \in entries : e.Name = f.Name => e = f

\* What makes the two facts above inductive. A key identifies its entry; a
\* node that is about to write owns nothing yet, so that the numbers below
\* its candidate belong to other nodes; a running node owns the entry that
\* releaseID would delete, and works with its number.
AllocationInvariant ==
  /\ \A e, f \in entries : e.Id = f.Id => e = f
  /\ \A n \in Nodes : pc[n] \in {"list", "write"} => ~Owns(n)
  /\ \A n \in Nodes : pc[n] = "write" => ID[n] > 0
  /\ \A n \in Running :
       /\ [Id |-> ID[n], Name |-> n] \in entries
       /\ uid[n] = ID[n] % UInt8Size
  /\ DenseAllocation

\* releaseID deletes its key without looking at the owner; nevertheless an
\* allocation only ever disappears in the shutdown of its own node.
OnlyOwnerReleases ==
  [][\A e \in entries \ entries' : e.Name \in Running /\ pc'[e.Name] = "down"]_vars

\* Once crashes, errors and shutdowns stop, every node gets its number for
\* good, although the retries of getID are limited.
EveryNodeJoins == <>[](Running = Nodes)

\* The allocation implements the abstract one: a node owns the number of its
\* etcd entry and is active while its agent runs. There are no more numbers
\* than nodes.
OwnedID(n) ==
  IF Owns(n) THEN (CHOOSE e \in entries : e.Name = n).Id ELSE 0

IDs == INSTANCE NodeIDs WITH
         Numbers <- 1..Cardinality(Nodes),
         reserved <- [n \in Nodes |-> OwnedID(n)],
         active <- Running

ImplementsNodeIDs == IDs!Spec
=============================================================================
