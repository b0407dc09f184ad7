----------------------- MODULE NodeIDAllocatorProofs -----------------------
(***************************************************************************)
(* Proofs about the node ID allocation, for any number of nodes, any       *)
(* number of attempts and any number of crashes and errors.                *)
(***************************************************************************)
EXTENDS NodeIDAllocator, FiniteSetTheorems, TLAPS

IInv == TypeOK /\ IsFiniteSet(entries) /\ AllocationInvariant

\* The pigeonhole argument behind DenseAllocation: if every number below i has
\* an entry of its own and none of them belongs to n, then i is at most the
\* number of nodes.
LEMMA CandidateBound ==
  ASSUME TypeOK,
         \A e, f \in entries : e.Name = f.Name => e = f,
         NEW n \in Nodes, ~Owns(n),
         NEW i \in Nat \ {0}, FirstAvailable(i)
  PROVE  i <= Cardinality(Nodes)
<1> DEFINE Entry(j) == CHOOSE e \in entries : e.Id = j
           owner == [j \in 1..(i - 1) |-> Entry(j).Name]
<1>1. \A j \in 1..(i - 1) : Entry(j) \in entries /\ Entry(j).Id = j
  BY DEF FirstAvailable, KeyExists
<1>2. owner \in [1..(i - 1) -> Nodes \ {n}]
  BY <1>1 DEF TypeOK, Identifiers, Owns
<1>3. \A j, k \in 1..(i - 1) : owner[j] = owner[k] => j = k
  BY <1>1
<1>4. owner \in Injection(1..(i - 1), Nodes \ {n})
  BY <1>2, <1>3 DEF Injection, IsInjective
<1>5. /\ IsFiniteSet(Nodes \ {n})
      /\ Cardinality(Nodes \ {n}) = Cardinality(Nodes) - 1
  BY NodesAssumption, FS_RemoveElement
<1>6. Cardinality(1..(i - 1)) <= Cardinality(Nodes \ {n})
  <2> HIDE DEF owner
  <2> QED BY <1>4, <1>5, FS_Injection
<1>7. Cardinality(1..(i - 1)) = i - 1
  BY FS_Interval
<1>8. Cardinality(Nodes) \in Nat
  BY NodesAssumption, FS_CardinalityType
<1> QED
  BY <1>5, <1>6, <1>7, <1>8

----------------------------------------------------------------------------
(* Invariance.                                                             *)

LEMMA NodesCardinality == Cardinality(Nodes) \in Nat
BY NodesAssumption, FS_CardinalityType

LEMMA InitIInv == Init => IInv
<1> SUFFICES ASSUME Init PROVE IInv
  OBVIOUS
<1>1. TypeOK
  BY BoundsAssumption DEF Init, TypeOK, PCs, Identifiers
<1>2. IsFiniteSet(entries)
  BY FS_EmptySet DEF Init
<1>3. AllocationInvariant
  BY DEF Init, AllocationInvariant, DenseAllocation, Running, Owns
<1> QED
  BY <1>1, <1>2, <1>3 DEF IInv

LEMMA StopType ==
  ASSUME TypeOK, NEW n \in Nodes, Stop(n)
  PROVE  /\ pc' \in [Nodes -> PCs]
         /\ allocated' \in [Nodes -> BOOLEAN]
         /\ ID' \in [Nodes -> Nat]
         /\ attempts' \in [Nodes -> Nat]
         /\ uid' \in [Nodes -> Nat]
BY DEF TypeOK, Stop, PCs

LEMMA ReturnIDType ==
  ASSUME TypeOK, NEW n \in Nodes, NEW id \in Nat, ReturnID(n, id)
  PROVE  /\ pc' \in [Nodes -> PCs]
         /\ allocated' \in [Nodes -> BOOLEAN]
         /\ uid' \in [Nodes -> Nat]
<1>1. id % UInt8Size \in Nat
  BY BoundsAssumption
<1> QED
  BY <1>1 DEF TypeOK, ReturnID, PCs

LEMMA TypeStep == IInv /\ [Next]_vars => TypeOK' /\ IsFiniteSet(entries)'
<1> SUFFICES ASSUME IInv, [Next]_vars PROVE TypeOK' /\ IsFiniteSet(entries)'
  OBVIOUS
<1> USE BoundsAssumption DEF IInv, TypeOK, PCs, Identifiers
<1>1. ASSUME NEW n \in Nodes, PluginInit(n) PROVE TypeOK' /\ IsFiniteSet(entries)'
  BY <1>1 DEF PluginInit
<1>2. ASSUME NEW n \in Nodes, FindExistingEntry(n) PROVE TypeOK' /\ IsFiniteSet(entries)'
  <2>1. CASE ~Owns(n) /\ pc' = [pc EXCEPT ![n] = "list"] /\ UNCHANGED <<allocated, ID, uid>>
    BY <1>2, <2>1 DEF FindExistingEntry
  <2>2. ASSUME NEW e \in entries, ID' = [ID EXCEPT ![n] = e.Id], ReturnID(n, e.Id)
        PROVE  TypeOK'
    BY <1>2, <2>2, ReturnIDType DEF FindExistingEntry
  <2> QED
    BY <1>2, <2>1, <2>2 DEF FindExistingEntry
<1>3. ASSUME NEW n \in Nodes, ListAllIDs(n) PROVE TypeOK' /\ IsFiniteSet(entries)'
  <2>1. Cardinality(entries) \in Nat
    BY FS_CardinalityType
  <2> QED
    BY <1>3, <2>1 DEF ListAllIDs
<1>4. ASSUME NEW n \in Nodes, ID[n] > 0,
             entries' = entries \cup {[Id |-> ID[n], Name |-> n]}
      PROVE  entries' \subseteq Identifiers /\ IsFiniteSet(entries)'
  <2>1. [Id |-> ID[n], Name |-> n] \in Identifiers
    BY <1>4
  <2>2. IsFiniteSet(entries \cup {[Id |-> ID[n], Name |-> n]})
    BY FS_AddElement
  <2> QED
    BY <1>4, <2>1, <2>2
<1>5. ASSUME NEW n \in Nodes, WriteSucceeded(n) PROVE TypeOK' /\ IsFiniteSet(entries)'
  <2>1. ID[n] > 0
    BY <1>5 DEF WriteSucceeded, AllocationInvariant
  <2> QED
    BY <1>4, <1>5, <2>1, ReturnIDType DEF WriteSucceeded
<1>6. ASSUME NEW n \in Nodes, WriteRefused(n) PROVE TypeOK' /\ IsFiniteSet(entries)'
  BY <1>6, StopType DEF WriteRefused
<1>7. ASSUME NEW n \in Nodes, EtcdError(n) PROVE TypeOK' /\ IsFiniteSet(entries)'
  BY <1>4, <1>7, StopType DEF EtcdError, Disturb, AllocationInvariant
<1>8. ASSUME NEW n \in Nodes, Close(n) PROVE TypeOK' /\ IsFiniteSet(entries)'
  BY <1>8, FS_Subset, StopType DEF Close, Disturb
<1>9. ASSUME NEW n \in Nodes, Crash(n) PROVE TypeOK' /\ IsFiniteSet(entries)'
  BY <1>4, <1>9, StopType DEF Crash, Disturb, AllocationInvariant
<1>10. ASSUME UNCHANGED vars PROVE TypeOK' /\ IsFiniteSet(entries)'
  BY <1>10 DEF vars
<1> QED
  BY <1>1, <1>2, <1>3, <1>5, <1>6, <1>7, <1>8, <1>9, <1>10 DEF Next, GetIDStep

\* What a write of the candidate leaves true of the entries, whether or not
\* the agent learns of its success.
LEMMA WriteKeepsEntries ==
  ASSUME IInv, NEW n \in Nodes, pc[n] = "write", PutSucceeds(ID[n]),
         entries' = entries \cup {[Id |-> ID[n], Name |-> n]}
  PROVE  /\ \A e, f \in entries' : e.Id = f.Id => e = f
         /\ \A e, f \in entries' : e.Name = f.Name => e = f
         /\ \A e \in entries' : e.Id <= Cardinality(Nodes)
         /\ \A m \in Nodes : m # n => (Owns(m)' <=> Owns(m))
BY DEF IInv, TypeOK, Identifiers, AllocationInvariant, DenseAllocation, Owns,
       PutSucceeds, KeyExists

\* An agent that stops leaves the invariant true of the others when the
\* entries keep their numbers apart and the others keep theirs.
LEMMA StopKeepsInvariant ==
  ASSUME IInv, NEW n \in Nodes, Stop(n),
         \A e, f \in entries' : e.Id = f.Id => e = f,
         \A e, f \in entries' : e.Name = f.Name => e = f,
         \A e \in entries' : e.Id <= Cardinality(Nodes),
         \A m \in Nodes : m # n => (Owns(m)' => Owns(m)),
         \A e \in entries : e.Name # n => e \in entries'
  PROVE  AllocationInvariant'
<1>1. \A m \in Nodes : pc'[m] = IF m = n THEN "down" ELSE pc[m]
  BY DEF IInv, TypeOK, Stop
<1>2. \A m \in Nodes : m # n => ID'[m] = ID[m] /\ uid'[m] = uid[m]
  BY DEF IInv, TypeOK, Stop
<1>3. \A m \in Nodes : pc'[m] \in {"list", "write"} => ~Owns(m)'
  BY <1>1 DEF IInv, AllocationInvariant
<1>4. \A m \in Nodes : pc'[m] = "write" => ID'[m] > 0 /\ ID'[m] <= Cardinality(Nodes)
  BY <1>1, <1>2 DEF IInv, AllocationInvariant, DenseAllocation
<1>5. \A m \in Running' :
         [Id |-> ID'[m], Name |-> m] \in entries' /\ uid'[m] = ID'[m] % UInt8Size
  BY <1>1, <1>2 DEF IInv, AllocationInvariant, Running
<1> QED
  BY <1>3, <1>4, <1>5 DEF AllocationInvariant, DenseAllocation

LEMMA InvariantStep == IInv /\ [Next]_vars => AllocationInvariant'
<1> SUFFICES ASSUME IInv, [Next]_vars PROVE AllocationInvariant'
  OBVIOUS
<1> USE DEF IInv
<1>1. ASSUME NEW n \in Nodes, PluginInit(n) PROVE AllocationInvariant'
  BY <1>1 DEF PluginInit, TypeOK, AllocationInvariant, DenseAllocation, Running, Owns
<1>2. ASSUME NEW n \in Nodes, FindExistingEntry(n) PROVE AllocationInvariant'
  BY <1>2 DEF FindExistingEntry, ReturnID, TypeOK, Identifiers,
              AllocationInvariant, DenseAllocation, Running, Owns
<1>3. ASSUME NEW n \in Nodes, ListAllIDs(n) PROVE AllocationInvariant'
  <2>1. Cardinality(entries) \in Nat
    BY FS_CardinalityType
  <2>2. PICK i \in 1..(Cardinality(entries) + 1) :
          FirstAvailable(i) /\ ID' = [ID EXCEPT ![n] = i]
    BY <1>3 DEF ListAllIDs
  <2>3. i \in Nat \ {0} /\ i <= Cardinality(Nodes)
    BY <1>3, <2>1, <2>2, CandidateBound DEF ListAllIDs, AllocationInvariant, DenseAllocation
  <2> QED
    BY <1>3, <2>2, <2>3 DEF ListAllIDs, TypeOK, AllocationInvariant, DenseAllocation,
                            Running, Owns
<1>4. ASSUME NEW n \in Nodes, WriteSucceeded(n) PROVE AllocationInvariant'
  <2>1. /\ \A e, f \in entries' : e.Id = f.Id => e = f
        /\ \A e, f \in entries' : e.Name = f.Name => e = f
        /\ \A e \in entries' : e.Id <= Cardinality(Nodes)
        /\ \A m \in Nodes : m # n => (Owns(m)' <=> Owns(m))
    BY <1>4, WriteKeepsEntries DEF WriteSucceeded
  <2>2. \A m \in Nodes : pc'[m] = IF m = n THEN "running" ELSE pc[m]
    BY <1>4 DEF WriteSucceeded, ReturnID, TypeOK
  <2>3. \A m \in Running' :
          [Id |-> ID'[m], Name |-> m] \in entries' /\ uid'[m] = ID'[m] % UInt8Size
    BY <1>4, <2>2 DEF WriteSucceeded, ReturnID, TypeOK, AllocationInvariant, Running
  <2> QED
    BY <1>4, <2>1, <2>2, <2>3 DEF WriteSucceeded, AllocationInvariant, DenseAllocation
<1>5. ASSUME NEW n \in Nodes, Stop(n), UNCHANGED entries PROVE AllocationInvariant'
  BY <1>5, StopKeepsInvariant DEF AllocationInvariant, DenseAllocation, Owns
<1>6. ASSUME NEW n \in Nodes, Stop(n), pc[n] = "write", PutSucceeds(ID[n]),
             entries' = entries \cup {[Id |-> ID[n], Name |-> n]}
      PROVE  AllocationInvariant'
  BY <1>6, WriteKeepsEntries, StopKeepsInvariant
<1>7. ASSUME NEW n \in Nodes, WriteRefused(n) PROVE AllocationInvariant'
  <2>1. CASE Stop(n)
    BY <1>5, <1>7, <2>1 DEF WriteRefused
  <2>2. CASE pc' = [pc EXCEPT ![n] = "list"] /\ UNCHANGED <<allocated, ID, attempts, uid>>
    BY <1>7, <2>2 DEF WriteRefused, TypeOK, AllocationInvariant, DenseAllocation, Running, Owns
  <2> QED
    BY <1>7, <2>1, <2>2 DEF WriteRefused
<1>8. ASSUME NEW n \in Nodes, EtcdError(n) PROVE AllocationInvariant'
  BY <1>5, <1>6, <1>8 DEF EtcdError
<1>9. ASSUME NEW n \in Nodes, Close(n) PROVE AllocationInvariant'
  <2>1. CASE entries' = {e \in entries : e.Id # ID[n]}
    <3>1. \A e \in entries : e.Name # n => e \in entries'
      <4>1. [Id |-> ID[n], Name |-> n] \in entries
        BY <1>9 DEF Close, AllocationInvariant, Running
      <4>2. \A e \in entries : e.Id = ID[n] => e.Name = n
        BY <4>1 DEF AllocationInvariant
      <4> QED
        BY <2>1, <4>2
    <3>2. /\ \A e, f \in entries' : e.Id = f.Id => e = f
          /\ \A e, f \in entries' : e.Name = f.Name => e = f
          /\ \A e \in entries' : e.Id <= Cardinality(Nodes)
      BY <2>1 DEF AllocationInvariant, DenseAllocation
    <3>3. \A m \in Nodes : m # n => (Owns(m)' => Owns(m))
      BY <2>1 DEF Owns
    <3>4. Stop(n)
      BY <1>9 DEF Close
    <3> QED
      BY <3>1, <3>2, <3>3, <3>4, StopKeepsInvariant
  <2> QED
    BY <1>5, <1>9, <2>1 DEF Close
<1>10. ASSUME NEW n \in Nodes, Crash(n) PROVE AllocationInvariant'
  BY <1>5, <1>6, <1>10 DEF Crash
<1>11. ASSUME UNCHANGED vars PROVE AllocationInvariant'
  BY <1>11 DEF vars, AllocationInvariant, DenseAllocation, Running, Owns
<1> QED
  BY <1>1, <1>2, <1>3, <1>4, <1>7, <1>8, <1>9, <1>10, <1>11 DEF Next, GetIDStep

\* The types, uniqueness of keys and of owners, and the density of the numbers
\* hold in every reachable state of a cluster of any size.
THEOREM Invariance == Spec => []IInv
<1>1. IInv /\ [Next]_vars => IInv'
  BY TypeStep, InvariantStep DEF IInv
<1> QED
  BY InitIInv, <1>1, PTL DEF Spec

THEOREM TypeCorrect == Spec => []TypeOK
BY Invariance, PTL DEF IInv

THEOREM AllocationHolds == Spec => []AllocationInvariant
BY Invariance, PTL DEF IInv

----------------------------------------------------------------------------
(* What the users of the allocation rely on.                               *)

LEMMA WrapAround ==
  ASSUME NEW u \in Nat \ {0}, NEW x \in 1..u, NEW y \in 1..u, x % u = y % u
  PROVE  x = y
<1>1. \A k \in Nat : k < u => k % u = k
  OBVIOUS
<1>2. u % u = 0
  OBVIOUS
<1> QED
  BY <1>1, <1>2

\* Host IDs are unique as long as the cluster has no more nodes than uint8 has
\* values: the truncation in getID then loses nothing.
THEOREM HostIDsUnique == Spec => []UniqueHostIDs
<1>1. ASSUME IInv PROVE UniqueHostIDs
  <2> SUFFICES ASSUME Cardinality(Nodes) <= UInt8Size,
                      NEW m \in Running, NEW n \in Running, uid[m] = uid[n]
               PROVE  m = n
    BY DEF UniqueHostIDs
  <2>1. ASSUME NEW k \in Running
        PROVE  [Id |-> ID[k], Name |-> k] \in entries /\ uid[k] = ID[k] % UInt8Size
    BY <1>1, <2>1 DEF IInv, AllocationInvariant
  <2>2. ASSUME NEW k \in Running PROVE ID[k] \in 1..UInt8Size
    <3>1. ID[k] \in Nat \ {0} /\ ID[k] <= Cardinality(Nodes)
      BY <1>1, <2>1 DEF IInv, AllocationInvariant, DenseAllocation, TypeOK, Identifiers
    <3> QED
      BY <3>1, NodesCardinality, BoundsAssumption
  <2>3. ID[m] = ID[n]
    BY <2>1, <2>2, WrapAround, BoundsAssumption
  <2> QED
    BY <1>1, <2>1, <2>3 DEF IInv, AllocationInvariant
<1> QED
  BY <1>1, Invariance, PTL

THEOREM Dense == Spec => []DenseAllocation
BY AllocationHolds, PTL DEF AllocationInvariant

\* An allocation disappears only in the shutdown of the node that owns it.
THEOREM OwnerReleases == Spec => OnlyOwnerReleases
<1>1. ASSUME IInv, [Next]_vars
      PROVE  [\A e \in entries \ entries' : e.Name \in Running /\ pc'[e.Name] = "down"]_vars
  <2> SUFFICES ASSUME NEW e \in entries \ entries'
               PROVE  e.Name \in Running /\ pc'[e.Name] = "down"
    OBVIOUS
  <2>1. PICK n \in Nodes : Close(n) /\ entries' = {f \in entries : f.Id # ID[n]}
    BY <1>1 DEF Next, GetIDStep, PluginInit, FindExistingEntry, ListAllIDs, WriteSucceeded,
                WriteRefused, EtcdError, Close, Crash, vars
  <2>2. e.Id = ID[n]
    BY <2>1
  <2>3. n \in Running /\ [Id |-> ID[n], Name |-> n] \in entries
    BY <1>1, <2>1 DEF Close, Running, IInv, AllocationInvariant
  <2>4. e.Name = n
    BY <1>1, <2>2, <2>3 DEF IInv, AllocationInvariant
  <2> QED
    BY <1>1, <2>1, <2>3, <2>4 DEF Close, Stop, IInv, TypeOK
<1> QED
  BY <1>1, Invariance, PTL DEF Spec, OnlyOwnerReleases

----------------------------------------------------------------------------
(* The allocation implements its abstract specification.                   *)

\* A node owns the number of the entry with its label.
OwnedIDFacts ==
  /\ \A e \in entries : OwnedID(e.Name) = e.Id
  /\ \A n \in Nodes : ~Owns(n) => OwnedID(n) = 0
  /\ \A n \in Nodes : Owns(n) => \E e \in entries : e.Name = n /\ OwnedID(n) = e.Id

LEMMA OwnedIDValue == IInv => OwnedIDFacts
<1> SUFFICES ASSUME IInv PROVE OwnedIDFacts
  OBVIOUS
<1>1. ASSUME NEW n \in Nodes, Owns(n)
      PROVE  \E e \in entries : e.Name = n /\ OwnedID(n) = e.Id
  BY <1>1 DEF Owns, OwnedID
<1>2. \A e \in entries : e.Name \in Nodes /\ Owns(e.Name)
  BY DEF IInv, TypeOK, Identifiers, Owns
<1>3. \A e \in entries : OwnedID(e.Name) = e.Id
  BY <1>1, <1>2 DEF IInv, AllocationInvariant, DenseAllocation
<1> QED
  BY <1>1, <1>3 DEF OwnedID, OwnedIDFacts

LEMMA OwnedIDValueNext == IInv' => OwnedIDFacts'
BY OwnedIDValue, PTL

\* Entries that stay the same keep the numbers of the nodes the same.
LEMMA OwnedIDUnchanged ==
  ASSUME UNCHANGED entries
  PROVE  UNCHANGED [n \in Nodes |-> OwnedID(n)]
BY DEF OwnedID, Owns

\* A write of a free candidate is the reservation of a number nobody owns.
LEMMA WriteReserves ==
  ASSUME IInv, IInv', NEW n \in Nodes, pc[n] = "write", PutSucceeds(ID[n]),
         entries' = entries \cup {[Id |-> ID[n], Name |-> n]},
         Running' \in {Running, Running \cup {n}}
  PROVE  IDs!Reserve(n)
<1> DEFINE reserved == [m \in Nodes |-> OwnedID(m)]
<1>1. ~Owns(n) /\ ID[n] \in 1..Cardinality(Nodes)
  BY NodesCardinality DEF IInv, TypeOK, AllocationInvariant, DenseAllocation
<1>2. OwnedID(n) = 0
  BY <1>1, OwnedIDValue DEF OwnedIDFacts
<1>3. \A m \in Nodes : OwnedID(m) # ID[n]
  <2>1. ID[n] # 0 /\ \A e \in entries : e.Id # ID[n]
    BY <1>1, NodesCardinality DEF PutSucceeds, KeyExists
  <2> QED
    BY <2>1, OwnedIDValue DEF OwnedIDFacts
<1>4. OwnedID(n)' = ID[n]
  <2>1. [Id |-> ID[n], Name |-> n] \in entries'
    OBVIOUS
  <2> QED
    BY <2>1, OwnedIDValueNext DEF OwnedIDFacts
<1>5. ASSUME NEW m \in Nodes, m # n PROVE OwnedID(m)' = OwnedID(m)
  <2>1. Owns(m)' <=> Owns(m)
    BY <1>5 DEF Owns
  <2>2. CASE Owns(m)
    <3>1. PICK e \in entries : e.Name = m /\ OwnedID(m) = e.Id
      BY <2>2, OwnedIDValue DEF OwnedIDFacts
    <3> QED
      BY <3>1, OwnedIDValueNext DEF OwnedIDFacts
  <2>3. CASE ~Owns(m)
    BY <2>1, <2>3, OwnedIDValue, OwnedIDValueNext DEF OwnedIDFacts
  <2> QED
    BY <2>2, <2>3
<1>6. reserved' = [reserved EXCEPT ![n] = ID[n]]
  BY <1>4, <1>5
<1> QED
  BY <1>1, <1>2, <1>3, <1>6 DEF IDs!Reserve

\* Deleting the key of a running node gives back the number of that node only.
LEMMA CloseFrees ==
  ASSUME IInv, IInv', NEW n \in Running, entries' = {e \in entries : e.Id # ID[n]},
         Running' = Running \ {n}
  PROVE  IDs!Free(n)
<1> DEFINE reserved == [m \in Nodes |-> OwnedID(m)]
<1>1. n \in Nodes /\ [Id |-> ID[n], Name |-> n] \in entries
  BY DEF Running, IInv, AllocationInvariant
<1>2. \A e \in entries : e.Id = ID[n] <=> e.Name = n
  BY <1>1 DEF IInv, AllocationInvariant, DenseAllocation
<1>3. OwnedID(n)' = 0
  <2>1. ~Owns(n)'
    BY <1>2 DEF Owns
  <2> QED
    BY <1>1, <2>1, OwnedIDValueNext DEF OwnedIDFacts
<1>4. ASSUME NEW m \in Nodes, m # n PROVE OwnedID(m)' = OwnedID(m)
  <2>1. CASE Owns(m)
    <3>1. PICK e \in entries : e.Name = m /\ OwnedID(m) = e.Id
      BY <2>1, OwnedIDValue DEF OwnedIDFacts
    <3>2. e \in entries'
      BY <1>2, <1>4, <3>1
    <3> QED
      BY <3>1, <3>2, OwnedIDValueNext DEF OwnedIDFacts
  <2>2. CASE ~Owns(m)
    <3>1. ~Owns(m)'
      BY <2>2 DEF Owns
    <3> QED
      BY <2>2, <3>1, OwnedIDValue, OwnedIDValueNext DEF OwnedIDFacts
  <2> QED
    BY <2>1, <2>2
<1>5. reserved' = [reserved EXCEPT ![n] = 0]
  BY <1>1, <1>3, <1>4
<1> QED
  BY <1>5 DEF IDs!Free

LEMMA RunningStep ==
  ASSUME TypeOK, NEW n \in Nodes
  PROVE  /\ Stop(n) => Running' = Running \ {n}
         /\ \A id : ReturnID(n, id) => Running' = Running \cup {n}
         /\ \A p \in {"find", "list", "write"} :
              pc[n] # "running" /\ pc' = [pc EXCEPT ![n] = p] => Running' = Running
BY DEF TypeOK, Stop, ReturnID, Running

\* Every step of an agent is a step of the abstract allocation or leaves it
\* unchanged: what a node owns survives its crashes, and errors of etcd never
\* give a number to two nodes.
THEOREM Refinement == Spec => ImplementsNodeIDs
<1>1. Init => IDs!Init
  BY DEF Init, IDs!Init, OwnedID, Owns, Running
<1>2. ASSUME IInv, IInv', [Next]_vars
      PROVE  [IDs!Next]_<<[n \in Nodes |-> OwnedID(n)], Running>>
  <2> USE DEF IInv
  <2> DEFINE reserved == [n \in Nodes |-> OwnedID(n)]
             Stutter == UNCHANGED <<reserved, Running>>
  <2>1. ASSUME NEW n \in Nodes, UNCHANGED entries, Stop(n) PROVE IDs!Deactivate(n)
    BY <1>2, <2>1, OwnedIDUnchanged, RunningStep DEF IDs!Deactivate
  <2>2. ASSUME NEW n \in Nodes, pc[n] = "write", PutSucceeds(ID[n]), Stop(n),
               entries' = entries \cup {[Id |-> ID[n], Name |-> n]}
        PROVE  IDs!Reserve(n)
    <3>1. Running' = Running
      BY <1>2, <2>2, RunningStep DEF Running
    <3> QED
      BY <1>2, <2>2, <3>1, WriteReserves
  <2>3. ASSUME NEW n \in Nodes, PluginInit(n) PROVE Stutter
    BY <1>2, <2>3, OwnedIDUnchanged, RunningStep DEF PluginInit
  <2>4. ASSUME NEW n \in Nodes, FindExistingEntry(n) PROVE IDs!Activate(n) \/ Stutter
    <3>1. ASSUME NEW e \in entries, e.Name = n, ReturnID(n, e.Id) PROVE IDs!Activate(n)
      <4>1. OwnedID(n) = e.Id /\ e.Id # 0
        BY <1>2, <3>1, OwnedIDValue DEF OwnedIDFacts, TypeOK, Identifiers
      <4> QED
        BY <1>2, <2>4, <3>1, <4>1, OwnedIDUnchanged, RunningStep DEF FindExistingEntry, IDs!Activate
    <3>2. CASE pc' = [pc EXCEPT ![n] = "list"]
      BY <1>2, <2>4, <3>2, OwnedIDUnchanged, RunningStep DEF FindExistingEntry
    <3> QED
      BY <2>4, <3>1, <3>2 DEF FindExistingEntry
  <2>5. ASSUME NEW n \in Nodes, ListAllIDs(n) PROVE Stutter
    BY <1>2, <2>5, OwnedIDUnchanged, RunningStep DEF ListAllIDs
  <2>6. ASSUME NEW n \in Nodes, WriteSucceeded(n) PROVE IDs!Reserve(n)
    BY <1>2, <2>6, WriteReserves, RunningStep DEF WriteSucceeded
  <2>7. ASSUME NEW n \in Nodes, WriteRefused(n) PROVE IDs!Deactivate(n) \/ Stutter
    BY <1>2, <2>1, <2>7, OwnedIDUnchanged, RunningStep DEF WriteRefused
  <2>8. ASSUME NEW n \in Nodes, EtcdError(n) PROVE IDs!Deactivate(n) \/ IDs!Reserve(n)
    BY <2>1, <2>2, <2>8 DEF EtcdError
  <2>9. ASSUME NEW n \in Nodes, Close(n) PROVE IDs!Deactivate(n) \/ IDs!Free(n)
    BY <1>2, <2>1, <2>9, CloseFrees, RunningStep DEF Close, Running
  <2>10. ASSUME NEW n \in Nodes, Crash(n) PROVE IDs!Deactivate(n) \/ IDs!Reserve(n)
    BY <2>1, <2>2, <2>10 DEF Crash
  <2>11. ASSUME UNCHANGED vars PROVE Stutter
    BY <2>11, OwnedIDUnchanged DEF vars, Running
  <2> HIDE DEF reserved
  <2> QED
    BY <1>2, <2>3, <2>4, <2>5, <2>6, <2>7, <2>8, <2>9, <2>10, <2>11
       DEF Next, GetIDStep, IDs!Next, reserved
<1> QED
  BY <1>1, <1>2, Invariance, PTL DEF Spec, ImplementsNodeIDs, IDs!Spec
=============================================================================
