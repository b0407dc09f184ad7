-------------------------- MODULE ACLRendererProofs --------------------------
(***************************************************************************)
(* The cache of the ACL renderer is consistent, and no list is changed in  *)
(* VPP that was not rendered before, for any number of interfaces, rules,  *)
(* transactions and errors.                                                *)
(*                                                                         *)
(* The argument: a list keeps its ID and its rules when it is copied into  *)
(* a transaction and back, so that ID and rules name the same list in both.*)
(***************************************************************************)
EXTENDS RuleListFacts

\* There is always an ID that was not given to a list.
LEMMA FreshIDExists ==
  ASSUME NEW d, IsFiniteSet(UsedIDs(d))
  PROVE  FreshID(d) \in Nat \ {0} /\ FreshID(d) \notin UsedIDs(d)
<1>1. PICK n : n = Cardinality(UsedIDs(d))
  OBVIOUS
<1>2. n \in Nat
  BY SMTT(60), <1>1, FS_CardinalityType
<1>3. \E id \in 1..(n + 1) : id \notin UsedIDs(d)
  <2>1. SUFFICES ASSUME 1..(n + 1) \subseteq UsedIDs(d) PROVE FALSE
    BY SMTT(60)
  <2>2. Cardinality(1..(n + 1)) <= n
    BY Zenon, <1>1, <2>1, FS_Subset
  <2>3. Cardinality(1..(n + 1)) = n + 1
    BY <1>2, FS_Interval
  <2>. QED BY <1>2, <2>2, <2>3
<1>4. FreshID(d) \in 1..(n + 1) /\ FreshID(d) \notin UsedIDs(d)
  BY <1>1, <1>3 DEF FreshID
<1>. QED BY <1>2, <1>4

----------------------------------------------------------------------------
(* The invariant.                                                          *)

ACLs == [ID : Nat, Direction : Directions, Rules : RuleLists, Interfaces : SUBSET Interfaces]
Objects == [ID : Nat, Direction : Directions, Interfaces : SUBSET Interfaces]

Transactions ==
  [phase : {"idle", "dump", "update", "commit"}, resync : BOOLEAN, config : Configs,
   updated : SUBSET Interfaces]

AgentTypes == vpp \subseteq ACLs /\ lastRev \subseteq Objects

Types ==
  /\ DOMAIN cache = Directions /\ DOMAIN head = Directions
  /\ interfaces \subseteq Interfaces
  /\ txn \in Transactions
  /\ wanted \in [Directions -> [Interfaces -> RuleLists]] /\ forgotten \in BOOLEAN

IDsOf(c) == {l.ID : l \in c.lists}

\* Every list with rules was rendered.
AllRendered(c) == \A l \in c.lists : l.Rules # 0 => l.Private = l.ID

\* The lists of the cache and of the transaction, step by step of a transaction.
Stage(d) ==
  /\ txn.phase \in {"idle", "dump"} => head[d].lists = {}
  /\ txn.phase = "update" => IDsOf(head[d]) \subseteq allocatedListIDs[d] /\ HeadOf(cache[d], head[d])
  /\ txn.phase = "commit" =>
       \A l \in head[d].lists :
         /\ l.ID \in allocatedListIDs[d]
         /\ CopyIn(cache[d], l)
         /\ l.Rules # 0 /\ l.Interfaces # {} => l.Private = l.ID

\* What is known of the lists and of the IDs of a direction.
Sound(d) ==
  /\ Good(cache[d]) /\ Good(head[d])
  /\ AllRendered(cache[d])
  /\ IDsOf(cache[d]) \subseteq allocatedListIDs[d]
  /\ IsFiniteSet(UsedIDs(d))
  /\ Stage(d)

RendererInv == Types /\ AgentTypes /\ \A d \in Directions : Sound(d)

\* No transaction is one.
LEMMA NoTxnType == NoTxn \in Transactions /\ NoTxn.phase = "idle"
<1>1. [i \in {} |-> 0] \in [{} -> [Directions -> RuleLists]]
  OBVIOUS
<1>2. [i \in {} |-> 0] \in Configs
  BY Zenon, <1>1 DEF Configs
<1>. QED BY <1>2 DEF NoTxn, Transactions

\* The renderer starts with empty lists.
LEMMA InitInv == Init => RendererInv
<1>1. SUFFICES ASSUME Init PROVE RendererInv
  OBVIOUS
<1>2. Types /\ AgentTypes
  <2>1. wanted \in [Directions -> [Interfaces -> RuleLists]]
    BY <1>1, ACLAssumption DEF Init, RuleLists
  <2>. QED BY Zenon, <1>1, <2>1, NoTxnType DEF Init, Types, AgentTypes
<1>3. ASSUME NEW d \in Directions PROVE Sound(d)
  <2>1. cache[d] = EmptyLists /\ head[d] = EmptyLists /\ allocatedListIDs[d] = {} /\ vpp = {} /\ lastRev = {}
    BY SMTT(60), <1>1 DEF Init
  <2>2. UsedIDs(d) = {}
    BY SMTT(60), <2>1 DEF UsedIDs
  <2>3. txn.phase = "idle"
    BY SMTT(60), <1>1, NoTxnType DEF Init
  <2>4. Stage(d)
    BY SMTT(60), <2>1, <2>3, EmptyGood DEF Stage
  <2>. QED BY SMTT(60), <2>1, <2>2, <2>4, EmptyGood, FS_EmptySet DEF Sound, AllRendered, IDsOf
<1>. QED BY <1>2, <1>3 DEF RendererInv

\* The rules of an interface in a transaction.
LEMMA RulesOK ==
  ASSUME Types, NEW i, NEW d \in Directions
  PROVE  RulesFor(i)[d] \in RuleLists
<1>1. txn.config \in Configs
  BY SMTT(60) DEF Types, Transactions
<1>2. PICK S \in SUBSET Interfaces : txn.config \in [S -> [Directions -> RuleLists]]
  BY ZenonT(60), <1>1 DEF Configs
<1>3. CASE i \in S
  BY <1>2, <1>3 DEF RulesFor
<1>4. CASE i \notin S
  BY <1>2, <1>4, ACLAssumption DEF RulesFor, RuleLists
<1>. QED BY SMTT(60), <1>3, <1>4

\* What the interfaces should have has its type.
LEMMA RequestedOK ==
  ASSUME Types
  PROVE  Requested \in [Directions -> [Interfaces -> RuleLists]]
<1>1. \A d \in Directions : \A i \in Interfaces :
        (IF i \in DOMAIN txn.config \/ txn.resync THEN RulesFor(i)[d] ELSE wanted[d][i]) \in RuleLists
  BY RulesOK DEF Types
<1>. QED BY <1>1 DEF Requested

\* The vpp-agent makes ACLs of the lists and of the ACLs there are.
LEMMA ChangedOK ==
  ASSUME AgentTypes, NEW d \in Directions, NEW l \in ListType, NEW a \in Changed(d, l)
  PROVE  a \in ACLs /\ a.Direction = d /\ (a.ID = 0 \/ a.ID = l.ID \/ a \in vpp)
<1>0. l.ID \in Nat /\ l.Rules \in RuleLists /\ l.Interfaces \subseteq Interfaces
  BY SMTT(60), ListWith
<1>1. ASSUME NEW b \in Of(vpp, d, l) PROVE b \in ACLs /\ b \in vpp /\ b.Direction = d /\ b.ID = l.ID
  BY DEF Of, AgentTypes
<1>2. ASSUME a \in ConfigureACL(d, l) PROVE a \in ACLs /\ a.Direction = d /\ a.ID = l.ID
  BY <1>0, <1>2 DEF ConfigureACL, ACLs
<1>3. ASSUME a \in Nameless(Of(vpp, d, l)) PROVE a \in ACLs /\ a.Direction = d /\ a.ID = 0
  <2>1. PICK b \in Of(vpp, d, l) : a = [b EXCEPT !.ID = 0]
    BY <1>3 DEF Nameless
  <2>. QED BY <1>1, <2>1 DEF ACLs
<1>4. ASSUME a \in ModifyACL(d, l) PROVE a \in ACLs /\ a.Direction = d /\ a.ID = l.ID
  <2>1. PICK b \in Of(vpp, d, l) :
          a = [b EXCEPT !.Rules = l.Rules, !.Interfaces = (@ \ OldInterfaces(d, l)) \cup l.Interfaces]
    BY Zenon, <1>4 DEF ModifyACL
  <2>2. PICK I : I = (b.Interfaces \ OldInterfaces(d, l)) \cup l.Interfaces
    BY Zenon
  <2>3. I \in SUBSET Interfaces
    BY <1>0, <1>1, <2>2 DEF ACLs
  <2>4. a = [b EXCEPT !.Rules = l.Rules, !.Interfaces = I]
    BY <2>1, <2>2
  <2>. QED BY Zenon, <1>0, <1>1, <2>3, <2>4 DEF ACLs
<1>. QED BY <1>1, <1>2, <1>3, <1>4 DEF Changed

\* Changes are lists of the transaction.
LEMMA ChangeOK ==
  ASSUME RendererInv, NEW x \in AllChanges
  PROVE  \E d \in Directions : \E l \in head[d].lists : x = <<d, l>> /\ l \in ListType /\ l \in Changes(d)
<1>1. PICK d \in Directions : \E l \in Changes(d) : x = <<d, l>>
  BY SMTT(60) DEF AllChanges
<1>2. PICK l \in Changes(d) : x = <<d, l>>
  BY SMTT(60), <1>1
<1>. QED BY <1>2 DEF Changes, RendererInv, Sound, Good, Typed

\* The ACLs and the objects after changes have types, and their IDs are none but those
\* that were in use.
LEMMA SentOK ==
  ASSUME RendererInv, txn.phase = "update", NEW S \in SUBSET AllChanges,
         vpp' = ApplyChanges(S), lastRev' = Put(AllChanges), UNCHANGED allocatedListIDs
  PROVE  AgentTypes' /\ \A d \in Directions : IsFiniteSet(UsedIDs(d)')
<1>0. ASSUME NEW d \in Directions, NEW l \in head[d].lists PROVE l.ID \in UsedIDs(d)
  <2>1. IDsOf(head[d]) \subseteq allocatedListIDs[d]
    BY SMTT(60) DEF RendererInv, Sound, Stage
  <2>2. l.ID \in IDsOf(head[d])
    BY SMTT(60) DEF IDsOf
  <2>. QED BY <2>1, <2>2 DEF UsedIDs
<1>1. ASSUME NEW a \in vpp'
      PROVE  a \in ACLs /\ a.ID \in UsedIDs(a.Direction) \cup {0}
  <2>1. CASE a \in vpp
    BY SMTT(60), <2>1 DEF RendererInv, AgentTypes, UsedIDs
  <2>2. CASE a \notin vpp
    <3>1. PICK x \in S : a \in Changed(x[1], x[2])
      BY SMTT(60), <1>1, <2>2 DEF ApplyChanges
    <3>2. PICK d \in Directions : \E l \in head[d].lists : x = <<d, l>> /\ l \in ListType
      BY SMTT(60), <3>1, ChangeOK
    <3>3. PICK l \in head[d].lists : x = <<d, l>> /\ l \in ListType
      BY SMTT(60), <3>2
    <3>4. a \in Changed(d, l)
      BY SMTT(60), <3>1, <3>3
    <3>5. a \in ACLs /\ a.Direction = d /\ (a.ID = 0 \/ a.ID = l.ID)
      BY SMTT(60), <2>2, <3>3, <3>4, ChangedOK DEF RendererInv
    <3>. QED BY SMTT(60), <1>0, <3>5
  <2>. QED BY <2>1, <2>2
<1>2. ASSUME NEW a \in lastRev'
      PROVE  a \in Objects /\ a.ID \in UsedIDs(a.Direction)
  <2>1. CASE a \in lastRev
    BY SMTT(60), <2>1 DEF RendererInv, AgentTypes, UsedIDs
  <2>2. CASE a \notin lastRev
    <3>1. PICK x \in AllChanges : a = [ID |-> x[2].ID, Direction |-> x[1], Interfaces |-> x[2].Interfaces]
      BY SMTT(60), <1>2, <2>2 DEF Put
    <3>2. PICK d \in Directions : \E l \in head[d].lists : x = <<d, l>> /\ l \in ListType
      BY SMTT(60), <3>1, ChangeOK
    <3>3. PICK l \in head[d].lists : x = <<d, l>> /\ l \in ListType
      BY SMTT(60), <3>2
    <3>4. a = [ID |-> l.ID, Direction |-> d, Interfaces |-> l.Interfaces]
      BY <3>1, <3>3
    <3>5. l.ID \in Nat /\ l.Interfaces \in SUBSET Interfaces
      BY <3>3, ListWith
    <3>6. a \in Objects /\ a.ID = l.ID /\ a.Direction = d
      BY <3>4, <3>5 DEF Objects
    <3>. QED BY <1>0, <3>6
  <2>. QED BY <2>1, <2>2
<1>3. ASSUME NEW d \in Directions PROVE IsFiniteSet(UsedIDs(d)')
  <2>1. IsFiniteSet(UsedIDs(d) \cup {0})
    BY SMTT(60), FS_AddElement DEF RendererInv, Sound
  <2>2. UsedIDs(d)' \subseteq UsedIDs(d) \cup {0}
    <3>. SUFFICES ASSUME NEW id \in UsedIDs(d)' PROVE id \in UsedIDs(d) \cup {0}
      OBVIOUS
    <3>1. CASE id \in allocatedListIDs[d]
      BY <3>1 DEF UsedIDs
    <3>2. CASE id \notin allocatedListIDs[d]
      <4>1. PICK a \in lastRev' \cup vpp' : a.Direction = d /\ id = a.ID
        BY <3>2 DEF UsedIDs
      <4>. QED BY <1>1, <1>2, <4>1
    <3>. QED BY <3>1, <3>2
  <2>. QED BY Zenon, <2>1, <2>2, FS_Subset
<1>4. AgentTypes'
  BY <1>1, <1>2 DEF AgentTypes
<1>. QED BY <1>3, <1>4

----------------------------------------------------------------------------
(* Every step keeps the invariant.                                         *)

\* The parts of the invariant that a step without changes in VPP or in the cache keeps.
LEMMA CacheKept ==
  ASSUME RendererInv, UNCHANGED <<cache, agentVars>>
  PROVE  /\ AgentTypes'
         /\ \A d \in Directions : /\ Good(cache[d])' /\ AllRendered(cache[d])'
                                  /\ UNCHANGED allocatedListIDs => IsFiniteSet(UsedIDs(d)')
<1>1. UNCHANGED lastRev /\ UNCHANGED vpp
  BY DEF agentVars
<1>2. AgentTypes'
  BY <1>1 DEF AgentTypes, RendererInv
<1>3. ASSUME NEW d \in Directions, UNCHANGED allocatedListIDs PROVE UsedIDs(d)' = UsedIDs(d)
  BY <1>1, <1>3 DEF UsedIDs
<1>. QED BY <1>2, <1>3 DEF RendererInv, Sound, AllRendered

\* A transaction ends: committed, without changes, or given up after an error.
LEMMA EndStep ==
  ASSUME RendererInv, NothingToRender \/ SendFails \/ CommitDone
  PROVE  RendererInv'
<1>1. EndTxn /\ UNCHANGED <<cache, allocatedListIDs, forgotten>> /\ (interfaces \subseteq Interfaces)'
  <2>1. txn.updated \subseteq Interfaces /\ interfaces \subseteq Interfaces
    BY DEF RendererInv, Types, Transactions
  <2>. QED BY <2>1 DEF NothingToRender, SendFails, CommitDone
<1>2. wanted' \in [Directions -> [Interfaces -> RuleLists]]
  <2>1. wanted' = wanted \/ wanted' = Requested
    BY DEF NothingToRender, SendFails, CommitDone
  <2>2. wanted \in [Directions -> [Interfaces -> RuleLists]]
    BY DEF RendererInv, Types
  <2>. QED BY Zenon, <2>1, <2>2, RequestedOK DEF RendererInv
<1>3. AgentTypes' /\ \A d \in Directions : IsFiniteSet(UsedIDs(d)')
  <2>1. CASE SendFails
    <3>1. PICK S \in SUBSET AllChanges : vpp' = ApplyChanges(S)
      BY SMTT(60), <2>1 DEF SendFails
    <3>2. txn.phase = "update" /\ lastRev' = Put(AllChanges)
      BY SMTT(60), <2>1 DEF SendFails
    <3>. QED BY SMTT(60), <1>1, <3>1, <3>2, SentOK
  <2>2. CASE ~SendFails
    <3>1. UNCHANGED <<cache, agentVars>>
      BY SMTT(60), <2>2 DEF NothingToRender, CommitDone
    <3>. QED BY <1>1, <3>1, CacheKept
  <2>. QED BY SMTT(60), <2>1, <2>2
<1>4. Types'
  BY <1>1, <1>2, NoTxnType DEF RendererInv, Types, EndTxn
<1>5. ASSUME NEW d \in Directions PROVE Sound(d)'
  <2>1. head'[d] = EmptyLists /\ txn'.phase = "idle"
    BY SMTT(60), <1>1, NoTxnType DEF EndTxn
  <2>2. Stage(d)'
    BY SMTT(60), <2>1, EmptyGood DEF Stage
  <2>3. (Good(cache[d]) /\ AllRendered(cache[d]) /\ IDsOf(cache[d]) \subseteq allocatedListIDs[d])'
    BY SMTT(60), <1>1 DEF RendererInv, Sound
  <2>. QED BY SMTT(60), <1>3, <2>1, <2>2, <2>3, EmptyGood DEF Sound
<1>. QED BY <1>3, <1>4, <1>5 DEF RendererInv

\* A transaction starts without lists.
LEMMA NewTxnStep ==
  ASSUME RendererInv, NEW resync \in BOOLEAN, NEW config \in Configs, NewTxn(resync, config)
  PROVE  RendererInv'
<1>1. txn' \in Transactions /\ txn'.phase \in {"dump", "update"}
  BY SMTT(60) DEF NewTxn, Transactions
<1>2. Types'
  BY SMTT(60), <1>1 DEF NewTxn, RendererInv, Types
<1>3. /\ AgentTypes'
      /\ \A d \in Directions : Good(cache[d])' /\ AllRendered(cache[d])' /\ IsFiniteSet(UsedIDs(d)')
  BY SMTT(60), CacheKept DEF NewTxn
<1>4. ASSUME NEW d \in Directions PROVE Sound(d)'
  <2>1. head[d].lists = {} /\ Good(head[d])
    BY SMTT(60) DEF NewTxn, RendererInv, Sound, Stage
  <2>2. Stage(d)'
    BY SMTT(60), <1>1, <2>1 DEF NewTxn, Stage, IDsOf, HeadOf
  <2>. QED BY SMTT(60), <1>3, <2>1, <2>2 DEF NewTxn, Sound, RendererInv
<1>. QED BY SMTT(60), <1>2, <1>3, <1>4 DEF RendererInv

\* A resync empties the cache and forgets the IDs.
LEMMA ResyncCacheStep == RendererInv /\ ResyncCache => RendererInv'
<1>1. SUFFICES ASSUME RendererInv, ResyncCache PROVE RendererInv'
  OBVIOUS
<1>2. txn' \in Transactions /\ txn'.phase = "update" /\ txn.phase = "dump"
  BY <1>1 DEF ResyncCache, Transactions, RendererInv, Types
<1>3. Types'
  <2>1. forgotten' \in BOOLEAN
    BY Zenon, <1>1 DEF ResyncCache
  <2>. QED BY SMTT(60), <1>1, <1>2, <2>1 DEF ResyncCache, RendererInv, Types
<1>4. AgentTypes'
  BY <1>1 DEF ResyncCache, agentVars, AgentTypes, RendererInv
<1>5. ASSUME NEW d \in Directions PROVE Sound(d)'
  <2>1. cache'[d] = EmptyLists /\ head'[d] = head[d] /\ allocatedListIDs'[d] = {}
    BY SMTT(60), <1>1 DEF ResyncCache
  <2>2. Good(head[d]) /\ head[d].lists = {}
    BY SMTT(60), <1>1, <1>2 DEF RendererInv, Sound, Stage
  <2>3. UsedIDs(d)' \subseteq UsedIDs(d)
    BY SMTT(60), <1>1, <2>1 DEF ResyncCache, agentVars, UsedIDs
  <2>4. IsFiniteSet(UsedIDs(d)')
    <3>1. IsFiniteSet(UsedIDs(d))
      BY <1>1 DEF RendererInv, Sound
    <3>. QED BY Zenon, <2>3, <3>1, FS_Subset
  <2>5. Stage(d)'
    BY SMTT(60), <1>2, <2>1, <2>2, EmptyGood DEF Stage, IDsOf, HeadOf
  <2>. QED BY SMTT(60), <2>1, <2>2, <2>4, <2>5, EmptyGood DEF Sound, AllRendered, IDsOf
<1>. QED BY <1>3, <1>4, <1>5 DEF RendererInv

\* The rules of an interface change: new lists have new IDs.
LEMMA UpdateStep ==
  ASSUME RendererInv, NEW i \in Interfaces, Update(i)
  PROVE  RendererInv'
<1>1. txn' \in Transactions /\ txn'.phase = "update" /\ txn.phase = "update"
  BY DEF Update, Transactions, RendererInv, Types
<1>2. Types'
  BY <1>1 DEF Update, RendererInv, Types
<1>3. ASSUME NEW d \in Directions PROVE Sound(d)'
  <2>1. PICK r : r = RulesFor(i)[d]
    OBVIOUS
  <2>2. r \in RuleLists
    BY SMTT(60), <2>1, RulesOK DEF RendererInv
  <2>3. PICK h : h = HeadWithOrig(cache[d], head[d], i)
    OBVIOUS
  <2>4. /\ head'[d] = UpdatedHead(d, h, i, r)
        /\ allocatedListIDs'[d] = allocatedListIDs[d] \cup (IF NeedsNewList(d, h, r) THEN {FreshID(d)} ELSE {})
    BY SMTT(60), <2>1, <2>3 DEF Update
  <2>5. /\ Good(cache[d]) /\ Good(head[d]) /\ HeadOf(cache[d], head[d])
        /\ IDsOf(cache[d]) \subseteq allocatedListIDs[d] /\ IDsOf(head[d]) \subseteq allocatedListIDs[d]
        /\ IsFiniteSet(UsedIDs(d))
    BY SMTT(60), <1>1 DEF RendererInv, Sound, Stage
  <2>6. /\ Good(h) /\ HeadOf(cache[d], h)
        /\ \A k \in h.lists : \E m \in cache[d].lists \cup head[d].lists : Alike(m, k)
    BY SMTT(60), <2>3, <2>5, HeadWithOrigGood
  <2>7. \A m \in cache[d].lists \cup h.lists : m.ID \in allocatedListIDs[d]
    BY SMTT(60), <2>5, <2>6 DEF IDsOf, Alike
  <2>8. FreshID(d) \in Nat \ {0} /\ FreshID(d) \notin allocatedListIDs[d]
    BY SMTT(60), <2>5, FreshIDExists DEF UsedIDs
  <2>9. \A m \in cache[d].lists \cup h.lists : m.ID # FreshID(d)
    BY SMTT(60), <2>7, <2>8
  <2>10. /\ Good(head'[d]) /\ HeadOf(cache[d], head'[d])
         /\ \A k \in head'[d].lists : \/ \E m \in cache[d].lists \cup h.lists : Alike(m, k)
                                      \/ NeedsNewList(d, h, r) /\ k.ID = FreshID(d)
    BY ZenonT(60), <2>2, <2>4, <2>5, <2>6, <2>8, <2>9, UpdatedHeadGood
  <2>11. IDsOf(head'[d]) \subseteq allocatedListIDs'[d] /\ IDsOf(cache[d]) \subseteq allocatedListIDs'[d]
    <3>1. ASSUME NEW k \in head'[d].lists PROVE k.ID \in allocatedListIDs'[d]
      BY SMTT(60), <2>4, <2>7, <2>10 DEF Alike
    <3>. QED BY ZenonT(60), <2>4, <2>5, <3>1 DEF IDsOf
  <2>12. IsFiniteSet(UsedIDs(d)')
    <3>1. IsFiniteSet(UsedIDs(d) \cup {FreshID(d)})
      BY SMTT(60), <2>5, FS_AddElement
    <3>2. UNCHANGED lastRev /\ UNCHANGED vpp
      BY DEF Update, agentVars
    <3>3. UsedIDs(d)' \subseteq UsedIDs(d) \cup {FreshID(d)}
      BY SMTT(60), <2>4, <3>2 DEF UsedIDs
    <3>. QED BY Zenon, <3>1, <3>3, FS_Subset
  <2>13. cache'[d] = cache[d] /\ Good(cache'[d]) /\ AllRendered(cache[d])'
    BY SMTT(60), CacheKept DEF Update
  <2>14. Stage(d)'
    BY ZenonT(60), <1>1, <2>10, <2>11, <2>13 DEF Stage
  <2>. QED BY Zenon, <2>10, <2>11, <2>12, <2>13, <2>14 DEF Sound
<1>4. AgentTypes'
  BY CacheKept DEF Update
<1>. QED BY <1>2, <1>3, <1>4 DEF RendererInv

\* What a list was in the cache, when it was there with interfaces.
LEMMA PreviousList ==
  ASSUME RendererInv, txn.phase = "update", NEW d \in Directions, NEW l \in head[d].lists,
         PreviousInterfaces(d, l) # {}, l.Rules # 0
  PROVE  l.Private = l.ID
<1>1. PICK m \in cache[d].lists : m.ID = l.ID
  BY SMTT(60) DEF PreviousInterfaces, ByID
<1>2. Alike(l, m)
  BY Zenon, <1>1 DEF RendererInv, Sound, Stage, HeadOf
<1>. QED BY SMTT(60), <1>2 DEF Alike, RendererInv, Sound, AllRendered

\* Every list with rules and interfaces has an ACL after rendering.
LEMMA SendStep == RendererInv /\ Send => RendererInv'
<1>1. SUFFICES ASSUME RendererInv, Send PROVE RendererInv'
  OBVIOUS
<1>2. txn' \in Transactions /\ txn'.phase = "commit" /\ txn.phase = "update"
  BY <1>1 DEF Send, Transactions, RendererInv, Types
<1>3. AgentTypes' /\ \A d \in Directions : IsFiniteSet(UsedIDs(d)')
  <2>1. /\ vpp' = ApplyChanges(AllChanges) /\ lastRev' = Put(AllChanges) /\ AllChanges \in SUBSET AllChanges
        /\ UNCHANGED allocatedListIDs
    BY <1>1 DEF Send
  <2>. QED BY Zenon, <1>1, <1>2, <2>1, SentOK
<1>4. Types'
  <2>1. wanted' \in [Directions -> [Interfaces -> RuleLists]]
    BY Zenon, <1>1, RequestedOK DEF Send, RendererInv
  <2>. QED BY SMTT(60), <1>1, <1>2, <2>1 DEF Send, RendererInv, Types
<1>5. ASSUME NEW d \in Directions PROVE Sound(d)'
  <2>1. IsFiniteSet(UsedIDs(d)')
    BY <1>3
  <2>2. PICK h : h = head[d]
    BY SMTT(60)
  <2>3. PICK L : L = {Rendered(d, l) : l \in h.lists}
    BY ZenonT(60)
  <2>4. head'[d] = [h EXCEPT !.lists = L]
    BY <1>1, <2>2, <2>3 DEF Send
  <2>5. Good(h) /\ HeadOf(cache[d], h) /\ IDsOf(h) \subseteq allocatedListIDs[d]
    BY <1>1, <1>2, <2>2 DEF RendererInv, Sound, Stage
  <2>6. ASSUME NEW l \in h.lists
        PROVE  /\ ListOK(Rendered(d, l)) /\ Twins(l, Rendered(d, l))
               /\ Rendered(d, l).Interfaces = l.Interfaces
               /\ l.Rules # 0 /\ l.Interfaces # {} => Rendered(d, l).Private = l.ID
    <3>1. ListOK(l) /\ l \in ListType /\ l.ID \in Nat \cup {NoPrivate}
      BY SMTT(60), <2>5, ListWith DEF Good, Typed, ListOK
    <3>2. CASE l \in Changes(d) /\ ~Reused(d, l)
      <4>1. Rendered(d, l) = [l EXCEPT !.Private = l.ID]
        BY <3>2 DEF Rendered
      <4>2. /\ Rendered(d, l) \in ListType /\ Rendered(d, l).Private = l.ID
            /\ Rendered(d, l).ID = l.ID /\ Rendered(d, l).Rules = l.Rules
            /\ Rendered(d, l).Interfaces = l.Interfaces
        BY SMTT(60), <3>1, <4>1, ListWith
      <4>. QED BY <4>2 DEF ListOK, Twins
    <3>3. CASE ~(l \in Changes(d) /\ ~Reused(d, l))
      <4>1. Rendered(d, l) = l
        BY SMTT(60), <3>3 DEF Rendered
      <4>2. ASSUME l.Rules # 0, l.Interfaces # {} PROVE l.Private = l.ID
        <5>1. PreviousInterfaces(d, l) # {}
          BY SMTT(60), <2>2, <3>3, <4>2 DEF Changes, Reused
        <5>. QED BY SMTT(60), <1>1, <1>2, <2>2, <4>2, <5>1, PreviousList
      <4>. QED BY SMTT(60), <3>1, <4>1, <4>2 DEF Twins
    <3>. QED BY SMTT(60), <3>2, <3>3
  <2>7. /\ \A m \in L : \E l \in h.lists : m = Rendered(d, l)
        /\ \A l \in h.lists : Rendered(d, l) \in L
    BY SMTT(60), <2>3
  <2>8. \A m, n \in L : m.ID = n.ID => m = n
    <3>1. \A m, n \in h.lists : m.ID = n.ID => m = n
      BY SMTT(60), <2>5 DEF Good, Distinct
    <3>2. \A l \in h.lists : Rendered(d, l).ID = l.ID
      BY SMTT(60), <2>6 DEF Twins
    <3>. QED BY SMTT(60), <2>7, <3>1, <3>2
  <2>9. /\ \A m \in L : ListOK(m) /\ \E l \in h.lists : Twins(l, m) /\ m.Interfaces = l.Interfaces
        /\ \A l \in h.lists : \E m \in L : Twins(l, m) /\ m.Interfaces = l.Interfaces
    BY SMTT(60), <2>6, <2>7
  <2>10. Good(head'[d]) /\ head'[d].lists = L
    <3>1. Good([h EXCEPT !.lists = L]) /\ [h EXCEPT !.lists = L].lists = L
      BY ZenonT(60), <2>5, <2>8, <2>9, PrivateGood
    <3>. QED BY <2>4, <3>1
  <2>11. cache'[d] = cache[d] /\ allocatedListIDs'[d] = allocatedListIDs[d]
    BY <1>1 DEF Send
  <2>12. ASSUME NEW m \in L
         PROVE  /\ m.ID \in allocatedListIDs[d]
                /\ CopyIn(cache[d], m)
                /\ m.Rules # 0 /\ m.Interfaces # {} => m.Private = m.ID
    <3>1. PICK l \in h.lists : m = Rendered(d, l)
      BY <2>7
    <3>2. Twins(l, m) /\ m.Interfaces = l.Interfaces /\ (l.Rules # 0 /\ l.Interfaces # {} => m.Private = l.ID)
      BY SMTT(60), <2>6, <3>1
    <3>. QED BY <2>5, <3>2 DEF IDsOf, HeadOf, CopyIn, Twins, Alike
  <2>13. Stage(d)'
    BY ZenonT(60), <1>2, <2>10, <2>11, <2>12 DEF Stage
  <2>14. (Good(cache[d]) /\ AllRendered(cache[d]) /\ IDsOf(cache[d]) \subseteq allocatedListIDs[d])'
    BY ZenonT(60), <1>1, <2>11 DEF RendererInv, Sound
  <2>. QED BY SMTT(60), <2>1, <2>10, <2>13, <2>14 DEF Sound
<1>. QED BY SMTT(60), <1>3, <1>4, <1>5 DEF RendererInv

\* A list of the transaction is committed, the others stay copies.
LEMMA CommitListStep ==
  ASSUME RendererInv, NEW e \in Directions, NEW l \in head[e].lists, CommitList(e, l)
  PROVE  RendererInv'
<1>1. Types'
  BY SMTT(60) DEF CommitList, RendererInv, Types
<1>2. txn.phase = "commit" /\ txn'.phase = "commit"
  BY SMTT(60) DEF CommitList
<1>3. ASSUME NEW d \in Directions PROVE Sound(d)'
  <2>1. IsFiniteSet(UsedIDs(d)') /\ allocatedListIDs'[d] = allocatedListIDs[d]
    BY SMTT(60) DEF CommitList, agentVars, UsedIDs, RendererInv, Sound
  <2>2. Sound(d)
    BY SMTT(60) DEF RendererInv
  <2>3. CASE d # e
    <3>1. cache'[d] = cache[d] /\ head'[d] = head[d]
      BY SMTT(60), <2>3 DEF CommitList, RendererInv, Types
    <3>2. Stage(d)'
      BY ZenonT(60), <1>2, <2>1, <2>2, <3>1 DEF Sound, Stage
    <3>. QED BY SMTT(60), <2>1, <2>2, <3>1, <3>2 DEF Sound
  <2>4. CASE d = e
    <3>1. PICK h : h = [lists |-> head[d].lists \ {l}, byInterface |-> UnassignAny(head[d], l.Interfaces).byInterface]
      BY ZenonT(60)
    <3>2. cache'[d] = CommittedList(cache[d], l) /\ head'[d] = h
      BY <2>4, <3>1 DEF CommitList, RendererInv, Types
    <3>3. Good(h) /\ h.lists = head[d].lists \ {l}
      BY Zenon, <2>2, <2>4, <3>1, RemoveGood DEF Sound
    <3>4. /\ ListOK(l) /\ CopyIn(cache[d], l) /\ l.ID \in allocatedListIDs[d]
          /\ l.Rules # 0 /\ l.Interfaces # {} => l.Private = l.ID
      BY ZenonT(60), <1>2, <2>2, <2>4 DEF Sound, Stage, Good, Typed, ListOK
    <3>5. /\ Good(cache'[d])
          /\ \A m \in cache'[d].lists : \/ l.Interfaces # {} /\ Alike(l, m)
                                        \/ \E k \in cache[d].lists : Alike(k, m)
      BY ZenonT(60), <2>2, <3>2, <3>4, CommittedGood DEF Sound
    <3>6. AllRendered(cache'[d]) /\ IDsOf(cache'[d]) \subseteq allocatedListIDs'[d]
      BY SMTT(60), <2>1, <2>2, <3>4, <3>5 DEF AllRendered, IDsOf, Alike, Sound
    <3>7. ASSUME NEW n \in h.lists
          PROVE  /\ n.ID \in allocatedListIDs'[d] /\ CopyIn(cache'[d], n)
                 /\ n.Rules # 0 /\ n.Interfaces # {} => n.Private = n.ID
      <4>1. n.ID # l.ID /\ n.Rules # l.Rules
        BY SMTT(60), <2>2, <2>4, <3>3 DEF Sound, Good, Distinct
      <4>2. /\ n.ID \in allocatedListIDs[d] /\ CopyIn(cache[d], n)
            /\ n.Rules # 0 /\ n.Interfaces # {} => n.Private = n.ID
        BY ZenonT(60), <1>2, <2>2, <3>3 DEF Sound, Stage
      <4>. QED BY SMTT(60), <2>1, <3>5, <4>1, <4>2 DEF CopyIn, Alike, Twins
    <3>8. Stage(d)'
      BY Zenon, <1>2, <3>2, <3>7 DEF Stage
    <3>. QED BY ZenonT(60), <2>1, <2>2, <3>2, <3>3, <3>5, <3>6, <3>8 DEF Sound
  <2>. QED BY SMTT(60), <2>3, <2>4
<1>4. AgentTypes'
  BY DEF CommitList, agentVars, AgentTypes, RendererInv
<1>. QED BY SMTT(60), <1>1, <1>3, <1>4 DEF RendererInv

\* The lists, the index and the IDs stay sound, whatever the transactions are and
\* whatever VPP refuses.
THEOREM RendererInvariance == Spec => []RendererInv
<1>1. RendererInv /\ [Next]_vars => RendererInv'
  <2>1. SUFFICES ASSUME RendererInv, [Next]_vars PROVE RendererInv'
    BY SMTT(60)
  <2>2. CASE Next
    <3>1. CASE \E resync \in BOOLEAN, config \in Configs : NewTxn(resync, config)
      BY SMTT(60), <2>1, <3>1, NewTxnStep
    <3>3. CASE \E i \in Interfaces : Update(i)
      BY SMTT(60), <2>1, <3>3, UpdateStep
    <3>4. CASE \E d \in Directions : \E l \in head[d].lists : CommitList(d, l)
      BY SMTT(60), <2>1, <3>4, CommitListStep
    <3>. QED BY SMTT(60), <2>1, <2>2, <3>1, <3>3, <3>4, EndStep, ResyncCacheStep, SendStep DEF Next
  <2>3. CASE UNCHANGED vars
    BY ZenonT(60), <2>1, <2>3 DEF vars, agentVars, RendererInv, Types, AgentTypes, Sound, Stage, UsedIDs
  <2>. QED BY SMTT(60), <2>1, <2>2, <2>3
<1>. QED BY <1>1, InitInv, PTL DEF Spec

\* The index of the cache by interface agrees with the lists, contents and IDs are
\* unique, in the cache and in the lists of the transaction (cache_impl.go): for any
\* number of interfaces, rules, transactions and errors of VPP.
THEOREM CacheStaysConsistent == Spec => []CacheConsistent
<1>1. RendererInv => CacheConsistent
  <2>1. ASSUME NEW c, Good(c)
        PROVE  /\ \A l \in c.lists : \A i \in l.Interfaces :
                    i \in DOMAIN c.byInterface /\ c.byInterface[i] = l.ID
               /\ \A i \in DOMAIN c.byInterface : \E l \in ByInterface(c, i) : i \in l.Interfaces
               /\ \A l, m \in c.lists : l.ID = m.ID \/ l.Rules = m.Rules => l = m
    BY SMTT(60), <2>1 DEF Good, Indexed, Distinct, ByInterface
  <2>2. SUFFICES ASSUME RendererInv, NEW d \in Directions
                 PROVE  Good(cache[d]) /\ Good(head[d])
    BY <2>1 DEF CacheConsistent
  <2>. QED BY ZenonT(60), <2>2 DEF RendererInv, Sound
<1>. QED BY <1>1, RendererInvariance, PTL

\* renderChanges (acl_renderer.go) never asks a list for an ACL that was not rendered:
\* a list that had interfaces in the cache and has rules has its ACL.
THEOREM NeverPanics == Spec => []NoRenderPanic
<1>1. RendererInv => NoRenderPanic
  <2>1. SUFFICES ASSUME RendererInv, txn.phase = "update", NEW x \in AllChanges
                 PROVE  ~RenderPanics(x[1], x[2])
    BY DEF NoRenderPanic
  <2>2. PICK d \in Directions : \E l \in Changes(d) : x = <<d, l>>
    BY DEF AllChanges
  <2>3. PICK l \in Changes(d) : x = <<d, l>>
    BY SMTT(60), <2>2
  <2>4. l \in head[d].lists /\ l.Rules # 0
    BY DEF Changes
  <2>5. l.ID \in Nat
    BY SMTT(60), <2>1, <2>4, ListWith DEF RendererInv, Sound, Good, Typed
  <2>6. PreviousInterfaces(d, l) # {} => l.Private # NoPrivate
    BY SMTT(60), <2>1, <2>4, <2>5, PreviousList, ACLAssumption
  <2>. QED BY SMTT(60), <2>3, <2>6 DEF RenderPanics, Reused
<1>. QED BY <1>1, RendererInvariance, PTL

\* Lists, index, transaction and known interfaces have their types; an interface of
\* the index has a list.
THEOREM RendererTypes == Spec => []TypeOK
<1>1. RendererInv => TypeOK
  <2>1. ASSUME NEW c, Good(c)
        PROVE  /\ \A l \in c.lists :
                    /\ l.ID \in Nat \ {0} /\ l.Rules \in RuleLists
                    /\ l.Interfaces \subseteq Interfaces
                    /\ l.Private \in {NoPrivate, l.ID}
               /\ \A i \in DOMAIN c.byInterface : i \in Interfaces /\ ByInterface(c, i) # {}
    <3>1. c.lists \subseteq ListType /\ c.byInterface \in Index
      BY SMTT(60), <2>1 DEF Good, Typed
    <3>2. \A i \in DOMAIN c.byInterface : ByInterface(c, i) # {}
      BY <2>1 DEF Good, Indexed, ByInterface
    <3>. QED BY SMTT(60), <2>1, <3>1, <3>2, ListWith, IndexWith DEF Good, Typed
  <2>2. SUFFICES ASSUME RendererInv PROVE TypeOK
    BY SMTT(60)
  <2>3. \A d \in Directions : Good(cache[d]) /\ Good(head[d])
    BY SMTT(60), <2>2 DEF RendererInv, Sound
  <2>4. interfaces \subseteq Interfaces /\ txn.config \in Configs
        /\ txn.phase \in {"idle", "dump", "update", "commit"}
    BY <2>2 DEF RendererInv, Types, Transactions
  <2>5. \A a \in lastRev \cup vpp : a.ID \in Nat /\ a.Interfaces \subseteq Interfaces
    BY <2>2 DEF RendererInv, AgentTypes, ACLs, Objects
  <2>6. wanted \in [Directions -> [Interfaces -> RuleLists]] /\ forgotten \in BOOLEAN
    BY <2>2 DEF RendererInv, Types
  <2>. QED BY SMTT(60), <2>1, <2>3, <2>4, <2>5, <2>6 DEF TypeOK
<1>. QED BY <1>1, RendererInvariance, PTL
=============================================================================
