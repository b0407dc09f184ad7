------------------------- MODULE PolicyPluginProofs -------------------------
(***************************************************************************)
(* Etcd follows K8s, and what changes in K8s reaches the cache of the      *)
(* policy plugin, for any number of items, changes, failed writes,         *)
(* restarts of KSR and errors.                                             *)
(*                                                                         *)
(* The argument follows an item from etcd to the cache: its last event is  *)
(* in the channel, or among the pending changes, or was applied last.      *)
(***************************************************************************)
EXTENDS PolicyPlugin, SequenceTheorems, TLAPS

----------------------------------------------------------------------------
(* KSR on its own: etcd follows K8s, for any state of both at the start.   *)

\* Sequences of at most one element.
LEMMA ShortSequences ==
  ASSUME NEW S, NEW x \in S
  PROVE  /\ <<x>> \in Seq(S) /\ <<>> \in Seq(S)
         /\ <<x>> # <<>> /\ <<x>>[Len(<<x>>)] = x
OBVIOUS

\* The list of an item is empty, or its current state.
LEMMA ListedFacts ==
  ASSUME k8s \in K8sData, NEW i \in Items
  PROVE  /\ Listed(i) \in Seq(Objects \cup {NoValue})
         /\ Listed(i) # <<>> => Listed(i)[Len(Listed(i))] = k8s[i]
         /\ Listed(i) = <<>> => k8s[i] = NoValue
<1>1. k8s[i] \in Objects \cup {NoValue}
  BY DEF K8sData
<1>2. CASE k8s[i] = NoValue
  BY <1>1, <1>2, ShortSequences DEF Listed
<1>3. CASE k8s[i] # NoValue
  <2>1. Listed(i) = <<k8s[i]>>
    BY <1>3 DEF Listed
  <2> QED BY <1>1, <2>1, ShortSequences
<1> QED BY <1>2, <1>3

\* The invariant holds when KSR starts.
LEMMA InitKSRInv == KSRInit => KSRInv
<1> SUFFICES ASSUME KSRInit PROVE KSRInv
  OBVIOUS
<1>1. k8s \in K8sData /\ store \in Data
  BY KSRAssumption DEF KSRInit
<1>2. KSRTypeOK
  BY <1>1, ListedFacts, KSRAssumption DEF KSRInit, KSRTypeOK, Forgotten
<1>3. LastIsCurrent
  BY <1>1, ListedFacts DEF KSRInit, LastIsCurrent
<1>4. StoreFollowsK8s
  BY <1>1, ListedFacts DEF KSRInit, StoreFollowsK8s, Forgotten, Message
<1> QED BY <1>2, <1>3, <1>4 DEF KSRInv

\* Every change of K8s, write, failure and restart keeps it.
LEMMA StepKSRInv == KSRInv /\ [KSRNext \/ Receive]_ksrVars => KSRInv'
<1> SUFFICES ASSUME KSRInv, [KSRNext \/ Receive]_ksrVars PROVE KSRInv'
  OBVIOUS
<1> USE DEF KSRInv
<1>1. ASSUME NEW i \in Items, Reflect(i) PROVE KSRInv'
  <2> DEFINE n == notifications[i]
  <2>1. /\ n \in Seq(Objects \cup {NoValue}) /\ n # <<>>
        /\ Head(n) \in Objects \cup {NoValue} /\ Tail(n) \in Seq(Objects \cup {NoValue})
    BY <1>1 DEF Reflect, KSRTypeOK
  <2>2. /\ notifications' = [notifications EXCEPT ![i] = Tail(n)]
        /\ k8s' = k8s /\ changes' = changes /\ restarts' = restarts
    BY <1>1 DEF Reflect
  <2>3. KSRTypeOK'
    <3>1. CASE Publish(i, Message(Head(n))) /\ lost' = lost \ {i} /\ UNCHANGED writeErrors
      <4>1. Message(Head(n)) \in Values \cup {NoValue}
        BY <2>1, KSRAssumption DEF Message
      <4>2. [item |-> i, val |-> Message(Head(n))] \in Changes
        BY <4>1 DEF Changes
      <4> QED BY <2>1, <2>2, <3>1, <4>1, <4>2 DEF Publish, KSRTypeOK, Data, K8sData
    <3>2. CASE /\ writeErrors < MaxWriteErrors /\ writeErrors' = writeErrors + 1
               /\ lost' = lost \cup {i} /\ UNCHANGED <<store, changeChan>>
      BY SMTT(60), <2>1, <2>2, <3>2, KSRAssumption DEF KSRTypeOK
    <3> QED BY <1>1, <3>1, <3>2 DEF Reflect
  <2>4. LastIsCurrent'
    <3> SUFFICES ASSUME NEW j \in Items, notifications'[j] # <<>>
                 PROVE  notifications'[j][Len(notifications'[j])] = k8s'[j]
      BY DEF LastIsCurrent
    <3>1. CASE j = i
      <4>1. Tail(n) # <<>> => Tail(n)[Len(Tail(n))] = n[Len(n)]
        BY <2>1
      <4> QED BY <2>1, <2>2, <3>1, <4>1 DEF LastIsCurrent, KSRTypeOK
    <3>2. CASE j # i
      BY <2>2, <3>2 DEF LastIsCurrent, KSRTypeOK
    <3> QED BY <3>1, <3>2
  <2>5. StoreFollowsK8s'
    <3> SUFFICES ASSUME NEW j \in Items \ lost', notifications'[j] = <<>>
                 PROVE  store'[j] = Message(k8s'[j])
      BY DEF StoreFollowsK8s
    <3>1. CASE j = i
      <4>1. store' = [store EXCEPT ![i] = Message(Head(n))]
        BY <1>1, <3>1 DEF Reflect, Publish
      <4>2. Tail(n) = <<>>
        BY <2>1, <2>2, <3>1 DEF KSRTypeOK
      <4>3. n[Len(n)] = Head(n)
        <5>1. Len(Tail(n)) = Len(n) - 1
          BY <2>1
        <5>2. Len(Tail(n)) = 0
          BY Zenon, <2>1, <4>2, EmptySeq
        <5>3. Len(n) = 1
          BY <2>1, <5>1, <5>2
        <5> QED BY <2>1, <5>3
      <4> QED BY <2>1, <2>2, <3>1, <4>1, <4>3 DEF LastIsCurrent, KSRTypeOK, Data, K8sData
    <3>2. CASE j # i
      <4>1. notifications[j] = <<>> /\ j \notin lost
        BY <1>1, <2>2, <3>2 DEF Reflect, KSRTypeOK
      <4>2. store'[j] = store[j]
        BY <1>1, <3>2 DEF Reflect, Publish, KSRTypeOK, Data, K8sData
      <4> QED BY <2>2, <4>1, <4>2 DEF StoreFollowsK8s
    <3> QED BY <3>1, <3>2
  <2> QED BY <2>3, <2>4, <2>5
<1>2. ASSUME NEW i \in Items, NEW obj \in Objects \cup {NoValue}, K8sChange(i, obj) PROVE KSRInv'
  <2> DEFINE n == notifications[i]
  <2>1. /\ n \in Seq(Objects \cup {NoValue}) /\ Append(n, obj) \in Seq(Objects \cup {NoValue})
        /\ Append(n, obj) # <<>> /\ Append(n, obj)[Len(Append(n, obj))] = obj
    BY SMTT(60) DEF KSRTypeOK
  <2>2. /\ notifications' = [notifications EXCEPT ![i] = Append(n, obj)]
        /\ k8s' = [k8s EXCEPT ![i] = obj]
        /\ UNCHANGED <<store, changeChan, lost, writeErrors, restarts>>
    BY <1>2 DEF K8sChange
  <2>3. changes' \in 0..MaxChanges
    BY <1>2, KSRAssumption DEF K8sChange, KSRTypeOK
  <2>4. KSRTypeOK'
    BY SMTT(60), <2>1, <2>2, <2>3 DEF KSRTypeOK, Data, K8sData
  <2>5. LastIsCurrent'
    BY <2>1, <2>2 DEF LastIsCurrent, KSRTypeOK, Data, K8sData
  <2>6. StoreFollowsK8s'
    BY <2>1, <2>2 DEF StoreFollowsK8s, KSRTypeOK, Data, K8sData
  <2> QED BY <2>4, <2>5, <2>6
<1>3. CASE RestartKSR
  <2>1. /\ notifications' = [i \in Items |-> Listed(i)]
        /\ lost' = (lost \cap {i \in Items : k8s[i] # NoValue}) \cup Forgotten
        /\ UNCHANGED <<k8s, store, changeChan, changes, writeErrors>>
    BY <1>3 DEF RestartKSR
  <2>2. restarts' \in 0..MaxRestarts
    BY <1>3, KSRAssumption DEF RestartKSR, KSRTypeOK
  <2>3. KSRTypeOK'
    BY <2>1, <2>2, ListedFacts DEF KSRTypeOK, Forgotten
  <2>4. LastIsCurrent'
    BY <2>1, ListedFacts DEF LastIsCurrent, KSRTypeOK
  <2>5. StoreFollowsK8s'
    BY <2>1, ListedFacts DEF StoreFollowsK8s, Forgotten, KSRTypeOK, Message
  <2> QED BY <2>3, <2>4, <2>5
<1>4. CASE Receive
  BY <1>4 DEF Receive, KSRTypeOK, LastIsCurrent, StoreFollowsK8s
<1>5. CASE UNCHANGED ksrVars
  BY <1>5 DEF ksrVars, KSRTypeOK, LastIsCurrent, StoreFollowsK8s
<1> QED BY <1>1, <1>2, <1>3, <1>4, <1>5 DEF KSRNext

\* KSR keeps the types of its state, for every set of items, objects and messages.
THEOREM KSRTypeCorrect == KSRSpec => []KSRTypeOK
<1> QED BY InitKSRInv, StepKSRInv, PTL DEF KSRSpec, KSRInv

\* Whatever etcd contained when KSR started, and however often writes fail and
\* KSR restarts: an item whose notifications are handled, and whose last one was
\* not lost, has in etcd the message for what it is in K8s.
THEOREM EtcdFollowsK8s == KSRSpec => []StoreFollowsK8s
<1> QED BY InitKSRInv, StepKSRInv, PTL DEF KSRSpec, KSRInv

----------------------------------------------------------------------------
(* KSR and the plugin: the inductive invariant.                            *)

Absent(s, i) == \A k \in 1..Len(s) : s[k].item # i

\* The last event for i in s has the value v.
LastHas(s, i, v) ==
  \A k \in 1..Len(s) :
    (s[k].item = i /\ \A m \in (k + 1)..Len(s) : s[m].item # i) => s[k].val = v

\* Changes are delayed only behind a resync, and there is only one.
Stages ==
  /\ resync = "none" => resyncChan = None /\ pendingResync = None
  /\ resyncChan # None => pendingResync = None
  /\ pendingResync = None => pendingChanges = <<>>

\* The last event of an item, wherever it is, has the value in etcd.
EventsFollowStore ==
  \A i \in Items :
    /\ LastHas(changeChan, i, store[i])
    /\ errors = 0 /\ Absent(changeChan, i) =>
         /\ LastHas(pendingChanges, i, store[i])
         /\ Absent(pendingChanges, i) /\ i \in touched => cache[i] = store[i]

PluginInv == TypeOK /\ KSRInv /\ Stages /\ EventsFollowStore

----------------------------------------------------------------------------
(* Sequences of events.                                                    *)

\* The event at the end of a sequence is the last one for its item.
LEMMA AppendedEvent ==
  ASSUME NEW s \in Seq(Changes), NEW e \in Changes, NEW i \in Items, NEW v
  PROVE  /\ Append(s, e) \in Seq(Changes)
         /\ e.item = i => ~Absent(Append(s, e), i) /\ (e.val = v => LastHas(Append(s, e), i, v))
         /\ e.item # i => /\ Absent(Append(s, e), i) => Absent(s, i)
                          /\ LastHas(s, i, v) => LastHas(Append(s, e), i, v)
<1>. PICK t : t = Append(s, e)
  BY Zenon
<1>1. /\ t \in Seq(Changes) /\ Len(s) \in Nat /\ Len(t) = Len(s) + 1 /\ t[Len(t)] = e
      /\ \A k \in 1..Len(s) : t[k] = s[k]
  OBVIOUS
<1>2. 1..Len(t) = (1..Len(s)) \cup {Len(t)} /\ Len(t) \in 1..Len(t)
  BY <1>1
<1>3. ASSUME e.item = i
      PROVE  ~Absent(t, i) /\ (e.val = v => LastHas(t, i, v))
  <2>1. ~Absent(t, i)
    BY <1>1, <1>2, <1>3 DEF Absent
  <2>2. ASSUME e.val = v, NEW k \in 1..Len(t), \A m \in (k + 1)..Len(t) : t[m].item # i
        PROVE  t[k].val = v
    <3>1. k = Len(t) \/ Len(t) \in (k + 1)..Len(t)
      BY <1>1
    <3>. QED BY <1>1, <1>3, <2>2, <3>1
  <2>. QED BY <2>1, <2>2 DEF LastHas
<1>4. ASSUME e.item # i
      PROVE  /\ Absent(t, i) => Absent(s, i)
             /\ LastHas(s, i, v) => LastHas(t, i, v)
  <2>1. Absent(t, i) => Absent(s, i)
    BY <1>1, <1>2 DEF Absent
  <2>2. ASSUME LastHas(s, i, v), NEW k \in 1..Len(t), t[k].item = i, \A m \in (k + 1)..Len(t) : t[m].item # i
        PROVE  t[k].val = v
    <3>1. k \in 1..Len(s)
      BY <1>1, <1>2, <1>4, <2>2
    <3>2. \A m \in (k + 1)..Len(s) : m \in (k + 1)..Len(t) /\ t[m] = s[m]
      BY <1>1, <3>1
    <3>. QED BY SMTT(60), <1>1, <2>2, <3>1, <3>2 DEF LastHas
  <2>. QED BY <2>1, <2>2 DEF LastHas
<1>. QED BY <1>1, <1>3, <1>4

\* The event at the front is the last one for its item if the rest has none.
LEMMA TakenEvent ==
  ASSUME NEW s \in Seq(Changes), s # <<>>, NEW i \in Items, NEW v, LastHas(s, i, v)
  PROVE  /\ Head(s) \in Changes /\ Tail(s) \in Seq(Changes)
         /\ LastHas(Tail(s), i, v)
         /\ Absent(Tail(s), i) => IF Head(s).item = i THEN Head(s).val = v ELSE Absent(s, i)
<1>. PICK t : t = Tail(s)
  BY Zenon
<1>1. /\ t \in Seq(Changes) /\ Len(t) \in Nat /\ Len(s) = Len(t) + 1 /\ s[1] = Head(s) /\ s[1] \in Changes
      /\ \A k \in 1..Len(t) : t[k] = s[k + 1]
  OBVIOUS
<1>2. \A k \in 2..Len(s) : k - 1 \in 1..Len(t) /\ s[k] = t[k - 1]
  BY <1>1
<1>3. ASSUME NEW k \in 1..Len(t), t[k].item = i, \A m \in (k + 1)..Len(t) : t[m].item # i
      PROVE  t[k].val = v
  <2>1. k + 1 \in 1..Len(s) /\ s[k + 1] = t[k]
    BY <1>1
  <2>2. \A m \in (k + 2)..Len(s) : m - 1 \in (k + 1)..Len(t) /\ s[m] = t[m - 1]
    BY <1>1, <1>2
  <2>3. \A m \in ((k + 1) + 1)..Len(s) : s[m].item # i
    <3>1. \A m \in ((k + 1) + 1)..Len(s) : m \in (k + 2)..Len(s)
      BY <1>1
    <3>. QED BY Zenon, <1>3, <2>2, <3>1
  <2>. QED BY <1>3, <2>1, <2>3 DEF LastHas
<1>4. ASSUME Absent(t, i)
      PROVE  IF s[1].item = i THEN s[1].val = v ELSE Absent(s, i)
  <2>1. \A m \in 2..Len(s) : s[m].item # i
    BY <1>2, <1>4 DEF Absent
  <2>2. 1 \in 1..Len(s) /\ \A k \in 1..Len(s) : k = 1 \/ k \in 2..Len(s)
    BY <1>1
  <2>3. \A m \in (1 + 1)..Len(s) : s[m].item # i
    BY <2>1
  <2>. QED BY <2>1, <2>2, <2>3 DEF LastHas, Absent
<1>. QED BY <1>1, <1>3, <1>4 DEF LastHas

----------------------------------------------------------------------------
(* Steps.                                                                  *)

\* Of an empty list there is nothing to say.
LEMMA EmptyHas ==
  ASSUME NEW i, NEW v
  PROVE  LastHas(<<>>, i, v) /\ Absent(<<>>, i)
  BY DEF LastHas, Absent

\* An event that is applied, at once or after a delay, sets its item.
LEMMA AppliedEvent ==
  ASSUME cache \in Data, NEW e \in Changes
  PROVE  /\ Update(cache, e) \in Data
         /\ \A i \in Items : Update(cache, e)[i] = IF e.item = i THEN e.val ELSE cache[i]
  BY DEF Update, Data, Changes

\* Reflectors append the value they write to the events on their way.
LEMMA PublishStep ==
  ASSUME PluginInv, KSRNext, UNCHANGED pluginVars
  PROVE  EventsFollowStore'
<1>0. store \in Data /\ changeChan \in Seq(Changes)
  BY DEF PluginInv, KSRInv, KSRTypeOK
<1>1. CASE UNCHANGED <<store, changeChan>>
  BY <1>1 DEF PluginInv, EventsFollowStore, pluginVars
<1>2. ASSUME NEW j \in Items, NEW w \in Values \cup {NoValue}, Publish(j, w)
      PROVE  EventsFollowStore'
  <2>0. UNCHANGED <<errors, pendingChanges, touched, cache>>
    BY DEF pluginVars
  <2>1. CASE changeChan' = changeChan
    <3>1. store' = store
      <4>1. store' = [store EXCEPT ![j] = w]
        BY <1>2 DEF Publish
      <4>2. w = NoValue /\ store[j] = NoValue
        BY <1>0, <1>2, <2>1 DEF Publish
      <4>. QED BY <1>0, <4>1, <4>2 DEF Data
    <3>. QED BY <1>1, <2>1, <3>1
  <2>2. CASE changeChan' # changeChan
    <3>1. PICK e \in Changes : e.item = j /\ e.val = w /\ changeChan' = Append(changeChan, e)
      BY <1>2, <2>2 DEF Publish, Changes
    <3>2. \A i \in Items : store'[i] = IF i = j THEN w ELSE store[i]
      BY <1>0, <1>2 DEF Publish, Data
    <3>3. ASSUME NEW i \in Items
          PROVE  /\ LastHas(changeChan', i, store'[i])
                 /\ errors' = 0 /\ Absent(changeChan', i) =>
                      /\ LastHas(pendingChanges', i, store'[i])
                      /\ Absent(pendingChanges', i) /\ i \in touched' => cache'[i] = store'[i]
      <4>1. CASE i = j
        BY <1>0, <3>1, <3>2, <4>1, AppendedEvent
      <4>2. CASE i # j
        <5>1. /\ LastHas(changeChan, i, store[i]) => LastHas(changeChan', i, store[i])
              /\ Absent(changeChan', i) => Absent(changeChan, i)
          BY <1>0, <3>1, <4>2, AppendedEvent
        <5>. QED BY <2>0, <3>2, <4>2, <5>1 DEF PluginInv, EventsFollowStore
      <4>. QED BY <4>1, <4>2
    <3>. QED BY <3>3 DEF EventsFollowStore
  <2>. QED BY <2>1, <2>2
<1>3. ASSUME NEW j \in Items, Reflect(j)
      PROVE  EventsFollowStore'
  <2>1. Message(Head(notifications[j])) \in Values \cup {NoValue}
    <3>1. notifications[j] \in Seq(Objects \cup {NoValue}) /\ notifications[j] # <<>>
      BY <1>3 DEF Reflect, PluginInv, KSRInv, KSRTypeOK
    <3>2. Head(notifications[j]) \in Objects \cup {NoValue}
      BY <3>1
    <3>. QED BY <3>2, KSRAssumption DEF Message
  <2>. QED BY <1>1, <1>2, <1>3, <2>1 DEF Reflect
<1>. QED BY <1>1, <1>3 DEF KSRNext, K8sChange, RestartKSR

\* The plugin takes an event from the channel: it is delayed behind the others, or
\* applied when none is delayed.
LEMMA ReceiveStep ==
  ASSUME PluginInv, ReceiveChange
  PROVE  EventsFollowStore' /\ cache' \in Data /\ pendingChanges' \in Seq(Changes) /\ touched' \subseteq Items
<1>0. /\ store' = store /\ changeChan \in Seq(Changes) /\ changeChan # <<>> /\ changeChan' = Tail(changeChan)
      /\ pendingChanges \in Seq(Changes) /\ cache \in Data /\ touched \subseteq Items
  BY DEF PluginInv, TypeOK, KSRTypeOK, ReceiveChange, Receive
<1>1. PICK e \in Changes : e = Head(changeChan)
  BY <1>0
<1>2. e.item \in Items /\ touched' = touched \cup {e.item}
  BY <1>1 DEF ReceiveChange, Changes
<1>3. \A i \in Items : LastHas(changeChan, i, store[i])
  BY Zenon DEF PluginInv, EventsFollowStore
<1>4. ASSUME NEW i \in Items
      PROVE  /\ LastHas(changeChan', i, store[i])
             /\ Absent(changeChan', i) => IF e.item = i THEN e.val = store[i] ELSE Absent(changeChan, i)
  BY SMTT(60), <1>0, <1>1, <1>3, TakenEvent
<1>5. CASE pendingResync # None
  <2>1. pendingChanges' = Append(pendingChanges, e) /\ cache' = cache /\ errors' = errors
    BY SMTT(60), <1>1, <1>5 DEF ReceiveChange
  <2>2. ASSUME NEW i \in Items, errors = 0, Absent(changeChan', i)
        PROVE  /\ LastHas(pendingChanges', i, store[i])
               /\ Absent(pendingChanges', i) /\ i \in touched' => cache'[i] = store[i]
    <3>1. CASE e.item = i
      BY SMTT(60), <1>0, <1>4, <2>1, <2>2, <3>1, AppendedEvent
    <3>2. CASE e.item # i
      <4>1. /\ Absent(pendingChanges', i) => Absent(pendingChanges, i)
            /\ LastHas(pendingChanges, i, store[i]) => LastHas(pendingChanges', i, store[i])
        BY SMTT(60), <1>0, <2>1, <3>2, AppendedEvent
      <4>2. /\ LastHas(pendingChanges, i, store[i])
            /\ Absent(pendingChanges, i) /\ i \in touched => cache[i] = store[i]
        BY <1>4, <2>2, <3>2 DEF PluginInv, EventsFollowStore
      <4>. QED BY <1>2, <2>1, <3>2, <4>1, <4>2
    <3>. QED BY SMTT(60), <3>1, <3>2
  <2>3. pendingChanges' \in Seq(Changes)
    BY SMTT(60), <1>0, <2>1
  <2>. QED BY <1>0, <1>2, <1>4, <2>1, <2>2, <2>3 DEF EventsFollowStore
<1>6. CASE pendingResync = None
  <2>1. /\ cache' = Update(cache, e) /\ pendingChanges' = pendingChanges /\ pendingChanges = <<>>
        /\ errors' = 0 => errors = 0
    <3>1. pendingChanges = <<>> /\ errors \in Nat
      BY <1>6, PolicyPluginAssumption DEF PluginInv, Stages, TypeOK
    <3>2. errors' = errors \/ errors' = errors + 1
      BY <1>6 DEF ReceiveChange
    <3>. QED BY <1>1, <1>6, <3>1, <3>2 DEF ReceiveChange
  <2>2. cache' \in Data /\ \A i \in Items : cache'[i] = IF e.item = i THEN e.val ELSE cache[i]
    BY <1>0, <2>1, AppliedEvent
  <2>3. ASSUME NEW i \in Items, errors' = 0, Absent(changeChan', i), i \in touched'
        PROVE  cache'[i] = store[i]
    <3>1. CASE e.item = i
      BY SMTT(60), <1>4, <2>2, <2>3, <3>1
    <3>2. CASE e.item # i
      <4>1. Absent(changeChan, i) /\ i \in touched /\ Absent(pendingChanges, i)
        BY <1>2, <1>4, <2>1, <2>3, <3>2, EmptyHas
      <4>. QED BY SMTT(60), <2>1, <2>2, <2>3, <3>2, <4>1 DEF PluginInv, EventsFollowStore
    <3>. QED BY <3>1, <3>2
  <2>4. \A i \in Items : LastHas(pendingChanges', i, store[i])
    BY <2>1, EmptyHas
  <2>. QED BY <1>0, <1>2, <1>4, <2>1, <2>2, <2>3, <2>4 DEF EventsFollowStore
<1>. QED BY <1>5, <1>6

\* A pending change is applied, before those behind it.
LEMMA ApplyStep ==
  ASSUME PluginInv, ApplyChange
  PROVE  EventsFollowStore' /\ cache' \in Data /\ pendingChanges' \in Seq(Changes)
<1>0. /\ UNCHANGED <<store, changeChan, touched>> /\ pendingChanges # <<>>
      /\ pendingChanges \in Seq(Changes) /\ cache \in Data /\ errors \in Nat
  BY PolicyPluginAssumption DEF PluginInv, TypeOK, ApplyChange, HandlerVars, ksrVars
<1>1. PICK e \in Changes : e = Head(pendingChanges)
  BY <1>0
<1>2. cache' = Update(cache, e)
  BY <1>1 DEF ApplyChange
<1>3. cache' \in Data /\ \A i \in Items : cache'[i] = IF e.item = i THEN e.val ELSE cache[i]
  BY SMTT(60), <1>0, <1>2, AppliedEvent
<1>4. CASE pendingChanges' = Tail(pendingChanges) /\ errors' = errors
  <2>1. ASSUME NEW i \in Items, errors = 0, Absent(changeChan, i)
        PROVE  /\ LastHas(pendingChanges', i, store[i])
               /\ Absent(pendingChanges', i) /\ i \in touched => cache'[i] = store[i]
    <3>1. /\ LastHas(pendingChanges, i, store[i])
          /\ Absent(pendingChanges, i) /\ i \in touched => cache[i] = store[i]
      BY SMTT(60), <2>1 DEF PluginInv, EventsFollowStore
    <3>2. /\ LastHas(pendingChanges', i, store[i])
          /\ Absent(pendingChanges', i) => IF e.item = i THEN e.val = store[i] ELSE Absent(pendingChanges, i)
      BY <1>0, <1>1, <1>4, <3>1, TakenEvent
    <3>. QED BY <1>3, <3>1, <3>2
  <2>2. pendingChanges' \in Seq(Changes)
    BY <1>0, <1>4
  <2>3. \A i \in Items : LastHas(changeChan, i, store[i])
    BY Zenon DEF PluginInv, EventsFollowStore
  <2>. QED BY SMTT(60), <1>0, <1>3, <1>4, <2>1, <2>2, <2>3 DEF EventsFollowStore
<1>5. CASE Fails
  <2>1. errors' # 0 /\ pendingChanges' \in Seq(Changes)
    BY <1>0, <1>5 DEF Fails, EndResync
  <2>. QED BY <1>0, <1>3, <2>1 DEF PluginInv, EventsFollowStore
<1>. QED BY <1>4, <1>5 DEF ApplyChange

----------------------------------------------------------------------------
(* The theorems.                                                           *)

\* Nothing is on its way when KSR and the plugin start.
LEMMA InitPluginInv == Init => PluginInv
<1>. SUFFICES ASSUME Init
              PROVE  PluginInv
  OBVIOUS
<1>1. KSRInv
  BY InitKSRInv DEF Init
<1>2. TypeOK
  BY <1>1, PolicyPluginAssumption DEF Init, TypeOK, KSRInv, Data
<1>3. Stages
  BY DEF Init, Stages
<1>4. EventsFollowStore
  <2>1. changeChan = <<>> /\ pendingChanges = <<>> /\ touched = {}
    BY DEF Init, KSRInit
  <2>. QED BY <2>1, EmptyHas DEF EventsFollowStore
<1>. QED BY <1>1, <1>2, <1>3, <1>4 DEF PluginInv

\* No step of KSR, of the agent or of the two goroutines loses the last event of an item.
LEMMA StepPluginInv == PluginInv /\ [Next]_vars => PluginInv'
<1>. SUFFICES ASSUME PluginInv, [Next]_vars
              PROVE  PluginInv'
  OBVIOUS
<1>0. KSRInv'
  <2>1. [KSRNext \/ Receive]_ksrVars
    BY SMTT(60) DEF Next, vars, StartResync, ListFails, ResyncTimeout, ReceiveResync, ReceiveChange, HandleResync,
                    SkipResync, ApplyChange, ResyncDone, HandlerVars
  <2>. QED BY SMTT(60), <2>1, StepKSRInv DEF PluginInv
<1>. USE PolicyPluginAssumption
<1>1. CASE UNCHANGED vars
  <2>1. UNCHANGED <<ksrVars, pluginVars>>
    BY <1>1 DEF vars
  <2>. QED BY <1>0, <2>1 DEF ksrVars, pluginVars, PluginInv, KSRInv, TypeOK, Stages, EventsFollowStore
<1>2. CASE KSRNext /\ UNCHANGED pluginVars
  <2>1. EventsFollowStore'
    BY <1>2, PublishStep
  <2>2. TypeOK' /\ Stages'
    BY <1>0, <1>2 DEF pluginVars, PluginInv, KSRInv, TypeOK, Stages
  <2>. QED BY <1>0, <2>1, <2>2 DEF PluginInv
<1>3. CASE StartResync \/ ListFails \/ ResyncTimeout
  <2>0. store \in Data
    BY DEF PluginInv, KSRInv, KSRTypeOK
  <2>1. TypeOK'
    BY <1>0, <1>3, <2>0 DEF StartResync, ListFails, ResyncTimeout, PluginInv, KSRInv, TypeOK
  <2>2. Stages'
    BY SMTT(60), <1>3 DEF StartResync, ListFails, ResyncTimeout, PluginInv, Stages
  <2>3. EventsFollowStore'
    BY <1>3 DEF StartResync, ListFails, ResyncTimeout, ksrVars, PluginInv, EventsFollowStore
  <2>. QED BY <1>0, <2>1, <2>2, <2>3 DEF PluginInv
<1>4. CASE ReceiveResync
  <2>1. pendingChanges = <<>>
    BY <1>4 DEF ReceiveResync, PluginInv, Stages
  <2>2. TypeOK'
    BY <1>0, <1>4 DEF ReceiveResync, PluginInv, KSRInv, TypeOK
  <2>3. Stages'
    BY SMTT(60), <1>4 DEF ReceiveResync, PluginInv, Stages
  <2>4. EventsFollowStore'
    BY <1>4, <2>1 DEF ReceiveResync, ksrVars, PluginInv, EventsFollowStore
  <2>. QED BY <1>0, <2>2, <2>3, <2>4 DEF PluginInv
<1>5. CASE ReceiveChange
  <2>1. EventsFollowStore' /\ cache' \in Data /\ pendingChanges' \in Seq(Changes) /\ touched' \subseteq Items
    BY <1>5, ReceiveStep
  <2>2. errors' \in 0..MaxErrors
    BY SMTT(60), <1>5 DEF ReceiveChange, PluginInv, TypeOK
  <2>3. TypeOK'
    BY SMTT(60), <1>0, <1>5, <2>1, <2>2 DEF ReceiveChange, PluginInv, KSRInv, TypeOK
  <2>4. Stages'
    BY <1>5 DEF ReceiveChange, PluginInv, Stages
  <2>. QED BY <1>0, <2>1, <2>3, <2>4 DEF PluginInv
<1>6. ASSUME errors' \in {errors, errors + 1}, errors' # errors => Fails
      PROVE  errors' \in 0..MaxErrors
  BY <1>6 DEF Fails, PluginInv, TypeOK
<1>7. CASE HandleResync
  <2>1. errors' \in 0..MaxErrors
    BY <1>6, <1>7 DEF HandleResync, Fails
  <2>2. TypeOK'
    <3>1. pendingChanges' \in Seq(Changes) /\ pendingResync' \in Data \cup {None} /\ resync' \in {"applying", "done"}
      <4>1. pendingChanges \in Seq(Changes) /\ pendingResync \in Data \cup {None} /\ <<>> \in Seq(Changes)
        BY DEF PluginInv, TypeOK
      <4>. QED BY Zenon, <1>7, <4>1 DEF HandleResync, Fails, EndResync
    <3>2. UNCHANGED <<touched, resyncChan, cache>>
      BY <1>7 DEF HandleResync, CacheResync, HandlerVars
    <3>. QED BY <1>0, <2>1, <3>1, <3>2 DEF PluginInv, KSRInv, TypeOK
  <2>3. Stages'
    BY <1>7 DEF HandleResync, Fails, EndResync, HandlerVars, PluginInv, Stages
  <2>4. EventsFollowStore'
    <3>1. UNCHANGED <<store, changeChan, touched, cache>>
      BY <1>7 DEF HandleResync, CacheResync, HandlerVars, ksrVars
    <3>2. CASE UNCHANGED <<pendingChanges, errors>>
      BY <3>1, <3>2 DEF PluginInv, EventsFollowStore
    <3>3. CASE Fails
      <4>1. errors' # 0
        BY <3>3 DEF Fails, PluginInv, TypeOK
      <4>. QED BY <3>1, <4>1 DEF PluginInv, EventsFollowStore
    <3>. QED BY <1>7, <3>2, <3>3 DEF HandleResync
  <2>. QED BY <1>0, <2>2, <2>3, <2>4 DEF PluginInv
<1>8. CASE ApplyChange
  <2>1. EventsFollowStore' /\ cache' \in Data /\ pendingChanges' \in Seq(Changes)
    BY <1>8, ApplyStep
  <2>2. errors' \in 0..MaxErrors
    BY SMTT(60), <1>6, <1>8 DEF ApplyChange, Fails
  <2>3. TypeOK'
    BY <1>0, <1>8, <2>1, <2>2 DEF ApplyChange, Fails, EndResync, HandlerVars, PluginInv, KSRInv, TypeOK
  <2>4. Stages'
    BY <1>8 DEF ApplyChange, Fails, EndResync, HandlerVars, PluginInv, Stages
  <2>. QED BY <1>0, <2>1, <2>3, <2>4 DEF PluginInv
<1>9. CASE ResyncDone
  <2>1. TypeOK'
    BY <1>0, <1>9 DEF ResyncDone, EndResync, HandlerVars, PluginInv, KSRInv, TypeOK
  <2>2. Stages'
    BY SMTT(60), <1>9 DEF ResyncDone, EndResync, HandlerVars, Locked, PluginInv, Stages
  <2>3. EventsFollowStore'
    BY <1>9 DEF ResyncDone, EndResync, HandlerVars, ksrVars, PluginInv, EventsFollowStore
  <2>. QED BY SMTT(60), <1>0, <2>1, <2>2, <2>3 DEF PluginInv
<1>10. CASE SkipResync
  <2>1. TypeOK'
    BY <1>0, <1>10 DEF SkipResync, HandlerVars, PluginInv, KSRInv, TypeOK
  <2>2. Stages'
    BY SMTT(60), <1>10 DEF SkipResync, HandlerVars, PluginInv, Stages
  <2>3. EventsFollowStore'
    BY <1>10 DEF SkipResync, HandlerVars, ksrVars, PluginInv, EventsFollowStore
  <2>. QED BY SMTT(60), <1>0, <2>1, <2>2, <2>3 DEF PluginInv
<1>. QED BY <1>1, <1>2, <1>3, <1>4, <1>5, <1>7, <1>8, <1>9, <1>10 DEF Next

\* Every variable keeps its type, in the handlers of the events too.
THEOREM PluginTypes == Spec => []TypeOK
<1>1. PluginInv => TypeOK
  BY DEF PluginInv
<1>. QED BY <1>1, InitPluginInv, StepPluginInv, PTL DEF Spec

\* watchEvents and handleResync: as long as no watcher returned an error, the last change
\* of an item that the plugin received is the last one delayed or, when none is, what the
\* cache has, and it is what the item is in K8s once KSR and the channel are done with it.
THEOREM LastChangeWins == Spec => []ChangesReachCache
<1>1. PluginInv => ChangesReachCache
  <2>. SUFFICES ASSUME PluginInv, errors = 0, NEW i \in touched \ lost, notifications[i] = <<>>,
                       \A n \in 1..Len(changeChan) : changeChan[n].item # i
                PROVE  /\ Delayed(i) = {} => cache[i] = Message(k8s[i])
                       /\ \A n \in Delayed(i) :
                            (\A m \in Delayed(i) : m <= n) => pendingChanges[n].val = Message(k8s[i])
    BY DEF ChangesReachCache
  <2>1. i \in Items /\ Absent(changeChan, i)
    BY DEF PluginInv, TypeOK, Absent
  <2>2. /\ LastHas(pendingChanges, i, store[i])
        /\ Absent(pendingChanges, i) => cache[i] = store[i]
    BY <2>1 DEF PluginInv, EventsFollowStore
  <2>3. store[i] = Message(k8s[i])
    BY <2>1 DEF PluginInv, KSRInv, StoreFollowsK8s
  <2>4. Delayed(i) = {} => cache[i] = Message(k8s[i])
    BY <2>2, <2>3 DEF Delayed, Absent
  <2>5. ASSUME NEW n \in Delayed(i), \A m \in Delayed(i) : m <= n
        PROVE  pendingChanges[n].val = Message(k8s[i])
    <3>1. n \in 1..Len(pendingChanges) /\ pendingChanges[n].item = i /\ Len(pendingChanges) \in Nat
      BY DEF Delayed, PluginInv, TypeOK
    <3>2. ASSUME NEW m \in (n + 1)..Len(pendingChanges), pendingChanges[m].item = i PROVE FALSE
      <4>1. m \in 1..Len(pendingChanges) /\ n < m
        BY <3>1
      <4>2. m \in Delayed(i)
        BY <3>2, <4>1 DEF Delayed
      <4>. QED BY <2>5, <3>1, <4>1, <4>2
    <3>. QED BY <2>2, <2>3, <3>1, <3>2 DEF LastHas
  <2>. QED BY <2>4, <2>5
<1>. QED BY <1>1, InitPluginInv, StepPluginInv, PTL DEF Spec
=============================================================================
