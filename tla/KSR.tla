-------------------------------- MODULE KSR ---------------------------------
(***************************************************************************)
(* Contiv-KSR (plugins/ksr): reflectors subscribe to the namespaces, pods  *)
(* and network policies of K8s and write them to etcd, from where agents   *)
(* watch them. A write that fails is logged and forgotten.                 *)
(*                                                                         *)
(* An item is a namespace, a pod or a policy under its key. Each reflector *)
(* has a goroutine, so that only the notifications of one item are ordered.*)
(***************************************************************************)
EXTENDS Naturals, Sequences

CONSTANTS
  Items,
  Objects,            \* states of an object of K8s
  Values,             \* messages in etcd
  toProto,            \* the message for an object: some of its fields, labels in any order
  NoValue,            \* the item does not exist
  InitialData,        \* states of K8s and of etcd when KSR starts: pairs
  MaxChanges,         \* bound on changes in K8s
  MaxWriteErrors,     \* bound on writes that fail
  MaxRestarts         \* bound on restarts of KSR

K8sData == [Items -> Objects \cup {NoValue}]
Data == [Items -> Values \cup {NoValue}]

ASSUME KSRAssumption ==
  /\ NoValue \notin Values \cup Objects
  /\ toProto \in [Objects -> Values]
  /\ InitialData \subseteq K8sData \X Data
  /\ {MaxChanges, MaxWriteErrors, MaxRestarts} \subseteq Nat

Changes == [item : Items, val : Values \cup {NoValue}]

VARIABLES
  k8s,                \* state of K8s
  notifications,      \* of the informers, per item: objects, or NoValue for a deletion
  store,              \* etcd
  changeChan,         \* events of etcd on their way to the plugin
  lost,               \* history: items the last change of which was not written
  changes, writeErrors, restarts

ksrVars == <<k8s, notifications, store, changeChan, lost, changes, writeErrors, restarts>>

KSRTypeOK ==
  /\ k8s \in K8sData /\ store \in Data
  /\ notifications \in [Items -> Seq(Objects \cup {NoValue})]
  /\ changeChan \in Seq(Changes)
  /\ lost \subseteq Items
  /\ changes \in 0..MaxChanges /\ writeErrors \in 0..MaxWriteErrors /\ restarts \in 0..MaxRestarts

\* Seeded fault: items that are in etcd are not written again.
MissingOnly(i) == IF k8s[i] # NoValue /\ store[i] = NoValue THEN <<k8s[i]>> ELSE <<>>

\* AddFunc or UpdateFunc is called for every item in the list.
Listed(i) == IF k8s[i] # NoValue THEN <<k8s[i]>> ELSE <<>>

\* Deleted items that are in etcd are not in the list.
Forgotten == {i \in Items : k8s[i] = NoValue /\ store[i] # NoValue}

\* Etcd has what an earlier run of KSR left there.
KSRInit ==
  /\ \E d \in InitialData : k8s = d[1] /\ store = d[2]
  /\ notifications = [i \in Items |-> Listed(i)]
  /\ changeChan = <<>>
  /\ lost = Forgotten
  /\ changes = 0 /\ writeErrors = 0 /\ restarts = 0

K8sChange(i, obj) ==
  /\ changes < MaxChanges /\ k8s[i] # obj
  /\ k8s' = [k8s EXCEPT ![i] = obj]
  /\ notifications' = [notifications EXCEPT ![i] = Append(@, obj)]
  /\ changes' = changes + 1
  /\ UNCHANGED <<store, changeChan, lost, writeErrors, restarts>>

\* podToProto, policyToProto and namespaceToProto
Message(obj) == IF obj = NoValue THEN NoValue ELSE toProto[obj]

\* Publish.Put and Publish.Delete; deleting a key that is not there is no event.
Publish(i, v) ==
  /\ store' = [store EXCEPT ![i] = v]
  /\ changeChan' = IF v = NoValue /\ store[i] = NoValue THEN changeChan
                   ELSE Append(changeChan, [item |-> i, val |-> v])

\* addPod, updatePod, deletePod, and those of namespaces and policies
Reflect(i) ==
  /\ notifications[i] # <<>>
  /\ notifications' = [notifications EXCEPT ![i] = Tail(@)]
  /\ \/ /\ Publish(i, Message(Head(notifications[i])))
        /\ lost' = lost \ {i}
        /\ UNCHANGED writeErrors
     \/ /\ writeErrors < MaxWriteErrors /\ writeErrors' = writeErrors + 1
        /\ lost' = lost \cup {i}
        /\ UNCHANGED <<store, changeChan>>
  /\ UNCHANGED <<k8s, changes, restarts>>

\* Notifications that were not handled are lost with KSR. The new one lists the
\* items, and does not notice those that were deleted in the meantime.
RestartKSR ==
  /\ restarts < MaxRestarts /\ restarts' = restarts + 1
  /\ notifications' = [i \in Items |-> Listed(i)]
  /\ lost' = (lost \cap {i \in Items : k8s[i] # NoValue}) \cup Forgotten
  /\ UNCHANGED <<k8s, store, changeChan, changes, writeErrors>>

\* The plugin takes an event of etcd.
Receive ==
  /\ changeChan # <<>>
  /\ changeChan' = Tail(changeChan)
  /\ UNCHANGED <<k8s, notifications, store, lost, changes, writeErrors, restarts>>

KSRNext ==
  \/ \E i \in Items : Reflect(i) \/ \E obj \in Objects \cup {NoValue} : K8sChange(i, obj)
  \/ RestartKSR

KSRSpec == KSRInit /\ [][KSRNext \/ Receive]_ksrVars

----------------------------------------------------------------------------
(* Properties.                                                             *)

\* Once its notifications are handled, an item has in etcd the message for what it
\* is in K8s, after any number of restarts and failed writes, unless the last write failed
\* (addPod, updatePod, deletePod only log that) or the deletion was not seen. A
\* restart makes good for items that exist, whatever is in etcd.
StoreFollowsK8s ==
  \A i \in Items \ lost : notifications[i] = <<>> => store[i] = Message(k8s[i])

\* The last notification on its way is the current state of the item.
LastIsCurrent ==
  \A i \in Items : notifications[i] # <<>> => notifications[i][Len(notifications[i])] = k8s[i]

KSRInv == KSRTypeOK /\ LastIsCurrent /\ StoreFollowsK8s
=============================================================================
