---------------------------- MODULE PolicyPlugin ----------------------------
(***************************************************************************)
(* The entry of the policy plugin (plugins/policy/plugin_impl_policy.go)   *)
(* and the K8s state data of its cache (plugins/policy/cache). The plugin  *)
(* receives the K8s state from etcd as a resync event and change events.   *)
(* A resync is delayed until the Contiv plugin is re-synchronised, and     *)
(* changes that follow it are delayed with it.                             *)
(*                                                                         *)
(* The resync orchestrator (cn-infra/datasync/resync) starts the resync of *)
(* one registration after the other, once, when the agent has started: the *)
(* K8s data are listed and sent, the Contiv plugin is re-synchronised, and *)
(* the policy plugin is told (Started). Each part has five seconds.        *)
(*                                                                         *)
(* Etcd is filled as in module KSR. A watcher of the cache (the policy     *)
(* processor) may return an error for a change.                            *)
(***************************************************************************)
EXTENDS KSR

CONSTANT
  MaxErrors           \* bound on errors of watchers

ASSUME PolicyPluginAssumption == MaxErrors \in Nat

None == <<>>          \* no event

VARIABLES
  touched,            \* history: items with an event since the plugin watches
  resyncChan,         \* the resync event on its way, or None
  pendingResync, pendingChanges,
  resync,             \* how far the orchestrator is
  cache,              \* indexes of namespaces, pods and policies
  errors

pluginVars == <<touched, resyncChan, pendingResync, pendingChanges, resync, cache, errors>>
vars == <<ksrVars, pluginVars>>

TypeOK ==
  /\ KSRTypeOK
  /\ cache \in Data
  /\ touched \subseteq Items
  /\ pendingChanges \in Seq(Changes)
  /\ resyncChan \in Data \cup {None} /\ pendingResync \in Data \cup {None}
  /\ resync \in {"none", "listed", "contiv", "applying", "done", "skipped"}
  /\ errors \in 0..MaxErrors

Init ==
  /\ KSRInit
  /\ touched = {}
  /\ resyncChan = None
  /\ pendingResync = None /\ pendingChanges = <<>>
  /\ resync = "none"
  /\ cache = [i \in Items |-> NoValue]
  /\ errors = 0

\* The K8s data are listed and sent.
StartResync ==
  /\ resync = "none"
  /\ resync' = "listed"
  /\ resyncChan' = store
  /\ UNCHANGED <<ksrVars, touched, pendingResync, pendingChanges, cache, errors>>

\* Etcd does not answer: the error is logged, and nothing is sent.
ListFails ==
  /\ resync = "none"
  /\ resync' = "contiv"
  /\ UNCHANGED <<ksrVars, touched, resyncChan, pendingResync, pendingChanges, cache, errors>>

\* The event is not received in time (the plugin is busy with a change), and the
\* orchestrator goes on.
ResyncTimeout ==
  /\ resync = "listed"
  /\ resync' = "contiv"
  /\ UNCHANGED <<ksrVars, touched, resyncChan, pendingResync, pendingChanges, cache, errors>>

----------------------------------------------------------------------------
(* The cache.                                                              *)

\* Seeded fault: the item is registered under its key in etcd, not under its ID.
UpdateByKey(c, change) ==
  [i \in DOMAIN c \cup {<<"key", change.item>>} |-> IF i \in DOMAIN c THEN c[i] ELSE change.val]

\* changePropagateEvent: the index is updated before the watchers are called.
Update(c, change) == [c EXCEPT ![change.item] = change.val]

\* Resync of the cache: the event is parsed and the watchers are notified, the
\* indexes are left alone.
CacheResync(c, data) == c

----------------------------------------------------------------------------
(* watchEvents and handleResync, under resyncLock.                         *)

Locked == resync = "applying"

ReceiveResync ==
  /\ resyncChan # None /\ ~Locked
  /\ pendingResync' = resyncChan
  /\ pendingChanges' = <<>>
  /\ resyncChan' = None
  /\ resync' = IF resync = "listed" THEN "contiv" ELSE resync
  /\ UNCHANGED <<ksrVars, touched, cache, errors>>

ReceiveChange ==
  /\ Receive /\ ~Locked
  /\ touched' = touched \cup {Head(changeChan).item}
  /\ \/ /\ pendingResync # None
        /\ pendingChanges' = Append(pendingChanges, Head(changeChan))
        /\ UNCHANGED <<cache, errors>>
     \/ /\ pendingResync = None
        /\ cache' = Update(cache, Head(changeChan))
        /\ \/ UNCHANGED errors
           \/ errors < MaxErrors /\ errors' = errors + 1      \* logged only
        /\ UNCHANGED pendingChanges
  /\ UNCHANGED <<resyncChan, pendingResync, resync>>

HandlerVars == <<ksrVars, touched, resyncChan>>

\* Seeded fault: the pending resync is not cleared.
EndWithoutClearing == UNCHANGED pendingResync /\ pendingChanges' = <<>> /\ resync' = "done"

\* What is left of the pending changes is dropped, and the lock is released.
EndResync == pendingResync' = None /\ pendingChanges' = <<>> /\ resync' = "done"

Fails == errors < MaxErrors /\ errors' = errors + 1 /\ EndResync

\* Seeded fault: the pending changes are not applied.
HandleResyncOnly ==
  /\ resync = "contiv" /\ pendingResync # None
  /\ cache' = CacheResync(cache, pendingResync)
  /\ EndResync
  /\ UNCHANGED <<HandlerVars, errors>>

\* handleResync on Started: the pending resync comes first.
HandleResync ==
  /\ resync = "contiv" /\ pendingResync # None
  /\ cache' = CacheResync(cache, pendingResync)
  /\ \/ resync' = "applying" /\ UNCHANGED <<pendingResync, pendingChanges, errors>>
     \/ Fails
  /\ UNCHANGED HandlerVars

\* Started, and nothing is pending: it is acknowledged.
SkipResync ==
  /\ resync = "contiv" /\ pendingResync = None
  /\ resync' = "skipped"
  /\ UNCHANGED <<HandlerVars, pendingResync, pendingChanges, cache, errors>>

\* Then the pending changes, one by one, until one of them fails. (Here they are
\* taken from the list as they are applied.)
ApplyChange ==
  /\ Locked /\ pendingChanges # <<>>
  /\ cache' = Update(cache, Head(pendingChanges))
  /\ \/ pendingChanges' = Tail(pendingChanges) /\ UNCHANGED <<pendingResync, resync, errors>>
     \/ Fails
  /\ UNCHANGED HandlerVars

ResyncDone ==
  /\ Locked /\ pendingChanges = <<>>
  /\ EndResync
  /\ UNCHANGED <<HandlerVars, cache, errors>>

Next ==
  \/ KSRNext /\ UNCHANGED pluginVars
  \/ StartResync \/ ListFails \/ ResyncTimeout
  \/ ReceiveResync \/ ReceiveChange
  \/ HandleResync \/ SkipResync \/ ApplyChange \/ ResyncDone

Spec == Init /\ [][Next]_vars

\* The reflectors and both goroutines of the plugin run, and the orchestrator
\* tells the plugin to start.
FairSpec ==
  /\ Spec
  /\ \A i \in Items : WF_vars(Reflect(i) /\ UNCHANGED pluginVars)
  /\ WF_vars(ReceiveResync) /\ WF_vars(ReceiveChange)
  /\ WF_vars(HandleResync \/ SkipResync \/ ApplyChange \/ ResyncDone)

----------------------------------------------------------------------------
(* Properties.                                                             *)

\* The changes of an item that are delayed.
Delayed(i) == {n \in 1..Len(pendingChanges) : pendingChanges[n].item = i}

\* What changes in K8s while the plugin watches reaches the plugin, and the last change
\* wins: it is the last one delayed or, when none is, in the cache, also when delayed
\* changes and changes applied at once alternate, the resync event comes early, late
\* or not at all, and KSR fails to write or restarts. (An error of a watcher drops the
\* delayed changes behind it.)
ChangesReachCache ==
  errors = 0 =>
    \A i \in touched \ lost :
      notifications[i] = <<>> /\ (\A n \in 1..Len(changeChan) : changeChan[n].item # i) =>
        /\ Delayed(i) = {} => cache[i] = Message(k8s[i])
        /\ \A n \in Delayed(i) :
             (\A m \in Delayed(i) : m <= n) => pendingChanges[n].val = Message(k8s[i])

Drained == changeChan = <<>> /\ resyncChan = None /\ pendingResync = None

\* The resync event was not there when the plugin was told to start.
Missed == resync = "skipped" /\ (resyncChan # None \/ pendingResync # None)

\* Events do not stay on their way or delayed, from K8s to the cache, with one
\* exception: a resync event that comes after Started stays pending, and with it all
\* changes that follow, as the orchestrator does not start the plugin again.
EventsApplied ==
  (\E i \in Items : notifications[i] # <<>>) ~>
    (Missed \/ (Drained /\ \A i \in Items : notifications[i] = <<>>))

\* After a resync the content of the cache is what was in etcd (the comment at
\* PolicyCache.Resync).
ResyncFillsCache == (Drained /\ resync = "done") => cache = store
=============================================================================
