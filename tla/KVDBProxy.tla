------------------------------ MODULE KVDBProxy ------------------------------
(***************************************************************************)
(* The proxy between the plugins of the agent and the data store           *)
(* (plugins/kvdbproxy). The CNI server applies a set of changes to VPP     *)
(* itself and then persists them key by key (persistChanges); the change   *)
(* event that a write causes has to be kept from the plugins that watch    *)
(* the data store, through a list of events to ignore. Other clients of    *)
(* the data store write other keys.                                        *)
(***************************************************************************)
EXTENDS Naturals, Sequences

CONSTANTS
  OwnKeys,            \* keys the CNI server persists
  ForeignKeys,        \* keys other clients write
  Configs,
  NoConfig,           \* no value
  MaxWrites,          \* bound on writes
  MaxFailures         \* bound on failing writes

ASSUME KVDBProxyAssumption ==
  /\ NoConfig \notin Configs
  /\ OwnKeys \cap ForeignKeys = {}
  /\ MaxWrites \in Nat /\ MaxFailures \in Nat

Keys == OwnKeys \cup ForeignKeys

VARIABLES
  datastore,          \* the data store
  applied,            \* configuration of VPP
  events,             \* change events on their way to the proxy
  ignoreList,         \* operation to be ignored, per key
  sending,            \* the event the filter is sending, with the mutex locked
  writer,             \* persistChanges: where it is, what it has yet to persist
  unsaved,            \* history: own keys left behind by a persistChanges that failed
  unanswered,         \* history: own keys whose last entry has no event to wait for
  overlapped,         \* history: own keys written while the event of an earlier write was pending
  writes, failures

proxyVars == <<datastore, applied, events, ignoreList, sending, writer, unsaved, unanswered, overlapped, writes, failures>>

Op(val) == IF val = NoConfig THEN "Delete" ELSE "Put"
Values == Configs \cup {NoConfig}
ProxyChanges == [key : Keys, val : Values, own : BOOLEAN]

\* The arguments of persistChanges: keys to remove, or keys to put with their values.
Calls == UNION {[S -> {NoConfig}] \cup [S -> Configs] : S \in SUBSET OwnKeys \ {{}}}

Idle == [at |-> "idle"]

ProxyTypeOK ==
  /\ datastore \in [Keys -> Values]
  /\ applied \in [Keys -> Values]
  /\ events \in Seq(ProxyChanges)
  /\ ignoreList \in [Keys -> {"Put", "Delete", "none"}]
  /\ sending = Idle \/ sending \in ProxyChanges
  /\ \/ writer = Idle
     \/ writer \in [at : {"ignore"}, todo : Calls]
     \/ writer \in [at : {"write"}, todo : Calls, key : OwnKeys] /\ writer.key \in DOMAIN writer.todo
  /\ unsaved \subseteq OwnKeys /\ unanswered \subseteq OwnKeys /\ overlapped \subseteq OwnKeys
  /\ writes \in 0..MaxWrites /\ failures \in 0..MaxFailures

ProxyInit ==
  /\ datastore = [k \in Keys |-> NoConfig]
  /\ applied = datastore
  /\ events = <<>>
  /\ ignoreList = [k \in Keys |-> "none"]
  /\ sending = Idle /\ writer = Idle
  /\ unsaved = {} /\ unanswered = {} /\ overlapped = {}
  /\ writes = 0 /\ failures = 0

Pending(k) == \E i \in 1..Len(events) : events[i].own /\ events[i].key = k

\* The data store notifies about a write, but not about the removal of nothing.
Write(k, v, own) ==
  /\ datastore' = [datastore EXCEPT ![k] = v]
  /\ events' = IF v = NoConfig /\ datastore[k] = NoConfig THEN events
               ELSE Append(events, [key |-> k, val |-> v, own |-> own])

\* The CNI server has applied all changes of a request and starts to persist them.
StartPersist(changes) ==
  /\ writer = Idle /\ writes < MaxWrites
  /\ applied' = [k \in Keys |-> IF k \in DOMAIN changes THEN changes[k] ELSE applied[k]]
  /\ writer' = [at |-> "ignore", todo |-> changes]
  /\ writes' = writes + 1
  /\ UNCHANGED <<datastore, events, ignoreList, sending, unsaved, unanswered, overlapped, failures>>

\* Seeded fault: an entry that is there already is kept.
AddIgnoreEntryOnce ==
  /\ writer.at = "ignore" /\ sending = Idle
  /\ \E k \in DOMAIN writer.todo :
       /\ ignoreList' = [ignoreList EXCEPT ![k] = IF @ = "none" THEN Op(writer.todo[k]) ELSE @]
       /\ writer' = [at |-> "write", todo |-> writer.todo, key |-> k]
       /\ overlapped' = overlapped \cup {o \in {k} : Pending(o)}
  /\ UNCHANGED <<datastore, applied, events, sending, unsaved, unanswered, writes, failures>>

\* Seeded fault: the entry is added for the name of the item, not for its key.
AddIgnoreEntryName ==
  /\ writer.at = "ignore" /\ sending = Idle
  /\ \E k \in DOMAIN writer.todo :
       /\ ignoreList' = [e \in DOMAIN ignoreList \cup {<<"name", k>>} |->
                           IF e \in Keys THEN ignoreList[e] ELSE Op(writer.todo[k])]
       /\ writer' = [at |-> "write", todo |-> writer.todo, key |-> k]
       /\ overlapped' = overlapped \cup {o \in {k} : Pending(o)}
  /\ UNCHANGED <<datastore, applied, events, sending, unsaved, unanswered, writes, failures>>

\* AddIgnoreEntry, which waits for the mutex, for the next key (puts are kept in a map).
AddIgnoreEntry ==
  /\ writer.at = "ignore" /\ sending = Idle
  /\ \E k \in DOMAIN writer.todo :
       /\ ignoreList' = [ignoreList EXCEPT ![k] = Op(writer.todo[k])]
       /\ writer' = [at |-> "write", todo |-> writer.todo, key |-> k]
       /\ overlapped' = overlapped \cup {o \in {k} : Pending(o)}
  /\ UNCHANGED <<datastore, applied, events, sending, unsaved, unanswered, writes, failures>>

\* Put or Delete of the key, after which the next one is persisted.
Persist ==
  /\ writer.at = "write"
  /\ LET k == writer.key
         left == DOMAIN writer.todo \ {k}
     IN /\ Write(k, writer.todo[k], TRUE)
        /\ unsaved' = unsaved \ {k}
        /\ unanswered' = IF events' = events THEN unanswered \cup {k} ELSE unanswered \ {k}
        /\ writer' = IF left = {} THEN Idle
                     ELSE [at |-> "ignore", todo |-> [o \in left |-> writer.todo[o]]]
  /\ UNCHANGED <<applied, ignoreList, sending, overlapped, writes, failures>>

\* persistChanges returns the error: the entry stays in the list, and the keys that
\* are left, applied like the others, are not persisted.
PersistFails ==
  /\ writer.at = "write" /\ failures < MaxFailures
  /\ failures' = failures + 1
  /\ unsaved' = unsaved \cup DOMAIN writer.todo
  /\ unanswered' = unanswered \cup {writer.key}
  /\ writer' = Idle
  /\ UNCHANGED <<datastore, applied, events, ignoreList, sending, overlapped, writes>>

ForeignWrite(k, v) ==
  /\ writes < MaxWrites
  /\ Write(k, v, FALSE)
  /\ writes' = writes + 1
  /\ UNCHANGED <<applied, ignoreList, sending, writer, unsaved, unanswered, overlapped, failures>>

\* Seeded fault: the entry is not removed once its event is skipped.
FilterKeepsEntry ==
  /\ sending = Idle /\ events # <<>>
  /\ LET m == Head(events) IN
     IF ignoreList[m.key] = Op(m.val)
       THEN UNCHANGED <<ignoreList, sending>>
       ELSE sending' = m /\ UNCHANGED ignoreList
  /\ events' = Tail(events)
  /\ UNCHANGED <<datastore, applied, writer, unsaved, unanswered, overlapped, writes, failures>>

\* The filter takes an event, and locks the mutex until it is skipped or received.
Filter ==
  /\ sending = Idle /\ events # <<>>
  /\ LET m == Head(events) IN
     IF ignoreList[m.key] = Op(m.val)
       THEN ignoreList' = [ignoreList EXCEPT ![m.key] = "none"] /\ UNCHANGED sending
       ELSE sending' = m /\ UNCHANGED ignoreList
  /\ events' = Tail(events)
  /\ UNCHANGED <<datastore, applied, writer, unsaved, unanswered, overlapped, writes, failures>>

\* Seeded fault: the mutex stays locked after the event is received.
ReceiveLocked ==
  /\ sending # Idle
  /\ applied' = [applied EXCEPT ![sending.key] = sending.val]
  /\ UNCHANGED <<datastore, events, ignoreList, sending, writer, unsaved, unanswered, overlapped, writes, failures>>

\* A plugin receives the event from changeChan and applies it.
ReceiveEvent ==
  /\ sending # Idle
  /\ applied' = [applied EXCEPT ![sending.key] = sending.val]
  /\ sending' = Idle
  /\ UNCHANGED <<datastore, events, ignoreList, writer, unsaved, unanswered, overlapped, writes, failures>>

ProxyNext ==
  \/ \E changes \in Calls : StartPersist(changes)
  \/ AddIgnoreEntry \/ Persist \/ PersistFails
  \/ \E k \in ForeignKeys, v \in Values : ForeignWrite(k, v)
  \/ Filter \/ ReceiveEvent

ProxySpec == ProxyInit /\ [][ProxyNext]_proxyVars

\* The goroutines run; persistChanges gets the mutex that the filter takes again
\* and again for as long as there are events.
ProxyFairSpec ==
  /\ ProxySpec
  /\ WF_proxyVars(Filter) /\ WF_proxyVars(ReceiveEvent) /\ WF_proxyVars(Persist) /\ SF_proxyVars(AddIgnoreEntry)

----------------------------------------------------------------------------
(* Properties.                                                             *)

\* No event that persisting caused reaches the plugins (the change is applied
\* already), unless its key was written again before the event came back: that
\* is the only case the entries of the list, one per key, do not tell apart.
OwnEventsIgnored == (sending # Idle /\ sending.own) => sending.key \in overlapped

\* When nothing is under way VPP and the data store agree, but for the keys that a
\* persistChanges which returned an error had not come to, up to their next write;
\* keys it had persisted before the error agree. No entry is left to swallow a later
\* event, except where there was no event to wait for. (Keys written twice in a row
\* are the limitation stated by the proxy.)
VPPConverges ==
  (events = <<>> /\ sending = Idle /\ writer = Idle) =>
    \A k \in Keys \ overlapped :
      /\ k \notin unsaved => applied[k] = datastore[k]
      /\ k \notin unanswered => ignoreList[k] = "none"

\* persistChanges is never blocked for good by a filter that holds the mutex
\* while it waits for a plugin.
PersistTerminates == (writer # Idle) ~> (writer = Idle)
=============================================================================
