---------------------------- MODULE AgentProofs -----------------------------
(***************************************************************************)
(* Two parts of the contiv agent. The proxy of the data store keeps the    *)
(* agent's own writes from its plugins, for any number of keys, values,    *)
(* writes and failures. The policy configurator gives its renderers the    *)
(* rules of the policies last committed for a pod, for any number of pods, *)
(* policies, renderers and transactions.                                   *)
(***************************************************************************)
EXTENDS Configurator, KVDBProxy, TLAPS

----------------------------------------------------------------------------
(* The proxy: the list has an entry for every own event that is on its way.*)

\* The events of a key that are on their way.
EventsOf(k) == {i \in 1..Len(events) : events[i].key = k}

Writing(k) == writer.at = "write" /\ writer.key = k
Todo(k) == writer.at # "idle" /\ k \in DOMAIN writer.todo

\* Own events have own keys, those of others have theirs.
Origins ==
  /\ \A i \in 1..Len(events) : IF events[i].own THEN events[i].key \in OwnKeys
                                                ELSE events[i].key \in ForeignKeys
  /\ sending # Idle => IF sending.own THEN sending.key \in overlapped
                                      ELSE sending.key \in ForeignKeys

\* While the event of the only write of an own key is on its way, or is about to be, the
\* list has the entry for it.
EntryForEvent ==
  \A k \in OwnKeys \ overlapped :
    /\ \A i \in EventsOf(k) : /\ ignoreList[k] = Op(events[i].val)
                              /\ EventsOf(k) = {i}
                              /\ ~Writing(k)
    /\ Writing(k) => ignoreList[k] = Op(writer.todo[k])

\* VPP has what is about to be persisted, or what is in the data store, unless persisting
\* it failed. An entry is left once its event has passed only if there was no event.
OwnKeysApplied ==
  \A k \in OwnKeys \ overlapped :
    /\ Todo(k) => applied[k] = writer.todo[k]
    /\ ~Todo(k) /\ k \notin unsaved => applied[k] = datastore[k]
    /\ k \notin unanswered => (ignoreList[k] # "none" => EventsOf(k) # {} \/ Writing(k))

\* The last event of another client carries what is in the data store.
ForeignKeysFollow ==
  \A k \in ForeignKeys :
    /\ ignoreList[k] = "none"
    /\ \A i \in EventsOf(k) : (\A j \in EventsOf(k) : j <= i) => events[i].val = datastore[k]
    /\ EventsOf(k) = {} =>
         IF sending # Idle /\ sending.key = k THEN sending.val = datastore[k]
                                              ELSE applied[k] = datastore[k]

ProxyInv == ProxyTypeOK /\ Origins /\ EntryForEvent /\ OwnKeysApplied /\ ForeignKeysFollow

----------------------------------------------------------------------------

\* At the start nothing is stored, applied or on its way.
LEMMA InitInv == ProxyInit => ProxyInv
<1>. SUFFICES ASSUME ProxyInit PROVE ProxyInv
  OBVIOUS
<1>1. Len(events) = 0 /\ events \in Seq(ProxyChanges)
  BY DEF ProxyInit
<1>2. \A k \in Keys : EventsOf(k) = {}
  BY <1>1 DEF EventsOf
<1>3. ProxyTypeOK
  <2>1. writes \in 0..MaxWrites /\ failures \in 0..MaxFailures
    BY KVDBProxyAssumption DEF ProxyInit
  <2>. QED BY <1>1, <2>1 DEF ProxyInit, ProxyTypeOK, Values
<1>4. writer.at = "idle"
  BY DEF ProxyInit, Idle
<1>5. Origins
  BY <1>1 DEF Origins, ProxyInit
<1>. QED BY <1>2, <1>3, <1>4, <1>5
         DEF ProxyInv, ProxyInit, EntryForEvent, OwnKeysApplied, ForeignKeysFollow, Writing, Todo, Keys

\* A write appends an event of its key, or changes nothing.
LEMMA WriteEvents ==
  ASSUME ProxyTypeOK, NEW k \in Keys, NEW v \in Values, NEW own \in BOOLEAN,
         Write(k, v, own)
  PROVE  /\ events' \in Seq(ProxyChanges)
         /\ datastore' \in [Keys -> Values]
         /\ datastore'[k] = v /\ \A g \in Keys \ {k} : datastore'[g] = datastore[g]
         /\ \/ UNCHANGED <<datastore, events>> /\ v = datastore[k]
            \/ /\ events' # events
               /\ Len(events') = Len(events) + 1
               /\ events'[Len(events) + 1] = [key |-> k, val |-> v, own |-> own]
               /\ \A i \in 1..Len(events) : events'[i] = events[i]
               /\ EventsOf(k)' = EventsOf(k) \cup {Len(events) + 1}
               /\ \A g \in Keys \ {k} : EventsOf(g)' = EventsOf(g)
<1>. DEFINE e == [key |-> k, val |-> v, own |-> own]
<1>1. e \in ProxyChanges /\ e.key = k
  BY DEF ProxyChanges
<1>2. events \in Seq(ProxyChanges) /\ datastore \in [Keys -> Values]
  BY DEF ProxyTypeOK
<1>3. /\ datastore' \in [Keys -> Values]
      /\ datastore'[k] = v /\ \A g \in Keys \ {k} : datastore'[g] = datastore[g]
  BY <1>2 DEF Write
<1>4. CASE v = NoConfig /\ datastore[k] = NoConfig
  <2>1. datastore' = datastore
    BY <1>2, <1>4 DEF Write
  <2>2. events' = events
    BY <1>4 DEF Write
  <2>. QED BY <1>2, <1>3, <1>4, <2>1, <2>2
<1>5. CASE ~(v = NoConfig /\ datastore[k] = NoConfig)
  <2>1. events' = Append(events, e)
    BY <1>5 DEF Write
  <2>. HIDE DEF e
  <2>2. /\ events' \in Seq(ProxyChanges)
        /\ Len(events) \in Nat
        /\ Len(events') = Len(events) + 1
        /\ events'[Len(events) + 1] = e
        /\ \A i \in 1..Len(events) : events'[i] = events[i]
    BY <1>1, <1>2, <2>1
  <2>3. events' # events
    BY <2>2
  <2>4. 1..Len(events') = 1..Len(events) \cup {Len(events) + 1}
    BY <2>2
  <2>5. EventsOf(k)' = EventsOf(k) \cup {Len(events) + 1}
    BY <1>1, <2>2, <2>4 DEF EventsOf
  <2>6. \A g \in Keys \ {k} : EventsOf(g)' = EventsOf(g)
    BY <1>1, <2>2, <2>4 DEF EventsOf
  <2>. QED BY <1>3, <2>2, <2>3, <2>5, <2>6 DEF e
<1>. QED BY <1>4, <1>5

\* The filter takes the first event, the others move up.
LEMMA FilterEvents ==
  ASSUME ProxyTypeOK, events # <<>>, events' = Tail(events)
  PROVE  /\ events' \in Seq(ProxyChanges) /\ Head(events) \in ProxyChanges
         /\ Head(events) = events[1] /\ 1 \in 1..Len(events)
         /\ 1 \in EventsOf(Head(events).key)
         /\ \A i \in 1..Len(events') : /\ i + 1 \in 1..Len(events)
                                       /\ events'[i] = events[i + 1]
         /\ \A k \in Keys : \A i \in EventsOf(k)' : i \in 1..Len(events') /\ i + 1 \in EventsOf(k)
         /\ \A k \in Keys : \A i \in EventsOf(k) \ {1} : i - 1 \in EventsOf(k)'
<1>1. events \in Seq(ProxyChanges)
  BY DEF ProxyTypeOK
<1>2. /\ events' \in Seq(ProxyChanges) /\ Head(events) = events[1]
      /\ Len(events) \in Nat \ {0} /\ Len(events') = Len(events) - 1
      /\ \A i \in 1..Len(events') : events'[i] = events[i + 1]
  BY <1>1
<1>3. 1 \in 1..Len(events) /\ events[1] \in ProxyChanges
  BY <1>1, <1>2
<1>4. \A i \in 1..Len(events') : i + 1 \in 1..Len(events)
  BY <1>2
<1>5. \A i \in 1..Len(events) \ {1} : i - 1 \in 1..Len(events') /\ events'[i - 1] = events[i]
  <2>. TAKE i \in 1..Len(events) \ {1}
  <2>1. i - 1 \in 1..Len(events')
    BY <1>2
  <2>2. events'[i - 1] = events[(i - 1) + 1]
    BY <1>2, <2>1
  <2>. QED BY <2>1, <2>2
<1>6. \A k \in Keys : \A i \in EventsOf(k)' : i \in 1..Len(events') /\ i + 1 \in EventsOf(k)
  BY <1>2, <1>4 DEF EventsOf
<1>7. \A k \in Keys : \A i \in EventsOf(k) \ {1} : i - 1 \in EventsOf(k)'
  BY <1>5 DEF EventsOf
<1>. QED BY <1>2, <1>3, <1>4, <1>6, <1>7 DEF EventsOf

\* What persistChanges is called with has own keys and values, as has what is left of it.
LEMMA CallsType ==
  ASSUME NEW c \in Calls
  PROVE  /\ DOMAIN c \subseteq OwnKeys /\ \A k \in DOMAIN c : c[k] \in Values
         /\ \A left \in SUBSET DOMAIN c : left # {} => [o \in left |-> c[o]] \in Calls
<1>1. PICK S \in SUBSET OwnKeys \ {{}} : c \in [S -> {NoConfig}] \/ c \in [S -> Configs]
  BY DEF Calls
<1>2. DOMAIN c = S /\ \A k \in S : c[k] \in Values
  BY <1>1 DEF Values
<1>3. ASSUME NEW left \in SUBSET S, left # {} PROVE [o \in left |-> c[o]] \in Calls
  <2>1. left \in SUBSET OwnKeys \ {{}}
    BY <1>3
  <2>2. [o \in left |-> c[o]] \in [left -> {NoConfig}] \cup [left -> Configs]
    BY <1>1, <1>3
  <2>. QED BY <2>1, <2>2 DEF Calls
<1>. QED BY <1>1, <1>2, <1>3

\* persistChanges has changes in its hands whenever it is not idle.
LEMMA WriterType ==
  ASSUME ProxyTypeOK, writer.at # "idle"
  PROVE  /\ writer.todo \in Calls /\ DOMAIN writer.todo \subseteq OwnKeys
         /\ \A k \in DOMAIN writer.todo : writer.todo[k] \in Values
         /\ writer.at = "write" => writer.key \in DOMAIN writer.todo
<1>1. writer # Idle
  BY DEF Idle
<1>2. writer.todo \in Calls /\ (writer.at = "write" => writer.key \in DOMAIN writer.todo)
  BY <1>1 DEF ProxyTypeOK
<1>. QED BY Zenon, <1>2, CallsType

\* The CNI server applies changes of its own keys.
LEMMA StartPersistInv ==
  ASSUME ProxyInv, NEW changes \in Calls, StartPersist(changes)
  PROVE  ProxyInv'
<1>. USE DEF ProxyInv
<1>1. /\ writer.at = "idle"
      /\ writer' = [at |-> "ignore", todo |-> changes]
      /\ UNCHANGED <<datastore, events, ignoreList, sending, unsaved, unanswered, overlapped, failures>>
  BY DEF StartPersist, Idle
<1>2. \A g \in Keys : EventsOf(g)' = EventsOf(g)
  BY <1>1 DEF EventsOf
<1>3. DOMAIN changes \subseteq OwnKeys /\ \A g \in DOMAIN changes : changes[g] \in Values
  BY Zenon, CallsType
<1>4. /\ applied' \in [Keys -> Values]
      /\ \A g \in Keys : applied'[g] = IF g \in DOMAIN changes THEN changes[g] ELSE applied[g]
  BY <1>3 DEF StartPersist, ProxyTypeOK
<1>5. ProxyTypeOK'
  <2>1. writes' \in 0..MaxWrites
    BY KVDBProxyAssumption DEF StartPersist, ProxyTypeOK
  <2>2. writer' \in [at : {"ignore"}, todo : Calls]
    BY <1>1
  <2>. QED BY <1>1, <1>4, <2>1, <2>2 DEF ProxyTypeOK
<1>6. Origins'
  BY <1>1 DEF Origins
<1>7. \A g \in OwnKeys : ~Writing(g) /\ ~Writing(g)' /\ ~Todo(g) /\ (Todo(g)' <=> g \in DOMAIN changes)
  BY <1>1 DEF Writing, Todo
<1>8. EntryForEvent'
  BY <1>1, <1>2, <1>7 DEF EntryForEvent, Keys
<1>9. OwnKeysApplied'
  <2>1. ASSUME NEW g \in OwnKeys, g \notin overlapped
        PROVE  /\ g \in DOMAIN changes => applied'[g] = changes[g]
               /\ g \notin DOMAIN changes /\ g \notin unsaved => applied'[g] = datastore[g]
    BY <1>4, <1>7, <2>1 DEF OwnKeysApplied, Keys
  <2>2. \A g \in OwnKeys : EventsOf(g)' = EventsOf(g)
    BY <1>2 DEF Keys
  <2>. QED BY <1>1, <1>7, <2>1, <2>2 DEF OwnKeysApplied
<1>10. ForeignKeysFollow'
  <2>1. \A g \in ForeignKeys : g \in Keys /\ applied'[g] = applied[g]
    BY <1>3, <1>4, KVDBProxyAssumption DEF Keys
  <2>. QED BY <1>1, <1>2, <2>1 DEF ForeignKeysFollow
<1>. QED BY <1>5, <1>6, <1>8, <1>9, <1>10

\* The entry for a key replaces the one of an event that is on its way: the key overlaps.
LEMMA AddIgnoreEntryInv ==
  ASSUME ProxyInv, AddIgnoreEntry
  PROVE  ProxyInv'
<1>. USE DEF ProxyInv
<1>0. /\ writer.at = "ignore" /\ writer.todo \in Calls /\ DOMAIN writer.todo \subseteq OwnKeys
      /\ \A k \in DOMAIN writer.todo : writer.todo[k] \in Values
  BY WriterType DEF AddIgnoreEntry
<1>1. PICK k \in DOMAIN writer.todo :
        /\ ignoreList' = [ignoreList EXCEPT ![k] = Op(writer.todo[k])]
        /\ writer' = [at |-> "write", todo |-> writer.todo, key |-> k]
        /\ overlapped' = overlapped \cup {o \in {k} : Pending(o)}
  BY Zenon DEF AddIgnoreEntry
<1>2. /\ k \in OwnKeys /\ k \in Keys /\ k \notin ForeignKeys
      /\ writer'.at = "write" /\ writer'.key = k /\ writer'.todo = writer.todo
      /\ UNCHANGED <<datastore, applied, events, sending, unsaved, unanswered, writes, failures>>
  BY <1>0, <1>1, KVDBProxyAssumption DEF AddIgnoreEntry, Keys
<1>3. \A g \in Keys : EventsOf(g)' = EventsOf(g)
  BY <1>2 DEF EventsOf
<1>4. /\ ignoreList' \in [Keys -> {"Put", "Delete", "none"}]
      /\ ignoreList'[k] = Op(writer.todo[k])
      /\ \A g \in Keys \ {k} : ignoreList'[g] = ignoreList[g]
  BY <1>1, <1>2 DEF ProxyTypeOK, Op
<1>5. /\ overlapped \subseteq overlapped' /\ overlapped' \subseteq overlapped \cup {k}
      /\ EventsOf(k) # {} => k \in overlapped'
  <2>1. EventsOf(k) # {} => Pending(k)
    BY <1>2 DEF EventsOf, Pending, Origins
  <2>. QED BY <1>1, <2>1
<1>6. ProxyTypeOK'
  <2>1. writer' \in [at : {"write"}, todo : Calls, key : OwnKeys] /\ writer'.key \in DOMAIN writer'.todo
    BY <1>0, <1>1, <1>2
  <2>2. overlapped' \subseteq OwnKeys
    BY <1>2, <1>5 DEF ProxyTypeOK
  <2>. QED BY <1>2, <1>4, <2>1, <2>2 DEF ProxyTypeOK
<1>7. Origins'
  BY <1>2, <1>5 DEF Origins
<1>8. \A g \in OwnKeys : (Writing(g)' <=> g = k) /\ ~Writing(g) /\ (Todo(g)' <=> Todo(g))
  BY <1>0, <1>2 DEF Writing, Todo
<1>9. EntryForEvent'
  <2>1. ASSUME NEW g \in OwnKeys, g \notin overlapped', NEW i \in EventsOf(g)'
        PROVE  ignoreList'[g] = Op(events'[i].val) /\ EventsOf(g)' = {i} /\ ~Writing(g)'
    <3>1. g \in Keys /\ g # k /\ i \in EventsOf(g) /\ g \notin overlapped
      BY <1>3, <1>5, <2>1 DEF Keys
    <3>. QED BY <1>2, <1>3, <1>4, <1>8, <3>1 DEF EntryForEvent
  <2>. QED BY <1>2, <1>4, <1>8, <2>1 DEF EntryForEvent, Writing
<1>10. OwnKeysApplied'
  <2>. SUFFICES ASSUME NEW g \in OwnKeys, g \notin overlapped'
                PROVE  /\ Todo(g)' => applied'[g] = writer'.todo[g]
                       /\ ~Todo(g)' /\ g \notin unsaved' => applied'[g] = datastore'[g]
                       /\ g \notin unanswered' => (ignoreList'[g] # "none" => EventsOf(g)' # {} \/ Writing(g)')
    BY Zenon DEF OwnKeysApplied
  <2>1. g \notin overlapped /\ g \in Keys
    BY <1>5 DEF Keys
  <2>2. Todo(g)' => applied'[g] = writer'.todo[g]
    BY <1>2, <1>8, <2>1 DEF OwnKeysApplied
  <2>3. ~Todo(g)' /\ g \notin unsaved' => applied'[g] = datastore'[g]
    BY <1>2, <1>8, <2>1 DEF OwnKeysApplied
  <2>4. g \notin unanswered' => (ignoreList'[g] # "none" => EventsOf(g)' # {} \/ Writing(g)')
    BY <1>2, <1>3, <1>4, <1>8, <2>1 DEF OwnKeysApplied
  <2>. QED BY <2>2, <2>3, <2>4
<1>11. ForeignKeysFollow'
  <2>1. \A g \in ForeignKeys : g \in Keys \ {k}
    BY <1>2 DEF Keys
  <2>. QED BY <1>2, <1>3, <1>4, <2>1 DEF ForeignKeysFollow
<1>. QED BY <1>6, <1>7, <1>9, <1>10, <1>11

\* The write of a key that does not overlap is the only one that is on its way.
LEMMA PersistInv ==
  ASSUME ProxyInv, Persist
  PROVE  ProxyInv'
<1>. USE DEF ProxyInv
<1>0. /\ writer.at = "write" /\ writer.todo \in Calls /\ DOMAIN writer.todo \subseteq OwnKeys
      /\ \A k \in DOMAIN writer.todo : writer.todo[k] \in Values
      /\ writer.key \in DOMAIN writer.todo
  BY WriterType DEF Persist
<1>1. PICK k \in DOMAIN writer.todo : k = writer.key
  BY <1>0
<1>. DEFINE v == writer.todo[k]
            left == DOMAIN writer.todo \ {k}
<1>2. /\ Write(k, v, TRUE)
      /\ unsaved' = unsaved \ {k}
      /\ unanswered' = IF events' = events THEN unanswered \cup {k} ELSE unanswered \ {k}
      /\ writer' = IF left = {} THEN Idle ELSE [at |-> "ignore", todo |-> [o \in left |-> writer.todo[o]]]
      /\ UNCHANGED <<applied, ignoreList, sending, overlapped, writes, failures>>
  BY Zenon, <1>1 DEF Persist
<1>3. k \in OwnKeys /\ k \in Keys /\ k \notin ForeignKeys /\ v \in Values
  BY <1>0, KVDBProxyAssumption DEF Keys
<1>4. \A g \in OwnKeys : /\ ~Writing(g)'
                         /\ (Todo(g)' <=> g \in left)
                         /\ (Writing(g) <=> g = k)
                         /\ (Todo(g) <=> g \in left \/ g = k)
                         /\ (Todo(g)' => writer'.todo[g] = writer.todo[g])
  BY <1>0, <1>1, <1>2 DEF Writing, Todo, Idle
<1>5. writer' = Idle \/ writer' \in [at : {"ignore"}, todo : Calls]
  <2>1. left # {} => [o \in left |-> writer.todo[o]] \in Calls
    BY Zenon, <1>0, CallsType
  <2>. QED BY <1>2, <2>1
<1>6. k \notin overlapped => EventsOf(k) = {} /\ ignoreList[k] = Op(v) /\ applied[k] = v
  BY <1>3, <1>4 DEF EntryForEvent, OwnKeysApplied
<1>. HIDE DEF v, left
<1>7. /\ events' \in Seq(ProxyChanges)
      /\ datastore' \in [Keys -> Values]
      /\ datastore'[k] = v /\ \A g \in Keys \ {k} : datastore'[g] = datastore[g]
      /\ \/ UNCHANGED <<datastore, events>> /\ v = datastore[k]
         \/ /\ events' # events
            /\ Len(events') = Len(events) + 1
            /\ events'[Len(events) + 1] = [key |-> k, val |-> v, own |-> TRUE]
            /\ \A i \in 1..Len(events) : events'[i] = events[i]
            /\ EventsOf(k)' = EventsOf(k) \cup {Len(events) + 1}
            /\ \A g \in Keys \ {k} : EventsOf(g)' = EventsOf(g)
  BY Zenon, <1>2, <1>3, WriteEvents
<1>8. ProxyTypeOK'
  <2>1. unsaved' \subseteq OwnKeys /\ unanswered' \subseteq OwnKeys
    BY <1>2, <1>3 DEF ProxyTypeOK
  <2>. QED BY <1>2, <1>5, <1>7, <2>1 DEF ProxyTypeOK
<1>9. \A g \in OwnKeys \ {k} : (Todo(g)' <=> Todo(g)) /\ ~Writing(g)
  BY <1>4 DEF left
<1>10. ASSUME NEW g \in OwnKeys, g \notin overlapped
       PROVE  /\ Todo(g)' => applied'[g] = writer'.todo[g]
              /\ ~Todo(g)' /\ g \notin unsaved' => applied'[g] = datastore'[g]
  <2>1. CASE g = k
    BY Zenon, <1>2, <1>4, <1>6, <1>7, <1>10, <2>1 DEF left
  <2>2. CASE g # k
    <3>1. datastore'[g] = datastore[g]
      BY <1>7, <2>2 DEF Keys
    <3>. QED BY <1>2, <1>4, <1>9, <1>10, <2>2, <3>1 DEF OwnKeysApplied
  <2>. QED BY <2>1, <2>2
<1>11. CASE UNCHANGED <<datastore, events>>
  <2>1. \A g \in Keys : EventsOf(g)' = EventsOf(g)
    BY <1>11 DEF EventsOf
  <2>2. unanswered' = unanswered \cup {k}
    BY <1>2, <1>11
  <2>3. Origins'
    BY <1>2, <1>11 DEF Origins
  <2>4. EntryForEvent'
    BY <1>2, <1>4, <1>11, <2>1 DEF EntryForEvent, Keys
  <2>5. OwnKeysApplied'
    <3>1. ASSUME NEW g \in OwnKeys, g \notin overlapped, g \notin unanswered', ignoreList'[g] # "none"
          PROVE  EventsOf(g)' # {}
      BY <1>2, <1>9, <2>1, <2>2, <3>1 DEF OwnKeysApplied, Keys
    <3>. QED BY <1>2, <1>10, <3>1 DEF OwnKeysApplied
  <2>6. ForeignKeysFollow'
    BY <1>2, <1>11, <2>1 DEF ForeignKeysFollow, Keys
  <2>. QED BY <1>8, <2>3, <2>4, <2>5, <2>6
<1>12. CASE ~UNCHANGED <<datastore, events>>
  <2>. DEFINE n == Len(events) + 1
  <2>1. /\ Len(events') = n
        /\ events'[n].key = k /\ events'[n].val = v /\ events'[n].own = TRUE
        /\ \A i \in 1..Len(events) : events'[i] = events[i]
        /\ EventsOf(k)' = EventsOf(k) \cup {n}
        /\ \A g \in Keys \ {k} : EventsOf(g)' = EventsOf(g)
        /\ unanswered' = unanswered \ {k}
    BY <1>2, <1>7, <1>12
  <2>2. /\ 1..Len(events') = 1..Len(events) \cup {n}
        /\ \A g \in Keys : EventsOf(g) \subseteq 1..Len(events)
    <3>1. Len(events) \in Nat
      BY DEF ProxyTypeOK
    <3>. QED BY <2>1, <3>1 DEF EventsOf
  <2>. HIDE DEF n
  <2>3. Origins'
    BY <1>2, <1>3, <2>1, <2>2 DEF Origins
  <2>4. EntryForEvent'
    <3>1. ASSUME NEW g \in OwnKeys \ overlapped, g # k, NEW i \in EventsOf(g)'
          PROVE  ignoreList'[g] = Op(events'[i].val) /\ EventsOf(g)' = {i}
      <4>1. g \in Keys \ {k} /\ i \in EventsOf(g) /\ i \in 1..Len(events)
        BY <2>1, <2>2, <3>1 DEF Keys
      <4>. QED BY <1>2, <2>1, <3>1, <4>1 DEF EntryForEvent
    <3>2. ASSUME k \notin overlapped
          PROVE  EventsOf(k)' = {n} /\ ignoreList'[k] = Op(events'[n].val)
      BY <1>2, <1>6, <2>1, <3>2
    <3>. QED BY <1>2, <1>4, <3>1, <3>2 DEF EntryForEvent
  <2>5. OwnKeysApplied'
    <3>1. ASSUME NEW g \in OwnKeys, g \notin overlapped, g \notin unanswered', ignoreList'[g] # "none"
          PROVE  EventsOf(g)' # {}
      <4>1. CASE g = k
        BY Zenon, <2>1, <4>1
      <4>2. CASE g # k
        BY <1>2, <1>9, <2>1, <3>1, <4>2 DEF OwnKeysApplied, Keys
      <4>. QED BY <4>1, <4>2
    <3>. QED BY <1>2, <1>10, <3>1 DEF OwnKeysApplied
  <2>6. ForeignKeysFollow'
    <3>1. ASSUME NEW g \in ForeignKeys
          PROVE  /\ g \in Keys \ {k} /\ datastore'[g] = datastore[g] /\ EventsOf(g)' = EventsOf(g)
                 /\ \A i \in EventsOf(g) : events'[i] = events[i]
      BY <1>3, <1>7, <2>1, <2>2 DEF Keys
    <3>. QED BY SMTT(60), <1>2, <3>1 DEF ForeignKeysFollow
  <2>. QED BY <1>8, <2>3, <2>4, <2>5, <2>6
<1>. QED BY <1>11, <1>12

\* A write that fails leaves the keys behind that are yet to be persisted.
LEMMA PersistFailsInv ==
  ASSUME ProxyInv, PersistFails
  PROVE  ProxyInv'
<1>. USE DEF ProxyInv
<1>1. /\ writer.at = "write" /\ DOMAIN writer.todo \subseteq OwnKeys /\ writer.key \in DOMAIN writer.todo
  BY WriterType DEF PersistFails
<1>2. /\ writer' = Idle /\ writer'.at = "idle"
      /\ unsaved' = unsaved \cup DOMAIN writer.todo
      /\ unanswered' = unanswered \cup {writer.key}
      /\ UNCHANGED <<datastore, applied, events, ignoreList, sending, writes, overlapped>>
  BY DEF PersistFails, Idle
<1>3. \A g \in Keys : EventsOf(g)' = EventsOf(g)
  BY <1>2 DEF EventsOf
<1>4. ProxyTypeOK'
  <2>1. failures' \in 0..MaxFailures
    BY KVDBProxyAssumption DEF PersistFails, ProxyTypeOK
  <2>. QED BY <1>1, <1>2, <2>1 DEF ProxyTypeOK
<1>5. Origins'
  BY <1>2 DEF Origins
<1>6. \A g \in OwnKeys : /\ ~Writing(g)' /\ ~Todo(g)'
                         /\ (Todo(g) => g \in unsaved') /\ (Writing(g) => g \in unanswered')
  BY <1>1, <1>2 DEF Writing, Todo
<1>7. EntryForEvent'
  BY <1>2, <1>3, <1>6 DEF EntryForEvent, Keys
<1>8. OwnKeysApplied'
  <2>. SUFFICES ASSUME NEW g \in OwnKeys, g \notin overlapped
                PROVE  /\ g \notin unsaved' => applied'[g] = datastore'[g]
                       /\ g \notin unanswered' => (ignoreList'[g] # "none" => EventsOf(g)' # {})
    BY <1>2, <1>6 DEF OwnKeysApplied
  <2>1. g \notin unsaved' => applied'[g] = datastore'[g]
    BY <1>2, <1>6 DEF OwnKeysApplied
  <2>2. g \notin unanswered' => (ignoreList'[g] # "none" => EventsOf(g)' # {})
    BY <1>2, <1>3, <1>6 DEF OwnKeysApplied, Keys
  <2>. QED BY <2>1, <2>2
<1>9. ForeignKeysFollow'
  BY <1>2, <1>3 DEF ForeignKeysFollow, Keys
<1>. QED BY <1>4, <1>5, <1>7, <1>8, <1>9

\* The event of another client is the last one of its key.
LEMMA ForeignWriteInv ==
  ASSUME ProxyInv, NEW k \in ForeignKeys, NEW v \in Values, ForeignWrite(k, v)
  PROVE  ProxyInv'
<1>. USE DEF ProxyInv
<1>1. /\ k \in Keys /\ k \notin OwnKeys
      /\ UNCHANGED <<applied, ignoreList, sending, writer, unsaved, unanswered, failures, overlapped>>
  BY KVDBProxyAssumption DEF ForeignWrite, Keys
<1>2. Write(k, v, FALSE)
  BY Zenon DEF ForeignWrite
<1>3. /\ events' \in Seq(ProxyChanges)
      /\ datastore' \in [Keys -> Values]
      /\ datastore'[k] = v /\ \A g \in Keys \ {k} : datastore'[g] = datastore[g]
      /\ \/ UNCHANGED <<datastore, events>> /\ v = datastore[k]
         \/ /\ Len(events') = Len(events) + 1
            /\ events'[Len(events) + 1] = [key |-> k, val |-> v, own |-> FALSE]
            /\ \A i \in 1..Len(events) : events'[i] = events[i]
            /\ EventsOf(k)' = EventsOf(k) \cup {Len(events) + 1}
            /\ \A g \in Keys \ {k} : EventsOf(g)' = EventsOf(g)
  BY Zenon, <1>1, <1>2, WriteEvents
<1>4. ProxyTypeOK'
  <2>1. writes' \in 0..MaxWrites
    BY KVDBProxyAssumption DEF ForeignWrite, ProxyTypeOK
  <2>. QED BY <1>1, <1>3, <2>1 DEF ProxyTypeOK
<1>5. CASE UNCHANGED <<datastore, events>>
  <2>1. \A g \in Keys : EventsOf(g)' = EventsOf(g)
    BY SMTT(60), <1>5 DEF EventsOf
  <2>2. Origins'
    BY SMTT(60), <1>1, <1>5 DEF Origins
  <2>3. EntryForEvent'
    BY SMTT(60), <1>1, <1>5, <2>1 DEF EntryForEvent, Writing, Keys
  <2>4. OwnKeysApplied'
    BY SMTT(60), <1>1, <1>5, <2>1 DEF OwnKeysApplied, Writing, Todo, Keys
  <2>5. ForeignKeysFollow'
    BY <1>1, <1>5, <2>1 DEF ForeignKeysFollow, Keys
  <2>. QED BY <1>4, <2>2, <2>3, <2>4, <2>5
<1>6. CASE ~UNCHANGED <<datastore, events>>
  <2>1. PICK n \in Nat : n = Len(events) + 1
    BY SMTT(60) DEF ProxyTypeOK
  <2>2. /\ Len(events') = n
        /\ events'[n].key = k /\ events'[n].val = v /\ events'[n].own = FALSE
        /\ \A i \in 1..Len(events) : events'[i] = events[i]
        /\ EventsOf(k)' = EventsOf(k) \cup {n}
        /\ \A g \in Keys \ {k} : EventsOf(g)' = EventsOf(g)
    BY SMTT(60), <1>3, <1>6, <2>1
  <2>3. /\ 1..Len(events') = 1..Len(events) \cup {n}
        /\ \A g \in Keys : EventsOf(g) \subseteq 1..Len(events)
        /\ \A i \in 1..Len(events) : i \in Nat /\ i < n
    <3>1. Len(events) \in Nat
      BY SMTT(60) DEF ProxyTypeOK
    <3>. QED BY <2>1, <2>2, <3>1 DEF EventsOf
  <2>4. Origins'
    BY SMTT(60), <1>1, <2>2, <2>3 DEF Origins
  <2>5. ASSUME NEW g \in Keys \ {k}
        PROVE  /\ datastore'[g] = datastore[g] /\ EventsOf(g)' = EventsOf(g)
               /\ \A i \in EventsOf(g) : events'[i] = events[i]
    BY <1>3, <2>2, <2>3
  <2>6. OwnKeys \subseteq Keys \ {k}
    BY SMTT(60), <1>1 DEF Keys
  <2>7. EntryForEvent'
    BY SMTT(60), <1>1, <2>5, <2>6 DEF EntryForEvent, Writing
  <2>8. OwnKeysApplied'
    BY SMTT(60), <1>1, <2>5, <2>6 DEF OwnKeysApplied, Writing, Todo
  <2>9. ForeignKeysFollow'
    <3>1. ASSUME NEW i \in EventsOf(k)', \A j \in EventsOf(k)' : j <= i
          PROVE  events'[i].val = datastore'[k]
      <4>1. n <= i /\ i \in EventsOf(k) \cup {n}
        BY SMTT(60), <2>2, <3>1
      <4>2. i = n
        BY SMTT(60), <1>1, <2>3, <4>1
      <4>. QED BY SMTT(60), <1>3, <2>2, <4>2
    <3>2. EventsOf(k)' # {} /\ ignoreList'[k] = "none"
      BY <1>1, <2>2 DEF ForeignKeysFollow
    <3>3. ForeignKeys \subseteq Keys
      BY DEF Keys
    <3>. QED BY SMTT(60), <1>1, <2>5, <3>1, <3>2, <3>3 DEF ForeignKeysFollow
  <2>. QED BY SMTT(60), <1>4, <2>4, <2>7, <2>8, <2>9
<1>. QED BY <1>5, <1>6

\* The plugin applies an event of another client, or of a key that overlaps.
LEMMA ReceiveInv ==
  ASSUME ProxyInv, ReceiveEvent
  PROVE  ProxyInv'
<1>. USE DEF ProxyInv
<1>1. /\ sending # Idle /\ sending' = Idle
      /\ UNCHANGED <<datastore, events, ignoreList, writer, unsaved, unanswered, writes, failures, overlapped>>
  BY SMTT(60) DEF ReceiveEvent
<1>2. sending.key \in Keys /\ sending.val \in Values
  BY <1>1 DEF ProxyTypeOK, ProxyChanges
<1>3. PICK k \in Keys : k = sending.key
  BY SMTT(60), <1>2
<1>4. /\ applied' \in [Keys -> Values]
      /\ applied'[k] = sending.val
      /\ \A g \in Keys \ {k} : applied'[g] = applied[g]
  BY <1>2, <1>3 DEF ReceiveEvent, ProxyTypeOK
<1>5. \A g \in Keys : EventsOf(g)' = EventsOf(g)
  BY SMTT(60), <1>1 DEF EventsOf
<1>6. \A g \in OwnKeys \ overlapped : g # k
  BY SMTT(60), <1>1, <1>3, KVDBProxyAssumption DEF Origins
<1>7. ProxyTypeOK'
  BY SMTT(60), <1>1, <1>4 DEF ProxyTypeOK
<1>8. Origins'
  BY SMTT(60), <1>1 DEF Origins
<1>9. EntryForEvent'
  BY SMTT(60), <1>1, <1>5 DEF EntryForEvent, Writing, Keys
<1>10. OwnKeysApplied'
  BY SMTT(60), <1>1, <1>4, <1>5, <1>6 DEF OwnKeysApplied, Writing, Todo, Keys
<1>11. ForeignKeysFollow'
  BY <1>1, <1>3, <1>4, <1>5 DEF ForeignKeysFollow, Keys
<1>. QED BY SMTT(60), <1>7, <1>8, <1>9, <1>10, <1>11

\* No event is mistaken for the idle filter.
LEMMA ChangesNotIdle == \A m \in ProxyChanges : m # Idle
<1>. SUFFICES ASSUME NEW m \in ProxyChanges, m = Idle PROVE FALSE
  OBVIOUS
<1>1. DOMAIN m = {"key", "val", "own"}
  BY SMTT(60) DEF ProxyChanges
<1>2. DOMAIN m = {"at"}
  BY DEF Idle
<1>. QED BY <1>1, <1>2

\* The filter skips the event of an own key that does not overlap, and forwards the
\* events of other clients.
LEMMA FilterInv ==
  ASSUME ProxyInv, Filter
  PROVE  ProxyInv'
<1>. USE DEF ProxyInv
<1>1. /\ sending = Idle /\ events # <<>> /\ events' = Tail(events)
      /\ UNCHANGED <<datastore, applied, writer, unsaved, unanswered, writes, failures, overlapped>>
  BY SMTT(60) DEF Filter
<1>2. /\ events' \in Seq(ProxyChanges) /\ Head(events) \in ProxyChanges
      /\ Head(events) = events[1] /\ 1 \in 1..Len(events)
      /\ 1 \in EventsOf(Head(events).key)
      /\ \A i \in 1..Len(events') : i + 1 \in 1..Len(events) /\ events'[i] = events[i + 1]
      /\ \A g \in Keys : \A i \in EventsOf(g)' : i \in 1..Len(events') /\ i + 1 \in EventsOf(g)
      /\ \A g \in Keys : \A i \in EventsOf(g) \ {1} : i - 1 \in EventsOf(g)'
  BY SMTT(60), <1>1, FilterEvents
<1>3. PICK m \in ProxyChanges : m = events[1] /\ m # Idle
  BY <1>2, ChangesNotIdle
<1>4. PICK k \in Keys : k = m.key
  BY SMTT(60) DEF ProxyChanges
<1>5. /\ 1 \in EventsOf(k) /\ \A g \in Keys \ {k} : 1 \notin EventsOf(g)
      /\ IF m.own THEN k \in OwnKeys ELSE k \in ForeignKeys
  BY SMTT(60), <1>2, <1>3, <1>4 DEF EventsOf, Origins
<1>6. IF ignoreList[k] = Op(m.val)
        THEN ignoreList' = [ignoreList EXCEPT ![k] = "none"] /\ sending' = Idle
        ELSE sending' = m /\ ignoreList' = ignoreList
  BY SMTT(60), <1>1, <1>2, <1>3, <1>4 DEF Filter
<1>7. k \in OwnKeys \ overlapped => ignoreList[k] = Op(m.val) /\ EventsOf(k) = {1} /\ ~Writing(k)
  BY SMTT(60), <1>3, <1>5 DEF EntryForEvent
<1>8. k \in ForeignKeys => ignoreList[k] # Op(m.val)
  BY SMTT(60) DEF ForeignKeysFollow, Op
<1>9. /\ ignoreList' \in [Keys -> {"Put", "Delete", "none"}]
      /\ ignoreList'[k] = ignoreList[k] \/ ignoreList'[k] = "none"
      /\ \A g \in Keys \ {k} : ignoreList'[g] = ignoreList[g]
  BY SMTT(60), <1>4, <1>6 DEF ProxyTypeOK
<1>10. ProxyTypeOK'
  <2>1. sending' = Idle \/ sending' \in ProxyChanges
    BY SMTT(60), <1>6
  <2>. QED BY SMTT(60), <1>1, <1>2, <1>9, <2>1 DEF ProxyTypeOK
<1>11. Origins'
  <2>1. \A i \in 1..Len(events') : IF events'[i].own THEN events'[i].key \in OwnKeys
                                                    ELSE events'[i].key \in ForeignKeys
    BY SMTT(60), <1>2 DEF Origins
  <2>2. sending' # Idle => IF sending'.own THEN sending'.key \in overlapped
                                            ELSE sending'.key \in ForeignKeys
    BY <1>4, <1>5, <1>6, <1>7
  <2>. QED BY SMTT(60), <1>1, <2>1, <2>2 DEF Origins
<1>12. \A g \in OwnKeys \ overlapped : g \in Keys /\ (g # k \/ EventsOf(g)' = {})
  <2>. TAKE g \in OwnKeys \ overlapped
  <2>1. g \in Keys
    BY DEF Keys
  <2>2. ASSUME g = k, NEW i \in EventsOf(g)' PROVE FALSE
    <3>1. i \in 1..Len(events') /\ i + 1 \in EventsOf(g)
      BY SMTT(60), <1>2, <2>1
    <3>2. i + 1 = 1 /\ i \in Nat /\ i >= 1
      BY SMTT(60), <1>7, <2>2, <3>1
    <3>. QED BY SMTT(60), <3>2
  <2>. QED BY <2>1, <2>2
<1>13. EntryForEvent'
  <2>. SUFFICES ASSUME NEW g \in OwnKeys \ overlapped
                PROVE  /\ \A i \in EventsOf(g)' : /\ ignoreList'[g] = Op(events'[i].val)
                                                  /\ EventsOf(g)' = {i} /\ ~Writing(g)'
                       /\ Writing(g)' => ignoreList'[g] = Op(writer'.todo[g])
    BY Zenon, <1>1 DEF EntryForEvent
  <2>1. ASSUME NEW i \in EventsOf(g)'
        PROVE  ignoreList'[g] = Op(events'[i].val) /\ EventsOf(g)' = {i} /\ ~Writing(g)
    <3>1. g \in Keys /\ g # k
      BY <1>12, <2>1
    <3>2. i \in 1..Len(events') /\ i + 1 \in EventsOf(g)
      BY <1>2, <3>1
    <3>3. EventsOf(g) = {i + 1} /\ ignoreList[g] = Op(events[i + 1].val) /\ ~Writing(g)
      BY <3>2 DEF EntryForEvent
    <3>4. ASSUME NEW j \in EventsOf(g)' PROVE j = i
      <4>1. j \in 1..Len(events') /\ j + 1 \in EventsOf(g)
        BY SMTT(60), <1>2, <3>1
      <4>2. j + 1 = i + 1
        BY SMTT(60), <3>3, <4>1
      <4>. QED BY <3>2, <4>1, <4>2
    <3>. QED BY ZenonT(60), <1>2, <1>9, <3>1, <3>2, <3>3, <3>4
  <2>2. Writing(g)' = Writing(g)
    BY SMTT(60), <1>1 DEF Writing
  <2>3. ASSUME Writing(g) PROVE ignoreList'[g] = Op(writer.todo[g])
    <3>1. g # k /\ g \in Keys /\ ignoreList[g] = Op(writer.todo[g])
      BY SMTT(60), <1>7, <1>12, <2>3 DEF EntryForEvent
    <3>. QED BY SMTT(60), <1>9, <3>1
  <2>. QED BY Zenon, <1>1, <2>1, <2>2, <2>3
<1>14. OwnKeysApplied'
  <2>1. ASSUME NEW g \in OwnKeys \ overlapped, g \notin unanswered, ignoreList'[g] # "none"
        PROVE  EventsOf(g)' # {} \/ Writing(g)
    <3>1. g # k /\ g \in Keys
      BY SMTT(60), <1>6, <1>7, <1>9, <1>12, <2>1 DEF ProxyTypeOK
    <3>2. ignoreList[g] # "none"
      BY SMTT(60), <1>9, <2>1, <3>1
    <3>3. EventsOf(g) # {} \/ Writing(g)
      BY SMTT(60), <2>1, <3>2 DEF OwnKeysApplied
    <3>. QED BY SMTT(60), <1>2, <1>5, <3>1, <3>3
  <2>2. \A g \in OwnKeys : Writing(g)' = Writing(g) /\ Todo(g)' = Todo(g)
    BY SMTT(60), <1>1 DEF Writing, Todo
  <2>. QED BY SMTT(60), <1>1, <2>1, <2>2 DEF OwnKeysApplied
<1>15. ForeignKeysFollow'
  <2>. SUFFICES ASSUME NEW g \in ForeignKeys
                PROVE  /\ ignoreList'[g] = "none"
                       /\ \A i \in EventsOf(g)' :
                            (\A j \in EventsOf(g)' : j <= i) => events'[i].val = datastore[g]
                       /\ EventsOf(g)' = {} =>
                            IF sending' # Idle /\ sending'.key = g THEN sending'.val = datastore[g]
                                                                    ELSE applied[g] = datastore[g]
    BY ZenonT(60), <1>1 DEF ForeignKeysFollow
  <2>1. g \in Keys /\ ignoreList'[g] = "none"
    BY <1>9 DEF ForeignKeysFollow, Keys
  <2>2. ASSUME NEW i \in EventsOf(g)', \A j \in EventsOf(g)' : j <= i
        PROVE  events'[i].val = datastore[g]
    <3>1. i \in 1..Len(events') /\ i \in Nat /\ i + 1 \in EventsOf(g) /\ events'[i] = events[i + 1]
      BY <1>2, <2>1
    <3>2. ASSUME NEW j \in EventsOf(g) PROVE j <= i + 1
      <4>1. j \in Nat
        BY SMTT(60) DEF EventsOf
      <4>2. j = 1 \/ j - 1 <= i
        BY SMTT(60), <1>2, <2>1, <2>2
      <4>. QED BY SMTT(60), <3>1, <4>1, <4>2
    <3>. QED BY <3>1, <3>2 DEF ForeignKeysFollow
  <2>3. ASSUME EventsOf(g)' = {}
        PROVE  IF sending' # Idle /\ sending'.key = g THEN sending'.val = datastore[g]
                                                       ELSE applied[g] = datastore[g]
    <3>1. EventsOf(g) \subseteq {1}
      BY SMTT(60), <1>2, <2>1, <2>3
    <3>2. CASE g = k
      <4>1. EventsOf(g) = {1} /\ sending' = m
        BY SMTT(60), <1>5, <1>6, <1>8, <3>1, <3>2
      <4>2. events[1].val = datastore[g]
        BY SMTT(60), <4>1 DEF ForeignKeysFollow
      <4>. QED BY SMTT(60), <1>3, <1>4, <3>2, <4>1, <4>2
    <3>3. CASE g # k
      <4>1. EventsOf(g) = {}
        BY SMTT(60), <1>5, <2>1, <3>1, <3>3
      <4>2. applied[g] = datastore[g]
        BY SMTT(60), <1>1, <4>1 DEF ForeignKeysFollow
      <4>. QED BY SMTT(60), <1>4, <1>6, <3>3, <4>2
    <3>. QED BY SMTT(60), <3>2, <3>3
  <2>. QED BY SMTT(60), <2>1, <2>2, <2>3
<1>. QED BY SMTT(60), <1>10, <1>11, <1>13, <1>14, <1>15

\* Steps of nobody.
LEMMA StutterInv ==
  ASSUME ProxyInv, UNCHANGED proxyVars
  PROVE  ProxyInv'
<1>1. \A k : EventsOf(k)' = EventsOf(k)
  BY DEF proxyVars, EventsOf
<1>2. \A k : Writing(k)' = Writing(k) /\ Todo(k)' = Todo(k)
  BY DEF proxyVars, Writing, Todo
<1>3. ProxyTypeOK'
  BY DEF proxyVars, ProxyInv, ProxyTypeOK
<1>4. Origins' /\ EntryForEvent'
  BY <1>1, <1>2 DEF proxyVars, ProxyInv, Origins, EntryForEvent
<1>5. OwnKeysApplied'
  BY <1>1, <1>2 DEF proxyVars, ProxyInv, OwnKeysApplied
<1>6. ForeignKeysFollow'
  BY <1>1 DEF proxyVars, ProxyInv, ForeignKeysFollow
<1>. QED BY <1>3, <1>4, <1>5, <1>6 DEF ProxyInv

\* The invariant holds in every state.
THEOREM ProxyInvariance == ProxySpec => []ProxyInv
<1>1. ProxyInv /\ [ProxyNext]_proxyVars => ProxyInv'
  BY StartPersistInv, AddIgnoreEntryInv, PersistInv, PersistFailsInv, ForeignWriteInv,
     FilterInv, ReceiveInv, StutterInv DEF ProxyNext
<1>. QED BY <1>1, InitInv, PTL DEF ProxySpec

\* The store, VPP, the events on their way, the list and the writer keep their types: the
\* list has operations for entries (AddIgnoreEntry), whatever is written and fails.
THEOREM ProxyTypes == ProxySpec => []ProxyTypeOK
<1>1. ProxyInv => ProxyTypeOK
  BY DEF ProxyInv
<1>. QED BY <1>1, ProxyInvariance, PTL

\* No event of an own write reaches the plugins unless its key was written again before it
\* came back (AddIgnoreEntry, Watch), for any number of keys and writes.
THEOREM OwnEvents == ProxySpec => []OwnEventsIgnored
<1>1. ProxyInv => OwnEventsIgnored
  BY DEF ProxyInv, Origins, OwnEventsIgnored
<1>. QED BY <1>1, ProxyInvariance, PTL

\* When nothing is under way VPP has what is in the data store for every key that was not
\* left behind by a persistChanges that failed, and no entry is left that has no event to
\* wait for, keys written twice in a row excepted (persistChanges, Watch).
THEOREM Convergence == ProxySpec => []VPPConverges
<1>1. ProxyInv => VPPConverges
  <2>. SUFFICES ASSUME ProxyInv, events = <<>>, sending = Idle, writer = Idle, NEW k \in Keys \ overlapped
                PROVE  /\ k \notin unsaved => applied[k] = datastore[k]
                       /\ k \notin unanswered => ignoreList[k] = "none"
    BY DEF VPPConverges
  <2>1. EventsOf(k) = {} /\ ~Todo(k) /\ ~Writing(k)
    <3>1. Len(events) = 0 /\ writer.at = "idle"
      BY DEF Idle
    <3>. QED BY <3>1 DEF EventsOf, Todo, Writing
  <2>2. CASE k \in OwnKeys
    BY <2>1, <2>2 DEF ProxyInv, OwnKeysApplied
  <2>3. CASE k \in ForeignKeys
    BY <2>1, <2>3 DEF ProxyInv, ForeignKeysFollow
  <2>. QED BY <2>2, <2>3 DEF Keys
<1>. QED BY <1>1, ProxyInvariance, PTL

----------------------------------------------------------------------------
(* The configurator.                                                       *)

\* A renderer that never refused a commit has, for each pod, the rules generated
\* from the policies last committed for it, during a transaction as well.
TablesFollow ==
  \A r \in Renderers \ failed : \A p \in Pods :
    assigned[p] # NoList => tables[r][p] = RulesFor(policies, Sorted(assigned[p]))

\* The rules do not depend on the order of the policies.
LEMMA OrderIrrelevant ==
  ASSUME NEW a, NEW b, Range(a) = Range(b)
  PROVE  Sorted(a) = Sorted(b)
BY DEF Sorted

LEMMA TablesFollowInit == Init => TablesFollow
BY DEF Init, TablesFollow

\* Commit gives a renderer that accepts it the rules of the pods of the transaction,
\* and a resync clears those of all others.
LEMMA CommitFollows ==
  ASSUME TablesFollow, Commit
  PROVE  TablesFollow'
<1>0. policies' = policies /\ assigned' = Committed(assigned, config, NoList)
  BY DEF Commit
<1>1. PICK sorted \in {[p \in Rendered |-> Sorted(config[p])]} :
        \E rules \in {[p \in Rendered |-> RulesFor(policies, sorted[first[p]])] : first \in Processed(sorted)},
           refusing \in SUBSET (IF Rendered = {} THEN {} ELSE Renderers) :
          /\ errors' = errors + Cardinality(refusing) /\ errors' <= MaxErrors
          /\ failed' = failed \cup refusing
          /\ tables' = [r \in Renderers |->
                          IF r \in refusing THEN tables[r] ELSE Committed(tables[r], rules, NoRules)]
  BY Zenon DEF Commit
<1>2. PICK rules \in {[p \in Rendered |-> RulesFor(policies, sorted[first[p]])] : first \in Processed(sorted)},
           refusing \in SUBSET (IF Rendered = {} THEN {} ELSE Renderers) :
        /\ errors' = errors + Cardinality(refusing) /\ errors' <= MaxErrors
        /\ failed' = failed \cup refusing
        /\ tables' = [r \in Renderers |->
                        IF r \in refusing THEN tables[r] ELSE Committed(tables[r], rules, NoRules)]
  BY Zenon, <1>1
<1>3. ASSUME NEW p \in Rendered PROVE rules[p] = RulesFor(policies, Sorted(config[p]))
  <2>1. PICK first \in Processed(sorted) : rules = [q \in Rendered |-> RulesFor(policies, sorted[first[q]])]
    BY <1>2
  <2>2. first[p] \in Rendered /\ sorted[first[p]] = sorted[p]
    BY <2>1 DEF Processed, Equals
  <2>3. sorted[p] = Sorted(config[p])
    OBVIOUS
  <2>. QED BY <2>1, <2>2, <2>3
<1>4. SUFFICES ASSUME NEW r \in Renderers, r \notin failed, r \notin refusing, NEW p \in Pods, assigned'[p] # NoList
               PROVE  tables'[r][p] = RulesFor(policies, Sorted(assigned'[p]))
  BY <1>0, <1>2 DEF TablesFollow
<1>5. tables'[r] = Committed(tables[r], rules, NoRules)
  BY <1>2, <1>4
<1>6. CASE p \in Rendered
  <2>1. tables'[r][p] = rules[p] /\ assigned'[p] = config[p]
    BY <1>0, <1>5, <1>6 DEF Committed
  <2>. QED BY <1>3, <1>6, <2>1
<1>7. CASE p \notin Rendered
  <2>1. tables'[r][p] = tables[r][p] /\ assigned'[p] = assigned[p]
    BY <1>0, <1>4, <1>5, <1>7 DEF Committed
  <2>. QED BY <1>4, <2>1 DEF TablesFollow
<1>. QED BY <1>6, <1>7

LEMMA TablesFollowStep == TablesFollow /\ [Next]_vars => TablesFollow'
<1>1. SUFFICES ASSUME TablesFollow, [Next]_vars PROVE TablesFollow'
  OBVIOUS
<1>2. ASSUME UNCHANGED <<policies, tables, assigned, failed>> PROVE TablesFollow'
  BY <1>1, <1>2 DEF TablesFollow
<1>3. CASE Commit
  BY <1>1, <1>3, CommitFollows
<1>4. ASSUME NEW resync \in BOOLEAN, NewTxn(resync) PROVE TablesFollow'
  BY <1>2, <1>4 DEF NewTxn
<1>5. ASSUME NEW p \in Pods, NEW ids \in IDLists, Configure(p, ids) PROVE TablesFollow'
  BY <1>2, <1>5 DEF Configure
<1>6. CASE UNCHANGED vars
  BY <1>2, <1>6 DEF vars
<1>. QED BY <1>1, <1>3, <1>4, <1>5, <1>6 DEF Next

\* The rules in a renderer's table are those of the policies last committed for the
\* pod (Commit), whichever other transactions there were and whichever other
\* renderers refused them.
THEOREM TablesFollowTransactions == Spec => []TablesFollow
BY TablesFollowInit, TablesFollowStep, PTL DEF Spec

\* Two pods with the same set of policies have the same list of rules, in whatever
\* order and in whichever transactions the policies were given (sort.Sort in
\* Commit), so that the ACL renderer shares the list between them.
THEOREM RulesShared == Spec => []SameSetSameRules
<1>1. TablesFollow => SameSetSameRules
  BY OrderIrrelevant DEF TablesFollow, SameSetSameRules, Configured
<1>. QED BY <1>1, TablesFollowTransactions, PTL
=============================================================================
