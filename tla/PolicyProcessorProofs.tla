----------------------- MODULE PolicyProcessorProofs ------------------------
(***************************************************************************)
(* No pod is overlooked, for any number of pods, policies and events.      *)
(*                                                                         *)
(* A pod that an event has rendered gets what it should have. For every    *)
(* other pod, the event makes no difference but for peers that the         *)
(* processor ignores until their update is complete.                       *)
(***************************************************************************)
EXTENDS PolicyProcessorFacts

----------------------------------------------------------------------------
(* The inductive invariant.                                                *)

AllPolicies == UNION {PolicyInputs[id] : id \in PolicyIDs}

\* The cache has the pods that changed since the start, and all policies. Pods of
\* kube-system never get into the map of addresses.
CacheOK(K, c, map) ==
  /\ K \in [pods : [PodIDs -> PodData \cup {NoData}], policies : [PolicyIDs -> AllPolicies \cup {NoData}]]
  /\ c \in [pods : [PodIDs -> PodData \cup {NoData}],
           policies : [PolicyIDs -> {policyToProto(policy) : policy \in AllPolicies} \cup {NoData}]]
  /\ \A p \in PodIDs : K.pods[p] \in PodInputs[p] \cup {NoData} /\ c.pods[p] \in {K.pods[p], NoData}
  /\ \A id \in PolicyIDs :
       /\ K.policies[id] \in PolicyInputs[id] \cup {NoData}
       /\ c.policies[id] = IF K.policies[id] = NoData THEN NoData ELSE policyToProto(K.policies[id])
  /\ map \in [PodIDs -> IPs \cup {NoIP}]
  /\ \A p \in PodIDs : map[p] # NoIP => Namespace[p] # IgnoredNamespace

CacheInv == CacheOK(k8s, cache, podIPAddressMap)

HistoryInv ==
  /\ configured \in [PodIDs -> SUBSET Configuration]
  /\ ignored \subseteq PodIDs
  /\ events \in 0..MaxEvents

\* The pods NoOutdatedPods is about.
Tracked(p) ==
  /\ p \in Pods(cache) \ ignored
  /\ cache.pods[p].ip \in HostNetwork /\ podIPAddressMap[p] = cache.pods[p].ip

\* What such a pod has lacks peers that were ignored, and nothing else.
TrackedUpToDate ==
  \A p \in PodIDs : Tracked(p) => Agrees(ignored, configured[p], WantedIn(k8s.policies, cache.pods, p))

ProcessorInv == CacheInv /\ HistoryInv /\ TrackedUpToDate

LEMMA InitCache == Init => CacheInv
<1>1. SUFFICES ASSUME Init PROVE CacheOK(k8s, cache, podIPAddressMap)
  BY DEF CacheInv
<1>2. /\ k8s.pods \in InitialPods /\ k8s.policies = NoPolicies
      /\ k8s \in [pods : InitialPods, policies : {NoPolicies}]
  BY <1>1 DEF Init
<1>3. k8s.pods \in [PodIDs -> PodData \cup {NoData}] /\ \A p \in PodIDs : k8s.pods[p] \in PodInputs[p] \cup {NoData}
  BY <1>2, ProcessorAssumption
<1>4. NoPolicies \in [PolicyIDs -> AllPolicies \cup {NoData}] /\ \A id \in PolicyIDs : NoPolicies[id] = NoData
  BY DEF NoPolicies
<1>5. k8s \in [pods : [PodIDs -> PodData \cup {NoData}], policies : [PolicyIDs -> AllPolicies \cup {NoData}]]
  BY <1>2, <1>3, <1>4
<1>6. /\ cache.pods \in [PodIDs -> PodData \cup {NoData}] /\ \A p \in PodIDs : cache.pods[p] = NoData
      /\ cache.policies = NoPolicies /\ cache = [pods |-> cache.pods, policies |-> cache.policies]
  BY <1>1 DEF Init, NoPods
<1>7. NoPolicies \in [PolicyIDs -> {policyToProto(policy) : policy \in AllPolicies} \cup {NoData}]
  BY DEF NoPolicies
<1>8. /\ podIPAddressMap \in [PodIDs -> IPs \cup {NoIP}]
      /\ \A p \in PodIDs : podIPAddressMap[p] = NoIP
  BY <1>1 DEF Init
<1>. QED BY <1>2, <1>3, <1>4, <1>5, <1>6, <1>7, <1>8 DEF CacheOK

\* The cache as the lemmas about configurations want it.
LEMMA CacheConverts ==
  ASSUME NEW K, NEW c, NEW map, CacheOK(K, c, map)
  PROVE  /\ Converted(K.policies, c) /\ PodsTyped(c.pods)
         /\ \A id \in PolicyIDs : K.policies[id] # NoData => SupportedPolicy(K.policies[id])
<1>1. \A id \in PolicyIDs : K.policies[id] # NoData => SupportedPolicy(K.policies[id])
  BY ProcessorAssumption DEF CacheOK
<1>2. \A id \in PolicyIDs : c.policies[id] = IF K.policies[id] = NoData THEN NoData ELSE policyToProto(K.policies[id])
  BY DEF CacheOK
<1>3. \A p \in PodIDs : c.pods[p] # NoData => c.pods[p] \in PodData
  BY DEF CacheOK
<1>. QED BY <1>1, <1>2, <1>3 DEF Converted, PodsTyped

PodPut(c, q, data) == [c EXCEPT !.pods[q] = data]

\* Only pod q differs.
SameBut(D, E, q) == \A r \in PodIDs : r # q => E[r] = D[r]

\* A pod is put or deleted.
LEMMA CachePod ==
  ASSUME NEW K, NEW c, NEW map, CacheOK(K, c, map), NEW q \in PodIDs, NEW data \in PodInputs[q] \cup {NoData}
  PROVE  /\ CacheOK(PodPut(K, q, data), PodPut(c, q, data), map)
         /\ PodPut(K, q, data).policies = K.policies
         /\ PodPut(c, q, data).pods[q] = data
         /\ SameBut(c.pods, PodPut(c, q, data).pods, q)
<1>0. PICK L, d : L = PodPut(K, q, data) /\ d = PodPut(c, q, data)
  OBVIOUS
<1>1. data \in PodData \cup {NoData}
  BY ProcessorAssumption
<1>2. /\ K \in [pods : [PodIDs -> PodData \cup {NoData}], policies : [PolicyIDs -> AllPolicies \cup {NoData}]]
      /\ c \in [pods : [PodIDs -> PodData \cup {NoData}],
               policies : [PolicyIDs -> {policyToProto(policy) : policy \in AllPolicies} \cup {NoData}]]
  BY DEF CacheOK
<1>3. /\ L \in [pods : [PodIDs -> PodData \cup {NoData}], policies : [PolicyIDs -> AllPolicies \cup {NoData}]]
      /\ L.policies = K.policies /\ L.pods[q] = data /\ \A r \in PodIDs : r # q => L.pods[r] = K.pods[r]
  BY <1>0, <1>1, <1>2 DEF PodPut
<1>4. /\ d \in [pods : [PodIDs -> PodData \cup {NoData}],
               policies : [PolicyIDs -> {policyToProto(policy) : policy \in AllPolicies} \cup {NoData}]]
      /\ d.policies = c.policies /\ d.pods[q] = data /\ \A r \in PodIDs : r # q => d.pods[r] = c.pods[r]
  BY <1>0, <1>1, <1>2 DEF PodPut
<1>5. \A p \in PodIDs : L.pods[p] \in PodInputs[p] \cup {NoData} /\ d.pods[p] \in {L.pods[p], NoData}
  BY SMTT(60), <1>3, <1>4 DEF CacheOK
<1>6. CacheOK(L, d, map) /\ SameBut(c.pods, d.pods, q)
  BY <1>3, <1>4, <1>5 DEF CacheOK, SameBut
<1>. QED BY <1>0, <1>3, <1>4, <1>6

PolicyPut(K, id, policy) == [K EXCEPT !.policies[id] = policy]

\* What the cache holds of a policy.
ProtoOf(policy) == IF policy = NoData THEN NoData ELSE policyToProto(policy)

\* A policy is put or deleted.
LEMMA CachePolicy ==
  ASSUME NEW K, NEW c, NEW map, CacheOK(K, c, map), NEW id \in PolicyIDs,
         NEW policy \in PolicyInputs[id] \cup {NoData}
  PROVE  /\ CacheOK(PolicyPut(K, id, policy), PolicyPut(c, id, ProtoOf(policy)), map)
         /\ PolicyPut(c, id, ProtoOf(policy)).pods = c.pods
         /\ PolicyPut(K, id, policy).policies[id] = policy
         /\ SamePoliciesBut(K.policies, PolicyPut(K, id, policy).policies, id)
<1>0. PICK proto, L, d : /\ proto = ProtoOf(policy) /\ L = PolicyPut(K, id, policy)
                         /\ d = PolicyPut(c, id, proto)
  OBVIOUS
<1>1. /\ policy \in AllPolicies \cup {NoData}
      /\ proto \in {policyToProto(x) : x \in AllPolicies} \cup {NoData}
  BY <1>0 DEF AllPolicies, ProtoOf
<1>2. /\ K \in [pods : [PodIDs -> PodData \cup {NoData}], policies : [PolicyIDs -> AllPolicies \cup {NoData}]]
      /\ c \in [pods : [PodIDs -> PodData \cup {NoData}],
               policies : [PolicyIDs -> {policyToProto(x) : x \in AllPolicies} \cup {NoData}]]
  BY DEF CacheOK
<1>3. /\ L \in [pods : [PodIDs -> PodData \cup {NoData}], policies : [PolicyIDs -> AllPolicies \cup {NoData}]]
      /\ L.pods = K.pods /\ L.policies[id] = policy /\ \A i \in PolicyIDs : i # id => L.policies[i] = K.policies[i]
  BY <1>0, <1>1, <1>2 DEF PolicyPut
<1>4. /\ d \in [pods : [PodIDs -> PodData \cup {NoData}],
               policies : [PolicyIDs -> {policyToProto(x) : x \in AllPolicies} \cup {NoData}]]
      /\ d.pods = c.pods /\ d.policies[id] = proto /\ \A i \in PolicyIDs : i # id => d.policies[i] = c.policies[i]
  BY SMTT(60), <1>0, <1>1, <1>2 DEF PolicyPut
<1>5. \A i \in PolicyIDs :
        /\ L.policies[i] \in PolicyInputs[i] \cup {NoData}
        /\ d.policies[i] = IF L.policies[i] = NoData THEN NoData ELSE policyToProto(L.policies[i])
  BY SMTT(60), <1>0, <1>3, <1>4 DEF CacheOK, ProtoOf
<1>6. CacheOK(L, d, map)
  BY SMTT(60), <1>3, <1>4, <1>5 DEF CacheOK
<1>. QED BY <1>0, <1>3, <1>4, <1>6 DEF SamePoliciesBut

\* The pod gets an entry in the map.
LEMMA CacheMap ==
  ASSUME NEW K, NEW c, NEW map, CacheOK(K, c, map), NEW q \in PodIDs, NEW ip \in IPs,
         Namespace[q] # IgnoredNamespace
  PROVE  CacheOK(K, c, [map EXCEPT ![q] = ip])
<1>1. map \in [PodIDs -> IPs \cup {NoIP}] /\ \A p \in PodIDs : map[p] # NoIP => Namespace[p] # IgnoredNamespace
  BY DEF CacheOK
<1>2. PICK n : n = [map EXCEPT ![q] = ip]
  BY Zenon
<1>3. n \in [PodIDs -> IPs \cup {NoIP}] /\ \A p \in PodIDs : n[p] # NoIP => Namespace[p] # IgnoredNamespace
  BY <1>1, <1>2
<1>. QED BY <1>2, <1>3 DEF CacheOK

----------------------------------------------------------------------------
(* Every step keeps the invariant.                                         *)

\* Process replaces the policies of the pods it is given, if they have an address.
LEMMA Processed ==
  ASSUME NEW K, NEW c, NEW map, CacheOK(K, c, map), configured \in [PodIDs -> SUBSET Configuration],
         NEW ps, Process(c, ps)
  PROVE  /\ configured' \in [PodIDs -> SUBSET Configuration]
         /\ \A p \in PodIDs : p \notin ps => configured'[p] = configured[p]
         /\ \A p \in ps : p \in Pods(c) /\ c.pods[p].ip # NoIP => configured'[p] = WantedIn(K.policies, c.pods, p)
<1>1. PICK rendered : rendered = {p \in ps \cap Pods(c) : c.pods[p].ip # NoIP}
  BY Zenon
<1>2. configured' = [p \in PodIDs |-> IF p \in rendered THEN ConfigureOf(c, p) ELSE configured[p]]
  BY <1>1 DEF Process, ConfigureOf
<1>3. \A p \in rendered : ConfigureOf(c, p) = WantedIn(K.policies, c.pods, p)
  BY <1>1, CacheConverts, ConfiguresWanted
<1>4. \A p : WantedIn(K.policies, c.pods, p) \subseteq Configuration
  BY CacheConverts, WantedTyped
<1>5. Pods(c) \subseteq PodIDs
  BY DEF Pods
<1>. QED BY <1>1, <1>2, <1>3, <1>4, <1>5

\* Of the pods only q changes, which is and was no peer of p.
Unaffected(K, D, E, p, q) == p # q /\ SameBut(D, E, q) /\ NoPeer(K, D, p, q) /\ NoPeer(K, E, p, q)

\* A pod that is no peer of p changes.
LEMMA StaysUpToDate ==
  ASSUME NEW K, NEW D, NEW E, NEW p \in PodIDs, NEW q, Unaffected(K, D, E, p, q),
         NEW S, NEW A, Agrees(S, A, WantedIn(K, D, p))
  PROVE  Agrees(S \ {q}, A, WantedIn(K, E, p))
<1>1. Agrees(S \ {q}, A, WantedIn(K, D, p))
  BY NoPeerSeen DEF Unaffected
<1>2. WantedIn(K, E, p) = WantedIn(K, D, p)
  BY NoPeerChanges DEF Unaffected, SameBut
<1>. QED BY <1>1, <1>2

LEMMA EventCounts == ASSUME HistoryInv, Event PROVE events' \in 0..MaxEvents
BY ProcessorAssumption DEF HistoryInv, Event

LEMMA AddPodStep ==
  ASSUME ProcessorInv, NEW q \in PodIDs, NEW data \in PodInputs[q], AddPod(q, data)
  PROVE  ProcessorInv'
<1>1. /\ k8s' = PodPut(k8s, q, data) /\ cache' = PodPut(cache, q, data)
      /\ podIPAddressMap' = podIPAddressMap /\ configured' = configured /\ ignored' = ignored \cup {q}
      /\ Event /\ k8s.pods[q] = NoData
  BY DEF AddPod, PutPod, PodPut
<1>2. CacheOK(k8s, cache, podIPAddressMap) /\ HistoryInv /\ TrackedUpToDate
  BY DEF ProcessorInv, CacheInv
<1>3. /\ CacheOK(k8s', cache', podIPAddressMap) /\ k8s'.policies = k8s.policies
      /\ SameBut(cache.pods, cache'.pods, q)
  BY <1>1, <1>2, CachePod
<1>4. HistoryInv'
  BY SMTT(60), <1>1, <1>2, EventCounts DEF HistoryInv
<1>5. ASSUME NEW p \in PodIDs, Tracked(p)'
      PROVE  Agrees(ignored', configured'[p], WantedIn(k8s'.policies, cache'.pods, p))
  <2>1. p # q /\ Tracked(p)
    BY SMTT(60), <1>1, <1>3, <1>5 DEF Tracked, Pods, SameBut
  <2>2. Agrees(ignored, configured[p], WantedIn(k8s.policies, cache.pods, p))
    BY SMTT(60), <1>2, <2>1 DEF TrackedUpToDate
  <2>3. cache.pods[q] = NoData
    BY <1>1, <1>2 DEF CacheOK
  <2>4. NoPeer(k8s.policies, cache.pods, p, q)
    BY SMTT(60), <2>3, NoPeerOf
  <2>5. Agrees({q}, WantedIn(k8s.policies, cache.pods, p), WantedIn(k8s.policies, cache'.pods, p))
    BY SMTT(60), <1>3, <2>1, <2>4, PeerAppears DEF SameBut
  <2>6. Agrees(ignored \cup {q}, configured[p], WantedIn(k8s.policies, cache'.pods, p))
    BY SMTT(60), <2>2, <2>5, AgreesTransitive
  <2>. QED BY SMTT(60), <1>1, <1>3, <2>6
<1>. QED BY <1>1, <1>3, <1>4, <1>5 DEF ProcessorInv, CacheInv, TrackedUpToDate

\* UpdatePod: pods of kube-system and pods without an address are ignored.
LEMMA UpdatePodIgnored ==
  ASSUME ProcessorInv, NEW q \in PodIDs, NEW data \in PodInputs[q], UpdatePod(q, data),
         Namespace[q] = IgnoredNamespace \/ data.ip = NoIP
  PROVE  ProcessorInv'
<1>1. /\ k8s' = PodPut(k8s, q, data) /\ cache' = PodPut(cache, q, data)
      /\ podIPAddressMap' = podIPAddressMap /\ configured' = configured /\ ignored' = ignored \cup {q}
      /\ Event /\ (data.ip = NoIP => k8s.pods[q].ip = NoIP)
  BY DEF UpdatePod, PutPod, PodPut
<1>2. CacheOK(k8s, cache, podIPAddressMap) /\ HistoryInv /\ TrackedUpToDate
  BY DEF ProcessorInv, CacheInv
<1>3. /\ CacheOK(k8s', cache', podIPAddressMap) /\ k8s'.policies = k8s.policies
      /\ cache'.pods[q] = data /\ SameBut(cache.pods, cache'.pods, q)
  BY <1>1, <1>2, CachePod
<1>4. HistoryInv'
  BY SMTT(60), <1>1, <1>2, EventCounts DEF HistoryInv
<1>5. ASSUME NEW p \in PodIDs, Tracked(p)'
      PROVE  Agrees(ignored', configured'[p], WantedIn(k8s'.policies, cache'.pods, p))
  <2>1. p # q /\ Tracked(p)
    BY SMTT(60), <1>1, <1>3, <1>5 DEF Tracked, Pods, SameBut
  <2>2. Agrees(ignored, configured[p], WantedIn(k8s.policies, cache.pods, p))
    BY SMTT(60), <1>2, <2>1 DEF TrackedUpToDate
  <2>3. Namespace[p] # IgnoredNamespace
    BY SMTT(60), <1>2, <2>1, ProcessorAssumption DEF CacheOK, Tracked
  <2>4. cache.pods[q] \in {k8s.pods[q], NoData}
    BY <1>2 DEF CacheOK
  <2>5. NoPeer(k8s.policies, cache.pods, p, q)
    <3>1. cache.pods[q] = NoData \/ cache.pods[q].ip = NoIP \/ Namespace[q] # Namespace[p]
      BY SMTT(60), <1>1, <2>3, <2>4
    <3>. QED BY <3>1, NoPeerOf
  <2>6. NoPeer(k8s.policies, cache'.pods, p, q)
    <3>1. cache'.pods[q].ip = NoIP \/ Namespace[q] # Namespace[p]
      BY <1>3, <2>3
    <3>. QED BY <3>1, NoPeerOf
  <2>7. ignored \ {q} \subseteq ignored'
    BY SMTT(60), <1>1
  <2>8. Unaffected(k8s.policies, cache.pods, cache'.pods, p, q)
    BY SMTT(60), <1>3, <2>1, <2>5, <2>6 DEF Unaffected
  <2>9. Agrees(ignored \ {q}, configured[p], WantedIn(k8s.policies, cache'.pods, p))
    BY <2>2, <2>8, StaysUpToDate
  <2>10. Agrees(ignored', configured[p], WantedIn(k8s.policies, cache'.pods, p))
    BY SMTT(60), <2>7, <2>9, AgreesMonotone
  <2>. QED BY SMTT(60), <1>1, <1>3, <2>10
<1>. QED BY SMTT(60), <1>1, <1>3, <1>4, <1>5 DEF ProcessorInv, CacheInv, TrackedUpToDate

\* UpdatePod: the pods of policies with a matching peer are rendered.
LEMMA UpdatePodStep ==
  ASSUME ProcessorInv, NEW q \in PodIDs, NEW data \in PodInputs[q], UpdatePod(q, data),
         Namespace[q] # IgnoredNamespace, data.ip # NoIP
  PROVE  ProcessorInv'
<1>1. PICK outdated : outdated = OutdatedByUpdate(cache', q, k8s.pods[q], data)
  OBVIOUS
<1>2. PICK ps : ps = OnHost(cache', outdated)
  OBVIOUS
<1>3. /\ k8s' = PodPut(k8s, q, data) /\ cache' = PodPut(cache, q, data)
      /\ podIPAddressMap' = [podIPAddressMap EXCEPT ![q] = data.ip] /\ ignored' = ignored \ {q}
      /\ Event
  BY DEF UpdatePod, PutPod, PodPut
<1>4. CacheOK(k8s, cache, podIPAddressMap) /\ HistoryInv /\ TrackedUpToDate
  BY SMTT(60) DEF ProcessorInv, CacheInv
<1>5. /\ CacheOK(k8s', cache', podIPAddressMap) /\ k8s'.policies = k8s.policies
      /\ cache'.pods[q] = data /\ SameBut(cache.pods, cache'.pods, q)
  BY SMTT(60), <1>3, <1>4, CachePod
<1>6. CacheOK(k8s', cache', podIPAddressMap')
  <2>1. data.ip \in IPs
    BY ProcessorAssumption DEF PodData
  <2>. QED BY ZenonT(60), <1>3, <1>5, <2>1, CacheMap
<1>7. Process(cache', ps) /\ configured \in [PodIDs -> SUBSET Configuration]
  BY <1>1, <1>2, <1>4 DEF HistoryInv, UpdatePod
<1>8. /\ configured' \in [PodIDs -> SUBSET Configuration]
      /\ \A p \in PodIDs : p \notin ps => configured'[p] = configured[p]
      /\ \A p \in ps : p \in Pods(cache') /\ cache'.pods[p].ip # NoIP
                         => configured'[p] = WantedIn(k8s'.policies, cache'.pods, p)
  BY <1>6, <1>7, Processed
<1>9. HistoryInv'
  BY SMTT(60), <1>3, <1>4, <1>8, EventCounts DEF HistoryInv
<1>10. ASSUME NEW p \in PodIDs, Tracked(p)'
       PROVE  Agrees(ignored', configured'[p], WantedIn(k8s'.policies, cache'.pods, p))
  <2>1. p \in Pods(cache') /\ p \notin ignored' /\ cache'.pods[p].ip \in HostNetwork /\ cache'.pods[p].ip # NoIP
        /\ podIPAddressMap'[p] = cache'.pods[p].ip
    BY SMTT(60), <1>10, ProcessorAssumption DEF Tracked
  <2>2. CASE p \in ps
    BY SMTT(60), <1>8, <2>1, <2>2, AgreesReflexive
  <2>3. CASE p \notin ps
    <3>1. p \notin outdated
      BY SMTT(60), <1>2, <2>1, <2>3 DEF OnHost
    <3>2. /\ p # q /\ p \notin PodsOfPolicies(cache', PoliciesWithPeer(cache', q, k8s.pods[q]))
          /\ p \notin PodsOfPolicies(cache', PoliciesWithPeer(cache', q, data))
      BY SMTT(60), <1>1, <3>1 DEF OutdatedByUpdate, PodsOfPolicies
    <3>3. podIPAddressMap'[p] = podIPAddressMap[p]
      BY SMTT(60), <1>3, <1>4, <3>2 DEF CacheOK
    <3>4. Tracked(p)
      BY ZenonT(60), <1>3, <1>5, <2>1, <3>2, <3>3 DEF Tracked, Pods, SameBut
    <3>5. Agrees(ignored, configured[p], WantedIn(k8s.policies, cache.pods, p))
      BY <1>4, <3>4 DEF TrackedUpToDate
    <3>6. Converted(k8s.policies, cache')
      BY <1>5, CacheConverts
    <3>7. NoPeer(k8s.policies, cache.pods, p, q)
      <4>1. CASE cache.pods[q] = NoData
        BY SMTT(60), <4>1, NoPeerOf
      <4>2. CASE cache.pods[q] = k8s.pods[q]
        BY SMTT(60), <1>5, <3>2, <3>6, <4>2, NoPeerUnlessOutdated DEF SameBut
      <4>. QED BY <1>4, <4>1, <4>2 DEF CacheOK
    <3>8. NoPeer(k8s.policies, cache'.pods, p, q)
      BY SMTT(60), <1>5, <3>2, <3>6, NoPeerUnlessOutdated DEF SameBut
    <3>9. Unaffected(k8s.policies, cache.pods, cache'.pods, p, q)
      BY SMTT(60), <1>5, <3>2, <3>7, <3>8 DEF Unaffected
    <3>10. Agrees(ignored \ {q}, configured[p], WantedIn(k8s.policies, cache'.pods, p))
      BY <3>5, <3>9, StaysUpToDate
    <3>. QED BY SMTT(60), <1>3, <1>5, <1>8, <2>3, <3>10
  <2>. QED BY SMTT(60), <2>2, <2>3
<1>. QED BY SMTT(60), <1>6, <1>9, <1>10 DEF ProcessorInv, CacheInv, TrackedUpToDate

LEMMA DelPodStep ==
  ASSUME ProcessorInv, NEW q \in PodIDs, DelPod(q)
  PROVE  ProcessorInv'
<1>1. /\ k8s' = PodPut(k8s, q, NoData) /\ cache' = PodPut(cache, q, NoData)
      /\ podIPAddressMap' = podIPAddressMap /\ Event
  BY DEF DelPod, PodPut
<1>2. CacheOK(k8s, cache, podIPAddressMap) /\ HistoryInv /\ TrackedUpToDate
  BY SMTT(60) DEF ProcessorInv, CacheInv
<1>3. /\ CacheOK(k8s', cache', podIPAddressMap) /\ k8s'.policies = k8s.policies
      /\ cache'.pods[q] = NoData /\ SameBut(cache.pods, cache'.pods, q)
  BY SMTT(60), <1>1, <1>2, CachePod
<1>4. ASSUME NEW p \in PodIDs, p \in Pods(cache'), p \notin ignored \ {q}, cache'.pods[p].ip \in HostNetwork,
             podIPAddressMap[p] = cache'.pods[p].ip
      PROVE  /\ p # q /\ Namespace[p] # IgnoredNamespace
             /\ Agrees(ignored, configured[p], WantedIn(k8s.policies, cache.pods, p))
             /\ NoPeer(k8s.policies, cache'.pods, p, q)
  <2>1. p # q
    BY SMTT(60), <1>3, <1>4 DEF Pods
  <2>2. Namespace[p] # IgnoredNamespace
    BY SMTT(60), <1>2, <1>4, ProcessorAssumption DEF CacheOK
  <2>3. Tracked(p)
    BY <1>3, <1>4, <2>1 DEF Tracked, Pods, SameBut
  <2>4. Agrees(ignored, configured[p], WantedIn(k8s.policies, cache.pods, p))
    BY SMTT(60), <1>2, <2>3 DEF TrackedUpToDate
  <2>5. NoPeer(k8s.policies, cache'.pods, p, q)
    BY SMTT(60), <1>3, NoPeerOf
  <2>. QED BY SMTT(60), <2>1, <2>2, <2>4, <2>5
<1>5. CASE Namespace[q] = IgnoredNamespace
  <2>1. ignored' = ignored \cup {q} /\ configured' = configured
    BY <1>5 DEF DelPod
  <2>2. HistoryInv'
    BY SMTT(60), <1>1, <1>2, <2>1, EventCounts DEF HistoryInv
  <2>3. ASSUME NEW p \in PodIDs, Tracked(p)'
        PROVE  Agrees(ignored', configured'[p], WantedIn(k8s'.policies, cache'.pods, p))
    <3>1. /\ p # q /\ Namespace[p] # IgnoredNamespace
          /\ Agrees(ignored, configured[p], WantedIn(k8s.policies, cache.pods, p))
          /\ NoPeer(k8s.policies, cache'.pods, p, q)
      BY SMTT(60), <1>1, <1>4, <2>1, <2>3 DEF Tracked
    <3>2. NoPeer(k8s.policies, cache.pods, p, q)
      BY <1>5, <3>1, NoPeerOf
    <3>3. ignored \ {q} \subseteq ignored'
      BY SMTT(60), <2>1
    <3>4. Unaffected(k8s.policies, cache.pods, cache'.pods, p, q)
      BY SMTT(60), <1>3, <3>1, <3>2 DEF Unaffected
    <3>5. Agrees(ignored \ {q}, configured[p], WantedIn(k8s.policies, cache'.pods, p))
      BY SMTT(60), <3>1, <3>4, StaysUpToDate
    <3>6. Agrees(ignored', configured[p], WantedIn(k8s.policies, cache'.pods, p))
      BY SMTT(60), <3>3, <3>5, AgreesMonotone
    <3>. QED BY SMTT(60), <1>3, <2>1, <3>6
  <2>. QED BY <1>1, <1>3, <2>2, <2>3 DEF ProcessorInv, CacheInv, TrackedUpToDate
<1>6. CASE Namespace[q] # IgnoredNamespace
  <2>1. PICK outdated : outdated = PodsOfPolicies(cache', PoliciesWithPeer(cache', q, k8s.pods[q]))
    OBVIOUS
  <2>2. PICK ps : ps = {r \in outdated : podIPAddressMap[r] \in HostNetwork}
    BY Zenon
  <2>3. ignored' = ignored \ {q} /\ Process(cache', ps)
    BY <1>6, <2>1, <2>2 DEF DelPod
  <2>4. configured \in [PodIDs -> SUBSET Configuration]
    BY <1>2 DEF HistoryInv
  <2>5. /\ configured' \in [PodIDs -> SUBSET Configuration]
        /\ \A p \in PodIDs : p \notin ps => configured'[p] = configured[p]
        /\ \A p \in ps : p \in Pods(cache') /\ cache'.pods[p].ip # NoIP
                           => configured'[p] = WantedIn(k8s'.policies, cache'.pods, p)
    BY <1>3, <2>3, <2>4, Processed
  <2>6. HistoryInv'
    BY <1>1, <1>2, <2>3, <2>5, EventCounts DEF HistoryInv
  <2>7. ASSUME NEW p \in PodIDs, Tracked(p)'
        PROVE  Agrees(ignored', configured'[p], WantedIn(k8s'.policies, cache'.pods, p))
    <3>1. /\ p \in Pods(cache') /\ p \notin ignored' /\ cache'.pods[p].ip \in HostNetwork
          /\ cache'.pods[p].ip # NoIP /\ podIPAddressMap[p] = cache'.pods[p].ip
      BY SMTT(60), <1>1, <2>7, ProcessorAssumption DEF Tracked
    <3>2. CASE p \in ps
      BY SMTT(60), <2>5, <3>1, <3>2, AgreesReflexive
    <3>3. CASE p \notin ps
      <4>1. /\ p # q /\ Agrees(ignored, configured[p], WantedIn(k8s.policies, cache.pods, p))
            /\ NoPeer(k8s.policies, cache'.pods, p, q)
        BY SMTT(60), <1>4, <2>3, <3>1
      <4>2. p \notin outdated
        BY SMTT(60), <2>2, <3>1, <3>3
      <4>3. NoPeer(k8s.policies, cache.pods, p, q)
        <5>1. CASE cache.pods[q] = NoData
          BY SMTT(60), <5>1, NoPeerOf
        <5>2. CASE cache.pods[q] = k8s.pods[q]
          <6>1. Converted(k8s.policies, cache')
            BY SMTT(60), <1>3, CacheConverts
          <6>. QED BY SMTT(60), <1>3, <2>1, <4>1, <4>2, <5>2, <6>1, NoPeerUnlessOutdated DEF SameBut
        <5>. QED BY SMTT(60), <1>2, <5>1, <5>2 DEF CacheOK
      <4>4. Unaffected(k8s.policies, cache.pods, cache'.pods, p, q)
        BY SMTT(60), <1>3, <4>1, <4>3 DEF Unaffected
      <4>5. Agrees(ignored \ {q}, configured[p], WantedIn(k8s.policies, cache'.pods, p))
        BY SMTT(60), <4>1, <4>4, StaysUpToDate
      <4>. QED BY SMTT(60), <1>3, <2>3, <2>5, <3>3, <4>5
    <3>. QED BY SMTT(60), <3>2, <3>3
  <2>. QED BY SMTT(60), <1>1, <1>3, <2>6, <2>7 DEF ProcessorInv, CacheInv, TrackedUpToDate
<1>. QED BY <1>5, <1>6

\* A policy changes, and the pods the old or the new policy selects are rendered.
LEMMA PolicyStep ==
  ASSUME ProcessorInv, NEW id \in PolicyIDs, NEW policy \in PolicyInputs[id] \cup {NoData},
         SetPolicy(id, policy), NEW outdated, Process(cache', OnHost(cache', outdated)),
         k8s.policies[id] # NoData => PodsOfPolicy(cache', id, k8s.policies[id]) \subseteq outdated,
         policy # NoData => PodsOfPolicy(cache', id, policy) \subseteq outdated
  PROVE  ProcessorInv'
<1>1. /\ k8s' = PolicyPut(k8s, id, policy) /\ cache' = PolicyPut(cache, id, ProtoOf(policy))
      /\ podIPAddressMap' = podIPAddressMap /\ ignored' = ignored /\ Event
  BY SMTT(60) DEF SetPolicy, PolicyPut, ProtoOf
<1>2. CacheOK(k8s, cache, podIPAddressMap) /\ HistoryInv /\ TrackedUpToDate
  BY SMTT(60) DEF ProcessorInv, CacheInv
<1>3. /\ CacheOK(k8s', cache', podIPAddressMap) /\ cache'.pods = cache.pods
      /\ k8s'.policies[id] = policy /\ SamePoliciesBut(k8s.policies, k8s'.policies, id)
  <2>1. /\ CacheOK(PolicyPut(k8s, id, policy), PolicyPut(cache, id, ProtoOf(policy)), podIPAddressMap)
        /\ PolicyPut(cache, id, ProtoOf(policy)).pods = cache.pods
        /\ PolicyPut(k8s, id, policy).policies[id] = policy
        /\ SamePoliciesBut(k8s.policies, PolicyPut(k8s, id, policy).policies, id)
    BY SMTT(60), <1>2, CachePolicy
  <2>. QED BY SMTT(60), <1>1, <2>1
<1>4. PICK ps : ps = OnHost(cache', outdated)
  BY SMTT(60)
<1>5. Process(cache', ps) /\ configured \in [PodIDs -> SUBSET Configuration]
  BY SMTT(60), <1>2, <1>4 DEF HistoryInv
<1>6. /\ configured' \in [PodIDs -> SUBSET Configuration]
      /\ \A p \in PodIDs : p \notin ps => configured'[p] = configured[p]
      /\ \A p \in ps : p \in Pods(cache') /\ cache'.pods[p].ip # NoIP
                         => configured'[p] = WantedIn(k8s'.policies, cache'.pods, p)
  BY SMTT(60), <1>3, <1>5, Processed
<1>7. HistoryInv'
  BY SMTT(60), <1>1, <1>2, <1>6, EventCounts DEF HistoryInv
<1>8. ASSUME NEW p \in PodIDs, Tracked(p)'
      PROVE  Agrees(ignored', configured'[p], WantedIn(k8s'.policies, cache'.pods, p))
  <2>1. /\ p \in Pods(cache') /\ p \notin ignored' /\ cache'.pods[p].ip \in HostNetwork
        /\ cache'.pods[p].ip # NoIP /\ podIPAddressMap'[p] = cache'.pods[p].ip
    BY SMTT(60), <1>8, ProcessorAssumption DEF Tracked
  <2>2. CASE p \in ps
    BY SMTT(60), <1>6, <2>1, <2>2, AgreesReflexive
  <2>3. CASE p \notin ps
    <3>1. p \notin outdated
      BY SMTT(60), <1>4, <2>1, <2>3 DEF OnHost
    <3>2. Tracked(p)
      BY SMTT(60), <1>1, <1>3, <2>1 DEF Tracked, Pods
    <3>3. Agrees(ignored, configured[p], WantedIn(k8s.policies, cache.pods, p))
      BY SMTT(60), <1>2, <3>2 DEF TrackedUpToDate
    <3>4. /\ k8s.policies[id] # NoData => SupportedPolicy(k8s.policies[id])
          /\ policy # NoData => SupportedPolicy(policy)
      BY SMTT(60), <1>2, <1>3, CacheConverts
    <3>5. id \notin PoliciesIn(k8s.policies, cache.pods, p)
      BY SMTT(60), <1>3, <3>1, <3>4, PodOfPolicy DEF PoliciesIn
    <3>6. id \notin PoliciesIn(k8s'.policies, cache.pods, p)
      BY SMTT(60), <1>3, <3>1, <3>4, PodOfPolicy DEF PoliciesIn
    <3>7. WantedIn(k8s'.policies, cache.pods, p) = WantedIn(k8s.policies, cache.pods, p)
      BY SMTT(60), <1>3, <3>5, <3>6, PolicyChanges
    <3>. QED BY SMTT(60), <1>1, <1>3, <1>6, <2>3, <3>3, <3>7
  <2>. QED BY SMTT(60), <2>2, <2>3
<1>. QED BY <1>1, <1>3, <1>7, <1>8 DEF ProcessorInv, CacheInv, TrackedUpToDate

LEMMA ResyncStep ==
  ASSUME ProcessorInv, Resync
  PROVE  ProcessorInv'
<1>1. k8s' = k8s /\ cache' = cache /\ podIPAddressMap' = podIPAddressMap /\ ignored' = {} /\ Event
  BY DEF Resync
<1>2. CacheOK(k8s, cache, podIPAddressMap) /\ HistoryInv
  BY DEF ProcessorInv, CacheInv
<1>3. PICK ps : ps = Pods(cache)
  OBVIOUS
<1>4. Process(cache, ps) /\ configured \in [PodIDs -> SUBSET Configuration]
  BY SMTT(60), <1>2, <1>3 DEF Resync, HistoryInv
<1>5. /\ configured' \in [PodIDs -> SUBSET Configuration]
      /\ \A p \in ps : p \in Pods(cache) /\ cache.pods[p].ip # NoIP
                         => configured'[p] = WantedIn(k8s.policies, cache.pods, p)
  BY SMTT(60), <1>2, <1>4, Processed
<1>6. HistoryInv'
  BY <1>1, <1>2, <1>5, EventCounts DEF HistoryInv
<1>7. ASSUME NEW p \in PodIDs, Tracked(p)'
      PROVE  Agrees(ignored', configured'[p], WantedIn(k8s'.policies, cache'.pods, p))
  <2>1. p \in Pods(cache) /\ cache.pods[p].ip # NoIP
    BY <1>1, <1>7, ProcessorAssumption DEF Tracked
  <2>. QED BY SMTT(60), <1>1, <1>3, <1>5, <2>1, AgreesReflexive
<1>. QED BY SMTT(60), <1>1, <1>2, <1>6, <1>7 DEF ProcessorInv, CacheInv, TrackedUpToDate

LEMMA NamespaceStep ==
  ASSUME ProcessorInv, NamespaceEvent
  PROVE  ProcessorInv'
<1>1. /\ k8s' = k8s /\ cache' = cache /\ podIPAddressMap' = podIPAddressMap /\ ignored' = ignored
      /\ Event /\ Process(cache, {})
  BY DEF NamespaceEvent
<1>2. CacheOK(k8s, cache, podIPAddressMap) /\ HistoryInv /\ TrackedUpToDate
  BY DEF ProcessorInv, CacheInv
<1>3. configured \in [PodIDs -> SUBSET Configuration]
  BY SMTT(60), <1>2 DEF HistoryInv
<1>4. configured' \in [PodIDs -> SUBSET Configuration] /\ \A p \in PodIDs : configured'[p] = configured[p]
  BY SMTT(60), <1>1, <1>2, <1>3, Processed
<1>5. HistoryInv'
  BY SMTT(60), <1>1, <1>2, <1>4, EventCounts DEF HistoryInv
<1>6. TrackedUpToDate'
  BY SMTT(60), <1>1, <1>2, <1>4 DEF TrackedUpToDate, Tracked, Pods
<1>. QED BY SMTT(60), <1>1, <1>2, <1>5, <1>6 DEF ProcessorInv, CacheInv

LEMMA ProcessorStep == ProcessorInv /\ [Next]_vars => ProcessorInv'
<1>1. SUFFICES ASSUME ProcessorInv, [Next]_vars PROVE ProcessorInv'
  BY SMTT(60)
<1>2. CASE UNCHANGED vars
  BY SMTT(60), <1>1, <1>2 DEF vars, ProcessorInv, CacheInv, HistoryInv, TrackedUpToDate, Tracked, Pods
<1>3. ASSUME NEW q \in PodIDs, NEW data \in PodInputs[q], UpdatePod(q, data) PROVE ProcessorInv'
  BY SMTT(60), <1>1, <1>3, UpdatePodIgnored, UpdatePodStep
<1>4. ASSUME NEW id \in PolicyIDs, NEW policy \in PolicyInputs[id], AddPolicy(id, policy) PROVE ProcessorInv'
  <2>1. PICK outdated : outdated = PodsOfPolicy(cache', id, policy)
    BY SMTT(60)
  <2>2. k8s.policies[id] = NoData /\ SetPolicy(id, policy) /\ Process(cache', OnHost(cache', outdated))
    BY SMTT(60), <1>4, <2>1 DEF AddPolicy
  <2>. QED BY SMTT(60), <1>1, <2>1, <2>2, PolicyStep
<1>5. ASSUME NEW id \in PolicyIDs, NEW policy \in PolicyInputs[id], UpdatePolicy(id, policy) PROVE ProcessorInv'
  <2>1. PICK outdated : outdated = PodsOfPolicy(cache', id, k8s.policies[id]) \cup PodsOfPolicy(cache', id, policy)
    BY Zenon
  <2>2. SetPolicy(id, policy) /\ Process(cache', OnHost(cache', outdated))
    BY <1>5, <2>1 DEF UpdatePolicy
  <2>. QED BY SMTT(60), <1>1, <2>1, <2>2, PolicyStep
<1>6. ASSUME NEW id \in PolicyIDs, DelPolicy(id) PROVE ProcessorInv'
  <2>1. PICK outdated : outdated = PodsOfPolicy(cache', id, k8s.policies[id])
    OBVIOUS
  <2>2. SetPolicy(id, NoData) /\ Process(cache', OnHost(cache', outdated))
    BY <1>6, <2>1 DEF DelPolicy
  <2>. QED BY <1>1, <2>1, <2>2, PolicyStep
<1>. QED BY SMTT(60), <1>1, <1>2, <1>3, <1>4, <1>5, <1>6, AddPodStep, DelPodStep, NamespaceStep, ResyncStep DEF Next

LEMMA ProcessorInit == Init => ProcessorInv
<1>1. SUFFICES ASSUME Init PROVE ProcessorInv
  OBVIOUS
<1>2. CacheInv
  BY SMTT(60), <1>1, InitCache
<1>3. HistoryInv
  BY <1>1, ProcessorAssumption DEF Init, HistoryInv
<1>4. \A p \in PodIDs : cache.pods[p] = NoData
  BY SMTT(60), <1>1 DEF Init, NoPods
<1>5. TrackedUpToDate
  BY <1>4 DEF TrackedUpToDate, Tracked, Pods
<1>. QED BY <1>2, <1>3, <1>5 DEF ProcessorInv

LEMMA ProcessorInvariant == Spec => []ProcessorInv
BY ProcessorInit, ProcessorStep, PTL DEF Spec

----------------------------------------------------------------------------
(* Theorems.                                                               *)

\* The cache holds what K8s has or nothing for every pod, and the conversion of
\* what K8s has for every policy; rules have addresses that exist and ports of 16
\* bits, whatever the pods, the policies and their order.
THEOREM ProcessorTypeCorrect == Spec => []TypeOK
<1>1. ASSUME ProcessorInv PROVE TypeOK
  <2>1. CacheOK(k8s, cache, podIPAddressMap) /\ HistoryInv
    BY SMTT(60), <1>1 DEF ProcessorInv, CacheInv
  <2>2. \A p \in PodIDs : {k8s.pods[p], cache.pods[p]} \subseteq PodInputs[p] \cup {NoData}
    BY SMTT(60), <2>1 DEF CacheOK
  <2>3. \A id \in PolicyIDs :
          /\ k8s.policies[id] \in PolicyInputs[id] \cup {NoData}
          /\ cache.policies[id] \in {policyToProto(policy) : policy \in PolicyInputs[id]} \cup {NoData}
    BY <2>1 DEF CacheOK
  <2>. QED BY <2>1, <2>2, <2>3 DEF TypeOK, CacheOK, HistoryInv
<1>. QED BY <1>1, ProcessorInvariant, PTL

\* No pod is overlooked: after any number of events, each pod of this node that
\* got its address with an update, and whose last event was not ignored, has
\* exactly the policies of K8s that select it now, with the pods and addresses
\* their peers stand for now. This holds for every set of pods, policies of the
\* kind the lookups evaluate, labels and addresses.
THEOREM NoPodOverlooked == Spec => []NoOutdatedPods
<1>1. ASSUME ProcessorInv PROVE NoOutdatedPods
  <2>1. CacheOK(k8s, cache, podIPAddressMap) /\ HistoryInv /\ TrackedUpToDate
    BY SMTT(60), <1>1 DEF ProcessorInv, CacheInv
  <2>2. ASSUME NEW p \in Pods(cache) \ ignored, cache.pods[p].ip \in HostNetwork,
               podIPAddressMap[p] = cache.pods[p].ip
        PROVE  Seen(configured[p]) = Seen(Wanted(p))
    <3>1. p \in PodIDs /\ Tracked(p)
      BY <2>2 DEF Tracked, Pods
    <3>2. PICK A, B : A = configured[p] /\ B = WantedIn(k8s.policies, cache.pods, p)
      OBVIOUS
    <3>3. Agrees(ignored, A, B)
      BY SMTT(60), <2>1, <3>1, <3>2 DEF TrackedUpToDate
    <3>4. A \in SUBSET Configuration /\ B \in SUBSET Configuration
      BY SMTT(60), <2>1, <3>1, <3>2, CacheConverts, WantedTyped DEF HistoryInv
    <3>5. SeenPolicies(ignored, A) = SeenPolicies(ignored, B)
      BY <3>3, <3>4, AgreesSeen
    <3>6. \A X : Seen(X) = SeenPolicies(ignored, X)
      BY DEF Seen, SeenPolicies, SeenPolicy, SeenMatch
    <3>. QED BY SMTT(60), <3>2, <3>5, <3>6, WantedIs
  <2>. QED BY <2>2 DEF NoOutdatedPods
<1>. QED BY <1>1, ProcessorInvariant, PTL
=============================================================================
