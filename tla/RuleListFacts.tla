---------------------------- MODULE RuleListFacts ----------------------------
(***************************************************************************)
(* The operations on ContivRuleLists (acl/cache/cache_impl.go) keep the    *)
(* lists and their index consistent, for any number of interfaces, lists   *)
(* and rules.                                                              *)
(***************************************************************************)
EXTENDS ACLRenderer, FiniteSetTheorems, TLAPS

ListType == [ID : Nat \ {0}, Rules : RuleLists, Interfaces : SUBSET Interfaces,
             Private : Nat \cup {NoPrivate}]

Index == UNION {[S -> Nat] : S \in SUBSET Interfaces}

\* Lists of the right type, with the ACL that Private stands for.
Typed(c) ==
  /\ c \in [lists : SUBSET ListType, byInterface : Index]
  /\ \A l \in c.lists : l.Private \in {NoPrivate, l.ID}

\* The index and the lists agree.
Indexed(c) ==
  /\ \A l \in c.lists : \A i \in l.Interfaces :
       i \in DOMAIN c.byInterface /\ c.byInterface[i] = l.ID
  /\ \A i \in DOMAIN c.byInterface :
       \E l \in c.lists : i \in l.Interfaces /\ c.byInterface[i] = l.ID

\* At most one list of an ID, and of a content.
Distinct(c) == \A l, m \in c.lists : (l.ID = m.ID \/ l.Rules = m.Rules) => l = m

Good(c) == Typed(c) /\ Indexed(c) /\ Distinct(c)

\* Two lists that differ at most in their interfaces.
Alike(l, m) == l.ID = m.ID /\ l.Rules = m.Rules /\ l.Private = m.Private

\* The same lists, with other interfaces.
SameLists(c, e) ==
  /\ \A l \in c.lists : \E m \in e.lists : Alike(l, m)
  /\ \A m \in e.lists : \E l \in c.lists : Alike(l, m)

\* The index where interfaces of S have moved to list id.
Moved(c, e, id, S) ==
  /\ DOMAIN e.byInterface = DOMAIN c.byInterface \cup S
  /\ \A i \in S : e.byInterface[i] = id
  /\ \A i \in DOMAIN c.byInterface \ S : e.byInterface[i] = c.byInterface[i]

\* The same lists twice over.
LEMMA SameAgain ==
  ASSUME NEW c, NEW d, NEW e, SameLists(c, d), SameLists(d, e)
  PROVE  SameLists(c, e)
<1>1. ASSUME NEW l \in c.lists
      PROVE  \E m \in e.lists : Alike(l, m)
  <2>1. PICK k \in d.lists : Alike(l, k)
    BY DEF SameLists
  <2>2. PICK m \in e.lists : Alike(k, m)
    BY DEF SameLists
  <2>. QED BY <2>1, <2>2 DEF Alike
<1>2. ASSUME NEW m \in e.lists
      PROVE  \E l \in c.lists : Alike(l, m)
  <2>1. PICK k \in d.lists : Alike(k, m)
    BY DEF SameLists
  <2>2. PICK l \in c.lists : Alike(l, k)
    BY DEF SameLists
  <2>. QED BY <2>1, <2>2 DEF Alike
<1>. QED BY <1>1, <1>2 DEF SameLists

----------------------------------------------------------------------------
(* Operations on lists.                                                    *)

\* A list with other interfaces, or with another ACL.
LEMMA ListWith ==
  ASSUME NEW l \in ListType
  PROVE  /\ l.ID \in Nat \ {0} /\ l.Rules \in RuleLists /\ l.Interfaces \subseteq Interfaces
         /\ \A S \in SUBSET Interfaces :
              LET m == [l EXCEPT !.Interfaces = S] IN
              m \in ListType /\ m.Interfaces = S /\ Alike(l, m)
         /\ \A p \in Nat \cup {NoPrivate} :
              LET m == [l EXCEPT !.Private = p] IN
              /\ m \in ListType /\ m.Private = p
              /\ m.ID = l.ID /\ m.Rules = l.Rules /\ m.Interfaces = l.Interfaces
  BY DEF ListType, Alike

\* The index without some interfaces, or with some interfaces of a list.
LEMMA IndexWith ==
  ASSUME NEW f \in Index
  PROVE  /\ DOMAIN f \subseteq Interfaces /\ \A i \in DOMAIN f : f[i] \in Nat
         /\ \A D \in SUBSET DOMAIN f : [i \in D |-> f[i]] \in Index
         /\ \A S \in SUBSET Interfaces : \A n \in Nat :
              [i \in DOMAIN f \cup S |-> IF i \in S THEN n ELSE f[i]] \in Index
<1>1. PICK D \in SUBSET Interfaces : f \in [D -> Nat]
  BY DEF Index
<1>2. DOMAIN f = D
  BY <1>1
<1>3. ASSUME NEW E \in SUBSET D
      PROVE  [i \in E |-> f[i]] \in Index
  <2>1. [i \in E |-> f[i]] \in [E -> Nat] /\ E \in SUBSET Interfaces
    BY <1>1
  <2>. QED BY <2>1 DEF Index
<1>4. ASSUME NEW S \in SUBSET Interfaces, NEW n \in Nat
      PROVE  [i \in D \cup S |-> IF i \in S THEN n ELSE f[i]] \in Index
  <2>1. [i \in D \cup S |-> IF i \in S THEN n ELSE f[i]] \in [D \cup S -> Nat] /\ D \cup S \in SUBSET Interfaces
    BY <1>1
  <2>. QED BY Zenon, <2>1 DEF Index
<1>. QED BY SMTT(60), <1>1, <1>2, <1>3, <1>4

\* Empty lists are good.
LEMMA EmptyGood == Good(EmptyLists) /\ EmptyLists.lists = {}
<1>1. [i \in {} |-> 0] \in [{} -> Nat]
  OBVIOUS
<1>2. [i \in {} |-> 0] \in Index
  BY <1>1 DEF Index
<1>. QED BY <1>2 DEF Good, Typed, Indexed, Distinct, EmptyLists

\* Lists with new interfaces and an index that agrees with them are good.
LEMMA GoodWith ==
  ASSUME NEW c, Good(c), NEW e, e \in [lists : SUBSET ListType, byInterface : Index],
         \A l \in c.lists : \E m \in e.lists : Alike(l, m),
         \A m \in e.lists : \E l \in c.lists : Alike(l, m),
         \A l, m \in e.lists : l.ID = m.ID => l = m,
         Indexed(e)
  PROVE  Good(e) /\ SameLists(c, e)
<1>1. SameLists(c, e)
  BY DEF SameLists
<1>2. \A m \in e.lists : m.Private \in {NoPrivate, m.ID}
  BY DEF Good, Typed, Alike
<1>3. ASSUME NEW l \in e.lists, NEW m \in e.lists, l.Rules = m.Rules
      PROVE  l.ID = m.ID
  <2>1. PICK l1 \in c.lists : Alike(l1, l)
    OBVIOUS
  <2>2. PICK m1 \in c.lists : Alike(m1, m)
    OBVIOUS
  <2>. QED BY <1>3, <2>1, <2>2 DEF Good, Distinct, Alike
<1>4. Distinct(e)
  BY <1>3 DEF Distinct
<1>. QED BY <1>1, <1>2, <1>4 DEF Good, Typed

\* Interfaces taken from the lists.
LEMMA UnassignAnyGood ==
  ASSUME NEW c, Good(c), NEW S
  PROVE  LET u == UnassignAny(c, S) IN
         /\ Good(u) /\ SameLists(c, u)
         /\ DOMAIN u.byInterface = DOMAIN c.byInterface \ S
         /\ \A i \in DOMAIN u.byInterface : u.byInterface[i] = c.byInterface[i]
         /\ \A m \in u.lists : \E l \in c.lists : Alike(l, m) /\ m.Interfaces = l.Interfaces \ S
<1> DEFINE Without(l) == [l EXCEPT !.Interfaces = l.Interfaces \ S]
<1>1. c.lists \subseteq ListType /\ c.byInterface \in Index
  BY DEF Good, Typed
<1>2. \A l \in c.lists : {i \in l.Interfaces : ~(i \in S /\ l \in ByInterface(c, i))} = l.Interfaces \ S
  BY DEF Good, Indexed, ByInterface
<1>3. PICK u : u = UnassignAny(c, S)
  OBVIOUS
<1>4. u = [lists |-> {Without(l) : l \in c.lists},
           byInterface |-> [i \in DOMAIN c.byInterface \ S |-> c.byInterface[i]]]
  <2>1. {[l EXCEPT !.Interfaces = {i \in l.Interfaces : ~(i \in S /\ l \in ByInterface(c, i))}] : l \in c.lists}
          = {Without(l) : l \in c.lists}
    BY <1>2
  <2>. QED BY Zenon, <1>3, <2>1 DEF UnassignAny
<1>5. \A l \in c.lists : Without(l) \in ListType /\ Without(l).Interfaces = l.Interfaces \ S /\ Alike(l, Without(l))
  <2>1. \A l \in c.lists : l \in ListType /\ l.Interfaces \subseteq Interfaces
    BY <1>1, ListWith
  <2>2. \A l \in c.lists : l.Interfaces \ S \in SUBSET Interfaces
    BY <2>1
  <2>. QED BY <2>1, <2>2, ListWith
<1> HIDE DEF Without
<1>6. u.lists = {Without(l) : l \in c.lists}
  BY <1>4
<1>7. /\ u.byInterface = [i \in DOMAIN c.byInterface \ S |-> c.byInterface[i]]
      /\ DOMAIN u.byInterface = DOMAIN c.byInterface \ S
      /\ \A i \in DOMAIN u.byInterface : u.byInterface[i] = c.byInterface[i]
  BY <1>4
<1>8. u \in [lists : SUBSET ListType, byInterface : Index]
  <2>1. u.lists \subseteq ListType
    BY <1>5, <1>6
  <2>2. u.byInterface \in Index
    BY <1>1, <1>7, IndexWith
  <2>3. u = [lists |-> u.lists, byInterface |-> u.byInterface]
    BY <1>4
  <2>. QED BY <2>1, <2>2, <2>3
<1>9. \A m \in u.lists : \E l \in c.lists : Alike(l, m) /\ m.Interfaces = l.Interfaces \ S /\ m = Without(l)
  BY <1>5, <1>6
<1>10. \A l \in c.lists : \E m \in u.lists : Alike(l, m) /\ m.Interfaces = l.Interfaces \ S
  BY <1>5, <1>6
<1>11. \A l, m \in u.lists : l.ID = m.ID => l = m
  <2>1. SUFFICES ASSUME NEW l \in u.lists, NEW m \in u.lists, l.ID = m.ID
                 PROVE  l = m
    OBVIOUS
  <2>2. PICK l1 \in c.lists : Alike(l1, l) /\ l = Without(l1)
    BY <1>9
  <2>3. PICK m1 \in c.lists : Alike(m1, m) /\ m = Without(m1)
    BY <1>9
  <2>4. l1 = m1
    BY <2>1, <2>2, <2>3 DEF Alike, Good, Distinct
  <2>. QED BY <2>2, <2>3, <2>4
<1>12. Indexed(u)
  <2>1. ASSUME NEW m \in u.lists, NEW i \in m.Interfaces
        PROVE  i \in DOMAIN u.byInterface /\ u.byInterface[i] = m.ID
    BY <1>7, <1>9 DEF Good, Indexed, Alike
  <2>2. ASSUME NEW i \in DOMAIN u.byInterface
        PROVE  \E m \in u.lists : i \in m.Interfaces /\ u.byInterface[i] = m.ID
    <3>1. PICK l \in c.lists : i \in l.Interfaces /\ c.byInterface[i] = l.ID
      BY <1>7 DEF Good, Indexed
    <3>2. PICK m \in u.lists : Alike(l, m) /\ m.Interfaces = l.Interfaces \ S
      BY <1>10
    <3>. QED BY SMTT(60), <1>7, <3>1, <3>2 DEF Alike
  <2>. QED BY <2>1, <2>2 DEF Indexed
<1>13. Good(u) /\ SameLists(c, u)
  BY SMTT(60), <1>8, <1>9, <1>10, <1>11, <1>12, GoodWith
<1>. QED BY <1>3, <1>7, <1>9, <1>13

\* A list that is well-formed on its own.
ListOK(l) == l \in ListType /\ l.Private \in {NoPrivate, l.ID}

\* A new list takes its interfaces from the others.
LEMMA InsertGood ==
  ASSUME NEW c, Good(c), NEW l, ListOK(l),
         \A m \in c.lists : m.ID # l.ID /\ m.Rules # l.Rules
  PROVE  LET e == Insert(c, l) IN
         /\ Good(e)
         /\ l \in e.lists
         /\ \A m \in c.lists : \E k \in e.lists : Alike(m, k)
         /\ \A k \in e.lists : k = l \/ \E m \in c.lists : Alike(m, k)
         /\ Moved(c, e, l.ID, l.Interfaces)
<1>1. PICK u : u = UnassignAny(c, l.Interfaces)
  OBVIOUS
<1>2. PICK e : e = Insert(c, l)
  OBVIOUS
<1>3. ByRules(c, l.Rules) = {}
  BY DEF ByRules
<1>4. e = [lists |-> u.lists \cup {l},
           byInterface |-> [i \in DOMAIN u.byInterface \cup l.Interfaces |->
                              IF i \in l.Interfaces THEN l.ID ELSE u.byInterface[i]]]
  BY <1>1, <1>2, <1>3 DEF Insert
<1>5. /\ Good(u) /\ SameLists(c, u)
      /\ DOMAIN u.byInterface = DOMAIN c.byInterface \ l.Interfaces
      /\ \A i \in DOMAIN u.byInterface : u.byInterface[i] = c.byInterface[i]
      /\ \A m \in u.lists : \E k \in c.lists : Alike(k, m) /\ m.Interfaces = k.Interfaces \ l.Interfaces
  BY <1>1, UnassignAnyGood
<1>6. /\ e.lists = u.lists \cup {l}
      /\ DOMAIN e.byInterface = DOMAIN u.byInterface \cup l.Interfaces
      /\ \A i \in l.Interfaces : e.byInterface[i] = l.ID
      /\ \A i \in DOMAIN u.byInterface : e.byInterface[i] = u.byInterface[i]
  BY <1>4, <1>5
<1>7. l \in ListType /\ l.ID \in Nat /\ l.Interfaces \in SUBSET Interfaces
  BY ListWith DEF ListOK
<1>8. u.lists \subseteq ListType /\ u.byInterface \in Index
  BY <1>5 DEF Good, Typed
<1>9. e \in [lists : SUBSET ListType, byInterface : Index]
  <2>1. e.byInterface \in Index
    BY Zenon, <1>4, <1>7, <1>8, IndexWith
  <2>2. e = [lists |-> e.lists, byInterface |-> e.byInterface]
    BY <1>4
  <2>. QED BY SMTT(60), <1>6, <1>7, <1>8, <2>1, <2>2
<1>10. \A m \in u.lists : m.ID # l.ID /\ m.Rules # l.Rules /\ m.Interfaces \cap l.Interfaces = {}
  BY <1>5 DEF Alike
<1>11. Typed(e)
  BY <1>5, <1>6, <1>9 DEF Typed, Good, ListOK
<1>12. Distinct(e)
  BY <1>5, <1>6, <1>10 DEF Distinct, Good
<1>13. Indexed(e)
  <2>1. ASSUME NEW m \in e.lists, NEW i \in m.Interfaces
        PROVE  i \in DOMAIN e.byInterface /\ e.byInterface[i] = m.ID
    <3>1. CASE m = l
      BY <1>6, <3>1
    <3>2. CASE m \in u.lists
      <4>1. i \in DOMAIN u.byInterface /\ u.byInterface[i] = m.ID
        BY <1>5, <3>2 DEF Good, Indexed
      <4>. QED BY SMTT(60), <1>6, <4>1
    <3>. QED BY <1>6, <3>1, <3>2
  <2>2. ASSUME NEW i \in DOMAIN e.byInterface
        PROVE  \E m \in e.lists : i \in m.Interfaces /\ e.byInterface[i] = m.ID
    <3>1. CASE i \in l.Interfaces
      BY <1>6, <3>1
    <3>2. CASE i \in DOMAIN u.byInterface
      <4>1. PICK m \in u.lists : i \in m.Interfaces /\ u.byInterface[i] = m.ID
        BY SMTT(60), <1>5, <3>2 DEF Good, Indexed
      <4>. QED BY SMTT(60), <1>6, <3>2, <4>1
    <3>. QED BY <1>6, <3>1, <3>2
  <2>. QED BY <2>1, <2>2 DEF Indexed
<1>14. /\ \A m \in c.lists : \E k \in e.lists : Alike(m, k)
       /\ \A k \in e.lists : k = l \/ \E m \in c.lists : Alike(m, k)
  BY <1>5, <1>6 DEF SameLists
<1>15. Moved(c, e, l.ID, l.Interfaces)
  BY <1>5, <1>6 DEF Moved
<1>. QED BY SMTT(60), <1>2, <1>6, <1>11, <1>12, <1>13, <1>14, <1>15 DEF Good

\* Interfaces given to a list of the cache.
LEMMA AssignGood ==
  ASSUME NEW c, Good(c), NEW id, NEW S \in SUBSET Interfaces,
         \E l \in c.lists : l.ID = id
  PROVE  LET e == Assign(c, id, S) IN
         Good(e) /\ SameLists(c, e) /\ Moved(c, e, id, S)
<1>1. PICK u : u = UnassignAny(c, S)
  OBVIOUS
<1>2. PICK e : e = Assign(c, id, S)
  OBVIOUS
<1> DEFINE With(l) == IF l.ID = id THEN [l EXCEPT !.Interfaces = l.Interfaces \cup S] ELSE l
<1>3. e = [lists |-> {With(l) : l \in u.lists},
           byInterface |-> [i \in DOMAIN u.byInterface \cup S |->
                              IF i \in S THEN id ELSE u.byInterface[i]]]
  BY <1>1, <1>2 DEF Assign
<1>4. /\ Good(u) /\ SameLists(c, u)
      /\ DOMAIN u.byInterface = DOMAIN c.byInterface \ S
      /\ \A i \in DOMAIN u.byInterface : u.byInterface[i] = c.byInterface[i]
      /\ \A m \in u.lists : \E k \in c.lists : Alike(k, m) /\ m.Interfaces = k.Interfaces \ S
  BY <1>1, UnassignAnyGood
<1>5. u.lists \subseteq ListType /\ u.byInterface \in Index
  BY <1>4 DEF Good, Typed
<1>6. \A l \in u.lists :
        /\ With(l) \in ListType /\ Alike(l, With(l))
        /\ With(l).Interfaces = IF l.ID = id THEN l.Interfaces \cup S ELSE l.Interfaces
  <2>1. ASSUME NEW l \in u.lists
        PROVE  /\ With(l) \in ListType /\ Alike(l, With(l))
               /\ With(l).Interfaces = IF l.ID = id THEN l.Interfaces \cup S ELSE l.Interfaces
    <3>1. l \in ListType /\ l.Interfaces \cup S \in SUBSET Interfaces
      BY <1>5, ListWith
    <3>2. CASE l.ID = id
      BY <3>1, <3>2, ListWith
    <3>3. CASE l.ID # id
      BY SMTT(60), <3>1, <3>3 DEF Alike
    <3>. QED BY <3>2, <3>3
  <2>. QED BY <2>1
<1> HIDE DEF With
<1>7. /\ e.lists = {With(l) : l \in u.lists}
      /\ DOMAIN e.byInterface = DOMAIN u.byInterface \cup S
      /\ \A i \in S : e.byInterface[i] = id
      /\ \A i \in DOMAIN u.byInterface : e.byInterface[i] = u.byInterface[i]
  BY <1>3, <1>4
<1>8. /\ \A m \in e.lists : \E l \in u.lists : m = With(l)
      /\ \A l \in u.lists : With(l) \in e.lists
  <2>1. e.lists = {With(l) : l \in u.lists}
    BY <1>7
  <2>. QED BY <2>1
<1>9. \A l \in u.lists : With(l).ID = l.ID
  BY Zenon, <1>6 DEF Alike
<1>10. id \in Nat
  BY ListWith DEF Good, Typed
<1>11. e \in [lists : SUBSET ListType, byInterface : Index]
  <2>1. e.byInterface \in Index
    BY Zenon, <1>3, <1>5, <1>10, IndexWith
  <2>2. e = [lists |-> e.lists, byInterface |-> e.byInterface]
    BY <1>3
  <2>3. e.lists \subseteq ListType
    BY Zenon, <1>6, <1>8
  <2>. QED BY <2>1, <2>2, <2>3
<1>12. \A l, m \in e.lists : l.ID = m.ID => l = m
  <2>1. \A l, m \in u.lists : l.ID = m.ID => l = m
    BY <1>4 DEF Good, Distinct
  <2>. QED BY <1>8, <1>9, <2>1
<1>13. Indexed(e)
  <2>1. ASSUME NEW m \in e.lists, NEW i \in m.Interfaces
        PROVE  i \in DOMAIN e.byInterface /\ e.byInterface[i] = m.ID
    <3>1. PICK l \in u.lists : m = With(l)
      BY <1>7
    <3>2. CASE i \in l.Interfaces
      <4>1. i \in DOMAIN u.byInterface /\ u.byInterface[i] = l.ID
        BY <1>4, <3>2 DEF Good, Indexed
      <4>. QED BY Zenon, <1>6, <1>7, <3>1, <4>1 DEF Alike
    <3>3. CASE i \notin l.Interfaces
      BY ZenonT(60), <1>6, <1>7, <3>1, <3>3 DEF Alike
    <3>. QED BY <3>2, <3>3
  <2>2. ASSUME NEW i \in DOMAIN e.byInterface
        PROVE  \E m \in e.lists : i \in m.Interfaces /\ e.byInterface[i] = m.ID
    <3>1. CASE i \in S
      <4>1. PICK l \in u.lists : l.ID = id
        BY <1>4 DEF SameLists, Alike
      <4>2. With(l) \in e.lists /\ With(l).ID = id
        BY <1>8, <1>9, <4>1
      <4>3. i \in With(l).Interfaces
        BY Zenon, <1>6, <3>1, <4>1
      <4>. QED BY <1>7, <3>1, <4>2, <4>3
    <3>2. CASE i \in DOMAIN u.byInterface
      <4>1. PICK l \in u.lists : i \in l.Interfaces /\ u.byInterface[i] = l.ID
        BY <1>4, <3>2 DEF Good, Indexed
      <4>2. With(l) \in e.lists /\ i \in With(l).Interfaces /\ With(l).ID = l.ID
        BY Zenon, <1>6, <1>8, <1>9, <4>1
      <4>. QED BY <1>7, <3>2, <4>1, <4>2
    <3>. QED BY <1>7, <3>1, <3>2
  <2>. QED BY <2>1, <2>2 DEF Indexed
<1>14. Good(e) /\ SameLists(u, e)
  <2>1. /\ \A l \in u.lists : \E m \in e.lists : Alike(l, m)
        /\ \A m \in e.lists : \E l \in u.lists : Alike(l, m)
    BY Zenon, <1>6, <1>8
  <2>. QED BY <1>4, <1>11, <1>12, <1>13, <2>1, GoodWith
<1>15. SameLists(c, e)
  BY <1>4, <1>14, SameAgain
<1>16. Moved(c, e, id, S)
  BY <1>4, <1>7 DEF Moved
<1>. QED BY SMTT(60), <1>2, <1>14, <1>15, <1>16

\* Interfaces taken from one list.
LEMMA UnassignGood ==
  ASSUME NEW c, Good(c), NEW id, NEW S
  PROVE  LET e == Unassign(c, id, S) IN
         /\ Good(e) /\ SameLists(c, e)
         /\ DOMAIN e.byInterface = {j \in DOMAIN c.byInterface : ~(j \in S /\ c.byInterface[j] = id)}
         /\ \A i \in DOMAIN e.byInterface : e.byInterface[i] = c.byInterface[i]
<1>1. PICK e : e = Unassign(c, id, S)
  OBVIOUS
<1> DEFINE Kept == {j \in DOMAIN c.byInterface : ~(j \in S /\ c.byInterface[j] = id)}
           Without(l) == IF l.ID = id THEN [l EXCEPT !.Interfaces = l.Interfaces \ S] ELSE l
<1>2. e = [lists |-> {Without(l) : l \in c.lists}, byInterface |-> [i \in Kept |-> c.byInterface[i]]]
  BY <1>1 DEF Unassign
<1>3. c.lists \subseteq ListType /\ c.byInterface \in Index
  BY DEF Good, Typed
<1>4. \A l \in c.lists :
        /\ Without(l) \in ListType /\ Alike(l, Without(l))
        /\ Without(l).Interfaces = IF l.ID = id THEN l.Interfaces \ S ELSE l.Interfaces
  <2>1. ASSUME NEW l \in c.lists
        PROVE  /\ Without(l) \in ListType /\ Alike(l, Without(l))
               /\ Without(l).Interfaces = IF l.ID = id THEN l.Interfaces \ S ELSE l.Interfaces
    <3>1. l \in ListType /\ l.Interfaces \ S \in SUBSET Interfaces
      BY <1>3, ListWith
    <3>2. CASE l.ID = id
      BY <3>1, <3>2, ListWith
    <3>3. CASE l.ID # id
      BY SMTT(60), <3>1, <3>3 DEF Alike
    <3>. QED BY <3>2, <3>3
  <2>. QED BY <2>1
<1> HIDE DEF Without
<1>5. /\ e.lists = {Without(l) : l \in c.lists}
      /\ DOMAIN e.byInterface = Kept
      /\ \A i \in Kept : e.byInterface[i] = c.byInterface[i]
  BY <1>2
<1>6. /\ \A m \in e.lists : \E l \in c.lists : m = Without(l)
      /\ \A l \in c.lists : Without(l) \in e.lists
  <2>1. e.lists = {Without(l) : l \in c.lists}
    BY <1>5
  <2>. QED BY <2>1
<1>7. \A l \in c.lists : Without(l).ID = l.ID
  BY Zenon, <1>4 DEF Alike
<1>8. e \in [lists : SUBSET ListType, byInterface : Index]
  <2>1. e.byInterface \in Index
    BY <1>2, <1>3, IndexWith
  <2>2. e = [lists |-> e.lists, byInterface |-> e.byInterface]
    BY <1>2
  <2>3. e.lists \subseteq ListType
    BY Zenon, <1>4, <1>6
  <2>. QED BY <2>1, <2>2, <2>3
<1>9. \A l, m \in e.lists : l.ID = m.ID => l = m
  <2>1. \A l, m \in c.lists : l.ID = m.ID => l = m
    BY DEF Good, Distinct
  <2>. QED BY <1>6, <1>7, <2>1
<1>10. Indexed(e)
  <2>1. ASSUME NEW m \in e.lists, NEW i \in m.Interfaces
        PROVE  i \in DOMAIN e.byInterface /\ e.byInterface[i] = m.ID
    <3>1. PICK l \in c.lists : m = Without(l)
      BY <1>6
    <3>2. i \in l.Interfaces /\ (l.ID = id => i \notin S) /\ m.ID = l.ID
      BY Zenon, <1>4, <1>7, <3>1
    <3>3. i \in DOMAIN c.byInterface /\ c.byInterface[i] = l.ID
      BY <3>2 DEF Good, Indexed
    <3>. QED BY <1>5, <3>2, <3>3
  <2>2. ASSUME NEW i \in DOMAIN e.byInterface
        PROVE  \E m \in e.lists : i \in m.Interfaces /\ e.byInterface[i] = m.ID
    <3>1. PICK l \in c.lists : i \in l.Interfaces /\ c.byInterface[i] = l.ID
      BY <1>5 DEF Good, Indexed
    <3>2. Without(l) \in e.lists /\ i \in Without(l).Interfaces /\ Without(l).ID = l.ID
      BY Zenon, <1>4, <1>5, <1>6, <1>7, <3>1
    <3>. QED BY <1>5, <3>1, <3>2
  <2>. QED BY <2>1, <2>2 DEF Indexed
<1>11. /\ \A l \in c.lists : \E m \in e.lists : Alike(l, m)
       /\ \A m \in e.lists : \E l \in c.lists : Alike(l, m)
  BY Zenon, <1>4, <1>6
<1>12. Good(e) /\ SameLists(c, e)
  BY <1>8, <1>9, <1>10, <1>11, GoodWith
<1>. QED BY <1>1, <1>5, <1>12

\* Two lists of one ID, or of one content: the lists of a transaction and of the cache.
Twins(l, m) == l.ID = m.ID /\ l.Rules = m.Rules

\* Lists whose ACLs are set, nothing else.
LEMMA PrivateGood ==
  ASSUME NEW c, Good(c), NEW L,
         \A m \in L : ListOK(m) /\ \E l \in c.lists : Twins(l, m) /\ m.Interfaces = l.Interfaces,
         \A l \in c.lists : \E m \in L : Twins(l, m) /\ m.Interfaces = l.Interfaces,
         \A l, m \in L : l.ID = m.ID => l = m
  PROVE  LET e == [c EXCEPT !.lists = L] IN Good(e) /\ e.lists = L
<1>1. PICK e : e = [c EXCEPT !.lists = L]
  BY Zenon
<1>2. c \in [lists : SUBSET ListType, byInterface : Index]
  BY DEF Good, Typed
<1>3. e.lists = L /\ e.byInterface = c.byInterface
      /\ e = [lists |-> e.lists, byInterface |-> e.byInterface]
  BY <1>1, <1>2
<1>4. Typed(e)
  BY <1>2, <1>3 DEF Typed, ListOK
<1>5. Distinct(e)
  <2>1. \A l, m \in c.lists : l.Rules = m.Rules => l.ID = m.ID
    BY DEF Good, Distinct
  <2>2. \A l, m \in L : l.Rules = m.Rules => l.ID = m.ID
    BY <2>1 DEF Twins
  <2>. QED BY <1>3, <2>2 DEF Distinct
<1>6. Indexed(e)
  <2>1. ASSUME NEW m \in e.lists, NEW i \in m.Interfaces
        PROVE  i \in DOMAIN e.byInterface /\ e.byInterface[i] = m.ID
    BY <1>3 DEF Good, Indexed, Twins
  <2>2. ASSUME NEW i \in DOMAIN e.byInterface
        PROVE  \E m \in e.lists : i \in m.Interfaces /\ e.byInterface[i] = m.ID
    <3>1. PICK l \in c.lists : i \in l.Interfaces /\ c.byInterface[i] = l.ID
      BY <1>3 DEF Good, Indexed
    <3>. QED BY <1>3, <3>1 DEF Twins
  <2>. QED BY <2>1, <2>2 DEF Indexed
<1>. QED BY <1>1, <1>3, <1>4, <1>5, <1>6 DEF Good

\* A list that leaves the transaction.
LEMMA RemoveGood ==
  ASSUME NEW c, Good(c), NEW l \in c.lists
  PROVE  Good([lists |-> c.lists \ {l}, byInterface |-> UnassignAny(c, l.Interfaces).byInterface])
<1>1. PICK u : u = UnassignAny(c, l.Interfaces)
  OBVIOUS
<1>2. PICK e : e = [lists |-> c.lists \ {l}, byInterface |-> u.byInterface]
  BY Zenon
<1>3. /\ u.byInterface \in Index
      /\ DOMAIN u.byInterface = DOMAIN c.byInterface \ l.Interfaces
      /\ \A i \in DOMAIN u.byInterface : u.byInterface[i] = c.byInterface[i]
  BY <1>1, UnassignAnyGood DEF Good, Typed
<1>4. e.lists = c.lists \ {l} /\ e.byInterface = u.byInterface
  BY <1>2
<1>5. Typed(e)
  BY <1>2, <1>3 DEF Typed, Good
<1>6. Distinct(e)
  BY <1>4 DEF Distinct, Good
<1>7. \A m \in e.lists : m.ID # l.ID
  BY <1>4 DEF Good, Distinct
<1>8. Indexed(e)
  <2>1. ASSUME NEW m \in e.lists, NEW i \in m.Interfaces
        PROVE  i \in DOMAIN e.byInterface /\ e.byInterface[i] = m.ID
    <3>1. i \in DOMAIN c.byInterface /\ c.byInterface[i] = m.ID
      BY <1>4 DEF Good, Indexed
    <3>2. i \notin l.Interfaces
      BY SMTT(60), <1>7, <3>1 DEF Good, Indexed
    <3>. QED BY SMTT(60), <1>3, <1>4, <3>1, <3>2
  <2>2. ASSUME NEW i \in DOMAIN e.byInterface
        PROVE  \E m \in e.lists : i \in m.Interfaces /\ e.byInterface[i] = m.ID
    <3>1. PICK m \in c.lists : i \in m.Interfaces /\ c.byInterface[i] = m.ID
      BY SMTT(60), <1>3, <1>4 DEF Good, Indexed
    <3>. QED BY SMTT(60), <1>3, <1>4, <3>1
  <2>. QED BY <2>1, <2>2 DEF Indexed
<1>. QED BY SMTT(60), <1>1, <1>2, <1>5, <1>6, <1>8 DEF Good

----------------------------------------------------------------------------
(* Lists that move between the cache and a transaction.                    *)

\* A list that shares its ID or its content with lists of the cache is a copy of them.
CopyIn(c, l) == \A m \in c.lists : (l.ID = m.ID \/ l.Rules = m.Rules) => Twins(l, m)

\* An interface belongs to a list, according to the index.
At(c, i, id) == i \in DOMAIN c.byInterface /\ c.byInterface[i] = id

\* The interfaces of a list are those of the index.
LEMMA InterfacesOf ==
  ASSUME NEW c, Good(c), NEW l \in c.lists
  PROVE  \A i : i \in l.Interfaces <=> At(c, i, l.ID)
  BY DEF Good, Indexed, Distinct, At

\* A list of the index is a list.
LEMMA ListAt ==
  ASSUME NEW c, Good(c), NEW i \in DOMAIN c.byInterface
  PROVE  \E l \in c.lists : At(c, i, l.ID)
  BY SMTT(60) DEF Good, Indexed, At

\* The index where list l has exactly its interfaces.
Reassigned(c, e, l) ==
  \A i : \A id : At(e, i, id) <=> IF i \in l.Interfaces THEN id = l.ID ELSE At(c, i, id) /\ id # l.ID

\* A list of the transaction is committed.
LEMMA CommittedGood ==
  ASSUME NEW c, Good(c), NEW l, ListOK(l), CopyIn(c, l)
  PROVE  LET e == CommittedList(c, l) IN
         /\ Good(e)
         /\ \A m \in e.lists : \/ l.Interfaces # {} /\ Alike(l, m)
                               \/ \E k \in c.lists : Alike(k, m)
         /\ \A m \in c.lists : \E k \in e.lists : Twins(m, k)
         /\ IF l.Interfaces = {} THEN e = c
            ELSE Reassigned(c, e, l) /\ \E k \in e.lists : Twins(l, k)
<1>1. PICK orig : orig = ByID(c, l.ID)
  OBVIOUS
<1>2. \A m \in c.lists : \E k \in c.lists : Alike(k, m) /\ Twins(m, k)
  BY SMTT(60) DEF Alike, Twins
<1>3. CASE orig # {}
  <2>1. PICK before : before = UNION {o.Interfaces : o \in orig}
    BY ZenonT(60)
  <2>2. PICK q \in c.lists : q.ID = l.ID /\ Twins(l, q)
    BY <1>1, <1>3 DEF ByID, CopyIn
  <2>3. \A i : i \in before <=> At(c, i, l.ID)
    <3>1. orig = {q}
      BY <1>1, <2>2 DEF ByID, Good, Distinct
    <3>2. before = q.Interfaces
      BY <2>1, <3>1
    <3>. QED BY <2>2, <3>2, InterfacesOf
  <2>4. CASE l.Interfaces = {} \/ l.Interfaces = before
    <3>1. CommittedList(c, l) = c
      BY SMTT(60), <1>1, <1>3, <2>1, <2>4 DEF CommittedList
    <3>2. l.Interfaces # {} => Reassigned(c, c, l)
      BY <2>4, <2>3 DEF Reassigned, At
    <3>. QED BY SMTT(60), <1>2, <2>2, <3>1, <3>2
  <2>5. CASE ~(l.Interfaces = {} \/ l.Interfaces = before)
    <3>1. PICK a : a = Unassign(c, l.ID, before \ l.Interfaces)
      BY SMTT(60)
    <3>2. /\ Good(a) /\ SameLists(c, a)
          /\ DOMAIN a.byInterface =
               {j \in DOMAIN c.byInterface : ~(j \in before \ l.Interfaces /\ c.byInterface[j] = l.ID)}
          /\ \A i \in DOMAIN a.byInterface : a.byInterface[i] = c.byInterface[i]
      BY SMTT(60), <3>1, UnassignGood
    <3>3. PICK b : b = Assign(a, l.ID, l.Interfaces \ before)
      BY SMTT(60)
    <3>4. Good(b) /\ SameLists(a, b) /\ Moved(a, b, l.ID, l.Interfaces \ before)
      <4>1. \E m \in a.lists : m.ID = l.ID
        BY SMTT(60), <1>1, <1>3, <3>2 DEF ByID, SameLists, Alike
      <4>2. l.Interfaces \ before \in SUBSET Interfaces
        BY SMTT(60), ListWith DEF ListOK
      <4>. QED BY SMTT(60), <3>2, <3>3, <4>1, <4>2, AssignGood
    <3>5. SameLists(c, b)
      BY <3>2, <3>4, SameAgain
    <3> DEFINE New(o) == IF o.ID = l.ID THEN [o EXCEPT !.Private = l.Private] ELSE o
    <3>6. PICK L : L = {New(o) : o \in b.lists}
      BY Zenon
    <3>7. CommittedList(c, l) = [b EXCEPT !.lists = L]
      BY <1>1, <1>3, <2>1, <2>5, <3>1, <3>3, <3>6 DEF CommittedList
    <3>8. ASSUME NEW o \in b.lists
          PROVE  /\ ListOK(New(o)) /\ Twins(o, New(o)) /\ New(o).Interfaces = o.Interfaces
                 /\ Alike(l, New(o)) \/ \E k \in c.lists : Alike(k, New(o))
      <4>1. ListOK(o) /\ o \in ListType
        BY <3>4 DEF Good, Typed, ListOK
      <4>2. PICK k \in c.lists : Alike(k, o)
        BY <3>5 DEF SameLists
      <4>3. CASE o.ID = l.ID
        <5>1. l.Private \in Nat \cup {NoPrivate}
          BY DEF ListOK, ListType
        <5>2. /\ New(o) \in ListType /\ New(o).Private = l.Private
              /\ New(o).ID = o.ID /\ New(o).Rules = o.Rules /\ New(o).Interfaces = o.Interfaces
          BY SMTT(60), <4>1, <4>3, <5>1, ListWith
        <5>3. o.Rules = l.Rules
          BY SMTT(60), <4>2, <4>3 DEF CopyIn, Twins, Alike
        <5>4. l.Private \in {NoPrivate, l.ID}
          BY DEF ListOK
        <5> HIDE DEF New
        <5>. QED BY <4>3, <5>2, <5>3, <5>4 DEF ListOK, Twins, Alike
      <4>4. CASE o.ID # l.ID
        BY SMTT(60), <4>1, <4>2, <4>4 DEF Twins
      <4>. QED BY <4>3, <4>4
    <3> HIDE DEF New
    <3>9. /\ \A m \in L : \E o \in b.lists : m = New(o)
          /\ \A o \in b.lists : New(o) \in L
      BY SMTT(60), <3>6
    <3>10. \A m, n \in L : m.ID = n.ID => m = n
      <4>1. \A m, n \in b.lists : m.ID = n.ID => m = n
        BY SMTT(60), <3>4 DEF Good, Distinct
      <4>2. \A o \in b.lists : New(o).ID = o.ID
        BY SMTT(60), <3>8 DEF Twins
      <4>. QED BY SMTT(60), <3>9, <4>1, <4>2
    <3>11. /\ \A m \in L : ListOK(m) /\ \E o \in b.lists : Twins(o, m) /\ m.Interfaces = o.Interfaces
           /\ \A o \in b.lists : \E m \in L : Twins(o, m) /\ m.Interfaces = o.Interfaces
      BY <3>8, <3>9
    <3>12. Good([b EXCEPT !.lists = L]) /\ [b EXCEPT !.lists = L].lists = L
      BY ZenonT(60), <3>4, <3>10, <3>11, PrivateGood
    <3>13. \A m \in L : Alike(l, m) \/ \E k \in c.lists : Alike(k, m)
      BY <3>8, <3>9
    <3>14. Reassigned(c, b, l)
      BY <2>3, <3>2, <3>4 DEF Reassigned, At, Moved
    <3>15. [b EXCEPT !.lists = L].byInterface = b.byInterface
      BY <3>4 DEF Good, Typed
    <3>16. Reassigned(c, [b EXCEPT !.lists = L], l)
      BY <3>14, <3>15 DEF Reassigned, At
    <3>17. \A m \in c.lists : \E k \in L : Twins(m, k)
      <4>1. SUFFICES ASSUME NEW m \in c.lists PROVE \E k \in L : Twins(m, k)
        BY SMTT(60)
      <4>2. PICK n \in b.lists : Alike(m, n)
        BY SMTT(60), <3>5 DEF SameLists
      <4>. QED BY SMTT(60), <3>8, <3>9, <4>2 DEF Alike, Twins
    <3>18. \E k \in L : Twins(l, k)
      BY SMTT(60), <2>2, <3>17 DEF Twins
    <3>. QED BY SMTT(60), <2>5, <3>7, <3>12, <3>13, <3>16, <3>17, <3>18
  <2>. QED BY SMTT(60), <2>4, <2>5
<1>4. CASE orig = {} /\ l.Interfaces # {}
  <2>1. CommittedList(c, l) = Insert(c, l)
    BY SMTT(60), <1>1, <1>4 DEF CommittedList
  <2>2. \A m \in c.lists : m.ID # l.ID /\ m.Rules # l.Rules
    BY <1>1, <1>4 DEF ByID, CopyIn, Twins
  <2>3. Alike(l, l) /\ Twins(l, l)
    BY DEF Alike, Twins
  <2>4. PICK e : e = Insert(c, l)
    BY SMTT(60)
  <2>5. /\ Good(e) /\ l \in e.lists
        /\ \A m \in c.lists : \E k \in e.lists : Alike(m, k)
        /\ \A k \in e.lists : k = l \/ \E m \in c.lists : Alike(m, k)
        /\ Moved(c, e, l.ID, l.Interfaces)
    BY SMTT(60), <2>2, <2>4, InsertGood
  <2>6. \A i : ~At(c, i, l.ID)
    BY SMTT(60), <2>2 DEF At, Good, Indexed
  <2>7. Reassigned(c, e, l)
    BY SMTT(60), <2>5, <2>6 DEF Reassigned, At, Moved
  <2>8. \A m \in c.lists : \E k \in e.lists : Twins(m, k)
    BY SMTT(60), <2>5 DEF Alike, Twins
  <2>. QED BY SMTT(60), <1>4, <2>1, <2>3, <2>4, <2>5, <2>7, <2>8
<1>5. CASE orig = {} /\ l.Interfaces = {}
  <2>1. CommittedList(c, l) = c
    BY SMTT(60), <1>1, <1>5 DEF CommittedList
  <2>. QED BY <1>2, <1>5, <2>1
<1>. QED BY SMTT(60), <1>3, <1>4, <1>5

\* Lists of a transaction that are also in the cache, before they are rendered.
HeadOf(c, h) ==
  \A l \in h.lists : \A m \in c.lists : (l.ID = m.ID \/ l.Rules = m.Rules) => Alike(l, m)

\* The list an interface leaves is copied into the transaction.
LEMMA HeadWithOrigGood ==
  ASSUME NEW c, Good(c), NEW h, Good(h), HeadOf(c, h), NEW i
  PROVE  LET e == HeadWithOrig(c, h, i) IN
         /\ Good(e) /\ HeadOf(c, e)
         /\ \A k \in e.lists : \E m \in c.lists \cup h.lists : Alike(m, k)
<1>1. PICK orig : orig = {l \in ByInterface(c, i) : ByID(h, l.ID) = {}}
  BY Zenon
<1>2. CASE orig = {}
  <2>1. HeadWithOrig(c, h, i) = h
    BY <1>1, <1>2 DEF HeadWithOrig
  <2>. QED BY <2>1 DEF Alike
<1>3. CASE orig # {}
  <2>1. PICK l : l = CHOOSE m \in orig : TRUE
    OBVIOUS
  <2>2. l \in c.lists /\ ByID(h, l.ID) = {}
    BY <1>1, <1>3, <2>1 DEF ByInterface
  <2>3. PICK e : e = Insert(h, l)
    OBVIOUS
  <2>4. HeadWithOrig(c, h, i) = e
    BY SMTT(60), <1>1, <1>3, <2>1, <2>3 DEF HeadWithOrig
  <2>5. ListOK(l)
    BY SMTT(60), <2>2 DEF Good, Typed, ListOK
  <2>6. \A m \in h.lists : m.ID # l.ID /\ m.Rules # l.Rules
    BY SMTT(60), <2>2 DEF ByID, HeadOf, Alike
  <2>7. /\ Good(e)
        /\ \A k \in e.lists : k = l \/ \E m \in h.lists : Alike(m, k)
    BY SMTT(60), <2>3, <2>5, <2>6, InsertGood
  <2>8. HeadOf(c, e)
    BY SMTT(60), <2>2, <2>7 DEF HeadOf, Alike, Good, Distinct
  <2>9. \A k \in e.lists : \E m \in c.lists \cup h.lists : Alike(m, k)
    BY SMTT(60), <2>2, <2>7 DEF Alike
  <2>. QED BY <2>4, <2>7, <2>8, <2>9
<1>. QED BY <1>2, <1>3

\* The rules of an interface are changed in the transaction.
LEMMA UpdatedHeadGood ==
  ASSUME NEW d, Good(cache[d]), NEW h, Good(h), HeadOf(cache[d], h),
         NEW i \in Interfaces, NEW r \in RuleLists,
         FreshID(d) \in Nat \ {0}, \A m \in cache[d].lists \cup h.lists : m.ID # FreshID(d)
  PROVE  LET e == UpdatedHead(d, h, i, r) IN
         /\ Good(e) /\ HeadOf(cache[d], e)
         /\ \A k \in e.lists : \/ \E m \in cache[d].lists \cup h.lists : Alike(m, k)
                               \/ NeedsNewList(d, h, r) /\ k.ID = FreshID(d)
<1>1. PICK c : c = cache[d]
  OBVIOUS
<1>2. PICK inHead : inHead = ByRules(h, r)
  OBVIOUS
<1>3. PICK inBase : inBase = ByRules(c, r)
  BY SMTT(60)
<1>4. PICK e : e = UpdatedHead(d, h, i, r)
  BY SMTT(60)
<1>5. CASE inHead # {}
  <2>1. PICK l : l = CHOOSE m \in inHead : TRUE
    BY SMTT(60)
  <2>2. l \in h.lists
    BY SMTT(60), <1>2, <1>5, <2>1 DEF ByRules
  <2>3. e = Assign(h, l.ID, {i})
    BY SMTT(60), <1>2, <1>3, <1>4, <1>5, <2>1 DEF UpdatedHead
  <2>4. Good(e) /\ SameLists(h, e)
    <3>1. {i} \in SUBSET Interfaces
      BY SMTT(60)
    <3>. QED BY SMTT(60), <2>2, <2>3, <3>1, AssignGood
  <2>5. HeadOf(c, e)
    BY SMTT(60), <1>1, <2>4 DEF HeadOf, SameLists, Alike
  <2>. QED BY SMTT(60), <1>1, <1>4, <2>4, <2>5 DEF SameLists
<1>6. CASE inHead = {} /\ inBase # {}
  <2>1. PICK l : l = CHOOSE m \in inHead \cup inBase : TRUE
    BY SMTT(60)
  <2>2. l \in c.lists /\ l.Rules = r
    BY <1>3, <1>6, <2>1 DEF ByRules
  <2>3. e = IF i \in l.Interfaces THEN h ELSE Insert(h, [l EXCEPT !.Interfaces = @ \cup {i}])
    BY SMTT(60), <1>1, <1>2, <1>3, <1>4, <1>6, <2>1 DEF UpdatedHead
  <2>4. CASE i \in l.Interfaces
    <3>1. \A k \in h.lists : Alike(k, k)
      BY SMTT(60) DEF Alike
    <3>. QED BY SMTT(60), <1>1, <1>4, <2>3, <2>4, <3>1
  <2>5. CASE i \notin l.Interfaces
    <3>1. PICK n : n = [l EXCEPT !.Interfaces = l.Interfaces \cup {i}]
      BY Zenon
    <3>2. l \in ListType /\ ListOK(l) /\ l.Interfaces \cup {i} \in SUBSET Interfaces
      BY <1>1, <2>2, ListWith DEF Good, Typed, ListOK
    <3>3. ListOK(n) /\ Alike(l, n)
      BY <3>1, <3>2, ListWith DEF ListOK, Alike
    <3>4. \A m \in h.lists : m.ID # n.ID /\ m.Rules # n.Rules
      <4>1. \A m \in h.lists : m.Rules # r
        BY <1>2, <1>6 DEF ByRules
      <4>. QED BY <1>1, <2>2, <3>3, <4>1 DEF HeadOf, Alike
    <3>5. e = Insert(h, n)
      BY SMTT(60), <2>3, <2>5, <3>1
    <3>6. /\ Good(e)
          /\ \A k \in e.lists : k = n \/ \E m \in h.lists : Alike(m, k)
      BY SMTT(60), <3>3, <3>4, <3>5, InsertGood
    <3>7. HeadOf(c, e)
      BY SMTT(60), <1>1, <2>2, <3>3, <3>6 DEF HeadOf, Alike, Good, Distinct
    <3>. QED BY SMTT(60), <1>1, <1>4, <2>2, <3>3, <3>6, <3>7
  <2>. QED BY SMTT(60), <2>4, <2>5
<1>7. CASE inHead = {} /\ inBase = {}
  <2>1. PICK n : n = [ID |-> FreshID(d), Rules |-> r, Interfaces |-> {i}, Private |-> NoPrivate]
    BY ZenonT(60)
  <2>2. e = Insert(h, n)
    BY <1>1, <1>2, <1>3, <1>4, <1>7, <2>1 DEF UpdatedHead
  <2>3. ListOK(n) /\ n.ID = FreshID(d) /\ n.Rules = r
    BY <2>1 DEF ListOK, ListType
  <2>4. \A m \in c.lists \cup h.lists : m.ID # n.ID /\ m.Rules # n.Rules
    BY <1>1, <1>2, <1>3, <1>7, <2>3 DEF ByRules
  <2>5. /\ Good(e)
        /\ \A k \in e.lists : k = n \/ \E m \in h.lists : Alike(m, k)
    BY SMTT(60), <2>2, <2>3, <2>4, InsertGood
  <2>6. HeadOf(c, e)
    BY SMTT(60), <1>1, <2>4, <2>5 DEF HeadOf, Alike
  <2>7. NeedsNewList(d, h, r)
    BY SMTT(60), <1>1, <1>2, <1>3, <1>7 DEF NeedsNewList
  <2>. QED BY SMTT(60), <1>1, <1>4, <2>3, <2>5, <2>6, <2>7
<1>. QED BY SMTT(60), <1>5, <1>6, <1>7
=============================================================================
