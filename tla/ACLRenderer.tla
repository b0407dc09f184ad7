---------------------------- MODULE ACLRenderer ----------------------------
(***************************************************************************)
(* The ACL renderer (plugins/policy/renderer/acl/acl_renderer.go) and the  *)
(* cache it computes minimal changes with (acl/cache/cache_impl.go).       *)
(*                                                                         *)
(* Rules are grouped into lists that interfaces share. A transaction works *)
(* on copies of the lists it touches ("head"), is turned into changes of   *)
(* ACLs, and is merged into the cache ("base") list by list once the       *)
(* changes are accepted.                                                   *)
(*                                                                         *)
(* Changes go through the local client (cn-infra/datasync/syncbase) to the *)
(* vpp-agent (aclplugin/acl_config.go). The local client keeps the object  *)
(* it was given last for every ACL, by reference, as the previous value of *)
(* the next change. The renderer reuses that object (Private) when the     *)
(* interfaces of an ACL change, and by then it has changed already.        *)
(*                                                                         *)
(* A list of rules is a number, 0 the empty one: the code only compares    *)
(* lists of rules, with a total order in which the empty list is first.    *)
(***************************************************************************)
EXTENDS Naturals, FiniteSets

CONSTANTS
  Interfaces,         \* interfaces of the pods of the node
  Directions,         \* "ingress", "egress"
  MaxRules,           \* bound: lists of rules are 0..MaxRules
  MaxTxns,            \* bound: transactions in a behaviour
  MaxErrors,          \* bound: failing requests to VPP in a behaviour
  NoPrivate           \* Private of a list that has not been rendered

ASSUME ACLAssumption ==
  /\ IsFiniteSet(Interfaces)
  /\ MaxRules \in Nat /\ MaxTxns \in Nat /\ MaxErrors \in Nat
  /\ NoPrivate \notin Nat

RuleLists == 0..MaxRules

Configs == UNION {[S -> [Directions -> RuleLists]] : S \in SUBSET Interfaces}

VARIABLES
  cache,              \* per direction: the ContivRuleLists of the cache
  allocatedListIDs,   \* per direction: IDs given to lists so far
  interfaces,         \* all interfaces the cache knows of
  txn,                \* the transaction under way
  head,               \* per direction: the ContivRuleLists of the transaction
  lastRev,            \* the local client: the objects of the ACLs put last
  vpp,                \* the ACLs in VPP, with the interfaces they are attached to
  wanted,             \* history: the rules that transactions gave to the interfaces
  forgotten,          \* history: a resync has emptied the cache while there were ACLs
  txns, errors

agentVars == <<lastRev, vpp>>
vars == <<cache, allocatedListIDs, interfaces, txn, head, agentVars, wanted, forgotten, txns, errors>>

----------------------------------------------------------------------------
(* ContivRuleLists: a set of lists, at most one per content, and the index *)
(* byInterface. A list is identified by its ID in place of a pointer.      *)

EmptyLists == [lists |-> {}, byInterface |-> [i \in {} |-> 0]]

ByID(c, id) == {l \in c.lists : l.ID = id}

ByRules(c, r) == {l \in c.lists : l.Rules = r}

ByInterface(c, i) ==
  {l \in c.lists : i \in DOMAIN c.byInterface /\ c.byInterface[i] = l.ID}

\* Seeded fault: the index forgets the interface, the list that held it does not.
UnassignIndexOnly(c, S) ==
  [c EXCEPT !.byInterface = [i \in DOMAIN c.byInterface \ S |-> c.byInterface[i]]]

\* UnassignInterface(nil, i) for every i of S.
UnassignAny(c, S) ==
  [lists |-> {[l EXCEPT !.Interfaces =
                 {i \in @ : ~(i \in S /\ l \in ByInterface(c, i))}] : l \in c.lists},
   byInterface |-> [i \in DOMAIN c.byInterface \ S |-> c.byInterface[i]]]

\* UnassignInterface(list id, i) for every i of S.
Unassign(c, id, S) ==
  [lists |-> {IF l.ID = id THEN [l EXCEPT !.Interfaces = @ \ S] ELSE l : l \in c.lists},
   byInterface |-> [i \in {j \in DOMAIN c.byInterface : ~(j \in S /\ c.byInterface[j] = id)}
                      |-> c.byInterface[i]]]

\* AssignInterface(list id, i) for every i of S.
Assign(c, id, S) ==
  LET u == UnassignAny(c, S) IN
  [lists |-> {IF l.ID = id THEN [l EXCEPT !.Interfaces = @ \cup S] ELSE l : l \in u.lists},
   byInterface |-> [i \in DOMAIN u.byInterface \cup S |->
                      IF i \in S THEN id ELSE u.byInterface[i]]]

\* Insert: refused when there is a list of the same content.
Insert(c, l) ==
  IF ByRules(c, l.Rules) # {} THEN c
  ELSE LET u == UnassignAny(c, l.Interfaces) IN
       [lists |-> u.lists \cup {l},
        byInterface |-> [i \in DOMAIN u.byInterface \cup l.Interfaces |->
                           IF i \in l.Interfaces THEN l.ID ELSE u.byInterface[i]]]

----------------------------------------------------------------------------

TypeOK ==
  /\ \A d \in Directions : \A c \in {cache[d], head[d]} :
       /\ \A l \in c.lists :
            /\ l.ID \in Nat \ {0} /\ l.Rules \in RuleLists
            /\ l.Interfaces \subseteq Interfaces
            /\ l.Private \in {NoPrivate, l.ID}
       /\ \A i \in DOMAIN c.byInterface : i \in Interfaces /\ ByInterface(c, i) # {}
  /\ interfaces \subseteq Interfaces
  /\ \A a \in lastRev \cup vpp : a.ID \in Nat /\ a.Interfaces \subseteq Interfaces
  /\ wanted \in [Directions -> [Interfaces -> RuleLists]]
  /\ forgotten \in BOOLEAN
  /\ txn.phase \in {"idle", "dump", "update", "commit"}
  /\ txn.config \in Configs

NoTxn == [phase |-> "idle", resync |-> FALSE, config |-> [i \in {} |-> 0], updated |-> {}]

Init ==
  /\ cache = [d \in Directions |-> EmptyLists]
  /\ allocatedListIDs = [d \in Directions |-> {}]
  /\ interfaces = {}
  /\ txn = NoTxn
  /\ head = [d \in Directions |-> EmptyLists]
  /\ lastRev = {} /\ vpp = {}
  /\ wanted = [d \in Directions |-> [i \in Interfaces |-> 0]]
  /\ forgotten = FALSE
  /\ txns = 0
  /\ errors = 0

EndTxn ==
  /\ txn' = NoTxn
  /\ head' = [d \in Directions |-> EmptyLists]

\* NewTxn and Render of the pods with a known interface, then Commit.
NewTxn(resync, config) ==
  /\ txn.phase = "idle"
  /\ txns < MaxTxns
  /\ txns' = txns + 1
  /\ txn' = [phase |-> IF resync THEN "dump" ELSE "update",
             resync |-> resync, config |-> config, updated |-> {}]
  /\ UNCHANGED <<cache, allocatedListIDs, interfaces, head, agentVars, wanted, forgotten, errors>>

\* The re-synchronization with VPP before the updates of a resync. DumpACL of the
\* vpp-agent returns no ACL and no error, whatever is in VPP: the cache is emptied.
ResyncCache ==
  /\ txn.phase = "dump"
  /\ cache' = [d \in Directions |-> EmptyLists]
  /\ allocatedListIDs' = [d \in Directions |-> {}]
  /\ interfaces' = {}
  /\ forgotten' = (forgotten \/ vpp # {})
  /\ txn' = [txn EXCEPT !.phase = "update"]
  /\ UNCHANGED <<head, agentVars, wanted, txns, errors>>

----------------------------------------------------------------------------
(* Updates inside of the transaction.                                      *)

\* Seeded fault: the list that the interface leaves is not part of the transaction.
HeadWithoutOrig(base, h, i) == h

\* The list an interface has now is copied into the head.
HeadWithOrig(base, h, i) ==
  LET orig == {l \in ByInterface(base, i) : ByID(h, l.ID) = {}} IN
  IF orig = {} THEN h ELSE Insert(h, CHOOSE l \in orig : TRUE)

\* IDs are random; one that a resync made the cache forget does not come again.
UsedIDs(d) == allocatedListIDs[d] \cup {a.ID : a \in {a \in lastRev \cup vpp : a.Direction = d}}

FreshID(d) == CHOOSE id \in 1..(Cardinality(UsedIDs(d)) + 1) : id \notin UsedIDs(d)

NeedsNewList(d, h, r) == ByRules(h, r) = {} /\ ByRules(cache[d], r) = {}

\* updateInterface for one direction; h is the head with the original list.
UpdatedHead(d, h, i, r) ==
  LET inHead == ByRules(h, r)
      inBase == ByRules(cache[d], r)
      list == CHOOSE l \in inHead \cup inBase : TRUE
  IN CASE inHead # {} -> Assign(h, (CHOOSE l \in inHead : TRUE).ID, {i})
       [] inHead = {} /\ inBase # {} ->
            IF i \in list.Interfaces THEN h
            ELSE Insert(h, [list EXCEPT !.Interfaces = @ \cup {i}])
       [] OTHER ->
            Insert(h, [ID |-> FreshID(d), Rules |-> r, Interfaces |-> {i}, Private |-> NoPrivate])

\* Interfaces of the transaction come first; a resync then empties the others.
RulesFor(i) ==
  IF i \in DOMAIN txn.config THEN txn.config[i] ELSE [d \in Directions |-> 0]

ToUpdate ==
  LET configured == DOMAIN txn.config \ txn.updated IN
  IF configured # {} THEN configured
  ELSE IF txn.resync THEN interfaces \ txn.updated ELSE {}

Update(i) ==
  /\ txn.phase = "update"
  /\ i \in ToUpdate
  /\ LET h == [d \in Directions |-> HeadWithOrig(cache[d], head[d], i)]
         r == RulesFor(i)
     IN /\ head' = [d \in Directions |-> UpdatedHead(d, h[d], i, r[d])]
        /\ allocatedListIDs' = [d \in Directions |->
             allocatedListIDs[d] \cup IF NeedsNewList(d, h[d], r[d]) THEN {FreshID(d)} ELSE {}]
  /\ txn' = [txn EXCEPT !.updated = @ \cup {i}]
  /\ UNCHANGED <<cache, interfaces, agentVars, wanted, forgotten, txns, errors>>

----------------------------------------------------------------------------
(* Changes and their rendering.                                            *)

PreviousInterfaces(d, l) == UNION {o.Interfaces : o \in ByID(cache[d], l.ID)}

\* Seeded fault: interfaces are compared by their number.
ChangesByCount(d) ==
  {l \in head[d].lists : /\ Cardinality(l.Interfaces) # Cardinality(PreviousInterfaces(d, l))
                         /\ l.Rules # 0}

\* getChanges and filterEmpty.
Changes(d) ==
  {l \in head[d].lists : l.Interfaces # PreviousInterfaces(d, l) /\ l.Rules # 0}

\* renderChanges: an ACL whose interfaces change is the object of its list, the same
\* one that the local client has; a new ACL is a new object.
Reused(d, l) == PreviousInterfaces(d, l) # {}

Of(S, d, l) == {a \in S : a.Direction = d /\ a.ID = l.ID}

\* The objects that the local client has after the changes of S, applied or not.
Put(S) ==
  {a \in lastRev : \A c \in S : a \notin Of(lastRev, c[1], c[2])}
    \cup {[ID |-> c[2].ID, Direction |-> c[1], Interfaces |-> c[2].Interfaces] :
             c \in {c \in S : c[2].Interfaces # {}}}

\* The interfaces of the previous value, as the vpp-agent sees them.
OldInterfaces(d, l) ==
  IF Reused(d, l) THEN l.Interfaces ELSE UNION {a.Interfaces : a \in Of(lastRev, d, l)}

ConfigureACL(d, l) ==
  {[ID |-> l.ID, Direction |-> d, Rules |-> l.Rules, Interfaces |-> l.Interfaces]}

\* ModifyACL detaches the ACL from the previous interfaces and attaches it to the
\* new ones; an ACL that is not there is left out.
ModifyACL(d, l) ==
  {[a EXCEPT !.Rules = l.Rules, !.Interfaces = (@ \ OldInterfaces(d, l)) \cup l.Interfaces] :
     a \in Of(vpp, d, l)}

\* An ACL of VPP with a name that is given to another one.
Nameless(S) == {[a EXCEPT !.ID = 0] : a \in S}

\* What the vpp-agent makes of a change: an ACL without a previous value is new; one
\* without interfaces is deleted (not if it has no previous value, by its name).
Changed(d, l) ==
  IF l.Interfaces = {} THEN (IF Of(lastRev, d, l) = {} THEN Of(vpp, d, l) ELSE {})
  ELSE IF Of(lastRev, d, l) = {} THEN ConfigureACL(d, l) \cup Nameless(Of(vpp, d, l))
  ELSE ModifyACL(d, l)

ApplyChanges(S) ==
  {a \in vpp : \A c \in S : a \notin Of(vpp, c[1], c[2])}
    \cup UNION {Changed(c[1], c[2]) : c \in S}

AllChanges == UNION {{<<d, l>> : l \in Changes(d)} : d \in Directions}

\* An ACL that is changed or removed is taken from Private of its list.
RenderPanics(d, l) == Reused(d, l) /\ l.Private = NoPrivate

\* Seeded fault: the new ACL is not remembered.
RenderedWithoutPrivate(d, l) == l

\* renderACL leaves the new ACL in Private of the list.
Rendered(d, l) ==
  IF l \in Changes(d) /\ ~Reused(d, l)
  THEN [l EXCEPT !.Private = l.ID] ELSE l

\* The rules of the interfaces once the transaction is done.
Requested ==
  [d \in Directions |-> [i \in Interfaces |->
     IF i \in DOMAIN txn.config \/ txn.resync THEN RulesFor(i)[d] ELSE wanted[d][i]]]

NothingToRender ==
  /\ txn.phase = "update" /\ ToUpdate = {}
  /\ AllChanges = {}
  /\ EndTxn
  /\ wanted' = Requested
  /\ UNCHANGED <<cache, allocatedListIDs, interfaces, agentVars, forgotten, txns, errors>>

Send ==
  /\ txn.phase = "update" /\ ToUpdate = {}
  /\ AllChanges # {}
  /\ lastRev' = Put(AllChanges)
  /\ vpp' = ApplyChanges(AllChanges)
  /\ head' = [d \in Directions |->
       [head[d] EXCEPT !.lists = {Rendered(d, l) : l \in @}]]
  /\ txn' = [txn EXCEPT !.phase = "commit"]
  /\ wanted' = Requested
  /\ UNCHANGED <<cache, allocatedListIDs, interfaces, forgotten, txns, errors>>

\* An error is reported: any of the changes may be in VPP, the cache is left as
\* it was, the local client has all of them.
SendFails ==
  /\ txn.phase = "update" /\ ToUpdate = {}
  /\ errors < MaxErrors
  /\ errors' = errors + 1
  /\ AllChanges # {}
  /\ lastRev' = Put(AllChanges)
  /\ \E S \in SUBSET AllChanges : vpp' = ApplyChanges(S)
  /\ EndTxn
  /\ UNCHANGED <<cache, allocatedListIDs, interfaces, wanted, forgotten, txns>>

----------------------------------------------------------------------------
(* Commit of the cache transaction, one list of the head after the other.  *)

\* Seeded fault: a removed list leaves the set of lists, not the index by interface.
CommittedListDangling(base, l) ==
  IF l.Interfaces = {} THEN [base EXCEPT !.lists = @ \ ByID(base, l.ID)]
  ELSE IF ByID(base, l.ID) # {} THEN Assign(base, l.ID, l.Interfaces)
  ELSE Insert(base, l)

\* base.Remove is given the list of the head, which is never the pointer that
\* the base holds: a list without interfaces stays in the base.
CommittedList(base, l) ==
  LET orig == ByID(base, l.ID) IN
  IF orig # {} THEN
    LET before == UNION {o.Interfaces : o \in orig} IN
    IF l.Interfaces = {} \/ l.Interfaces = before THEN base
    ELSE LET b == Assign(Unassign(base, l.ID, before \ l.Interfaces), l.ID, l.Interfaces \ before)
         IN [b EXCEPT !.lists = {IF o.ID = l.ID THEN [o EXCEPT !.Private = l.Private] ELSE o : o \in @}]
  ELSE IF l.Interfaces # {} THEN Insert(base, l) ELSE base

\* Lists are visited in the order of their rules; directions do not interact.
CommitList(d, l) ==
  /\ txn.phase = "commit"
  /\ l \in head[d].lists
  /\ \A m \in head[d].lists : l.Rules <= m.Rules
  /\ cache' = [cache EXCEPT ![d] = CommittedList(@, l)]
  /\ head' = [head EXCEPT ![d] =
       [lists |-> @.lists \ {l}, byInterface |-> UnassignAny(@, l.Interfaces).byInterface]]
  /\ UNCHANGED <<allocatedListIDs, interfaces, txn, agentVars, wanted, forgotten, txns, errors>>

CommitDone ==
  /\ txn.phase = "commit"
  /\ \A d \in Directions : head[d].lists = {}
  /\ interfaces' = interfaces \cup txn.updated
  /\ EndTxn
  /\ UNCHANGED <<cache, allocatedListIDs, agentVars, wanted, forgotten, txns, errors>>

----------------------------------------------------------------------------

Next ==
  \/ \E resync \in BOOLEAN, config \in Configs : NewTxn(resync, config)
  \/ ResyncCache
  \/ \E i \in Interfaces : Update(i)
  \/ NothingToRender
  \/ Send
  \/ SendFails
  \/ \E d \in Directions : \E l \in head[d].lists : CommitList(d, l)
  \/ CommitDone

Spec == Init /\ [][Next]_vars

----------------------------------------------------------------------------
(* Properties.                                                             *)

Quiet == txn.phase = "idle"

\* The index of the cache by interface agrees with the interfaces of the
\* lists, contents and IDs are unique: in the base and in the head, in the
\* middle of a transaction, whatever VPP refuses.
CacheConsistent ==
  \A d \in Directions : \A c \in {cache[d], head[d]} :
    /\ \A l \in c.lists : \A i \in l.Interfaces :
         i \in DOMAIN c.byInterface /\ c.byInterface[i] = l.ID
    /\ \A i \in DOMAIN c.byInterface : \E l \in ByInterface(c, i) : i \in l.Interfaces
    /\ \A l, m \in c.lists : l.ID = m.ID \/ l.Rules = m.Rules => l = m

\* The renderer never takes the ACL of a list that was not rendered before
\* (the type assertion on Private would panic).
NoRenderPanic ==
  txn.phase = "update" /\ ToUpdate = {} => \A c \in AllChanges : ~RenderPanics(c[1], c[2])

Installed(d) == {l \in cache[d].lists : l.Rules # 0 /\ l.Interfaces # {}}

\* As long as nothing is refused, when no transaction is under way every list of the
\* cache has its ACL, and it is attached to all interfaces of the list. Unless a
\* resync has emptied the cache there are no other ACLs: one whose last interface
\* has left is deleted. (An ACL may be attached to interfaces that have left its list
\* when others have not.)
VPPEnforcesCache ==
  Quiet /\ errors = 0 => \A d \in Directions :
    /\ \A l \in Installed(d) : \E a \in Of(vpp, d, l) :
         a.Rules = l.Rules /\ l.Interfaces \subseteq a.Interfaces
    /\ ~forgotten => {a.ID : a \in {a \in vpp : a.Direction = d}} = {l.ID : l \in Installed(d)}

EnforcedRules(d, i) == {a.Rules : a \in {a \in vpp : a.Direction = d /\ i \in a.Interfaces}}

\* As long as nothing is refused, when no transaction is under way the rules that the
\* last transaction about an interface gave to it are enforced on it: they are there
\* after a resync, and transactions about the interfaces that it shares a list with do
\* not take them away.
WantedIsEnforced ==
  Quiet /\ errors = 0 => \A d \in Directions : \A i \in Interfaces :
    wanted[d][i] # 0 => wanted[d][i] \in EnforcedRules(d, i)
=============================================================================
