--------------------------- MODULE GroupTreeProof ---------------------------
(***************************************************************************)
(* Proofs about GroupTree, for every set of groups, clients and requests.  *)
(*                                                                         *)
(* With requests answered one after the other the groups stay a forest and *)
(* nothing is orphaned, until GroupEdit is called or an id that groups     *)
(* still point to is handed out again: the history variables edited and    *)
(* reborn stay TRUE from then on.  The walk of MoveGroup is covered by     *)
(* Walking: a set that contains the new parent, and the parent of each     *)
(* group in it but the moved one, contains the id the walk has reached.    *)
(* The walk ends at an id that no group has, so no such set is one of      *)
(* groups only, and the move closes no cycle.                              *)
(***************************************************************************)
EXTENDS GroupTree, TLAPS

\* S keeps the parents of its members, except that of g.
ClosedBut(S, g) == \A h \in S : h # g /\ h \in Groups => parent[h] \in S

\* At most one request is under way.
Alone == \A q, r \in Reqs : pc[q] # "idle" /\ pc[r] # "idle" => q = r

Walking ==
  \A r \in Reqs : pc[r] = "walk" =>
    /\ arg[r] \in Groups /\ new[r] \in Shown \cup strays
    /\ \A S \in SUBSET (Ids \cup {Root}) :
         new[r] \in S /\ ClosedBut(S, arg[r]) => cur[r] \in S

Putting ==
  \A r \in Reqs : pc[r] = "put" =>
    /\ arg[r] \in Groups /\ new[r] \in Shown \cup strays
    /\ \A S \in SUBSET Groups : ~(new[r] \in S /\ ClosedBut(S, arg[r]))

\* A group that is gone may be deleted once more.
Deleting ==
  \A r \in Reqs :
    /\ pc[r] \in {"parent", "children", "remove"} =>
         \A c \in Clients : group[c] # arg[r]
    /\ pc[r] = "children" => arg[r] \in Groups /\ new[r] = parent[arg[r]]
    /\ pc[r] = "remove" /\ arg[r] \in Groups => \A g \in Groups : parent[g] # arg[r]

IInv ==
  TypeOK /\ Alone /\ Acyclic /\ NoOrphans /\ Walking /\ Putting /\ Deleting

-----------------------------------------------------------------------------
(* Types, whatever the interleaving                                        *)

\* No group exists and no request is under way at the start.
LEMMA TypeInit == Init => TypeOK
<1> SUFFICES ASSUME Init PROVE TypeOK
  OBVIOUS
<1>1. Groups = {}
  BY DEF Init, Groups
<1>2. top \in 0 .. MaxId /\ last \in 0 .. top
  BY GroupAssumption DEF Init
<1> QED
  BY <1>1, <1>2 DEF Init, TypeOK, Steps

\* Ids are handed out in order and loaded again from the groups there are.
LEMMA CounterStep ==
  ASSUME TypeOK, NEW r \in Reqs, Arrive(r)
  PROVE  top' \in 0 .. MaxId /\ last' \in 0 .. top' /\ Groups' \subseteq 1 .. last'
<1> USE GroupAssumption DEF TypeOK, Ids, Root
<1>1. ASSUME NEW g \in Ids, NEW p \in Named, GroupAdd(r, g, p)
      PROVE  top' \in 0 .. MaxId /\ last' \in 0 .. top' /\ Groups' \subseteq 1 .. last'
  <2>1. last' = last + 1 /\ top' \in 0 .. MaxId /\ last' <= top'
    BY <1>1 DEF GroupAdd
  <2>2. Groups' \subseteq Groups \cup {g}
    BY <1>1 DEF GroupAdd, Groups
  <2> QED
    BY <1>1, <2>1, <2>2 DEF GroupAdd
<1>2. CASE Restart(r)
  <2>1. Groups' = Groups /\ top' = top
    BY <1>2 DEF Restart, Groups
  <2>2. last' \in Shown /\ \A g \in Groups : g <= last'
    BY <1>2 DEF Restart
  <2>3. last' \in 0 .. last
    BY <2>2 DEF Shown
  <2> QED
    BY <2>1, <2>2, <2>3
<1>3. ASSUME UNCHANGED <<parent, last, top>>
      PROVE  top' \in 0 .. MaxId /\ last' \in 0 .. top' /\ Groups' \subseteq 1 .. last'
  BY <1>3 DEF Groups
<1>4. UNCHANGED <<parent, last, top>> \/ Restart(r)
        \/ \E g \in Ids, p \in Named : GroupAdd(r, g, p)
  BY DEF Arrive, GroupEdit, GroupMove, GroupRename, GroupDel, GroupMoveClient, ClientAdd,
         ClientEdit, Regroup, ClientDel, counter
<1> QED
  BY <1>1, <1>2, <1>3, <1>4

\* A request that arrives keeps the types, ...
LEMMA TypeArrive ==
  ASSUME TypeOK, NEW r \in Reqs, Arrive(r)
  PROVE  TypeOK'
<1> USE GroupAssumption DEF TypeOK, Steps, Handlers, counter
<1>0. top' \in 0 .. MaxId /\ last' \in 0 .. top' /\ Groups' \subseteq 1 .. last'
  BY CounterStep
<1>n. Named \subseteq Ids \cup {Root} /\ Groups \subseteq Ids /\ Shown \subseteq Ids \cup {Root}
  BY DEF Named, Groups, Shown, Ids, Root
<1>1. ASSUME NEW g \in Ids, NEW p \in Named, GroupAdd(r, g, p) PROVE TypeOK'
  <2>1. \A n : n \in 1 .. last => n \in 1 .. last'
    BY <1>1 DEF GroupAdd
  <2>2. strays' \subseteq Ids
    BY <1>1, <1>n DEF GroupAdd, Shown
  <2> QED
    BY <1>0, <1>1, <1>n, <2>1, <2>2 DEF GroupAdd, reqs
<1>2. ASSUME NEW g \in Ids, NEW p \in Named, GroupEdit(r, g, p) PROVE TypeOK'
  BY <1>0, <1>2, <1>n DEF GroupEdit, Call
<1>3. ASSUME NEW g \in Ids, NEW p \in Named, GroupMove(r, g, p) PROVE TypeOK'
  <2>1. strays' \subseteq Ids
    BY <1>3, <1>n DEF GroupMove, Shown
  <2> QED
    BY <1>0, <1>3, <1>n, <2>1 DEF GroupMove, Call
<1>4. ASSUME NEW g \in Ids, GroupRename(r, g) PROVE TypeOK'
  BY <1>0, <1>4, <1>n DEF GroupRename, Call
<1>5. ASSUME NEW g \in Ids, GroupDel(r, g) PROVE TypeOK'
  BY <1>0, <1>5 DEF GroupDel, Call
<1>6. ASSUME NEW c \in Clients, NEW g \in Named, Regroup(c, g) PROVE TypeOK'
  <2>1. strays' \subseteq Ids
    BY <1>6, <1>n DEF Regroup, Shown
  <2> QED
    BY <1>0, <1>6, <1>n, <2>1 DEF Regroup, reqs
<1>7. ASSUME NEW c \in Clients, ClientDel(r, c) PROVE TypeOK'
  BY <1>0, <1>7 DEF ClientDel, reqs
<1>8. CASE Restart(r)
  BY <1>0, <1>8 DEF Restart, reqs
<1> QED
  BY <1>1, <1>2, <1>3, <1>4, <1>5, <1>6, <1>7, <1>8
     DEF Arrive, GroupMoveClient, ClientAdd, ClientEdit

\* ... and so does each step of one.
LEMMA TypeStep == TypeOK /\ [Next]_vars => TypeOK'
<1> SUFFICES ASSUME TypeOK, [Next]_vars PROVE TypeOK'
  OBVIOUS
<1> USE GroupAssumption DEF TypeOK, Steps, Handlers
<1>1. CASE UNCHANGED vars
  BY <1>1 DEF vars, counter, reqs, Groups
<1>2. ASSUME NEW r \in Reqs, Step(r) PROVE TypeOK'
  <2> USE DEF Groups, Shown, counter
  <2>0. 1 .. last \subseteq Ids /\ None \notin Ids /\ Root # None
    BY DEF Ids, Root
  <2>1. CASE Put(r)
    BY <2>0, <2>1 DEF Put, Answer
  <2>2. CASE WalkUp(r)
    BY <2>2 DEF WalkUp
  <2>3. CASE WalkRefused(r)
    BY <2>3 DEF WalkRefused, Answer
  <2>4. CASE WalkEnd(r)
    BY <2>4 DEF WalkEnd, Goto
  <2>5. CASE DelClients(r)
    BY <2>5 DEF DelClients, Goto
  <2>6. CASE DelParent(r)
    BY <2>6 DEF DelParent, Goto
  <2>7. CASE DelChildren(r)
    BY <2>0, <2>7 DEF DelChildren, Goto
  <2>8. CASE DelRemove(r)
    BY <2>0, <2>8 DEF DelRemove, Answer
  <2> QED
    BY <1>2, <2>1, <2>2, <2>3, <2>4, <2>5, <2>6, <2>7, <2>8 DEF Step
<1> QED
  BY <1>1, <1>2, TypeArrive DEF Next

\* The variables keep their types under every interleaving of requests.
THEOREM TypeCorrect == Spec => []TypeOK
BY TypeInit, TypeStep, PTL DEF Spec

-----------------------------------------------------------------------------
(* The tree, with requests one at a time                                   *)

\* The invariant holds before the first request.
LEMMA TreeInit == Init => IInv
BY TypeInit, GroupAssumption
   DEF Init, IInv, Alone, Acyclic, NoOrphans, Walking, Putting, Deleting, Groups, Shown

\* While r is under way every other request is idle.
LEMMA OthersIdle ==
  ASSUME Alone, NEW r \in Reqs, pc[r] # "idle", NEW q \in Reqs, q # r
  PROVE  pc[q] = "idle"
BY DEF Alone

\* None is neither a group nor the root.
LEMMA NoneIsNoId == None \notin Ids /\ Root # None /\ Root \notin Ids
BY GroupAssumption DEF Ids, Root

\* The parent that MoveGroup or a renaming stores closes no cycle.
LEMMA PutStep ==
  ASSUME IInv, TypeOK', NEW r \in Reqs, Put(r) PROVE IInv'
<1> USE GroupAssumption
<1>1. /\ arg[r] \in Groups /\ new[r] \in Shown \cup strays
      /\ \A S \in SUBSET Groups : ~(new[r] \in S /\ ClosedBut(S, arg[r]))
  BY DEF IInv, Putting, Put
<1>2. Groups' = Groups /\ Shown' = Shown /\ strays' = strays
  <2>1. new[r] # None /\ parent' = [parent EXCEPT ![arg[r]] = new[r]]
    BY <1>1, NoneIsNoId DEF Put, Groups, Shown, IInv, TypeOK
  <2>2. \A g \in Ids : parent'[g] # None <=> parent[g] # None
    BY <1>1, <2>1 DEF IInv, TypeOK, Groups
  <2> QED
    BY <2>2 DEF Groups, Shown, Put
<1>3. pc' = [q \in Reqs |-> "idle"]
  <2>1. pc[r] # "idle" /\ pc' = [pc EXCEPT ![r] = "idle"]
    BY DEF Put, Answer
  <2>2. \A q \in Reqs : q # r => pc[q] = "idle"
    BY <2>1, OthersIdle DEF IInv
  <2> QED
    BY <2>1, <2>2 DEF IInv, TypeOK
<1>4. Acyclic'
  <2> SUFFICES ASSUME NEW S \in SUBSET Groups, \A g \in S : parent'[g] \in S
               PROVE  S = {}
    BY <1>2 DEF Acyclic
  <2>1. \A g \in S : g # arg[r] => parent[g] \in S
    BY DEF IInv, TypeOK, Put, Groups
  <2>2. CASE arg[r] \in S
    <3>1. new[r] \in S
      BY <2>2, <1>1 DEF IInv, TypeOK, Put, Groups
    <3> QED
      BY <3>1, <2>1, <1>1 DEF ClosedBut
  <2>3. CASE arg[r] \notin S
    BY <2>1, <2>3 DEF IInv, Acyclic
  <2> QED
    BY <2>2, <2>3
<1>5. NoOrphans'
  BY <1>1, <1>2 DEF IInv, NoOrphans, Put, TypeOK, Groups
<1> QED
  BY <1>3, <1>4, <1>5 DEF IInv, Alone, Walking, Putting, Deleting

\* One step up the tree: the parent of a member is a member.
LEMMA WalkUpStep ==
  ASSUME IInv, TypeOK', NEW r \in Reqs, WalkUp(r) PROVE IInv'
<1> USE GroupAssumption
<1>1. /\ Groups' = Groups /\ Shown' = Shown
      /\ UNCHANGED <<parent, group, strays, pc, arg, new>>
  BY DEF WalkUp, Groups, Shown
<1>2. Walking'
  <2> SUFFICES ASSUME NEW q \in Reqs, pc[q] = "walk"
               PROVE  /\ arg[q] \in Groups /\ new[q] \in Shown \cup strays
                      /\ \A S \in SUBSET (Ids \cup {Root}) :
                           new[q] \in S /\ ClosedBut(S, arg[q]) => cur'[q] \in S
    BY <1>1 DEF Walking, ClosedBut
  <2>1. q = r
    BY DEF IInv, Alone, WalkUp
  <2>2. cur'[r] = parent[cur[r]] /\ cur[r] \in Groups /\ cur[r] # arg[r]
    BY DEF WalkUp, IInv, TypeOK
  <2> QED
    BY <2>1, <2>2 DEF IInv, Walking, ClosedBut
<1> QED
  BY <1>1, <1>2 DEF IInv, Alone, Acyclic, NoOrphans, Putting, Deleting, ClosedBut

\* A walk that meets the moved group ends the request.
LEMMA WalkRefusedStep ==
  ASSUME IInv, TypeOK', NEW r \in Reqs, WalkRefused(r) PROVE IInv'
<1>1. pc' = [q \in Reqs |-> "idle"]
  BY OthersIdle DEF IInv, TypeOK, WalkRefused, Answer
<1>2. Groups' = Groups /\ Shown' = Shown /\ UNCHANGED <<parent, group, strays>>
  BY DEF WalkRefused, Groups, Shown
<1> QED
  BY <1>1, <1>2 DEF IInv, Alone, Acyclic, NoOrphans, Walking, Putting, Deleting

\* A walk that ends outside the groups has met the moved group nowhere.
LEMMA WalkEndStep ==
  ASSUME IInv, TypeOK', NEW r \in Reqs, WalkEnd(r) PROVE IInv'
<1>1. /\ Groups' = Groups /\ Shown' = Shown
      /\ UNCHANGED <<parent, group, strays, arg, new, cur>>
  BY DEF WalkEnd, Groups, Shown
<1>2. pc' = [q \in Reqs |-> IF q = r THEN "put" ELSE "idle"]
  BY OthersIdle DEF IInv, TypeOK, WalkEnd, Goto
<1>3. Putting'
  <2> SUFFICES /\ arg[r] \in Groups /\ new[r] \in Shown \cup strays
               /\ \A S \in SUBSET Groups : ~(new[r] \in S /\ ClosedBut(S, arg[r]))
    BY <1>1, <1>2 DEF Putting, ClosedBut
  <2>1. cur[r] \notin Groups /\ pc[r] = "walk"
    BY DEF WalkEnd
  <2> QED
    BY <2>1 DEF IInv, Walking, Groups
<1> QED
  BY <1>1, <1>2, <1>3 DEF IInv, Alone, Acyclic, NoOrphans, Walking, Deleting

\* The clients leave the group that is being deleted.
LEMMA DelClientsStep ==
  ASSUME IInv, TypeOK', NEW r \in Reqs, DelClients(r) PROVE IInv'
<1>1. /\ Groups' = Groups /\ Shown' = Shown
      /\ UNCHANGED <<parent, strays, arg, new, cur>>
  BY DEF DelClients, Groups, Shown
<1>2. pc' = [q \in Reqs |-> IF q = r THEN "parent" ELSE "idle"]
  BY OthersIdle DEF IInv, TypeOK, DelClients, Goto
<1>3. arg[r] \in Ids
  BY DEF IInv, TypeOK, DelClients
<1>4. \A c \in Clients : group'[c] \in Shown \cup strays \cup {None} /\ group'[c] # arg[r]
  BY <1>3, NoneIsNoId DEF IInv, NoOrphans, DelClients, Groups, Shown
<1> QED
  BY <1>1, <1>2, <1>3, <1>4
     DEF IInv, Alone, Acyclic, NoOrphans, Walking, Putting, Deleting

\* The parent of the group is read, or nothing is when it is gone.
LEMMA DelParentStep ==
  ASSUME IInv, TypeOK', NEW r \in Reqs, DelParent(r) PROVE IInv'
<1>1. \A c \in Clients : group[c] # arg[r]
  BY DEF IInv, Deleting, DelParent
<1>2. /\ Groups' = Groups /\ Shown' = Shown
      /\ UNCHANGED <<parent, group, strays, arg, cur>>
  BY DEF DelParent, Groups, Shown
<1>3. CASE arg[r] \in Groups
  <2>1. new'[r] = parent[arg[r]]
    BY <1>3 DEF DelParent, IInv, TypeOK
  <2>2. pc' = [q \in Reqs |-> IF q = r THEN "children" ELSE "idle"]
    BY <1>3, OthersIdle DEF IInv, TypeOK, DelParent, Goto
  <2> QED
    BY <1>1, <1>2, <1>3, <2>1, <2>2
       DEF IInv, Alone, Acyclic, NoOrphans, Walking, Putting, Deleting
<1>4. CASE arg[r] \notin Groups
  <2>1. pc' = [q \in Reqs |-> IF q = r THEN "remove" ELSE "idle"]
    BY <1>4, OthersIdle DEF IInv, TypeOK, DelParent, Goto
  <2> QED
    BY <1>1, <1>2, <1>4, <2>1
       DEF IInv, Alone, Acyclic, NoOrphans, Walking, Putting, Deleting
<1> QED
  BY <1>3, <1>4

\* The children move to the parent of the group: a set that keeps its parents
\* afterwards kept them before, with the group added when a child is in it.
LEMMA DelChildrenStep ==
  ASSUME IInv, TypeOK', NEW r \in Reqs, DelChildren(r) PROVE IInv'
<1> USE GroupAssumption
<1> DEFINE d == arg[r]
<1>1. /\ d \in Groups /\ new[r] = parent[d]
      /\ \A c \in Clients : group[c] # d
  BY DEF IInv, Deleting, DelChildren
<1>2. parent[d] # d
  <2>1. {d} \in SUBSET Groups
    BY <1>1
  <2> QED
    BY <2>1 DEF IInv, Acyclic
<1>3. \A g \in Ids :
        parent'[g] = IF parent[g] = d THEN parent[d] ELSE parent[g]
  BY <1>1 DEF DelChildren
<1>4. parent[d] \in Shown \cup strays /\ parent[d] # None /\ d \in Ids /\ d # None
  BY <1>1, NoneIsNoId DEF IInv, NoOrphans, Groups
<1>5. Groups' = Groups /\ Shown' = Shown
  BY <1>1, <1>3, <1>4 DEF Groups, Shown
<1>6. UNCHANGED <<group, strays, arg, new, cur>>
  BY DEF DelChildren
<1>7. pc' = [q \in Reqs |-> IF q = r THEN "remove" ELSE "idle"]
  BY OthersIdle DEF IInv, TypeOK, DelChildren, Goto
<1>8. \A g \in Groups : parent'[g] # d /\ parent'[g] \in Shown \cup strays
  BY <1>2, <1>3, <1>4 DEF IInv, NoOrphans, Groups
<1>9. Acyclic'
  <2> SUFFICES ASSUME NEW S \in SUBSET Groups, \A g \in S : parent'[g] \in S
               PROVE  S = {}
    BY <1>5 DEF Acyclic
  <2>1. CASE \E g \in S : parent[g] = d
    <3>1. PICK g \in S : parent[g] = d
      BY <2>1
    <3>2. parent[d] \in S
      BY <3>1, <1>3 DEF Groups
    <3>3. S \cup {d} \in SUBSET Groups
      BY <1>1
    <3>4. \A h \in S \cup {d} : parent[h] \in S \cup {d}
      BY <3>2, <1>3 DEF Groups
    <3> QED
      BY <3>3, <3>4 DEF IInv, Acyclic
  <2>2. CASE \A g \in S : parent[g] # d
    <3>1. \A g \in S : parent[g] \in S
      BY <2>2, <1>3 DEF Groups
    <3> QED
      BY <3>1 DEF IInv, Acyclic
  <2> QED
    BY <2>1, <2>2
<1> QED
  BY <1>1, <1>5, <1>6, <1>7, <1>8, <1>9
     DEF IInv, Alone, NoOrphans, Walking, Putting, Deleting

\* A group without children and clients is removed.
LEMMA DelRemoveStep ==
  ASSUME IInv, TypeOK', NEW r \in Reqs, DelRemove(r) PROVE IInv'
<1> USE GroupAssumption
<1>1. /\ \A c \in Clients : group[c] # arg[r]
      /\ arg[r] \in Groups => \A g \in Groups : parent[g] # arg[r]
  BY DEF IInv, Deleting, DelRemove
<1>2. /\ Groups' = Groups \ {arg[r]}
      /\ \A g \in Groups' : parent'[g] = parent[g]
      /\ group' = group /\ strays' = strays
  <2>1. \A g \in Ids : parent'[g] = IF g = arg[r] THEN None ELSE parent[g]
    BY DEF DelRemove, IInv, TypeOK
  <2> QED
    BY <2>1 DEF DelRemove, Groups
<1>3. pc' = [q \in Reqs |-> "idle"]
  <2>1. pc[r] # "idle" /\ pc' = [pc EXCEPT ![r] = "idle"]
    BY DEF DelRemove, Answer
  <2>2. \A q \in Reqs : q # r => pc[q] = "idle"
    BY <2>1, OthersIdle DEF IInv
  <2> QED
    BY <2>1, <2>2 DEF IInv, TypeOK
<1>4. Acyclic'
  BY <1>2 DEF IInv, Acyclic
<1>5. NoOrphans'
  BY <1>1, <1>2 DEF IInv, NoOrphans, Shown
<1> QED
  BY <1>3, <1>4, <1>5 DEF IInv, Alone, Walking, Putting, Deleting

-----------------------------------------------------------------------------
(* Requests that arrive.  No other one is under way then.                  *)

\* A request is received only when every request is idle.
LEMMA AllIdle ==
  ASSUME Serial, TypeOK, NEW r \in Reqs, NEW h, MayCall(r, h)
  PROVE  pc = [q \in Reqs |-> "idle"]
BY DEF MayCall, TypeOK

\* A group whose id no group has as its parent.
LEMMA GroupAddStep ==
  ASSUME Serial, IInv, TypeOK', NEW r \in Reqs,
         NEW g \in Ids, NEW p \in Named, GroupAdd(r, g, p), ~reborn'
  PROVE  IInv'
<1>1. pc' = [q \in Reqs |-> "idle"]
  BY AllIdle DEF IInv, GroupAdd, reqs
<1>2. /\ g \notin Groups /\ p \in Ids \cup {Root} /\ p # None /\ p # g
      /\ \A h \in Groups : parent[h] # g
  <2>1. g \notin 1 .. last
    BY DEF GroupAdd, IInv, TypeOK
  <2>2. p \in Ids \cup {Root}
    BY GroupAssumption DEF Named, IInv, TypeOK, Ids, Root
  <2> QED
    BY <2>1, <2>2, NoneIsNoId DEF IInv, TypeOK, GroupAdd
<1>3. \A h \in Ids : parent'[h] = IF h = g THEN p ELSE parent[h]
  BY DEF GroupAdd, IInv, TypeOK
<1>4. Groups' = Groups \cup {g} /\ group' = group
  BY <1>2, <1>3 DEF Groups, GroupAdd
<1>5. Acyclic'
  <2> SUFFICES ASSUME NEW S \in SUBSET (Groups \cup {g}), \A h \in S : parent'[h] \in S
               PROVE  S = {}
    BY <1>4 DEF Acyclic
  <2>1. \A h \in S \ {g} : h \in Groups /\ parent[h] \in S \ {g}
    BY <1>2, <1>3 DEF Groups
  <2>2. S \ {g} = {}
    BY <2>1 DEF IInv, Acyclic
  <2>3. g \notin S
    BY <2>2, <1>2, <1>3
  <2> QED
    BY <2>2, <2>3
<1>6. NoOrphans'
  <2>1. strays' = (strays \cup ({p} \ Shown)) \ {g} /\ Shown' = Shown \cup {g}
    BY <1>4 DEF GroupAdd, Shown
  <2>2. \A h \in Groups' : parent'[h] \in Shown' \cup strays'
    BY <1>2, <1>3, <1>4, <2>1 DEF IInv, NoOrphans, Groups
  <2>3. \A c \in Clients : group'[c] \in Shown' \cup strays' \cup {None}
    BY <1>4, <2>1 DEF IInv, NoOrphans
  <2> QED
    BY <2>2, <2>3 DEF NoOrphans
<1> QED
  BY <1>1, <1>5, <1>6 DEF IInv, Alone, Walking, Putting, Deleting

\* A client is stored with a group that exists or is on record as missing.
LEMMA RegroupStep ==
  ASSUME IInv, TypeOK', pc = [q \in Reqs |-> "idle"],
         NEW c \in Clients, NEW g \in Named, Regroup(c, g)
  PROVE  IInv'
<1>1. pc' = [q \in Reqs |-> "idle"]
  BY DEF Regroup, reqs
<1>2. UNCHANGED parent /\ Groups' = Groups /\ Shown' = Shown
  BY DEF Regroup, Groups, Shown
<1>3. NoOrphans'
  BY <1>2 DEF IInv, NoOrphans, Regroup, TypeOK
<1> QED
  BY <1>1, <1>2, <1>3 DEF IInv, Alone, Acyclic, Walking, Putting, Deleting

\* A client is deleted, or the server starts again with the groups there are.
LEMMA ClientDelStep ==
  ASSUME Serial, IInv, TypeOK', NEW r \in Reqs,
         Restart(r) \/ \E c \in Clients : ClientDel(r, c)
  PROVE  IInv'
<1>1. pc' = [q \in Reqs |-> "idle"]
  BY AllIdle DEF IInv, Restart, ClientDel, reqs
<1>2. UNCHANGED <<parent, strays>> /\ Groups' = Groups /\ Shown' = Shown
  BY DEF Restart, ClientDel, Groups, Shown
<1>3. \A c \in Clients : group'[c] = group[c] \/ group'[c] = None
  BY DEF Restart, ClientDel, IInv, TypeOK
<1> QED
  BY <1>1, <1>2, <1>3 DEF IInv, Alone, Acyclic, NoOrphans, Walking, Putting, Deleting

\* The request r alone is under way after it was received.
LEMMA OnlyOne ==
  ASSUME Serial, TypeOK, NEW r \in Reqs, NEW h, NEW g, NEW n, NEW s,
         Call(r, h, g, n, s)
  PROVE  /\ \A q \in Reqs : q # r => pc'[q] = "idle"
         /\ pc'[r] = s /\ arg'[r] = g /\ new'[r] = n
BY AllIdle DEF Call, TypeOK

\* A walk starts at the new parent, which is in every set that contains it.
LEMMA GroupMoveStep ==
  ASSUME Serial, IInv, TypeOK', NEW r \in Reqs,
         NEW g \in Ids, NEW n \in Named, GroupMove(r, g, n)
  PROVE  IInv'
<1>1. /\ \A q \in Reqs : q # r => pc'[q] = "idle"
      /\ pc'[r] = "walk" /\ arg'[r] = g /\ new'[r] = n
  BY OnlyOne DEF IInv, GroupMove
<1>2. /\ cur'[r] = n /\ g \in Groups /\ n \in Shown \cup strays'
      /\ strays \subseteq strays'
      /\ UNCHANGED <<parent, group>> /\ Groups' = Groups /\ Shown' = Shown
  BY DEF GroupMove, IInv, TypeOK, Groups, Shown
<1>3. NoOrphans'
  BY <1>2 DEF IInv, NoOrphans
<1> QED
  BY <1>1, <1>2, <1>3 DEF IInv, Alone, Acyclic, Walking, Putting, Deleting

\* Renaming stores the root as the parent; it is in no set of groups.
LEMMA GroupRenameStep ==
  ASSUME Serial, IInv, TypeOK', NEW r \in Reqs, NEW g \in Ids, GroupRename(r, g)
  PROVE  IInv'
<1>1. /\ \A q \in Reqs : q # r => pc'[q] = "idle"
      /\ pc'[r] = "put" /\ arg'[r] = g /\ new'[r] = Root
  BY OnlyOne DEF IInv, GroupRename
<1>2. /\ g \in Groups
      /\ UNCHANGED <<parent, group, strays>> /\ Groups' = Groups /\ Shown' = Shown
  BY DEF GroupRename, Groups, Shown
<1>3. Root \in Shown /\ Root \notin Groups
  BY NoneIsNoId DEF Groups, Shown
<1> QED
  BY <1>1, <1>2, <1>3
     DEF IInv, Alone, Acyclic, NoOrphans, Walking, Putting, Deleting

\* A deletion starts with any id.
LEMMA GroupDelStep ==
  ASSUME Serial, IInv, TypeOK', NEW r \in Reqs, NEW g \in Ids, GroupDel(r, g)
  PROVE  IInv'
<1>1. /\ \A q \in Reqs : q # r => pc'[q] = "idle"
      /\ pc'[r] = "clients" /\ arg'[r] = g
  BY OnlyOne DEF IInv, GroupDel
<1>2. UNCHANGED <<parent, group, strays>> /\ Groups' = Groups /\ Shown' = Shown
  BY DEF GroupDel, Groups, Shown
<1> QED
  BY <1>1, <1>2
     DEF IInv, Alone, Acyclic, NoOrphans, Walking, Putting, Deleting

-----------------------------------------------------------------------------
\* A GroupEdit and an id that came twice are not forgotten.
LEMMA EditedStays == (edited \/ reborn) /\ [Next]_vars => (edited \/ reborn)'
<1> SUFFICES ASSUME edited \/ reborn, [Next]_vars PROVE edited' \/ reborn'
  OBVIOUS
<1> USE DEF counter
<1>1. CASE UNCHANGED vars
  BY <1>1 DEF vars
<1>2. ASSUME NEW r \in Reqs, Step(r) PROVE edited' \/ reborn'
  BY <1>2 DEF Step, Put, WalkUp, WalkRefused, WalkEnd, DelClients, DelParent,
              DelChildren, DelRemove
<1>3. ASSUME NEW r \in Reqs, Arrive(r) PROVE edited' \/ reborn'
  BY <1>3 DEF Arrive, GroupAdd, GroupEdit, GroupMove, GroupRename, GroupDel,
              GroupMoveClient, ClientAdd, ClientEdit, Regroup, ClientDel, Restart
<1> QED
  BY <1>1, <1>2, <1>3 DEF Next

\* Every step of serial requests keeps the invariant, or is a GroupEdit, or
\* hands out an id that groups point to.
LEMMA TreeStep ==
  ASSUME Serial, IInv, [Next]_vars PROVE edited' \/ reborn' \/ IInv'
<1>1. TypeOK'
  BY TypeStep DEF IInv
<1>2. CASE UNCHANGED vars
  BY <1>2 DEF vars, counter, reqs, IInv, TypeOK, Alone, Acyclic, NoOrphans, Walking,
              Putting, Deleting, Groups, Shown, ClosedBut
<1>3. ASSUME NEW r \in Reqs, Step(r) PROVE IInv'
  BY <1>1, <1>3, PutStep, WalkUpStep, WalkRefusedStep, WalkEndStep,
     DelClientsStep, DelParentStep, DelChildrenStep, DelRemoveStep DEF Step
<1>4. ASSUME NEW r \in Reqs, Arrive(r) PROVE edited' \/ reborn' \/ IInv'
  <2>1. ASSUME NEW g \in Ids, NEW p \in Named, GroupEdit(r, g, p)
        PROVE  edited'
    BY <2>1 DEF GroupEdit
  <2>2. ASSUME NEW c \in Clients, NEW g \in Named,
               GroupMoveClient(r, c, g) \/ ClientAdd(r, c, g) \/ ClientEdit(r, c, g)
        PROVE  IInv'
    <3>1. pc = [q \in Reqs |-> "idle"]
      BY <2>2, AllIdle DEF GroupMoveClient, ClientAdd, ClientEdit, IInv
    <3> QED
      BY <1>1, <2>2, <3>1, RegroupStep DEF GroupMoveClient, ClientAdd, ClientEdit
  <2>3. ASSUME NEW g \in Ids, NEW p \in Named, GroupAdd(r, g, p) PROVE reborn' \/ IInv'
    BY <1>1, <2>3, GroupAddStep
  <2>4. ASSUME NEW g \in Ids, NEW p \in Named, GroupMove(r, g, p) PROVE IInv'
    BY <1>1, <2>4, GroupMoveStep
  <2>5. ASSUME NEW g \in Ids, GroupRename(r, g) \/ GroupDel(r, g) PROVE IInv'
    BY <1>1, <2>5, GroupRenameStep, GroupDelStep
  <2>6. ASSUME Restart(r) \/ \E c \in Clients : ClientDel(r, c) PROVE IInv'
    BY <1>1, <2>6, ClientDelStep
  <2> QED
    BY <1>4, <2>1, <2>2, <2>3, <2>4, <2>5, <2>6 DEF Arrive
<1> QED
  BY <1>2, <1>3, <1>4 DEF Next

\* With requests one at a time, whatever ids they name, MoveGroup keeps the
\* promise of its comment: no group is ever below itself, and no group or
\* client is left without a parent that its own request saw, until GroupEdit
\* stores a parent that nothing has checked or a restart hands out an id again
\* that groups of a stale page point to.
THEOREM TreeStaysAcyclic == ASSUME Serial PROVE Spec => []StaysForest
<1>1. (edited \/ reborn \/ IInv) /\ [Next]_vars => (edited \/ reborn \/ IInv)'
  BY EditedStays, TreeStep
<1>2. edited \/ reborn \/ IInv => StaysForest
  BY DEF IInv, StaysForest
<1> QED
  BY TreeInit, <1>1, <1>2, PTL DEF Spec
=============================================================================
