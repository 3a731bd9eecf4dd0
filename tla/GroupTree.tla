----------------------------- MODULE GroupTree -----------------------------
(***************************************************************************)
(* The tree of client groups: NewGroup, UpdateGroup, DelGroup, MoveGroup   *)
(* and MoveClientToGroup of lib/file/db.go, the handlers GroupAdd,         *)
(* GroupEdit, GroupDel, GroupMove and GroupMoveClient of                   *)
(* web/controllers/api.go that call them, and the group_id that the        *)
(* handlers of web/controllers/client.go store in a client.                *)
(*                                                                         *)
(* A group is a record with the id of its parent, 0 (Root) for none; ids   *)
(* come from GroupIncreaseId, which starts from the largest id loaded.     *)
(* Nothing is locked: MoveGroup walks up from the new parent, one read of  *)
(* the map per step, and then stores.                                      *)
(*                                                                         *)
(* The parent or group that a request names is not looked up.  Pages do    *)
(* not follow what others do, so a request may name any id that was ever   *)
(* handed out.                                                             *)
(***************************************************************************)
EXTENDS Naturals

CONSTANTS
  MaxId,      \* bound on the ids handed out
  Clients,
  Reqs,       \* web requests
  Ops,        \* the handlers the requests call, and restarts
  None,       \* no such group, no such client
  Serial      \* TRUE: a request is sent when the one before was answered

Root == 0
Ids  == 1 .. MaxId

Handlers == {"Add", "Edit", "Rename", "Del", "Move", "MoveClient",
             "ClientAdd", "ClientEdit", "ClientDel", "Restart"}

ASSUME GroupAssumption ==
  /\ MaxId \in Nat /\ None \notin Nat
  /\ Ops \subseteq Handlers
  /\ Serial \in BOOLEAN

VARIABLES
  parent,     \* id -> ParentId, None when there is no such group
  group,      \* client -> GroupId, None when there is no such client
  last,       \* GroupIncreaseId
  top,        \* history: the largest id ever handed out
  edited,     \* history: GroupEdit was called with a parent of the form
  strays,     \* history: ids named by a request that no group had then
  reborn,     \* history: an id was handed out again while a group still had
              \* it as its parent
  pc,         \* request -> its next step
  op,         \* request -> its handler
  arg,        \* request -> the group it is about
  new,        \* request -> the parent it will store
  cur         \* request -> the variable ancestor of MoveGroup

reqs == <<pc, op, arg, new, cur>>
counter == <<last, top, reborn>>
vars == <<parent, group, counter, edited, strays, reqs>>

Groups == {g \in Ids : parent[g] # None}
Shown  == Groups \cup {Root}
Steps  == {"idle", "walk", "put", "clients", "parent", "children", "remove"}

\* What a page may name: every group it ever loaded, gone or not.
Named == 0 .. top

TypeOK ==
  /\ parent \in [Ids -> Ids \cup {Root, None}]
  /\ group \in [Clients -> Ids \cup {Root, None}]
  /\ top \in 0 .. MaxId /\ last \in 0 .. top /\ Groups \subseteq 1 .. last
  /\ edited \in BOOLEAN /\ reborn \in BOOLEAN /\ strays \subseteq Ids
  /\ pc \in [Reqs -> Steps]
  /\ op \in [Reqs -> Handlers \cup {None}]
  /\ arg \in [Reqs -> Ids \cup {None}]
  /\ new \in [Reqs -> Ids \cup {Root, None}]
  /\ cur \in [Reqs -> Ids \cup {Root, None}]
  /\ \A r \in Reqs : /\ pc[r] # "idle" => arg[r] \in Ids
                     /\ pc[r] \in {"walk", "put"} => arg[r] \in 1 .. last

\* No group yet, and no client.
Init ==
  /\ parent = [g \in Ids |-> None]
  /\ group = [c \in Clients |-> None]
  /\ last = 0 /\ top = 0
  /\ edited = FALSE /\ strays = {} /\ reborn = FALSE
  /\ pc = [r \in Reqs |-> "idle"]
  /\ op = [r \in Reqs |-> None]
  /\ arg = [r \in Reqs |-> None]
  /\ new = [r \in Reqs |-> None]
  /\ cur = [r \in Reqs |-> None]

\* A request for handler h can arrive.
MayCall(r, h) ==
  /\ h \in Ops
  /\ pc[r] = "idle"
  /\ Serial => \A q \in Reqs : pc[q] = "idle"

\* It is about group g, starts at step, and may store n.
Call(r, h, g, n, step) ==
  /\ MayCall(r, h)
  /\ op' = [op EXCEPT ![r] = h]
  /\ arg' = [arg EXCEPT ![r] = g]
  /\ new' = [new EXCEPT ![r] = n]
  /\ pc' = [pc EXCEPT ![r] = step]

Goto(r, step) == pc' = [pc EXCEPT ![r] = step]

\* The request is answered; the next one starts afresh.
Answer(r) ==
  /\ pc' = [pc EXCEPT ![r] = "idle"]
  /\ op' = [op EXCEPT ![r] = None]
  /\ arg' = [arg EXCEPT ![r] = None]
  /\ new' = [new EXCEPT ![r] = None]
  /\ cur' = [cur EXCEPT ![r] = None]

-----------------------------------------------------------------------------
(* GroupAdd                                                                *)

\* A mutant of GroupAdd: GroupIncreaseId stays.
GroupAddForgets(r, g, p) ==
  /\ MayCall(r, "Add")
  /\ g = last + 1 /\ p \in Named
  /\ parent' = [parent EXCEPT ![g] = p]
  /\ UNCHANGED <<group, counter, edited, strays, reqs>>

\* NewGroup under the next id, whatever the parent is.
GroupAdd(r, g, p) ==
  /\ MayCall(r, "Add")
  /\ g = last + 1 /\ p \in Named
  /\ last' = g
  /\ top' = IF g > top THEN g ELSE top
  /\ parent' = [parent EXCEPT ![g] = p]
  /\ strays' = (strays \cup ({p} \ Shown)) \ {g}
  /\ reborn' = (reborn \/ p = g \/ \E h \in Groups : parent[h] = g)
  /\ UNCHANGED <<group, edited, reqs>>

\* The server is started again when everything is on disk: GroupIncreaseId
\* is the largest id that LoadGroupsFromJsonFile meets.
Restart(r) ==
  /\ MayCall(r, "Restart") /\ \A q \in Reqs : pc[q] = "idle"
  /\ last' \in {n \in Shown : \A g \in Groups : g <= n}
  /\ UNCHANGED <<parent, group, top, reborn, edited, strays, reqs>>

-----------------------------------------------------------------------------
(* The clients                                                             *)

\* A client's GroupId is stored, whether there is such a group or not.
Regroup(c, g) ==
  /\ g \in Named
  /\ group' = [group EXCEPT ![c] = g]
  /\ strays' = strays \cup ({g} \ Shown)
  /\ UNCHANGED <<parent, counter, edited, reqs>>

\* MoveClientToGroup, from the list of clients.
GroupMoveClient(r, c, g) ==
  MayCall(r, "MoveClient") /\ group[c] # None /\ Regroup(c, g)

\* ClientController.Add and Edit: the group_id of the form.
ClientAdd(r, c, g)  == MayCall(r, "ClientAdd") /\ group[c] = None /\ Regroup(c, g)
ClientEdit(r, c, g) == MayCall(r, "ClientEdit") /\ group[c] # None /\ Regroup(c, g)

\* DelClient
ClientDel(r, c) ==
  /\ MayCall(r, "ClientDel") /\ group[c] # None
  /\ group' = [group EXCEPT ![c] = None]
  /\ UNCHANGED <<parent, counter, edited, strays, reqs>>

-----------------------------------------------------------------------------
(* GroupEdit                                                               *)

\* The parent_id of the form, nothing checks it.
GroupEdit(r, g, p) ==
  /\ g \in Groups /\ p \in Named
  /\ Call(r, "Edit", g, p, "put")
  /\ edited' = TRUE
  /\ UNCHANGED <<parent, group, counter, strays, cur>>

\* The page renames a group with its id and name only; a parent_id that is
\* missing is read as 0.
GroupRename(r, g) ==
  /\ g \in Groups
  /\ Call(r, "Rename", g, Root, "put")
  /\ UNCHANGED <<parent, group, counter, edited, strays, cur>>

\* g.ParentId = ... and Groups.Store, for GroupEdit and MoveGroup.  A group
\* deleted in between is back.
Put(r) ==
  /\ pc[r] = "put"
  /\ parent' = [parent EXCEPT ![arg[r]] = new[r]]
  /\ Answer(r)
  /\ UNCHANGED <<group, counter, edited, strays>>

-----------------------------------------------------------------------------
(* GroupMove                                                               *)

\* MoveGroup; a move to itself is refused at once, and that of a group that is
\* gone.
GroupMove(r, g, n) ==
  /\ g \in Groups /\ n \in Named /\ g # n
  /\ Call(r, "Move", g, n, "walk")
  /\ cur' = [cur EXCEPT ![r] = n]
  /\ strays' = strays \cup ({n} \ Shown)
  /\ UNCHANGED <<parent, group, counter, edited>>

\* A mutant of WalkUp: only the new parent itself is looked at.
WalkOnce(r) ==
  /\ pc[r] = "walk" /\ cur[r] \in Groups \ {arg[r]}
  /\ cur' = [cur EXCEPT ![r] = Root]
  /\ UNCHANGED <<parent, group, counter, edited, strays, pc, op, arg, new>>

\* A mutant of WalkUp: the walk looks at the new parent again and again.
WalkStays(r) ==
  /\ pc[r] = "walk" /\ cur[r] \in Groups \ {arg[r]}
  /\ cur' = [cur EXCEPT ![r] = new[r]]
  /\ UNCHANGED <<parent, group, counter, edited, strays, pc, op, arg, new>>

\* ancestor = p.ParentId
WalkUp(r) ==
  /\ pc[r] = "walk" /\ cur[r] \in Groups \ {arg[r]}
  /\ cur' = [cur EXCEPT ![r] = parent[cur[r]]]
  /\ UNCHANGED <<parent, group, counter, edited, strays, pc, op, arg, new>>

\* "cannot move to descendant"
WalkRefused(r) ==
  /\ pc[r] = "walk" /\ cur[r] = arg[r]
  /\ Answer(r)
  /\ UNCHANGED <<parent, group, counter, edited, strays>>

\* The root, or an ancestor that does not exist.
WalkEnd(r) ==
  /\ pc[r] = "walk" /\ cur[r] # arg[r] /\ cur[r] \notin Groups
  /\ Goto(r, "put")
  /\ UNCHANGED <<parent, group, counter, edited, strays, op, arg, new, cur>>

-----------------------------------------------------------------------------
(* GroupDel                                                                *)

\* DelGroup; the group is not looked up.
GroupDel(r, g) ==
  /\ g \in Named
  /\ Call(r, "Del", g, None, "clients")
  /\ UNCHANGED <<parent, group, counter, edited, strays, cur>>

\* The clients of the group become ungrouped.
DelClients(r) ==
  /\ pc[r] = "clients"
  /\ group' = [c \in Clients |-> IF group[c] = arg[r] THEN Root ELSE group[c]]
  /\ Goto(r, "parent")
  /\ UNCHANGED <<parent, counter, edited, strays, op, arg, new, cur>>

\* parentId := g.ParentId; the children are left alone when the group is gone.
DelParent(r) ==
  /\ pc[r] = "parent"
  /\ IF arg[r] \in Groups
     THEN new' = [new EXCEPT ![r] = parent[arg[r]]] /\ Goto(r, "children")
     ELSE UNCHANGED new /\ Goto(r, "remove")
  /\ UNCHANGED <<parent, group, counter, edited, strays, op, arg, cur>>

\* A mutant of DelChildren: the children keep their parent.
DelChildrenKeep(r) ==
  /\ pc[r] = "children"
  /\ Goto(r, "remove")
  /\ UNCHANGED <<parent, group, counter, edited, strays, op, arg, new, cur>>

\* The children move up.
DelChildren(r) ==
  /\ pc[r] = "children"
  /\ parent' = [g \in Ids |-> IF parent[g] = arg[r] THEN new[r] ELSE parent[g]]
  /\ Goto(r, "remove")
  /\ UNCHANGED <<group, counter, edited, strays, op, arg, new, cur>>

DelRemove(r) ==
  /\ pc[r] = "remove"
  /\ parent' = [parent EXCEPT ![arg[r]] = None]
  /\ Answer(r)
  /\ UNCHANGED <<group, counter, edited, strays>>

-----------------------------------------------------------------------------
Step(r) ==
  \/ Put(r) \/ WalkUp(r) \/ WalkRefused(r) \/ WalkEnd(r)
  \/ DelClients(r) \/ DelParent(r) \/ DelChildren(r) \/ DelRemove(r)

Arrive(r) ==
  \/ \E g \in Ids, p \in Named :
       GroupAdd(r, g, p) \/ GroupEdit(r, g, p) \/ GroupMove(r, g, p)
  \/ \E g \in Ids : GroupRename(r, g) \/ GroupDel(r, g)
  \/ \E c \in Clients, g \in Named :
       GroupMoveClient(r, c, g) \/ ClientAdd(r, c, g) \/ ClientEdit(r, c, g)
  \/ \E c \in Clients : ClientDel(r, c)
  \/ Restart(r)

Next == \E r \in Reqs : Step(r) \/ Arrive(r)

Spec == Init /\ [][Next]_vars

\* A request goes on until it is answered.
FairSpec == Spec /\ \A r \in Reqs : WF_vars(Step(r))

-----------------------------------------------------------------------------
(* Properties                                                              *)

\* db.go:358, moving a group below its own descendants would make a cycle:
\* no set of groups has all its parents in itself.
Acyclic ==
  \A S \in SUBSET Groups : (\A g \in S : parent[g] \in S) => S = {}

\* The parent of a group and the group of a client exist, or a request named
\* them when they did not.
NoOrphans ==
  /\ \A g \in Groups : parent[g] \in Shown \cup strays
  /\ \A c \in Clients : group[c] \in Shown \cup strays \cup {None}

\* Whatever is added, renamed, moved and deleted, by pages however stale, the
\* groups stay a forest, and a group is never deleted from under its children
\* or its clients.  Two things can break that: GroupEdit, which stores any
\* parent, and a restart that lets an id be handed out again to which groups
\* of a stale page still point.
StaysForest == edited \/ reborn \/ (Acyclic /\ NoOrphans)

\* Every request is answered: on a forest the walk of MoveGroup ends.
Answered == \A r \in Reqs : []<>(pc[r] = "idle" \/ edited \/ reborn)
=============================================================================
