------------------------------ MODULE ListPage ------------------------------
(* The three lists of the web panel, ClientList with its tree of groups,    *)
(* TunnelList and DomainList, and what the server does for them.            *)
(*                                                                          *)
(* A list asks for one page of the entries that its filter and the search   *)
(* word select.  Nothing cancels a request: the rows shown are those of the *)
(* answer that came last.  A handler that waits for the server asks again   *)
(* afterwards, with the page, filter and word of when it was clicked.       *)
(*                                                                          *)
(* The session is an administrator's: for anybody else the server keeps to  *)
(* the entries of their client and refuses the operations on groups.         *)
(* What groups the server has is left open: getGroups answers with any list  *)
(* of them.  Other administrators move and delete groups at the same time,   *)
(* ids come again after a restart, and parents may be missing or form a      *)
(* cycle (GroupTree).                                                        *)
(* The filter is the chosen group of ClientList (0 all, -1 ungrouped), the  *)
(* type of TunnelList, the client of DomainList (0 all).                     *)
EXTENDS GroupOutline, Integers, SequencesExt

CONSTANTS Lists,       \* the lists the user opens, one of them in a behaviour
          EntryIds, Named,  \* the entries that can exist, and those the word "x" finds
          PageSize,    \* bound: rows of a page, 10 in the code
          MaxFetches,  \* bound: requests under way when the user makes another, for each list
          MaxCalls,    \* bound: handlers that wait for the server
          MaxActs,     \* bound: what the user and another administrator do, for each list
          Filed        \* the groups, types or clients the entries have at first, for each list

ASSUME ListAssumption ==
    /\ PageSize \in Nat \ {0} /\ MaxCalls \in Nat
    /\ \A l \in Lists : MaxActs[l] \in Nat /\ MaxFetches[l] \in Nat
    /\ IsFiniteSet(EntryIds)
    /\ \A l \in Lists : \A E \in Filed[l] :
          /\ DOMAIN E \subseteq EntryIds
          /\ \A e \in DOMAIN E : E[e] \in IF l = "clients" THEN {0} \cup GroupIds ELSE {1, 2}

VARIABLES
    list,      \* the list that is open
    filter,    \* selectedGroupId, typeParam or clientId
    pageNo,    \* `page` of the list
    search,    \* the word in the search field
    data,      \* the answer whose rows are shown
    loading,   \* whether a skeleton is shown in place of the rows
    fetches,   \* the list requests under way
    calls,     \* the handlers that wait for the server
    groups,    \* the groups that the page shows
    target,    \* the menu, dialog or popover of a group that is open
    entries,   \* the entries on the server: id -> its group, type or client
    sought,    \* history: the word in the field when the last list was asked for
    muddled,   \* history: see RowsAnswerQuery
    acts       \* counter for the bound

query == <<filter, pageNo, search>>
rows == <<data, loading, fetches, sought, muddled>>
listVars == <<list, query, rows, calls, groups, target, entries, acts>>

----------------------------------------------------------------------------
(* The server.                                                               *)
Selects(f, class) ==
    CASE list = "clients" -> f = 0 \/ f = class \/ (f = -1 /\ class = 0)
      [] list = "tunnels" -> f = class
      [] list = "hosts" -> f = 0 \/ f = class

\* One page of what the filter and the word select, in the order of the ids.
Found(q) == {e \in DOMAIN entries : Selects(q.filter, entries[e]) /\ (q.search = "" \/ e \in Named)}
RowsOf(q) == {e \in Found(q) : Cardinality({d \in Found(q) : d < e}) \div PageSize = q.pageNo}
Answered(q) == [query |-> q, rows |-> RowsOf(q), total |-> Cardinality(Found(q))]

GroupOps == {"addGroup", "editGroup", "moveGroup", "delGroup"}

\* The entries after a call: gone, moved to another group, or switched on or
\* off.  The clients of a group that is deleted become ungrouped.
EntriesAfter(op, id, to) ==
    CASE op = "del" -> [e \in DOMAIN entries \ {id} |-> entries[e]]
      [] op = "moveClient" /\ id \in DOMAIN entries -> [entries EXCEPT ![id] = to]
      [] op = "delGroup" -> [e \in DOMAIN entries |-> IF entries[e] = id THEN 0 ELSE entries[e]]
      [] OTHER -> entries
RowOps == {"del"} \cup (IF list = "hosts" THEN {} ELSE {"switch"})
                  \cup (IF list = "clients" THEN {"moveClient"} ELSE {})

----------------------------------------------------------------------------
(* fetchList                                                                 *)
Query(f, p, w) == [filter |-> f, pageNo |-> p, search |-> w]
Current == Query(filter, pageNo, search)
NoData == [query |-> Query(-2, 0, ""), rows |-> {}, total |-> 0]  \* before the first answer

\* Every menu, dialog and popover lies over the page: a click beside it closes it.
NothingOpen == target.mode = "closed"

\* The requests qs go out, for what the page shows once this step is done.
Fetch(qs) ==
    /\ fetches' = fetches \o qs
    /\ loading' = (loading \/ qs # <<>>)
    /\ sought' = IF qs = <<>> THEN sought ELSE search'
    /\ muddled' = IF qs = <<>> THEN muddled
                  ELSE Len(fetches \o qs) > 1 \/ qs # <<Query(filter', pageNo', search')>>
    /\ UNCHANGED data

\* A mutant of Effect: the filter is not among the dependencies.
EffectOfPage(f, p) == IF p = pageNo THEN <<>> ELSE <<Query(f, p, search)>>

\* The effect that asks again, when the page or the filter changed.
Effect(f, p) == IF <<f, p>> = <<filter, pageNo>> THEN <<>> ELSE <<Query(f, p, search)>>

\* One more action of somebody.
Acts == list # "none" /\ acts < MaxActs[list] /\ acts' = acts + 1

TotalPages == (data.total + PageSize - 1) \div PageSize
Room == Len(fetches) < MaxFetches[list]

\* The rows and their buttons are there when nothing is loading.
RowsShown == list # "none" /\ ~loading

----------------------------------------------------------------------------
(* The user: pages, filters, search.                                         *)
Moves(f, p, qs) ==
    /\ filter' = f /\ pageNo' = p
    /\ UNCHANGED search
    /\ Fetch(qs)
    /\ NothingOpen /\ Acts
    /\ UNCHANGED <<list, calls, groups, target, entries>>

\* The pager is there for more than one page.
TurnPage ==
    /\ RowsShown /\ Room /\ TotalPages > 1
    /\ \E p \in {pageNo - 1, pageNo + 1} :
          /\ p > pageNo => pageNo < TotalPages - 1
          /\ p >= 0
          /\ Moves(filter, p, Effect(filter, p))

\* handleSelectGroup: a group of the tree, all, or none.
SelectGroup ==
    /\ list = "clients" /\ Room
    /\ \E f \in {0, -1} \cup Rendered(groups) :
          <<f, 0>> # <<filter, pageNo>> /\ Moves(f, 0, Effect(f, 0))

\* Another type in the sidebar: the list stays mounted, and on its page.
SwitchType ==
    /\ list = "tunnels" /\ Room
    /\ \E f \in {1, 2} \ {filter} : Moves(f, pageNo, Effect(f, pageNo))

\* The domains of all clients, from those of one.
ShowAllHosts ==
    /\ list = "hosts" /\ Room /\ filter # 0
    /\ Moves(0, pageNo, Effect(0, pageNo))

TypeWord ==
    /\ NothingOpen /\ Acts
    /\ search' = IF search = "" THEN "x" ELSE ""
    /\ UNCHANGED <<list, filter, pageNo, rows, calls, groups, target, entries>>

\* handleSearch of ClientList and DomainList asks for the first page, and so
\* does the effect when the page was another; that of TunnelList asks for the
\* page it was on.
SearchClients ==
    /\ list = "clients" /\ Room
    /\ Moves(filter, 0, <<Query(filter, 0, search)>> \o Effect(filter, 0))
SearchHosts ==
    /\ list = "hosts" /\ Room
    /\ Moves(filter, 0, <<Query(filter, 0, search)>> \o Effect(filter, 0))
SearchTunnels ==
    /\ list = "tunnels" /\ Room
    /\ Moves(filter, 0, <<Current>> \o Effect(filter, 0))

\* Any of the requests is answered next, or fails, which leaves the rows.
ListArrives ==
    \E i \in DOMAIN fetches :
       /\ data' = Answered(fetches[i])
       /\ loading' = FALSE
       /\ fetches' = RemoveAt(fetches, i)
       /\ UNCHANGED <<list, query, sought, muddled, calls, groups, target, entries, acts>>

ListFails ==
    \E i \in DOMAIN fetches :
       /\ loading' = FALSE
       /\ fetches' = RemoveAt(fetches, i)
       /\ muddled' = TRUE
       /\ UNCHANGED <<list, query, data, sought, calls, groups, target, entries, acts>>

----------------------------------------------------------------------------
(* Handlers that wait: the call, for a group operation getGroups after it,  *)
(* then the rest with the filter and query of the click.                     *)
Start(op, id, to) ==
    /\ Cardinality(calls) < MaxCalls
    /\ LET c == [op |-> op, id |-> id, to |-> to, stage |-> "sent", query |-> Current]
       IN  c \notin calls /\ calls' = calls \cup {c}
    /\ UNCHANGED <<list, query, rows, groups, entries>>

\* A button of a row.  MoveClientToGroupModal offers the groups of the tree,
\* if there are any.
ClickRow ==
    /\ RowsShown /\ NothingOpen /\ Acts /\ UNCHANGED target
    /\ \E op \in RowOps, id \in data.rows :
          /\ op = "moveClient" => groups # <<>>
          /\ \E to \in IF op = "moveClient" THEN ClientOptions(groups) ELSE {0} : Start(op, id, to)

(* ClientGroupTree: the menu of a node, the dialog and the popover it opens. *)
(* What is open keeps its group while the list of groups is replaced.        *)
Closed == [mode |-> "closed", group |-> 0]
Opens(mode, g) ==
    /\ target' = [mode |-> mode, group |-> g]
    /\ UNCHANGED <<list, query, rows, calls, groups, entries>>
OpenMenu ==
    /\ list = "clients" /\ NothingOpen /\ Acts
    /\ \E g \in Rendered(groups) : Opens("menu", g)
\* The menu entries for a sub-group, a move and a new name; the plus on top of
\* the tree.
MenuAdd == target.mode = "menu" /\ Opens("add", target.group) /\ UNCHANGED acts
MenuMove == target.mode = "menu" /\ Opens("move", target.group) /\ UNCHANGED acts
MenuEdit == target.mode = "menu" /\ Opens("edit", target.group) /\ UNCHANGED acts
AddButton ==
    /\ list = "clients" /\ NothingOpen /\ Acts
    /\ Opens("add", IF filter > 0 THEN filter ELSE 0)
\* A node that is pressed for half a second opens the popover.  Its release is
\* a click, which selects the group as well when it comes more than 100 ms
\* later and the node is still there.
LongPress ==
    /\ list = "clients" /\ NothingOpen /\ Acts
    /\ \E g \in Rendered(groups) : Opens("held", g)
Release ==
    /\ target.mode = "held" /\ target' = [target EXCEPT !.mode = "move"]
    /\ \/ UNCHANGED <<query, rows>>
       \/ /\ target.group \in Rendered(groups) /\ Room
          /\ filter' = target.group /\ pageNo' = 0 /\ UNCHANGED search
          /\ Fetch(Effect(target.group, 0))
    /\ UNCHANGED <<list, calls, groups, entries, acts>>
CloseDialog == target.mode \notin {"closed", "held"} /\ Opens("closed", 0) /\ UNCHANGED acts

\* The dialog starts from the group it was opened for; its name is not empty.
ConfirmAdd ==
    /\ target.mode = "add"
    /\ \E p \in ParentOptions(groups) \cup {target.group} : Start("addGroup", 0, p)
    /\ target' = Closed /\ UNCHANGED acts
ConfirmEdit == target.mode = "edit" /\ Start("editGroup", target.group, 0) /\ target' = Closed /\ UNCHANGED acts
PickParent ==
    /\ target.mode = "move"
    /\ \E p \in MoveOptions(groups, target.group) : Start("moveGroup", target.group, p)
    /\ target' = Closed /\ UNCHANGED acts
MenuDelete == target.mode = "menu" /\ Start("delGroup", target.group, 0) /\ target' = Closed /\ UNCHANGED acts

Becomes(c, stage) == calls' = (calls \ {c}) \cup {[c EXCEPT !.stage = stage]}

\* The handlers of a row go on as well when the status of the answer says no.
ServeRow ==
    \E c \in calls :
       /\ c.stage = "sent" /\ c.op \notin GroupOps
       /\ entries' \in {entries, EntriesAfter(c.op, c.id, c.to)}
       /\ Becomes(c, "served")
       /\ UNCHANGED <<list, query, rows, groups, target, acts>>

\* GroupAdd, GroupEdit, GroupMove, GroupDel.
ServeGroup ==
    \E c \in calls :
       /\ c.stage = "sent" /\ c.op \in GroupOps
       /\ entries' = EntriesAfter(c.op, c.id, c.to)
       /\ Becomes(c, "served")
       /\ UNCHANGED <<list, query, rows, groups, target, acts>>

\* No answer, or a group operation refused: an alert, and nothing is asked again.
CallFails ==
    \E c \in calls :
       /\ calls' = calls \ {c}
       /\ UNCHANGED <<list, query, rows, groups, target, entries, acts>>

\* getGroups is answered, after a group operation or when the list was opened.
\* The handler goes on: setGroups, for a deletion also the filter, if the group
\* was chosen when the handler was called.
GroupsArrive ==
    \E c \in calls :
       /\ c.stage = "served" /\ c.op \in GroupOps \cup {"getGroups"}
       /\ groups' \in GroupLists
       /\ calls' = calls \ {c}
       /\ LET f == IF c.op = "delGroup" /\ c.query.filter = c.id THEN 0 ELSE filter
          IN  /\ filter' = f
              /\ UNCHANGED <<pageNo, search>>
              /\ Fetch((IF c.op = "delGroup" THEN <<c.query>> ELSE <<>>) \o Effect(f, pageNo))
       /\ UNCHANGED <<list, target, entries, acts>>

CallArrives ==
    \E c \in calls :
       /\ c.stage = "served" /\ c.op \notin GroupOps \cup {"getGroups"}
       /\ calls' = calls \ {c}
       /\ UNCHANGED query /\ Fetch(<<c.query>>)
       /\ UNCHANGED <<list, groups, target, entries, acts>>

----------------------------------------------------------------------------
(* Another administrator.                                                    *)
OtherWrites ==
    /\ Acts
    /\ \/ \E e \in DOMAIN entries : entries' = EntriesAfter("del", e, 0)
       \/ /\ list = "clients"
          /\ \E e \in DOMAIN entries, g \in GroupIds \cup {0} :
                entries' \in {EntriesAfter("delGroup", g, 0), EntriesAfter("moveClient", e, g)}
    /\ UNCHANGED <<list, query, rows, calls, groups, target>>

----------------------------------------------------------------------------
Classes == CASE list = "clients" -> {0} \cup GroupIds [] OTHER -> {1, 2}
GetGroups == [op |-> "getGroups", id |-> 0, to |-> 0, stage |-> "served", query |-> Current]

\* The list was just opened: its effects have asked for the rows and, on
\* ClientList, for the groups.
ListInit ==
    /\ list \in Lists
    /\ \/ list = "clients" /\ filter = 0
       \/ list = "tunnels" /\ filter = 1
       \/ list = "hosts" /\ filter \in {0, 1}
    /\ pageNo = 0 /\ search = "" /\ sought = "" /\ muddled = FALSE
    /\ data = NoData /\ loading = TRUE /\ fetches = <<Current>>
    /\ entries \in Filed[list]
    /\ calls = IF list = "clients" THEN {GetGroups} ELSE {}
    /\ groups = <<>> /\ target = Closed /\ acts = 0

ListIdle ==
    /\ list = "none" /\ filter = 0 /\ pageNo = 0 /\ search = "" /\ sought = "" /\ muddled = FALSE
    /\ data = NoData /\ loading = FALSE /\ fetches = <<>> /\ entries = <<>>
    /\ calls = {} /\ groups = <<>> /\ target = Closed /\ acts = 0

Turns == TurnPage \/ SelectGroup \/ SwitchType \/ ShowAllHosts
Searches == TypeWord \/ SearchClients \/ SearchHosts \/ SearchTunnels
Dialogs == OpenMenu \/ MenuAdd \/ MenuMove \/ MenuEdit \/ AddButton \/ LongPress \/ Release \/ CloseDialog
           \/ ConfirmAdd \/ ConfirmEdit \/ PickParent \/ MenuDelete
Handlers == ServeRow \/ ServeGroup \/ CallFails \/ GroupsArrive \/ CallArrives
ListNext == Turns \/ Searches \/ ListArrives \/ ListFails \/ ClickRow \/ Dialogs \/ Handlers \/ OtherWrites

ListSpec == ListInit /\ [][ListNext]_listVars

----------------------------------------------------------------------------
Queries == [filter : {-1, 0, 1, 2} \cup GroupIds, pageNo : 0..Cardinality(EntryIds), search : {"", "x"}]
Modes == {"closed", "menu", "add", "held", "move", "edit"}

\* Every variable stays in its set.
ListTypeOK == ListIdle \/
    /\ list \in Lists /\ Current \in Queries
    /\ data = NoData \/ data.query \in Queries
    /\ data.rows \subseteq EntryIds /\ data.total \in 0..Cardinality(EntryIds)
    /\ Range(fetches) \subseteq Queries
    /\ groups \in GroupLists
    /\ target.mode \in Modes /\ target.group \in GroupIds \cup {0}
    /\ DOMAIN entries \subseteq EntryIds /\ \A e \in DOMAIN entries : entries[e] \in Classes
    /\ \A c \in calls : /\ c.op \in GroupOps \cup RowOps \cup {"getGroups"}
                       /\ c.stage \in {"sent", "served"} /\ c.query \in Queries
    /\ {loading, muddled} \subseteq BOOLEAN /\ acts \in 0..MaxActs[list]

(* When nothing is on its way any more, the rows shown are those of the     *)
(* page, the filter and the word that the list shows, and no skeleton is in *)
(* their place.  The exceptions are what muddled stands for, since the last *)
(* list was asked for: a request that failed, one sent while another was    *)
(* under way, so that either answer may be the last, and one that a handler *)
(* sent for the page or the filter of when it was called.                    *)
RowsAnswerQuery ==
    list # "none" /\ fetches = <<>> /\ ~muddled =>
        data.query = Query(filter, pageNo, sought) /\ ~loading

(* Whatever groups the server answered with, parents that are gone and       *)
(* cycles included: the tree that the page draws has every group but those   *)
(* on a cycle or below one, and offers none a parent that is the group       *)
(* itself or below it.                                                       *)
GroupsFaithful ==
    /\ Rendered(groups) = DOMAIN groups \ Circular(groups)
    /\ \A g \in DOMAIN groups : \A p \in MoveOptions(groups, g) :
          p # g /\ (p # 0 => g \notin Above(groups, p))
=============================================================================
