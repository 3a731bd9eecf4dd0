---------------------------- MODULE WebPanelProof ----------------------------
(* Proofs about the web panel: its lists (ListPage), its frame (WebApp) and  *)
(* the pages that add or edit an entry (FormPage).  The parts share no       *)
(* variable, so an invariant of one is one of the panel as soon as it also   *)
(* holds while that part is not open; WebInv at the end puts them together.  *)
(*                                                                           *)
(* The tree of ClientList is faithful (GroupsFaithful) to any list of groups *)
(* there can be: buildTree loses the groups on a cycle or below one and no    *)
(* other, and going down without entering a group stays out of what is below *)
(* it.  All that is needed of the pages is that they show groups.             *)
(*                                                                           *)
(* What a list ends up showing is what it asks for (RowsAnswerQuery): a list *)
(* that is not muddled has at most one request under way, and that one asks  *)
(* for what the page shows (RowsFollow).                                     *)
EXTENDS WebPanel, FiniteSetTheorems, SequenceTheorems, TLAPS

----------------------------------------------------------------------------
(* Lists of groups.                                                          *)

\* What the roots do not lead to are the groups on a cycle or below one: the
\* largest set that has the parents of all its members.
LEMMA RenderedIs ==
    ASSUME NEW G
    PROVE  Rendered(G) = DOMAIN G \ Circular(G)
  <1>1. ASSUME NEW g \in Rendered(G)
        PROVE  g \notin Circular(G)
    <2> SUFFICES ASSUME NEW S \in SUBSET DOMAIN G, \A h \in S : G[h] \in S
                 PROVE  g \notin S
      BY DEF Circular
    <2>1. \A h \in DOMAIN G \ {} : h \in Roots(G) \/ G[h] \in DOMAIN G \ S => h \in DOMAIN G \ S
      BY DEF Roots
    <2> QED BY <2>1, DOMAIN G \ S \in SUBSET DOMAIN G DEF Rendered, Tree
  <1>2. ASSUME NEW g \in DOMAIN G, g \notin Rendered(G)
        PROVE  g \in Circular(G)
    <2>1. PICK T \in SUBSET DOMAIN G : /\ \A h \in DOMAIN G \ {} : h \in Roots(G) \/ G[h] \in T => h \in T
                                       /\ g \notin T
      BY <1>2 DEF Rendered, Tree
    <2>2. \A h \in DOMAIN G \ T : G[h] \in DOMAIN G \ T
      BY <2>1 DEF Roots
    <2> DEFINE S == DOMAIN G \ T
    <2>3. S \in {R \in SUBSET DOMAIN G : \A h \in R : G[h] \in R} /\ g \in S
      BY <2>1, <2>2
    <2> QED BY <2>3 DEF Circular
  <1>3. Rendered(G) \subseteq DOMAIN G
    BY DEF Rendered, Tree
  <1> QED BY <1>1, <1>2, <1>3

\* A root has nothing above it.
LEMMA RootAbove ==
    ASSUME NEW G, NEW g \in Roots(G)
    PROVE  Above(G, g) = {}
  <1>1. {} \in SUBSET DOMAIN G /\ (\A h \in {} \cup {g} : G[h] \in DOMAIN G => G[h] \in {})
    BY DEF Roots
  <1> QED BY <1>1 DEF Above

\* What is above a group, for which that is not above its parent.
LEMMA NotAbove ==
    ASSUME NEW G, NEW k \in DOMAIN G, NEW g, G[k] \in DOMAIN G, G[k] # g, g \notin Above(G, G[k])
    PROVE  g \notin Above(G, k)
  <1>1. CASE g \notin DOMAIN G
    BY <1>1 DEF Above
  <1>2. CASE g \in DOMAIN G
    <2>1. PICK S \in SUBSET DOMAIN G : /\ \A h \in S \cup {G[k]} : G[h] \in DOMAIN G => G[h] \in S
                                       /\ g \notin S
      BY <1>2 DEF Above
    <2>2. /\ S \cup {G[k]} \in SUBSET DOMAIN G
          /\ \A h \in (S \cup {G[k]}) \cup {k} : G[h] \in DOMAIN G => G[h] \in S \cup {G[k]}
          /\ g \notin S \cup {G[k]}
      BY <2>1
    <2> QED BY <2>2 DEF Above
  <1> QED BY <1>1, <1>2

\* Going down without entering g reaches neither g nor what is below it.
LEMMA SkippedBelow ==
    ASSUME NEW G, NEW g, NEW h \in Tree(G, {g})
    PROVE  h # g /\ g \notin Above(G, h)
  <1> DEFINE S == {k \in DOMAIN G : k # g /\ g \notin Above(G, k)}
  <1>1. \A k \in DOMAIN G \ {g} : k \in Roots(G) \/ G[k] \in S => k \in S
    <2> SUFFICES ASSUME NEW k \in DOMAIN G \ {g}, k \in Roots(G) \/ G[k] \in S
                 PROVE  g \notin Above(G, k)
      OBVIOUS
    <2>1. CASE k \in Roots(G)
      BY <2>1, RootAbove
    <2>2. CASE G[k] \in S
      BY <2>2, NotAbove
    <2> QED BY <2>1, <2>2
  <1>2. h \in S
    BY <1>1, S \in SUBSET DOMAIN G DEF Tree
  <1> QED BY <1>2

----------------------------------------------------------------------------
(* The invariant: whatever the page shows, has chosen or has open is a group. *)
ListInv ==
    /\ groups \in GroupLists
    /\ target.group \in GroupIds \cup {0}
    /\ list = "clients" => filter \in GroupIds \cup {0, -1}

\* The empty list has no groups.
LEMMA NothingListed == DOMAIN <<>> = {}
  OBVIOUS

LEMMA EmptyTyped == <<>> \in GroupLists
  <1>1. <<>> \in [{} -> GroupIds \cup {0}]
    OBVIOUS
  <1> QED BY <1>1 DEF GroupLists

\* The groups that are offered are groups of the list, and those are groups.
LEMMA OffersListed ==
    ASSUME NEW G \in GroupLists, NEW g
    PROVE  /\ ParentOptions(G) \subseteq GroupIds \cup {0} /\ MoveOptions(G, g) \subseteq GroupIds \cup {0}
           /\ ClientOptions(G) \subseteq GroupIds \cup {0} /\ Rendered(G) \subseteq GroupIds
  <1>1. DOMAIN G \subseteq GroupIds
    BY DEF GroupLists
  <1> QED BY <1>1 DEF ParentOptions, MoveOptions, ClientOptions, Rendered, Tree

LEMMA ListInvInit == ListInit => ListInv
  <1> SUFFICES ASSUME ListInit
               PROVE  ListInv
    OBVIOUS
  <1>1. groups = <<>> /\ target = Closed /\ (list = "clients" => filter = 0)
    BY DEF ListInit
  <1> QED BY <1>1, EmptyTyped DEF ListInv, Closed

----------------------------------------------------------------------------
(* Steps.                                                                    *)

\* Steps that leave the groups, the filter and what is open alone.
LEMMA RowsKeep == ListInv /\ UNCHANGED <<list, filter, groups, target>> => ListInv'
  BY DEF ListInv

LEMMA TurnsKeep == ListInv /\ Turns => ListInv'
  <1> SUFFICES ASSUME ListInv, Turns
               PROVE  ListInv'
    OBVIOUS
  <1> USE DEF Moves
  <1>1. CASE TurnPage
    BY <1>1, RowsKeep DEF TurnPage
  <1>2. CASE SelectGroup
    <2>1. PICK f \in {0, -1} \cup Rendered(groups) : Moves(f, 0, Effect(f, 0))
      BY <1>2 DEF SelectGroup
    <2>2. f \in GroupIds \cup {0, -1}
      BY OffersListed DEF ListInv
    <2>3. filter' = f /\ UNCHANGED <<list, groups, target>>
      BY <2>1
    <2> QED BY <2>2, <2>3 DEF ListInv
  <1>3. CASE SwitchType \/ ShowAllHosts
    <2>1. list # "clients" /\ UNCHANGED <<list, groups, target>>
      BY <1>3 DEF SwitchType, ShowAllHosts
    <2> QED BY <2>1 DEF ListInv
  <1> QED BY <1>1, <1>2, <1>3 DEF Turns

LEMMA SearchesKeep == ListInv /\ (Searches \/ ListArrives \/ ListFails) => ListInv'
  BY RowsKeep DEF Searches, TypeWord, SearchClients, SearchHosts, SearchTunnels, Moves, query,
                  ListArrives, ListFails

LEMMA ClicksKeep == ListInv /\ (ClickRow \/ OtherWrites) => ListInv'
  BY RowsKeep DEF ClickRow, Start, OtherWrites, query

LEMMA DialogsKeep == ListInv /\ Dialogs => ListInv'
  <1> SUFFICES ASSUME ListInv, Dialogs
               PROVE  ListInv'
    OBVIOUS
  <1>1. ASSUME NEW mode, NEW g \in GroupIds \cup {0}, Opens(mode, g)
        PROVE  ListInv'
    BY <1>1 DEF ListInv, Opens, query
  <1>2. ASSUME NEW op, NEW id, NEW to, Start(op, id, to), target' = Closed
        PROVE  ListInv'
    BY <1>2 DEF ListInv, Start, Closed, query
  <1>3. target.group \in GroupIds \cup {0} /\ Rendered(groups) \subseteq GroupIds
    BY OffersListed DEF ListInv
  <1>4. CASE OpenMenu \/ LongPress
    BY <1>1, <1>3, <1>4 DEF OpenMenu, LongPress
  <1>5. CASE MenuAdd \/ MenuMove \/ MenuEdit \/ CloseDialog
    BY <1>1, <1>3, <1>5 DEF MenuAdd, MenuMove, MenuEdit, CloseDialog
  <1>6. CASE AddButton
    <2>1. filter \in GroupIds \cup {0, -1} /\ Opens("add", IF filter > 0 THEN filter ELSE 0)
      BY <1>6 DEF AddButton, ListInv
    <2>2. (IF filter > 0 THEN filter ELSE 0) \in GroupIds \cup {0}
      BY <2>1
    <2> QED BY <1>1, <2>1, <2>2
  <1>7. CASE Release
    <2>1. /\ UNCHANGED <<list, groups>> /\ target' = [target EXCEPT !.mode = "move"]
          /\ filter' = filter \/ (target.group \in Rendered(groups) /\ filter' = target.group)
      BY <1>7 DEF Release, query
    <2>2. target'.group = target.group
      BY <2>1
    <2> QED BY <1>3, <2>1, <2>2 DEF ListInv
  <1>8. CASE ConfirmAdd \/ ConfirmEdit \/ PickParent \/ MenuDelete
    BY <1>2, <1>8 DEF ConfirmAdd, ConfirmEdit, PickParent, MenuDelete
  <1> QED BY <1>4, <1>5, <1>6, <1>7, <1>8 DEF Dialogs

LEMMA HandlersKeep == ListInv /\ Handlers => ListInv'
  <1> SUFFICES ASSUME ListInv, Handlers
               PROVE  ListInv'
    OBVIOUS
  <1>1. CASE ServeRow \/ ServeGroup \/ CallFails \/ CallArrives
    BY <1>1, RowsKeep DEF ServeRow, ServeGroup, CallFails, CallArrives, query
  <1>2. CASE GroupsArrive
    <2>1. groups' \in GroupLists /\ filter' \in {0, filter} /\ UNCHANGED <<list, target>>
      BY <1>2 DEF GroupsArrive
    <2> QED BY <2>1 DEF ListInv
  <1> QED BY <1>1, <1>2 DEF Handlers

----------------------------------------------------------------------------
\* What the invariant says of the page.
LEMMA ListInvFaithful == ListInv => GroupsFaithful
  <1> SUFFICES ASSUME ListInv
               PROVE  GroupsFaithful
    OBVIOUS
  <1>1. DOMAIN groups \subseteq GroupIds
    BY DEF ListInv, GroupLists
  <1>2. ASSUME NEW g \in DOMAIN groups, NEW p \in MoveOptions(groups, g)
        PROVE  p # g /\ (p # 0 => g \notin Above(groups, p))
    <2>1. CASE p = 0
      BY <1>1, <2>1, GroupIdsAssumption
    <2>2. CASE p # 0
      BY <2>2, SkippedBelow DEF MoveOptions
    <2> QED BY <2>1, <2>2
  <1> QED BY <1>2, RenderedIs DEF GroupsFaithful

LEMMA ListInvStep == ListInv /\ [ListNext]_listVars => ListInv'
  <1>1. ListInv /\ ListNext => ListInv'
    BY TurnsKeep, SearchesKeep, ClicksKeep, DialogsKeep, HandlersKeep DEF ListNext
  <1>2. ListInv /\ UNCHANGED listVars => ListInv'
    BY RowsKeep DEF listVars, query
  <1> QED BY <1>1, <1>2

(* Whatever groups the server answers with, a parent that is gone and a      *)
(* cycle of parents included, and in whatever order user, handlers and       *)
(* answers come: ClientList draws every group but those on a cycle or below   *)
(* one, and offers none a parent that is the group itself or below it.       *)
THEOREM ListGroupsFaithful == ListSpec => []GroupsFaithful
  BY ListInvInit, ListInvStep, ListInvFaithful, PTL DEF ListSpec

----------------------------------------------------------------------------
(* Types of the lists.  PageTyped is what the page shows and asks for,      *)
(* ServerTyped what the server has, RestTyped the dialogs and the calls.     *)
Filters == {-1, 0, 1, 2} \cup GroupIds
PageNos == 0..Cardinality(EntryIds)
Words == {"", "x"}

PageTyped ==
    /\ filter \in Filters /\ pageNo \in PageNos /\ search \in Words
    /\ data = NoData \/ data.query \in Queries
    /\ data.rows \subseteq EntryIds /\ data.total \in PageNos
    /\ fetches \in Seq(Queries)
    /\ {loading, muddled} \subseteq BOOLEAN

ServerTyped ==
    /\ DOMAIN entries \subseteq EntryIds /\ \A e \in DOMAIN entries : entries[e] \in Classes

CallTyped(c) ==
    /\ DOMAIN c = {"op", "id", "to", "stage", "query"}
    /\ c.op \in GroupOps \cup RowOps \cup {"getGroups"}
    /\ c.stage \in {"sent", "served"} /\ c.query \in Queries
    /\ c.op \in GroupOps => list = "clients"
    /\ c.op = "moveClient" => c.to \in GroupIds \cup {0}

RestTyped ==
    /\ list \in Lists \cap {"clients", "tunnels", "hosts"} /\ acts \in 0..MaxActs[list]
    /\ groups \in GroupLists
    /\ target.mode \in Modes /\ (target.mode # "closed" => list = "clients")
    /\ \A c \in calls : CallTyped(c)

ListTyped == PageTyped /\ ServerTyped /\ RestTyped

LEMMA EntriesFinite == Cardinality(EntryIds) \in Nat /\ IsFiniteSet(EntryIds)
  BY ListAssumption, FS_CardinalityType

LEMMA QueryTyped ==
    ASSUME NEW f \in Filters, NEW p \in PageNos, NEW w \in Words
    PROVE  Query(f, p, w) \in Queries
  BY DEF Query, Queries, Filters, PageNos, Words

\* The requests that go out are requests, and so are those under way.
LEMMA FetchTyped ==
    ASSUME PageTyped, NEW qs \in Seq(Queries), Fetch(qs),
           filter' \in Filters, pageNo' \in PageNos, search' \in Words
    PROVE  PageTyped'
  <1>1. fetches \o qs \in Seq(Queries)
    BY ConcatProperties DEF PageTyped
  <1>2. {loading', muddled'} \subseteq BOOLEAN
    BY DEF PageTyped, Fetch
  <1> QED BY <1>1, <1>2 DEF PageTyped, Fetch

LEMMA EffectTyped ==
    ASSUME PageTyped, NEW f \in Filters, NEW p \in PageNos
    PROVE  Effect(f, p) \in Seq(Queries)
  <1>1. Query(f, p, search) \in Queries
    BY QueryTyped DEF PageTyped
  <1> QED BY <1>1 DEF Effect

\* A request that is answered or fails is not under way any more.
LEMMA RemoveTyped ==
    ASSUME NEW S, NEW s \in Seq(S), NEW i \in DOMAIN s
    PROVE  RemoveAt(s, i) \in Seq(S) /\ Len(RemoveAt(s, i)) = Len(s) - 1
  <1>1. Len(s) \in Nat /\ i \in 1..Len(s) /\ \A j \in 1..Len(s) : s[j] \in S
    OBVIOUS
  <1>2. SubSeq(s, 1, i-1) \in Seq(S) /\ Len(SubSeq(s, 1, i-1)) = i - 1
    <2>1. 1 \in Int /\ i - 1 \in Int /\ \A j \in 1..(i-1) : s[j] \in S
      BY <1>1
    <2> QED BY <1>1, <2>1, SubSeqProperties
  <1>3. SubSeq(s, i+1, Len(s)) \in Seq(S) /\ Len(SubSeq(s, i+1, Len(s))) = Len(s) - i
    <2>1. i + 1 \in Int /\ Len(s) \in Int /\ \A j \in (i+1)..Len(s) : s[j] \in S
      BY <1>1
    <2> QED BY <1>1, <2>1, SubSeqProperties
  <1> DEFINE u == SubSeq(s, 1, i-1)
             w == SubSeq(s, i+1, Len(s))
  <1>4. RemoveAt(s, i) = u \o w
    BY DEF RemoveAt
  <1>5. u \in Seq(S) /\ w \in Seq(S) /\ Len(u) = i - 1 /\ Len(w) = Len(s) - i
    BY <1>2, <1>3
  <1> HIDE DEF u, w
  <1>6. u \o w \in Seq(S) /\ Len(u \o w) = Len(u) + Len(w)
    BY <1>5, ConcatProperties
  <1> QED BY <1>1, <1>4, <1>5, <1>6

LEMMA AnswerTyped ==
    ASSUME ServerTyped, NEW q
    PROVE  RowsOf(q) \subseteq EntryIds /\ Cardinality(Found(q)) \in PageNos
  <1>1. Found(q) \subseteq EntryIds
    BY DEF Found, ServerTyped
  <1>2. /\ IsFiniteSet(Found(q)) /\ Cardinality(Found(q)) \in Nat
        /\ Cardinality(Found(q)) <= Cardinality(EntryIds)
    BY <1>1, EntriesFinite, FS_Subset, FS_CardinalityType
  <1> QED BY <1>1, <1>2, EntriesFinite DEF RowsOf, PageNos

\* A page that the pager leads to is not beyond the last entry.
LEMMA PagerTyped ==
    ASSUME PageTyped, pageNo < TotalPages - 1
    PROVE  pageNo + 1 \in PageNos
  <1> DEFINE T == data.total
             n == TotalPages
  <1>1. T \in Nat /\ T <= Cardinality(EntryIds) /\ PageSize \in Nat \ {0} /\ pageNo \in Nat
    BY EntriesFinite, ListAssumption DEF PageTyped, PageNos
  <1>2. n \in Int /\ PageSize * n <= T + PageSize - 1
    BY <1>1 DEF TotalPages
  <1>3. n - 1 <= T
    <2> SUFFICES ASSUME n > T + 1 PROVE FALSE
      BY <1>1, <1>2
    <2>1. PageSize * n >= PageSize * (T + 2)
      BY <1>1, <1>2
    <2>2. PageSize * (T + 2) = PageSize * T + 2 * PageSize
      BY <1>1
    <2>3. PageSize * T >= T
      BY <1>1
    <2> QED BY <1>1, <1>2, <2>1, <2>2, <2>3
  <1> HIDE DEF T, n
  <1>4. pageNo + 1 <= Cardinality(EntryIds)
    BY <1>1, <1>2, <1>3, EntriesFinite DEF n
  <1> QED BY <1>1, <1>4, EntriesFinite DEF PageNos

\* What the operations make of the entries.
LEMMA EntriesTyped ==
    ASSUME ServerTyped, NEW op, NEW id, NEW to, entries' \in {entries, EntriesAfter(op, id, to)},
           op \in {"delGroup", "moveClient"} => list = "clients",
           op = "moveClient" => to \in GroupIds \cup {0}, list' = list
    PROVE  ServerTyped'
  <1>1. Classes \subseteq Classes'
    BY DEF Classes
  <1>2. list = "clients" => {0} \cup GroupIds \subseteq Classes
    BY DEF Classes
  <1>3. CASE entries' = entries
    BY <1>1, <1>3 DEF ServerTyped
  <1>4. CASE entries' = EntriesAfter(op, id, to)
    <2>1. CASE op = "del"
      BY <1>1, <1>4, <2>1 DEF ServerTyped, EntriesAfter
    <2>2. CASE op = "moveClient" /\ id \in DOMAIN entries
      <3>1. DOMAIN entries' = DOMAIN entries /\ \A e \in DOMAIN entries : entries'[e] \in {entries[e], to}
        BY <1>4, <2>2 DEF EntriesAfter
      <3> QED BY <1>1, <1>2, <2>2, <3>1 DEF ServerTyped
    <2>3. CASE op = "delGroup"
      <3>1. DOMAIN entries' = DOMAIN entries /\ \A e \in DOMAIN entries : entries'[e] \in {entries[e], 0}
        BY <1>4, <2>3 DEF EntriesAfter
      <3> QED BY <1>1, <1>2, <2>3, <3>1 DEF ServerTyped
    <2>4. CASE op \notin {"del", "delGroup"} /\ ~(op = "moveClient" /\ id \in DOMAIN entries)
      BY <1>1, <1>4, <2>4 DEF ServerTyped, EntriesAfter
    <2> QED BY <2>1, <2>2, <2>3, <2>4
  <1> QED BY <1>3, <1>4

\* Steps that leave a part alone.
LEMMA PageTypedKept == PageTyped /\ UNCHANGED <<query, rows>> => PageTyped'
  BY DEF PageTyped, query, rows

LEMMA ServerTypedKept == ServerTyped /\ UNCHANGED <<list, entries>> => ServerTyped'
  BY DEF ServerTyped, Classes

LEMMA RestTypedKept ==
    ASSUME RestTyped, UNCHANGED <<list, groups, target>>, calls' \subseteq calls,
           acts' \in 0..MaxActs[list]
    PROVE  RestTyped'
  BY DEF RestTyped, CallTyped, RowOps

LEMMA ActsTyped == RestTyped /\ (Acts \/ UNCHANGED acts) => acts' \in 0..MaxActs[list]
  BY ListAssumption DEF RestTyped, Acts

\* The dialog or menu that is open.
LEMMA OpensTyped ==
    ASSUME ListTyped, NEW mode \in Modes, NEW g, Opens(mode, g), Acts \/ UNCHANGED acts, mode # "closed" => list = "clients"
    PROVE  ListTyped'
  <1>1. PageTyped' /\ ServerTyped'
    BY PageTypedKept, ServerTypedKept DEF ListTyped, Opens
  <1>2. acts' \in 0..MaxActs[list]
    BY ActsTyped DEF ListTyped
  <1>3. UNCHANGED <<list, groups, calls>> /\ target'.mode = mode
    BY DEF Opens
  <1>4. RestTyped'
    BY <1>2, <1>3 DEF ListTyped, RestTyped, CallTyped, RowOps
  <1> QED BY <1>1, <1>4 DEF ListTyped

\* A call that the page makes.
LEMMA StartTyped ==
    ASSUME ListTyped, NEW op \in GroupOps \cup RowOps, NEW id, NEW to, Start(op, id, to),
           op \in GroupOps => list = "clients", op = "moveClient" => to \in GroupIds \cup {0},
           target' \in {target, Closed}, Acts \/ UNCHANGED acts
    PROVE  ListTyped'
  <1> DEFINE c == [op |-> op, id |-> id, to |-> to, stage |-> "sent", query |-> Current]
  <1>1. calls' = calls \cup {c} /\ UNCHANGED <<list, groups>>
    BY DEF Start
  <1>2. PageTyped' /\ ServerTyped'
    BY PageTypedKept, ServerTypedKept DEF ListTyped, Start
  <1>3. acts' \in 0..MaxActs[list]
    BY ActsTyped DEF ListTyped
  <1>4. Current \in Queries
    BY QueryTyped DEF Current, ListTyped, PageTyped
  <1>5. CallTyped(c)
    BY <1>4 DEF CallTyped
  <1>6. \A d \in calls' : CallTyped(d)'
    BY <1>1, <1>5 DEF ListTyped, RestTyped, CallTyped, RowOps
  <1>7. target'.mode \in Modes /\ (target'.mode # "closed" => list = "clients")
    BY DEF ListTyped, RestTyped, Closed, Modes
  <1>8. RestTyped'
    BY <1>1, <1>3, <1>6, <1>7 DEF ListTyped, RestTyped
  <1> QED BY <1>2, <1>8 DEF ListTyped

\* A call that comes a stage further.
LEMMA BecomesTyped ==
    ASSUME RestTyped, NEW c \in calls, Becomes(c, "served"), UNCHANGED <<list, groups, target, acts>>
    PROVE  RestTyped'
  <1> DEFINE e == [c EXCEPT !.stage = "served"]
  <1>1. CallTyped(c)
    BY DEF RestTyped
  <1>2. /\ DOMAIN e = DOMAIN c /\ e.stage = "served"
        /\ e.op = c.op /\ e.to = c.to /\ e.query = c.query
    BY <1>1 DEF CallTyped
  <1>3. calls' = (calls \ {c}) \cup {e}
    BY DEF Becomes
  <1> HIDE DEF e
  <1>4. CallTyped(e)'
    BY <1>1, <1>2 DEF CallTyped, RowOps
  <1>5. \A d \in calls' : CallTyped(d)'
    BY <1>3, <1>4 DEF RestTyped, CallTyped, RowOps
  <1> QED BY <1>5 DEF RestTyped

----------------------------------------------------------------------------
(* The rows: unless muddled, either nothing is under way and the rows are   *)
(* those of what the list shows, or the request for them is.                 *)
RowsFollow ==
    ~muddled => \/ fetches = <<>> /\ data.query = Query(filter, pageNo, sought) /\ ~loading
                \/ fetches = <<Query(filter, pageNo, sought)>>

LEMMA FetchFollows ==
    ASSUME PageTyped, RowsFollow, NEW qs \in Seq(Queries), Fetch(qs),
           qs = <<>> => UNCHANGED <<filter, pageNo>>
    PROVE  RowsFollow'
  <1>1. fetches \in Seq(Queries) /\ fetches' = fetches \o qs
    BY DEF PageTyped, Fetch
  <1>2. CASE qs = <<>>
    <2>1. UNCHANGED <<filter, pageNo, loading, sought, muddled, data>>
      BY <1>2 DEF Fetch, PageTyped
    <2>2. fetches' = fetches
      BY <1>1, <1>2, ConcatEmptySeq
    <2> QED BY <2>1, <2>2 DEF RowsFollow
  <1>3. CASE qs # <<>>
    <2>1. SUFFICES ASSUME ~muddled'
                   PROVE  fetches' = <<Query(filter', pageNo', sought')>>
      BY DEF RowsFollow
    <2>2. qs = <<Query(filter', pageNo', search')>> /\ sought' = search' /\ ~(Len(fetches \o qs) > 1)
      BY <1>3, <2>1 DEF Fetch
    <2>3. Len(fetches \o qs) = Len(fetches) + Len(qs) /\ Len(qs) = 1 /\ Len(fetches) \in Nat
      BY <1>1, <2>2, ConcatProperties
    <2>4. fetches = <<>>
      BY <1>1, <2>2, <2>3, EmptySeq
    <2>5. fetches' = qs
      BY <1>1, <2>4, ConcatEmptySeq
    <2> QED BY <2>2, <2>5
  <1> QED BY <1>2, <1>3

ListRows == ListTyped /\ RowsFollow

LEMMA MovesFollow ==
    ASSUME ListRows, NEW f \in Filters, NEW p \in PageNos, NEW qs \in Seq(Queries),
           qs = <<>> => <<f, p>> = <<filter, pageNo>>, Moves(f, p, qs)
    PROVE  ListRows'
  <1> USE DEF ListRows, ListTyped, Moves
  <1>1. search' \in Words
    BY DEF PageTyped
  <1>2. PageTyped' /\ RowsFollow'
    BY <1>1, FetchTyped, FetchFollows
  <1>3. ServerTyped'
    BY ServerTypedKept
  <1>4. RestTyped'
    BY ActsTyped, RestTypedKept
  <1> QED BY <1>2, <1>3, <1>4

\* What effects and searches ask for.
LEMMA EffectFollows ==
    ASSUME PageTyped, NEW f \in Filters, NEW p \in PageNos
    PROVE  Effect(f, p) \in Seq(Queries) /\ (Effect(f, p) = <<>> => <<f, p>> = <<filter, pageNo>>)
  <1>1. Effect(f, p) \in Seq(Queries)
    BY EffectTyped
  <1>2. ASSUME <<f, p>> # <<filter, pageNo>> PROVE Effect(f, p) # <<>>
    BY <1>2 DEF Effect
  <1> QED BY <1>1, <1>2

LEMMA AskFollows ==
    ASSUME NEW q \in Queries, NEW qs \in Seq(Queries)
    PROVE  <<q>> \o qs \in Seq(Queries) /\ <<q>> \o qs # <<>>
  <1>1. <<q>> \in Seq(Queries) /\ Len(<<q>>) = 1
    OBVIOUS
  <1>2. <<q>> \o qs \in Seq(Queries) /\ Len(<<q>> \o qs) = 1 + Len(qs)
    BY <1>1, ConcatProperties
  <1>3. Len(<<q>> \o qs) # 0
    BY <1>2, LenProperties
  <1> QED BY <1>2, <1>3

LEMMA FirstPage == 0 \in PageNos
  BY EntriesFinite DEF PageNos

LEMMA TurnsFollow == ListRows /\ ListInv /\ Turns => ListRows'
  <1> SUFFICES ASSUME ListRows, ListInv, Turns
               PROVE  ListRows'
    OBVIOUS
  <1>1. PageTyped /\ filter \in Filters /\ pageNo \in PageNos /\ pageNo \in Nat
    BY EntriesFinite DEF ListRows, ListTyped, PageTyped, PageNos
  <1>2. CASE TurnPage
    <2>1. PICK p \in {pageNo - 1, pageNo + 1} :
             (p > pageNo => pageNo < TotalPages - 1) /\ p >= 0 /\ Moves(filter, p, Effect(filter, p))
      BY <1>2 DEF TurnPage
    <2>2. p \in PageNos
      <3>1. CASE p = pageNo + 1
        BY <1>1, <2>1, <3>1, PagerTyped
      <3>2. CASE p = pageNo - 1
        BY <1>1, <2>1, <3>2, EntriesFinite DEF PageNos
      <3> QED BY <3>1, <3>2
    <2> QED BY <1>1, <2>1, <2>2, EffectFollows, MovesFollow
  <1>3. CASE SelectGroup
    <2>1. PICK f \in {0, -1} \cup Rendered(groups) : Moves(f, 0, Effect(f, 0))
      BY <1>3 DEF SelectGroup
    <2>2. f \in Filters
      BY OffersListed DEF ListInv, Filters
    <2> QED BY <1>1, <2>1, <2>2, FirstPage, EffectFollows, MovesFollow
  <1>4. CASE SwitchType
    <2>1. PICK f \in {1, 2} : Moves(f, pageNo, Effect(f, pageNo))
      BY <1>4 DEF SwitchType
    <2>2. f \in Filters
      BY DEF Filters
    <2> QED BY <1>1, <2>1, <2>2, EffectFollows, MovesFollow
  <1>5. CASE ShowAllHosts
    <2>1. 0 \in Filters
      BY DEF Filters
    <2> QED BY <1>1, <1>5, <2>1, EffectFollows, MovesFollow DEF ShowAllHosts
  <1> QED BY <1>2, <1>3, <1>4, <1>5 DEF Turns

LEMMA SearchesFollow == ListRows /\ Searches => ListRows'
  <1> SUFFICES ASSUME ListRows, Searches
               PROVE  ListRows'
    OBVIOUS
  <1>1. PageTyped /\ filter \in Filters /\ pageNo \in PageNos /\ search \in Words
    BY DEF ListRows, ListTyped, PageTyped
  <1>2. CASE TypeWord
    <2>1. search' \in Words /\ UNCHANGED <<filter, pageNo, rows>>
      BY <1>2 DEF TypeWord, Words
    <2>2. PageTyped' /\ RowsFollow'
      BY <2>1 DEF ListRows, ListTyped, PageTyped, RowsFollow, rows
    <2>3. ServerTyped' /\ RestTyped'
      BY <1>2, ServerTypedKept, ActsTyped, RestTypedKept DEF TypeWord, ListRows, ListTyped
    <2> QED BY <2>2, <2>3 DEF ListRows, ListTyped
  <1>3. CASE SearchClients \/ SearchHosts \/ SearchTunnels
    <2>1. PICK q \in Queries : Moves(filter, 0, <<q>> \o Effect(filter, 0))
      BY <1>1, <1>3, FirstPage, QueryTyped DEF SearchClients, SearchHosts, SearchTunnels, Current
    <2> QED BY <1>1, <2>1, FirstPage, EffectFollows, AskFollows, MovesFollow
  <1> QED BY <1>2, <1>3 DEF Searches

LEMMA AnswersFollow == ListRows /\ (ListArrives \/ ListFails) => ListRows'
  <1> SUFFICES ASSUME ListRows, ListArrives \/ ListFails
               PROVE  ListRows'
    OBVIOUS
  <1>1. PICK i \in DOMAIN fetches :
           /\ fetches' = RemoveAt(fetches, i) /\ loading' = FALSE
           /\ UNCHANGED <<list, query, sought, calls, groups, target, entries, acts>>
           /\ \/ data' = Answered(fetches[i]) /\ muddled' = muddled
              \/ data' = data /\ muddled' = TRUE
    BY DEF ListArrives, ListFails
  <1>2. fetches \in Seq(Queries)
    BY DEF ListRows, ListTyped, PageTyped
  <1>3. fetches' \in Seq(Queries) /\ Len(fetches') = Len(fetches) - 1
    BY <1>1, <1>2, RemoveTyped
  <1>4. fetches[i] \in Queries
    BY <1>2
  <1>5. PageTyped'
    <2>1. data' = NoData \/ data'.query \in Queries
      BY <1>1, <1>4 DEF Answered, ListRows, ListTyped, PageTyped
    <2>2. data'.rows \subseteq EntryIds /\ data'.total \in PageNos
      BY <1>1, AnswerTyped DEF Answered, ListRows, ListTyped, PageTyped
    <2>3. {loading', muddled'} \subseteq BOOLEAN
      BY <1>1 DEF ListRows, ListTyped, PageTyped
    <2> QED BY <1>1, <1>3, <2>1, <2>2, <2>3 DEF ListRows, ListTyped, PageTyped, query
  <1>6. RowsFollow'
    <2> SUFFICES ASSUME ~muddled'
                 PROVE  fetches' = <<>> /\ data'.query = Query(filter', pageNo', sought') /\ ~loading'
      BY DEF RowsFollow
    <2>1. ~muddled /\ data' = Answered(fetches[i])
      BY <1>1
    <2>2. fetches # <<>>
      BY <1>1
    <2>3. fetches = <<Query(filter, pageNo, sought)>>
      BY <2>1, <2>2 DEF ListRows, RowsFollow
    <2>4. fetches[i] = Query(filter, pageNo, sought) /\ Len(fetches) = 1
      BY <1>1, <2>3
    <2>5. fetches' = <<>>
      BY <1>3, <2>4, EmptySeq
    <2> QED BY <1>1, <2>1, <2>4, <2>5 DEF Answered, query
  <1>7. ServerTyped' /\ RestTyped'
    BY <1>1, ServerTypedKept, ActsTyped, RestTypedKept DEF ListRows, ListTyped
  <1> QED BY <1>5, <1>6, <1>7 DEF ListRows, ListTyped

\* Steps that leave the rows alone.
LEMMA RowsFollowKept == RowsFollow /\ UNCHANGED <<query, rows>> => RowsFollow'
  BY DEF RowsFollow, query, rows

LEMMA ClicksFollow == ListRows /\ ListInv /\ ClickRow => ListRows'
  <1> SUFFICES ASSUME ListRows, ListInv, ClickRow
               PROVE  ListRows'
    OBVIOUS
  <1>1. PICK op \in RowOps, id \in data.rows :
           \E to \in IF op = "moveClient" THEN ClientOptions(groups) ELSE {0} : Start(op, id, to)
    BY DEF ClickRow
  <1>2. PICK to \in IF op = "moveClient" THEN ClientOptions(groups) ELSE {0} : Start(op, id, to)
    BY <1>1
  <1>3. op = "moveClient" => to \in GroupIds \cup {0}
    BY <1>2, OffersListed DEF ListInv
  <1>4. op \notin GroupOps /\ target' = target /\ Acts
    BY DEF RowOps, GroupOps, ClickRow
  <1>5. ListTyped'
    BY <1>2, <1>3, <1>4, StartTyped DEF ListRows
  <1>6. RowsFollow'
    BY <1>2, RowsFollowKept DEF ListRows, Start
  <1> QED BY <1>5, <1>6 DEF ListRows

LEMMA DialogsFollow == ListRows /\ ListInv /\ Dialogs => ListRows'
  <1> SUFFICES ASSUME ListRows, ListInv, Dialogs
               PROVE  ListRows'
    OBVIOUS
  <1> USE DEF ListRows
  <1>1. target.mode # "closed" => list = "clients"
    BY DEF ListTyped, RestTyped
  <1>2. CASE \E mode \in Modes : \E g : /\ Opens(mode, g) /\ (Acts \/ UNCHANGED acts)
                                        /\ mode # "closed" => list = "clients"
    <2>1. PICK mode, g : /\ mode \in Modes /\ Opens(mode, g) /\ (Acts \/ UNCHANGED acts)
                         /\ mode # "closed" => list = "clients"
      BY <1>2
    <2>2. RowsFollow'
      BY <2>1, RowsFollowKept DEF Opens
    <2> QED BY <2>1, <2>2, OpensTyped
  <1>3. CASE \E op \in GroupOps : \E id, to : Start(op, id, to) /\ list = "clients" /\ target' = Closed /\ UNCHANGED acts
    <2>1. PICK op, id, to : op \in GroupOps /\ Start(op, id, to) /\ list = "clients" /\ target' = Closed /\ UNCHANGED acts
      BY <1>3
    <2>2. RowsFollow'
      BY <2>1, RowsFollowKept DEF Start
    <2>3. op # "moveClient"
      BY <2>1 DEF GroupOps
    <2> QED BY <2>1, <2>2, <2>3, StartTyped
  <1>4. CASE OpenMenu \/ LongPress \/ AddButton \/ MenuAdd \/ MenuMove \/ MenuEdit \/ CloseDialog
    <2>1. {"closed", "menu", "add", "held", "move", "edit"} \subseteq Modes
      BY DEF Modes
    <2> QED BY <1>1, <1>2, <1>4, <2>1
            DEF OpenMenu, LongPress, AddButton, MenuAdd, MenuMove, MenuEdit, CloseDialog
  <1>5. CASE ConfirmAdd \/ ConfirmEdit \/ PickParent \/ MenuDelete
    <2>1. \E op \in GroupOps : \E id, to : Start(op, id, to)
      BY <1>5 DEF ConfirmAdd, ConfirmEdit, PickParent, MenuDelete, GroupOps
    <2>2. list = "clients" /\ target' = Closed /\ UNCHANGED acts
      BY <1>1, <1>5 DEF ConfirmAdd, ConfirmEdit, PickParent, MenuDelete
    <2> QED BY <1>3, <2>1, <2>2
  <1>6. CASE Release
    <2>1. /\ target.mode = "held" /\ target' = [target EXCEPT !.mode = "move"]
          /\ UNCHANGED <<list, calls, groups, entries, acts>>
      BY <1>6 DEF Release
    <2>2. target'.mode = "move"
      BY <2>1 DEF ListTyped, RestTyped, Modes
    <2>3. ServerTyped' /\ RestTyped'
      <3>1. RestTyped'
        BY <1>1, <2>1, <2>2, ActsTyped DEF ListTyped, RestTyped, CallTyped, RowOps, Modes
      <3> QED BY <2>1, <3>1, ServerTypedKept DEF ListTyped
    <2>4. CASE UNCHANGED <<query, rows>>
      BY <2>3, <2>4, PageTypedKept, RowsFollowKept DEF ListTyped
    <2>5. CASE /\ target.group \in Rendered(groups) /\ filter' = target.group /\ pageNo' = 0 /\ UNCHANGED search
               /\ Fetch(Effect(target.group, 0))
      <3>1. target.group \in Filters /\ PageTyped /\ search \in Words
        BY OffersListed, <2>5 DEF ListInv, Filters, ListTyped, PageTyped
      <3>2. /\ Effect(target.group, 0) \in Seq(Queries)
            /\ Effect(target.group, 0) = <<>> => UNCHANGED <<filter, pageNo>>
        BY <2>5, <3>1, FirstPage, EffectFollows
      <3>3. PageTyped' /\ RowsFollow'
        BY <2>5, <3>1, <3>2, FirstPage, FetchTyped, FetchFollows
      <3> QED BY <2>3, <3>3 DEF ListTyped
    <2> QED BY <1>6, <2>4, <2>5 DEF Release
  <1> QED BY <1>4, <1>5, <1>6 DEF Dialogs

LEMMA HandlersFollow == ListRows /\ ListInv /\ Handlers => ListRows'
  <1> SUFFICES ASSUME ListRows, ListInv, Handlers
               PROVE  ListRows'
    OBVIOUS
  <1> USE DEF ListRows, ListTyped
  <1>1. \A c \in calls : CallTyped(c)
    BY DEF RestTyped
  <1>2. CASE ServeRow
    <2>1. PICK c \in calls : /\ c.op \notin GroupOps /\ Becomes(c, "served")
                             /\ entries' \in {entries, EntriesAfter(c.op, c.id, c.to)}
                             /\ UNCHANGED <<list, query, rows, groups, target, acts>>
      BY <1>2 DEF ServeRow
    <2>2. /\ c.op # "delGroup"
          /\ c.op = "moveClient" => list = "clients" /\ c.to \in GroupIds \cup {0}
      BY <1>1, <2>1 DEF CallTyped, GroupOps, RowOps
    <2>3. ServerTyped'
      <3>1. c.op \in {"delGroup", "moveClient"} => list = "clients"
        BY <2>2
      <3>2. c.op = "moveClient" => c.to \in GroupIds \cup {0}
        BY <2>2
      <3>3. list' = list
        BY <2>1
      <3> QED BY <2>1, <3>1, <3>2, <3>3, EntriesTyped
    <2>4. RestTyped'
      BY <2>1, BecomesTyped
    <2> QED BY <2>1, <2>3, <2>4, PageTypedKept, RowsFollowKept
  <1>3. CASE ServeGroup
    <2>1. PICK c \in calls : /\ c.op \in GroupOps /\ Becomes(c, "served")
                             /\ entries' = EntriesAfter(c.op, c.id, c.to)
                             /\ UNCHANGED <<list, query, rows, groups, target, acts>>
      BY <1>3 DEF ServeGroup
    <2>2. list = "clients" /\ c.op # "moveClient"
      BY <1>1, <2>1 DEF CallTyped, GroupOps
    <2>3. ServerTyped'
      BY <2>1, <2>2, EntriesTyped
    <2>4. RestTyped'
      BY <2>1, BecomesTyped
    <2> QED BY <2>1, <2>3, <2>4, PageTypedKept, RowsFollowKept
  <1>4. CASE CallFails
    <2>1. calls' \subseteq calls /\ UNCHANGED <<list, query, rows, groups, target, entries, acts>>
      BY <1>4 DEF CallFails
    <2>2. RestTyped'
      BY <2>1, ActsTyped, RestTypedKept
    <2> QED BY <2>1, <2>2, PageTypedKept, ServerTypedKept, RowsFollowKept
  <1>5. CASE GroupsArrive
    <2>1. PICK c, f, asks, more :
             /\ c \in calls /\ f \in {0, filter} /\ asks \in {<<>>, <<c.query>>} /\ more = Effect(f, pageNo)
             /\ filter' = f /\ groups' \in GroupLists /\ calls' = calls \ {c} /\ Fetch(asks \o more)
             /\ UNCHANGED <<list, pageNo, search, target, entries, acts>>
      BY <1>5 DEF GroupsArrive
    <2>2. f \in Filters /\ pageNo \in PageNos /\ search \in Words /\ c.query \in Queries
      BY <1>1, <2>1 DEF PageTyped, CallTyped, Filters
    <2>3. more \in Seq(Queries) /\ (more = <<>> => <<f, pageNo>> = <<filter, pageNo>>)
      BY <2>1, <2>2, EffectFollows
    <2>4. asks \o more \in Seq(Queries) /\ (asks \o more = <<>> => more = <<>>)
      <3>1. CASE asks = <<>>
        BY <2>3, <3>1, ConcatEmptySeq
      <3>2. CASE asks = <<c.query>>
        BY <2>2, <2>3, <3>2, AskFollows
      <3> QED BY <2>1, <3>1, <3>2
    <2> DEFINE qs == asks \o more
    <2>5. qs \in Seq(Queries) /\ Fetch(qs) /\ (qs = <<>> => UNCHANGED <<filter, pageNo>>)
      BY <2>1, <2>3, <2>4
    <2> HIDE DEF qs
    <2>6. filter' \in Filters /\ pageNo' \in PageNos /\ search' \in Words
      BY <2>1, <2>2
    <2>7. PageTyped'
      BY <2>5, <2>6, FetchTyped
    <2>8. RowsFollow'
      BY <2>5, FetchFollows
    <2>9. ServerTyped'
      BY <2>1, ServerTypedKept
    <2>10. RestTyped'
      BY <2>1, <2>2 DEF RestTyped, CallTyped, RowOps
    <2> QED BY <2>7, <2>8, <2>9, <2>10
  <1>6. CASE CallArrives
    <2>1. PICK c \in calls : Fetch(<<c.query>>) /\ calls' = calls \ {c}
                             /\ UNCHANGED <<query, list, groups, target, entries, acts>>
      BY <1>6 DEF CallArrives
    <2>2. <<c.query>> \in Seq(Queries) /\ <<c.query>> # <<>>
      BY <1>1 DEF CallTyped
    <2>3. PageTyped' /\ RowsFollow'
      BY <2>1, <2>2, FetchTyped, FetchFollows DEF query, PageTyped
    <2>4. ServerTyped' /\ RestTyped'
      BY <2>1, ServerTypedKept, ActsTyped, RestTypedKept
    <2> QED BY <2>3, <2>4
  <1> QED BY <1>2, <1>3, <1>4, <1>5, <1>6 DEF Handlers

LEMMA OthersFollow == ListRows /\ ListInv /\ OtherWrites => ListRows'
  <1> SUFFICES ASSUME ListRows, ListInv, OtherWrites
               PROVE  ListRows'
    OBVIOUS
  <1> USE DEF ListRows, ListTyped
  <1>1. Acts /\ UNCHANGED <<list, query, rows, calls, groups, target>>
    BY DEF OtherWrites
  <1>2. ServerTyped'
    <2>1. CASE \E e \in DOMAIN entries : entries' = EntriesAfter("del", e, 0)
      BY <1>1, <2>1, EntriesTyped
    <2>2. CASE list = "clients" /\ \E e \in DOMAIN entries, g \in GroupIds \cup {0} :
                  entries' \in {EntriesAfter("delGroup", g, 0), EntriesAfter("moveClient", e, g)}
      BY <1>1, <2>2, EntriesTyped
    <2> QED BY <2>1, <2>2 DEF OtherWrites
  <1>3. RestTyped'
    BY <1>1, <1>2, ActsTyped, RestTypedKept
  <1> QED BY <1>1, <1>2, <1>3, PageTypedKept, RowsFollowKept

----------------------------------------------------------------------------
LEMMA ListRowsInit == ListInit => ListRows
  <1> SUFFICES ASSUME ListInit
               PROVE  ListRows
    OBVIOUS
  <1>1. filter \in Filters /\ pageNo \in PageNos /\ search \in Words
    BY FirstPage DEF ListInit, Filters, Words
  <1>2. Current \in Queries
    BY <1>1, QueryTyped DEF Current
  <1>3. PageTyped
    <2>1. data = NoData /\ fetches = <<Current>> /\ loading = TRUE /\ muddled = FALSE
      BY DEF ListInit
    <2>2. data.rows \subseteq EntryIds /\ data.total \in PageNos
      BY <2>1, FirstPage DEF NoData
    <2>3. fetches \in Seq(Queries)
      BY <1>2, <2>1
    <2>4. {loading, muddled} \subseteq BOOLEAN
      BY <2>1
    <2> QED BY <1>1, <2>1, <2>2, <2>3, <2>4 DEF PageTyped
  <1>4. ServerTyped
    <2>1. /\ list \in Lists /\ entries \in Filed[list] /\ DOMAIN entries \subseteq EntryIds
          /\ \A e \in DOMAIN entries : entries[e] \in IF list = "clients" THEN {0} \cup GroupIds ELSE {1, 2}
      BY ListAssumption DEF ListInit
    <2> QED BY <2>1 DEF ServerTyped, Classes
  <1>5. RestTyped
    <2>1. list \in Lists \cap {"clients", "tunnels", "hosts"} /\ acts \in 0..MaxActs[list]
      <3>1. list \in Lists /\ list \in {"clients", "tunnels", "hosts"} /\ acts = 0
        BY DEF ListInit
      <3>2. MaxActs[list] \in Nat
        BY <3>1, ListAssumption
      <3> QED BY <3>1, <3>2
    <2>2. CallTyped(GetGroups)
      BY <1>2 DEF ListInit, CallTyped, GetGroups, GroupOps
    <2> QED BY <2>1, <2>2, EmptyTyped DEF ListInit, RestTyped, Closed, Modes
  <1>6. RowsFollow
    BY DEF ListInit, RowsFollow, Current
  <1> QED BY <1>3, <1>4, <1>5, <1>6 DEF ListRows, ListTyped

LEMMA ListRowsStep == ListRows /\ ListInv /\ [ListNext]_listVars => ListRows'
  <1>1. ListRows /\ ListInv /\ ListNext => ListRows'
    BY TurnsFollow, SearchesFollow, AnswersFollow, ClicksFollow, DialogsFollow, HandlersFollow, OthersFollow
       DEF ListNext
  <1>2. ListRows /\ UNCHANGED listVars => ListRows'
    BY PageTypedKept, ServerTypedKept, ActsTyped, RestTypedKept, RowsFollowKept
       DEF ListRows, ListTyped, listVars
  <1> QED BY <1>1, <1>2

\* What they say of the list.
LEMMA ListRowsTypeOK == ListRows /\ ListInv => ListTypeOK
  <1> SUFFICES ASSUME ListRows, ListInv
               PROVE  ListTypeOK
    OBVIOUS
  <1> USE DEF ListRows, ListTyped
  <1>1. Current \in Queries
    BY QueryTyped DEF Current, PageTyped
  <1>2. Range(fetches) \subseteq Queries
    BY DEF PageTyped, Range
  <1> QED BY <1>1, <1>2 DEF ListInv, ListTypeOK, PageTyped, ServerTyped, RestTyped, CallTyped, PageNos

LEMMA ListRowsAnswer == ListRows => RowsAnswerQuery
  <1> SUFFICES ASSUME ListRows, fetches = <<>>, ~muddled
               PROVE  data.query = Query(filter, pageNo, sought) /\ ~loading
    BY DEF RowsAnswerQuery
  <1>1. fetches # <<Query(filter, pageNo, sought)>>
    OBVIOUS
  <1> QED BY <1>1 DEF ListRows, RowsFollow

----------------------------------------------------------------------------
(* The frame of the panel (WebApp).                                          *)

\* The views anything in the panel leads to.
Drawn(v) == Renders(v) \/ v \in BlankTypes

AppTyped ==
    /\ panel \in {"none", "boot"} \/ Drawn(panel)
    /\ session \in {"none", "admin", "user"} /\ bell \in BOOLEAN /\ registerLink \in BOOLEAN
    /\ pending \subseteq [call : Calls, by : Callers, mine : BOOLEAN, stage : {"sent", "settled"}, out : Outcomes]
    /\ waiting \subseteq {"page", "submit", "bell"} /\ error \in Outcomes \cup {"invalid"} /\ turns \in 0..MaxTurns
    /\ bell => HasFrame(panel)

\* What a page waits for is a call of its own, which is under way.
Submitting == {"login", "register", "changePassword"}
OwnCall ==
    /\ "page" \in waiting => panel = "dashboard" /\ \E c \in pending : c.mine /\ c.by = panel
    /\ "submit" \in waiting => /\ panel \in {"login", "register", "user-center"}
                               /\ \E c \in pending : c.mine /\ c.by = panel /\ c.call \in Submitting
    /\ "bell" \in waiting => \E c \in pending : c.mine /\ c.by = "bell"

AppInv == AppTyped /\ OwnCall

LEMMA AppInvTypeOK == AppInv => AppTypeOK
  <1> SUFFICES ASSUME AppInv PROVE AppTypeOK
    OBVIOUS
  <1>1. waiting # {} => \E c \in pending : c.mine
    BY DEF AppInv, AppTyped, OwnCall
  <1>2. panel \in {"none", "boot"} \cup TunnelTypes \/ Renders(panel)
    BY DEF AppInv, AppTyped, Drawn, BlankTypes, TunnelTypes
  <1> QED BY <1>1, <1>2 DEF AppInv, AppTyped, AppTypeOK

LEMMA AppInvInit == AppInit \/ AppIdle => AppInv
  <1> SUFFICES ASSUME AppInit \/ AppIdle PROVE AppInv
    OBVIOUS
  <1>1. Call("getDashboard", "boot") \in [call : Calls, by : Callers, mine : BOOLEAN, stage : {"sent", "settled"}, out : Outcomes]
    BY DEF Call, Calls, UserCalls, Callers, Outcomes
  <1>2. turns \in 0..MaxTurns
    BY AppBoundsAssumption DEF AppInit, AppIdle
  <1>4. AppTyped
    BY <1>1, <1>2 DEF AppInit, AppIdle, AppTyped, Outcomes
  <1>3. OwnCall
    BY DEF AppInit, AppIdle, OwnCall
  <1> QED BY <1>3, <1>4 DEF AppInv

LEMMA OutcomesOK ==
    ASSUME NEW call, NEW auth \in BOOLEAN, NEW adm \in BOOLEAN
    PROVE  Outcome(call, auth, adm) \in Outcomes
  <1> DEFINE res == Answer(call, auth, adm)
  <1>1. res \in {Json(401, "notLoggedIn"), Json(401, "unauthorized"), Json(403, "forbidden"), Html, Empty, Json(200, NoText)}
    BY DEF Answer
  <1> HIDE DEF res
  <1>2. HandleResponse(res) \in Outcomes
    BY <1>1 DEF HandleResponse, Json, Html, Empty, Outcomes
  <1> QED BY <1>2 DEF Outcome, Outcomes, res

CallType == [call : Calls, by : Callers, mine : BOOLEAN, stage : {"sent", "settled"}, out : Outcomes]

LEMMA OnMountOK ==
    ASSUME NEW v
    PROVE  /\ OnMount(v) \subseteq CallType
           /\ v = "dashboard" => \E c \in OnMount(v) : c.mine /\ c.by = v
  <1>1. Call("getDashboard", "dashboard") \in CallType /\ Call("getPublicConfig", "login") \in CallType
    BY DEF Call, Calls, UserCalls, LoginCalls, Callers, Outcomes, CallType
  <1>2. Call("getDashboard", "dashboard").mine /\ Call("getDashboard", "dashboard").by = "dashboard"
    BY DEF Call
  <1>3. /\ v = "dashboard" => OnMount(v) = {Call("getDashboard", "dashboard")}
        /\ v = "login" => OnMount(v) = {Call("getPublicConfig", "login")}
        /\ v \notin {"dashboard", "login"} => OnMount(v) = {}
    BY DEF OnMount
  <1> QED BY <1>1, <1>2, <1>3

\* Views drawn by the same page.
LEMMA SamePage ==
    ASSUME NEW v, Drawn(v), NEW w, w \in {"none", "boot"} \/ Drawn(w), Page(v) = Page(w)
    PROVE  /\ HasFrame(v) = HasFrame(w)
           /\ v \in {"dashboard", "login", "register", "user-center"} => v = w
           /\ w \in {"dashboard", "login", "register", "user-center"} => v = w
  BY DEF Drawn, Renders, BlankTypes, Page, TunnelLists, HostLists, HasFrame

\* A change of the view keeps the calls of the page that stays.
LEMMA ShowKeeps ==
    ASSUME AppInv, NEW v, Drawn(v), NEW under \in SUBSET pending, Show(v, under),
           Page(v) = Page(panel) => \A c \in pending \ under : c.by \notin {panel, "bell"},
           session' \in {"none", "admin", "user"}, turns' \in 0..MaxTurns
    PROVE  AppInv'
  <1>1. CASE Page(v) = Page(panel)
    <2>1. panel' = v /\ pending' = under /\ UNCHANGED look
      BY <1>1 DEF Show
    <2>2. /\ HasFrame(v) = HasFrame(panel)
          /\ panel \in {"dashboard", "login", "register", "user-center"} => v = panel
      BY <1>1, SamePage DEF AppInv, AppTyped
    <2>3. AppTyped'
      BY <2>1, <2>2 DEF AppInv, AppTyped, look, HasFrame, Drawn, Renders
    <2>4. \A c \in pending : c.by \in {panel, "bell"} => c \in pending'
      BY <1>1, <2>1
    <2>5. OwnCall'
      BY <2>1, <2>2, <2>4 DEF AppInv, OwnCall, look
    <2> QED BY <2>3, <2>5 DEF AppInv
  <1>2. CASE Page(v) # Page(panel)
    <2>1. /\ panel' = v
          /\ pending' = {[c EXCEPT !.mine = FALSE] : c \in under} \cup OnMount(v)
          /\ waiting' = IF v = "dashboard" THEN {"page"} ELSE {}
          /\ error' = NoText /\ bell' = FALSE /\ registerLink' = FALSE
      BY <1>2 DEF Show
    <2>2. pending' \subseteq CallType
      <3>1. ASSUME NEW c \in CallType
            PROVE  [c EXCEPT !.mine = FALSE] \in CallType
        BY DEF CallType
      <3>2. \A c \in under : c \in CallType
        BY DEF AppInv, AppTyped, CallType
      <3> QED BY <2>1, <3>1, <3>2, OnMountOK
    <2>3. AppTyped'
      BY <2>1, <2>2 DEF AppInv, AppTyped, Drawn, Renders, Outcomes, CallType
    <2>4. OwnCall'
      BY <2>1, OnMountOK DEF OwnCall
    <2> QED BY <2>3, <2>4 DEF AppInv
  <1> QED BY <1>1, <1>2

LEMMA GoesKeeps ==
    ASSUME AppInv, NEW v, Drawn(v), Goes(v)
    PROVE  AppInv'
  <1>1. Show(v, pending) /\ session' \in {"none", "admin", "user"} /\ turns' \in 0..MaxTurns
    BY AppBoundsAssumption DEF Goes, Turn, AppInv, AppTyped
  <1> QED BY <1>1, ShowKeeps

LEMMA NavigatesKeeps ==
    ASSUME AppInv, Navigates
    PROVE  AppInv'
  <1>1. CASE NavigateSidebar
    <2>1. PICK v \in SidebarViews : Goes(v)
      BY <1>1 DEF NavigateSidebar
    <2> QED BY <2>1, GoesKeeps DEF SidebarViews, Drawn, Renders, TunnelLists, HostLists
  <1>2. CASE NavigateHeader
    <2>1. PICK v \in HeaderViews(panel) : Goes(v)
      BY <1>2 DEF NavigateHeader
    <2> QED BY <2>1, GoesKeeps DEF HeaderViews, FirstCrumb, Drawn, Renders
  <1>3. CASE NavigatePage
    <2>1. PICK v \in PageViews(panel) : Goes(v)
      BY <1>3 DEF NavigatePage
    <2>2. Drawn(v)
      BY <2>1 DEF PageViews, Drawn, Renders, TunnelLists, HostLists, TunnelTypes, BlankTypes
    <2> QED BY <2>1, <2>2, GoesKeeps
  <1>4. CASE OpenRegister
    BY <1>4, GoesKeeps DEF OpenRegister, Drawn, Renders
  <1>5. CASE BackToLogin
    BY <1>5, GoesKeeps DEF BackToLogin, Drawn, Renders
  <1>6. CASE Reload
    <2>1. Call("getDashboard", "boot") \in CallType
      BY DEF Call, Calls, UserCalls, Callers, Outcomes, CallType
    <2>2. turns' \in 0..MaxTurns
      BY <1>6, AppBoundsAssumption DEF Reload, Turn, AppInv, AppTyped
    <2>4. AppTyped'
      BY <1>6, <2>1, <2>2 DEF Reload, AppInv, AppTyped, Outcomes, CallType
    <2>3. OwnCall'
      BY <1>6 DEF Reload, OwnCall
    <2> QED BY <2>3, <2>4 DEF AppInv
  <1> QED BY <1>1, <1>2, <1>3, <1>4, <1>5, <1>6 DEF Navigates

LEMMA AsksKeeps ==
    ASSUME AppInv, NEW v \in {"login", "register", "user-center"}, NEW call \in Submitting, Asks(v, call)
    PROVE  AppInv'
  <1>1. Call(call, v) \in CallType
    BY DEF Submitting, Call, Calls, UserCalls, LoginCalls, Callers, Outcomes, CallType
  <1>2. AppTyped'
    BY <1>1, AppBoundsAssumption DEF Asks, Send, Turn, AppInv, AppTyped, Outcomes, CallType
  <1>3. Call(call, v).mine /\ Call(call, v).by = v /\ Call(call, v).call = call
    BY DEF Call
  <1>4. /\ panel' = panel /\ panel = v /\ pending' = pending \cup {Call(call, v)} /\ waiting' = waiting \cup {"submit"}
    BY DEF Asks, Send
  <1>5. OwnCall'
    BY <1>3, <1>4 DEF AppInv, OwnCall
  <1> QED BY <1>2, <1>5 DEF AppInv

LEMMA ClicksKeeps ==
    ASSUME AppInv, Clicks
    PROVE  AppInv'
  <1>1. CASE SubmitLogin \/ SubmitRegister \/ SubmitPassword
    BY <1>1, AsksKeeps DEF SubmitLogin, SubmitRegister, SubmitPassword, Submitting
  <1>2. CASE SubmitInvalid
    BY <1>2 DEF SubmitInvalid, AppInv, AppTyped, OwnCall
  <1>3. CASE Logout
    <2>1. Call("logout", "header") \in CallType
      BY DEF Call, Calls, LoginCalls, Callers, Outcomes, CallType
    <2>2. AppTyped'
      BY <1>3, <2>1, AppBoundsAssumption DEF Logout, Send, Turn, look, AppInv, AppTyped, CallType
    <2>3. OwnCall'
      BY <1>3 DEF Logout, Send, look, AppInv, OwnCall
    <2> QED BY <2>2, <2>3 DEF AppInv
  <1>4. CASE OpenBell
    <2>1. Call("getNotifications", "bell") \in CallType
      BY DEF Call, Calls, UserCalls, Callers, Outcomes, CallType
    <2>2. AppTyped'
      BY <1>4, <2>1, AppBoundsAssumption DEF OpenBell, Send, Turn, AppInv, AppTyped, CallType
    <2>3. Call("getNotifications", "bell").mine /\ Call("getNotifications", "bell").by = "bell"
      BY DEF Call
    <2>4. OwnCall'
      BY <1>4, <2>3 DEF OpenBell, Send, AppInv, OwnCall
    <2> QED BY <2>2, <2>4 DEF AppInv
  <1>5. CASE CloseBell
    BY <1>5 DEF CloseBell, AppInv, AppTyped, OwnCall
  <1> QED BY <1>1, <1>2, <1>3, <1>4, <1>5 DEF Clicks

LEMMA SettlesKeeps ==
    ASSUME AppInv, NEW c \in pending, NEW out \in Outcomes, Settles(c, out), session' \in {"none", "admin", "user"}
    PROVE  AppInv'
  <1> DEFINE d == [c EXCEPT !.stage = "settled", !.out = out]
  <1>1. c \in CallType
    BY DEF AppInv, AppTyped, CallType
  <1>2. d \in CallType /\ d.mine = c.mine /\ d.by = c.by /\ d.call = c.call
    BY <1>1 DEF CallType
  <1>3. pending' = (pending \ {c}) \cup {d} /\ UNCHANGED <<panel, look, turns>>
    BY DEF Settles
  <1> HIDE DEF d
  <1>4. AppTyped'
    BY <1>2, <1>3 DEF AppInv, AppTyped, look, CallType
  <1>5. \A e \in pending : \E f \in pending' : f.mine = e.mine /\ f.by = e.by /\ f.call = e.call
    BY <1>2, <1>3
  <1>6. OwnCall'
    BY <1>3, <1>5 DEF AppInv, OwnCall, look
  <1> QED BY <1>4, <1>6 DEF AppInv

LEMMA SettleKeeps ==
    ASSUME AppInv, Settle
    PROVE  AppInv'
  <1>1. CASE ServeLogin
    BY <1>1, SettlesKeeps DEF ServeLogin, Outcomes, AppInv, AppTyped
  <1>2. CASE ServeLogout
    BY <1>2, SettlesKeeps DEF ServeLogout, Outcomes
  <1>3. CASE ServeCall
    <2>1. PICK c \in pending : \E out \in {"accepted", "refused", OutcomeOf(c)} : Settles(c, out) /\ UNCHANGED session
      BY <1>3 DEF ServeCall
    <2>2. {"accepted", "refused", OutcomeOf(c)} \subseteq Outcomes
      BY <2>1, OutcomesOK DEF OutcomeOf, Outcomes
    <2> QED BY <2>1, <2>2, SettlesKeeps DEF AppInv, AppTyped
  <1>4. CASE NoAnswer
    BY <1>4, SettlesKeeps DEF NoAnswer, Outcomes, AppInv, AppTyped
  <1> QED BY <1>1, <1>2, <1>3, <1>4 DEF Settle

LEMMA EndsKeeps ==
    ASSUME AppInv, NEW c \in pending, NEW what \in {"none", "page", "submit", "bell"},
           NEW message \in Outcomes, Ends(c, what, message),
           what = "none" => c.call \notin Submitting /\ c.by \notin {"dashboard", "bell"},
           what = "page" => c.by = "dashboard",
           what = "submit" => c.by \in {"login", "register", "user-center"},
           what = "bell" => c.by = "bell",
           registerLink' \in BOOLEAN, UNCHANGED <<session, turns>>
    PROVE  AppInv'
  <1>1. AppTyped'
    BY DEF Ends, AppInv, AppTyped
  <1>2. /\ pending' = pending \ {c} /\ panel' = panel
        /\ waiting' = IF c.mine THEN waiting \ {what} ELSE waiting
    BY DEF Ends
  <1>3. OwnCall'
    BY <1>2 DEF AppInv, OwnCall
  <1> QED BY <1>1, <1>3 DEF AppInv

LEMMA ArrivesKeeps ==
    ASSUME AppInv, Arrives
    PROVE  AppInv'
  <1>0. /\ \A c \in pending : c \in CallType
        /\ session \in {"none", "admin", "user"} /\ turns \in 0..MaxTurns /\ registerLink \in BOOLEAN
    BY DEF AppInv, AppTyped, CallType
  <1>1. ASSUME NEW c \in pending, NEW v \in {"dashboard", "login"}, Show(v, pending \ {c}),
               c.by \notin {v, "bell"}, UNCHANGED <<session, turns>>
        PROVE  AppInv'
    <2>1. Drawn(v)
      BY DEF Drawn, Renders
    <2>2. Page(v) = Page(panel) => v = panel
      BY <2>1, SamePage DEF AppInv, AppTyped
    <2> QED BY <1>0, <1>1, <2>1, <2>2, ShowKeeps
  <1>2. CASE BootArrives
    BY <1>1, <1>2 DEF BootArrives, Ready
  <1>3. CASE PublicConfigArrives
    <2>1. PICK c \in Ready("login") :
              /\ c.call = "getPublicConfig" /\ Ends(c, "none", NoText)
              /\ registerLink' \in IF c.mine /\ c.out = "data" THEN BOOLEAN ELSE {registerLink}
              /\ UNCHANGED <<session, turns>>
      BY <1>3 DEF PublicConfigArrives
    <2> QED BY <1>0, <2>1, EndsKeeps DEF Ready, Outcomes, Submitting
  <1>4. CASE LoginArrives
    <2>1. PICK c \in Ready("login") :
              /\ UNCHANGED <<session, turns>>
              /\ IF c.out = "accepted" THEN Show("dashboard", pending \ {c})
                 ELSE Ends(c, "submit", c.out) /\ UNCHANGED registerLink
      BY <1>4 DEF LoginArrives
    <2>2. c \in pending /\ c.by = "login" /\ c.out \in Outcomes
      BY <1>0, <2>1 DEF Ready, CallType
    <2> QED BY <1>0, <1>1, <2>1, <2>2, EndsKeeps
  <1>5. CASE RegisterArrives
    <2>1. PICK c \in Ready("register") :
              /\ UNCHANGED <<session, turns>>
              /\ IF c.out = "accepted" THEN Show("login", pending \ {c})
                 ELSE Ends(c, "submit", c.out) /\ UNCHANGED registerLink
      BY <1>5 DEF RegisterArrives
    <2>2. c \in pending /\ c.by = "register" /\ c.out \in Outcomes
      BY <1>0, <2>1 DEF Ready, CallType
    <2> QED BY <1>0, <1>1, <2>1, <2>2, EndsKeeps
  <1>6. CASE DashboardArrives
    <2>1. PICK c \in Ready("dashboard") :
              /\ UNCHANGED <<session, turns>>
              /\ IF c.out = "notLoggedIn" THEN Show("login", pending \ {c})
                 ELSE Ends(c, "page", IF c.out = "data" THEN NoText ELSE c.out) /\ UNCHANGED registerLink
      BY <1>6 DEF DashboardArrives
    <2>2. c \in pending /\ c.by = "dashboard" /\ (IF c.out = "data" THEN NoText ELSE c.out) \in Outcomes
      BY <1>0, <2>1 DEF Ready, CallType, Outcomes
    <2> QED BY <1>0, <1>1, <2>1, <2>2, EndsKeeps
  <1>7. CASE PasswordArrives
    <2>1. PICK c \in Ready("user-center") :
              Ends(c, "submit", IF c.out = "accepted" THEN NoText ELSE c.out) /\ UNCHANGED <<session, registerLink, turns>>
      BY <1>7 DEF PasswordArrives
    <2>2. c \in pending /\ c.by = "user-center" /\ (IF c.out = "accepted" THEN NoText ELSE c.out) \in Outcomes
      BY <1>0, <2>1 DEF Ready, CallType, Outcomes
    <2> QED BY <1>0, <2>1, <2>2, EndsKeeps
  <1>8. CASE LogoutArrives
    BY <1>1, <1>8 DEF LogoutArrives, Ready
  <1>9. CASE NotesArrive
    <2>1. PICK c \in Ready("bell") : Ends(c, "bell", NoText) /\ UNCHANGED <<session, registerLink, turns>>
      BY <1>9 DEF NotesArrive
    <2> QED BY <1>0, <2>1, EndsKeeps DEF Ready, Outcomes
  <1> QED BY <1>2, <1>3, <1>4, <1>5, <1>6, <1>7, <1>8, <1>9 DEF Arrives

LEMMA AppInvStep == AppInv /\ [AppNext]_appVars => AppInv'
  <1> SUFFICES ASSUME AppInv, [AppNext]_appVars
               PROVE  AppInv'
    OBVIOUS
  <1>1. CASE OtherTab
    BY <1>1, AppBoundsAssumption DEF OtherTab, Turn, look, AppInv, AppTyped, OwnCall
  <1>2. CASE UNCHANGED appVars
    BY <1>2 DEF appVars, look, AppInv, AppTyped, OwnCall
  <1> QED BY <1>1, <1>2, NavigatesKeeps, ClicksKeeps, SettleKeeps, ArrivesKeeps DEF AppNext

----------------------------------------------------------------------------
(* The forms: the fields of an entry, what a page sends of them and what    *)
(* the server makes of it.                                                   *)

LEMMA LimitFlagIs ==
    /\ LimitFlag["flow_limit"] = "allow_flow_limit" /\ LimitFlag["rate_limit"] = "allow_rate_limit"
    /\ LimitFlag["max_conn"] = "allow_connection_num_limit" /\ LimitFlag["max_tunnel"] = "allow_tunnel_num_limit"
  BY DEF LimitFlag

LEMMA TypesAre ==
    /\ Types = {"tcp", "httpProxy", "secret", "file"}
    /\ TypeFields["tcp"] = {"port", "target", "local_proxy"} /\ TypeFields["httpProxy"] = {"port"}
    /\ TypeFields["secret"] = {"target", "password"} /\ TypeFields["file"] = {"port", "local_path", "strip_pre"}
  BY DEF Types, TypeFields

\* Fields and Shown, with the page as a parameter.
FieldsOf(page) == CASE page \in ClientForms -> ClientFields
                    [] page \in TunnelForms -> TunnelFields
                    [] page \in HostForms -> HostFields
ShownOf(page, c, v) ==
    CASE page = "AddClient" -> AddClientShown(c, v)
      [] page = "EditClient" -> EditClientShown(c, v) \cup EditClientLimits(c)
      [] page \in TunnelForms -> TunnelShown(c, v)
      [] page \in HostForms -> AddHostShown(c, v)

\* The fields for which handleSubmit has a parameter.
EditClientSent(c) ==
    {"remark", "u", "p", "web_password", "config_conn_allow", "compress", "crypt"}
    \cup (IF "notAdmin" \notin c THEN {"vkey", "group_id"} \cup AllowedLimits(c) ELSE {})
    \cup (IF "notAdmin" \notin c \/ "allow_user_change_username" \in c THEN {"web_username"} ELSE {})
TunnelSent(c, v) ==
    {"type", "client_id", "remark"} \cup (TypeFields[v["type"]] \ {"local_proxy"})
    \cup (IF "allow_multi_ip" \in c THEN {"server_ip"} ELSE {})
    \cup (IF "allow_local_proxy" \in c THEN {"local_proxy"} ELSE {})
HostSent(c, v) ==
    (HostFields \ (Certs \cup {"local_proxy"}))
    \cup (IF "allow_local_proxy" \in c THEN {"local_proxy"} ELSE {})
    \cup (IF ShowCertFields(c, v) THEN Certs ELSE {})
SentOf(page, c, v) ==
    CASE page = "AddClient" -> ClientFields \ (Limits \ AllowedLimits(c))
      [] page = "EditClient" -> EditClientSent(c)
      [] page \in TunnelForms -> TunnelSent(c, v)
      [] page \in HostForms -> HostSent(c, v)

\* An entry, as a page holds it in its controls or the server in its table.
NumValues == {"0", "1", "2", "3", "own"}
IsEntry(page, e) ==
    /\ e \in [FieldsOf(page) -> Values]
    /\ \A f \in FieldsOf(page) \cap Numbers : e[f] \in NumValues
    /\ page \in TunnelForms => e["type"] \in Types
OnPage(page, client, v) ==
    /\ IsEntry(page, v)
    /\ page \in {"AddTunnel", "AddHost"} /\ client # "0" => v["client_id"] # "0"
    /\ page \in {"EditTunnel", "EditHost"} => v["client_id"] \in {"0", "own"}
    /\ page = "EditTunnel" /\ v["client_id"] = "0" => v["type"] = "tcp"
\* What a tunnel has not by its type is empty on the server.
TypeOnly(v) ==
    \A f \in TunnelFields \ (TypeFields[v["type"]] \cup {"type", "client_id", "remark", "server_ip", "local_proxy"}) :
       v[f] = Zero(f)
OnServer(page, e) ==
    /\ IsEntry(page, e)
    /\ page \in {"EditTunnel", "EditHost"} => e["client_id"] = "own"
    /\ page = "EditTunnel" => TypeOnly(e)

AllForms == ClientForms \cup TunnelForms \cup HostForms
LEMMA FieldsOfForms ==
    /\ form \in AllForms => Fields = FieldsOf(form)
    /\ \A page \in ClientForms : FieldsOf(page) = ClientFields
    /\ \A page \in TunnelForms : FieldsOf(page) = TunnelFields
    /\ \A page \in HostForms : FieldsOf(page) = HostFields
  BY DEF Fields, FieldsOf, AllForms, ClientForms, TunnelForms, HostForms

LEMMA ShownOfForm ==
    ASSUME form \in AllForms, NEW c, NEW v
    PROVE  Shown(c, v) = ShownOf(form, c, v)
  BY DEF Shown, ShownOf, AllForms, ClientForms, TunnelForms, HostForms, AddTunnelShown, EditTunnelShown, EditHostShown

LEMMA SentOfForms ==
    /\ \A c, v : SentOf("AddClient", c, v) = ClientFields \ (Limits \ AllowedLimits(c))
    /\ \A c, v : SentOf("EditClient", c, v) = EditClientSent(c)
    /\ \A page \in TunnelForms : \A c, v : SentOf(page, c, v) = TunnelSent(c, v)
    /\ \A page \in HostForms : \A c, v : SentOf(page, c, v) = HostSent(c, v)
    /\ \A c, v : ShownOf("AddClient", c, v) = AddClientShown(c, v)
    /\ \A c, v : ShownOf("EditClient", c, v) = EditClientShown(c, v) \cup EditClientLimits(c)
    /\ \A page \in TunnelForms : \A c, v : ShownOf(page, c, v) = TunnelShown(c, v)
    /\ \A page \in HostForms : \A c, v : ShownOf(page, c, v) = AddHostShown(c, v)
  BY DEF SentOf, ShownOf, TunnelForms, HostForms

LEMMA FieldsAre ==
    /\ Numbers \cap ClientFields = Limits \cup {"group_id", "config_conn_allow", "compress", "crypt"}
    /\ Numbers \cap TunnelFields = {"client_id", "port", "local_proxy"}
    /\ Numbers \cap HostFields = {"client_id", "local_proxy"}
  BY DEF Numbers, Limits, ClientFields, TunnelFields, HostFields, ClientText, TunnelText, HostText

\* A page shows and sends fields of its entry only.
LEMMA SentAreFields ==
    ASSUME NEW page \in AllForms, NEW c, NEW v, IsEntry(page, v)
    PROVE  SentOf(page, c, v) \subseteq FieldsOf(page) /\ ShownOf(page, c, v) \subseteq FieldsOf(page)
  <1>1. CASE page \in ClientForms
    BY <1>1, FieldsOfForms, SentOfForms DEF ClientForms, ClientFields, ClientText, Limits, EditClientSent,
       AllowedLimits, AddClientShown, EditClientShown, EditClientLimits
  <1>2. CASE page \in TunnelForms
    <2>1. v["type"] \in Types
      BY <1>2 DEF IsEntry
    <2>2. TypeFields[v["type"]] \subseteq TunnelFields
      BY <2>1, TypesAre DEF TunnelFields, TunnelText
    <2>3. {"type", "client_id", "remark", "server_ip", "local_proxy"} \subseteq TunnelFields
      BY DEF TunnelFields, TunnelText
    <2>4. /\ SentOf(page, c, v) \subseteq TypeFields[v["type"]] \cup {"type", "client_id", "remark", "server_ip", "local_proxy"}
          /\ ShownOf(page, c, v) \subseteq TypeFields[v["type"]] \cup {"type", "client_id", "remark", "server_ip", "local_proxy"}
      BY <1>2, SentOfForms DEF TunnelShown, TunnelSent
    <2> QED BY <1>2, <2>2, <2>3, <2>4, FieldsOfForms
  <1>3. CASE page \in HostForms
    <2>1. Certs \cup {"local_proxy"} \subseteq HostFields
      BY DEF Certs, HostFields, HostText
    <2> QED BY <1>3, <2>1, FieldsOfForms, SentOfForms DEF AddHostShown, HostSent
  <1> QED BY <1>1, <1>2, <1>3 DEF AllForms

LEMMA Texts ==
    /\ NoText \notin Escaped /\ NoText \notin NumValues /\ Undef \notin Escaped /\ NoText # Undef
    /\ NoText \notin {"a&b", "a&amp_b", "a&amp_amp_b", "/", "all", "http", "https", "key", "own"}
    /\ NoText \notin Types
  BY Zenon, TypesAre DEF NoText, Undef, Escaped, NumValues

LEMMA EscapeIs ==
    /\ \A v \in Escaped : Escape(v) \in Escaped
    /\ \A v : v \notin Escaped => Escape(v) = v
    /\ \A v : Escape(v) = NoText => v = NoText
    /\ \A v \in Values : Escape(v) \in Values
    /\ \A v \in NumValues \cup Types \cup Schemes : Escape(v) = v
  <1>1. /\ \A v \in Escaped : Escape(v) \in Escaped
        /\ \A v : v \notin Escaped => Escape(v) = v
    BY DEF Escape, Escaped
  <1>2. \A v : Escape(v) = NoText => v = NoText
    BY <1>1, Texts
  <1>3. \A v \in Values : Escape(v) \in Values
    BY <1>1 DEF Values
  <1>4. (NumValues \cup Types \cup Schemes) \cap Escaped = {}
    BY TypesAre DEF NumValues, Schemes, Escaped
  <1> QED BY <1>1, <1>2, <1>3, <1>4

LEMMA ValuesAre ==
    /\ Undef \notin Values
    /\ NumValues \cup Schemes \cup Types \cup Escaped \cup {NoText, "new", "other", "key", "/", "0.0.0.0", "10.0.0.1"} \subseteq Values
    /\ \A f : Zero(f) \in Values
    /\ \A n \in 0..9 : RandomKey(n) \in Values /\ RandomKey(n) # NoText
  <1>1. Undef \notin Escaped \cup {"new", "other", "0", "1", "2", "3", "own", "key", "0.0.0.0", "10.0.0.1", "/"} \cup Types \cup Schemes
    BY TypesAre DEF Undef, Escaped, Schemes
  <1>2. Undef # NoText
    BY Texts
  <1>3. \A n \in 0..9 : RandomKey(n) \notin {NoText, Undef}
    BY FormsAssumption
  <1>4. Undef \notin Values
    BY <1>1, <1>2, <1>3 DEF Values
  <1>5. NumValues \cup Schemes \cup Types \cup Escaped \cup {NoText, "new", "other", "key", "/", "0.0.0.0", "10.0.0.1"} \subseteq Values
    BY DEF Values, NumValues
  <1>6. \A f : Zero(f) \in Values
    BY <1>5 DEF Zero, NumValues
  <1>7. \A n \in 0..9 : RandomKey(n) \in Values
    BY DEF Values
  <1> QED BY <1>3, <1>4, <1>5, <1>6, <1>7

----------------------------------------------------------------------------
(* What holds of a page that is open.                                        *)
Full(st, ad) == st \cup {IF ad THEN "isAdmin" ELSE "notAdmin"}
ServerEntries(page) == {e \in [FieldsOf(page) -> Values] : OnServer(page, e)}

EnvOK == form \in Forms /\ site \in Sites /\ admin \in BOOLEAN /\ opened \in {"0", "own"}
PageOK ==
    /\ OnPage(form, opened, vals) /\ touched \subseteq FieldsOf(form)
    /\ config \in {{}, Full(site, admin)} /\ asked \subseteq {"config", "load", "clients"}
    /\ phase \in {"blank", "loaded", "failed"} /\ (phase # "blank" => "load" \notin asked)
SnapOK ==
    /\ snapshot \in {NoReq, [stage |-> "missing"]} \/ (snapshot.stage = "found" /\ OnServer(form, snapshot.entry))
    /\ "load" \notin asked => snapshot = NoReq
StoreOK == store \in Seq(ServerEntries(form)) /\ (form \in EditForms => Len(store) <= 1)

\* The body has what the page holds, but for what the server takes to be so anyway.
Carries(page, r) ==
    /\ DOMAIN r.body \subseteq SentOf(page, r.config, r.vals)
    /\ \A f \in DOMAIN r.body : r.body[f] = r.vals[f] /\ r.vals[f] # NoText
    /\ \A f \in SentOf(page, r.config, r.vals) \ DOMAIN r.body : r.vals[f] = Zero(f)
IsSave(page, client, cfgs, r) ==
    /\ DOMAIN r = {"stage", "body", "vals", "phase", "config", "touched", "shown"}
    /\ r.stage \in {"sent", "ok", "failed"} /\ r.phase \in {"blank", "loaded"}
    /\ OnPage(page, client, r.vals) /\ r.touched \subseteq FieldsOf(page)
    /\ r.config \in cfgs /\ r.shown = ShownOf(page, r.config, r.vals)
    /\ Carries(page, r)
SaveOK ==
    /\ req = NoReq \/ IsSave(form, opened, {{}, Full(site, admin)}, req)
    /\ saving = (req.stage # "none")
HistOK ==
    /\ stale \subseteq FieldsOf(form) /\ unkeyed \in BOOLEAN
    /\ typed \in 0..MaxTyped[form] /\ submits \in 0..MaxSubmits[form] /\ others \in 0..MaxOthers
\* Where a page leads is drawn, except that AddTunnel for no client ...
ViewOK ==
    \/ view = "form" \/ Renders(view)
    \/ view \in BlankTypes /\ form = "AddTunnel" /\ opened = "0"

FormBase == EnvOK /\ PageOK /\ SnapOK /\ StoreOK /\ SaveOK /\ HistOK /\ ViewOK

LEMMA FormsAre == EnvOK => form \in AllForms
  BY FormsAssumption DEF EnvOK, AllForms

LEMMA KindsAre ==
    /\ "AddClient" \in ClientForms /\ "EditClient" \in ClientForms
    /\ "AddTunnel" \in TunnelForms /\ "EditTunnel" \in TunnelForms
    /\ "AddHost" \in HostForms /\ "EditHost" \in HostForms
    /\ ClientForms \cup TunnelForms \cup HostForms
         = {"AddClient", "EditClient", "AddTunnel", "EditTunnel", "AddHost", "EditHost"}
    /\ ClientForms \cap TunnelForms = {} /\ ClientForms \cap HostForms = {} /\ TunnelForms \cap HostForms = {}
  BY DEF ClientForms, TunnelForms, HostForms

LEMMA FormBaseTypeOK == FormBase => FormTypeOK
  <1> SUFFICES ASSUME FormBase PROVE FormTypeOK
    OBVIOUS
  <1>1. Fields = FieldsOf(form) /\ form \in AllForms
    BY FormsAre, FieldsOfForms DEF FormBase
  <1>2. DOMAIN vals = Fields /\ \A f \in Fields : vals[f] \in Values
    BY <1>1 DEF FormBase, PageOK, OnPage, IsEntry
  <1>3. \A i \in DOMAIN store : DOMAIN store[i] = Fields /\ \A f \in Fields : store[i][f] \in Values
    <2>1. \A i \in DOMAIN store : store[i] \in ServerEntries(form)
      BY DEF FormBase, StoreOK
    <2> QED BY <1>1, <2>1 DEF ServerEntries
  <1>4. config \subseteq site \cup {"isAdmin", "notAdmin"}
    BY DEF FormBase, PageOK, Full
  <1>5. snapshot.stage \in {"none", "found", "missing"}
    BY DEF FormBase, SnapOK, NoReq
  <1>6. /\ req.stage \in {"none", "sent", "ok", "failed"}
        /\ req.stage # "none" => DOMAIN req.body \subseteq Fields /\ NoText \notin {req.body[f] : f \in DOMAIN req.body}
    <2>1. CASE req = NoReq
      BY <2>1 DEF NoReq
    <2>2. CASE IsSave(form, opened, {{}, Full(site, admin)}, req)
      <3>1. DOMAIN req.body \subseteq Fields
        BY <1>1, <2>2, SentAreFields DEF IsSave, Carries, OnPage
      <3> QED BY <2>2, <3>1 DEF IsSave, Carries
    <2> QED BY <2>1, <2>2 DEF FormBase, SaveOK
  <1> QED BY <1>1, <1>2, <1>3, <1>4, <1>5, <1>6 DEF FormTypeOK, FormBase, EnvOK, PageOK, SaveOK, HistOK

\* The page a form leads to.
LEMMA DestDrawn ==
    ASSUME EnvOK, NEW v, OnPage(form, opened, v)
    PROVE  Renders(Dest(v)) \/ (Dest(v) \in BlankTypes /\ form = "AddTunnel" /\ opened = "0")
  <1>1. CASE form \in ClientForms
    <2>1. Dest(v) = "clients"
      BY <1>1, KindsAre DEF Dest
    <2> QED BY <2>1 DEF Renders
  <1>2. CASE form \in TunnelForms
    <2>1. v["type"] \in {"tcp", "httpProxy", "secret", "file"}
      BY <1>2, TypesAre DEF OnPage, IsEntry
    <2>2. Dest(v) = IF v["client_id"] # "0" THEN "tunnel-all" ELSE v["type"]
      BY <1>2, KindsAre DEF Dest
    <2>3. v["client_id"] = "0" /\ form = "AddTunnel" => opened = "0"
      BY DEF OnPage
    <2>4. v["client_id"] = "0" /\ form = "EditTunnel" => v["type"] = "tcp"
      BY DEF OnPage
    <2> QED BY <1>2, <2>1, <2>2, <2>3, <2>4 DEF Renders, TunnelLists, BlankTypes, TunnelForms
  <1>3. CASE form \in HostForms
    <2>1. Dest(v) \in {"domain-client", "domain"}
      BY <1>3, KindsAre DEF Dest
    <2> QED BY <2>1 DEF Renders, HostLists
  <1> QED BY <1>1, <1>2, <1>3, FormsAre DEF AllForms

\* The pages before anything arrived, and the entries that can be edited.
LEMMA ClientsFirst ==
    /\ OnPage("AddClient", opened, AddClientBlank) /\ OnPage("EditClient", opened, EditClientBlank)
    /\ OnServer("EditClient", StoredClient)
  <1>1. \A page \in {"AddClient", "EditClient"} : FieldsOf(page) = ClientFields /\ page \notin TunnelForms
    BY FieldsOfForms, KindsAre
  <1>2. \A f \in ClientFields : Zero(f) \in Values /\ (f \in Numbers => Zero(f) \in NumValues)
    BY ValuesAre DEF Zero, NumValues
  <1>3. \A f \in ClientFields : StoredClient[f] \in Values /\ (f \in Numbers => StoredClient[f] \in NumValues)
    <2>1. {"key", "a&amp_b", "1"} \subseteq Values
      BY ValuesAre DEF NumValues, Escaped
    <2>2. ClientFields \cap Numbers \cap ClientText = {} /\ "vkey" \in ClientText
      BY FieldsAre DEF ClientText, Limits
    <2> QED BY <2>1, <2>2 DEF StoredClient, NumValues
  <1>4. StoredClient \in [ClientFields -> Values]
    BY <1>3 DEF StoredClient
  <1> QED BY <1>1, <1>2, <1>3, <1>4 DEF OnPage, OnServer, IsEntry, AddClientBlank, EditClientBlank

LEMMA TunnelsFirst ==
    ASSUME NEW type \in Types, opened \in {"0", "own"}
    PROVE  /\ OnPage("AddTunnel", opened, AddTunnelBlank(type))
           /\ OnPage("EditTunnel", opened, EditTunnelBlank)
           /\ OnServer("EditTunnel", StoredTunnel(type))
  <1>1. \A page \in {"AddTunnel", "EditTunnel"} : FieldsOf(page) = TunnelFields /\ page \in TunnelForms
    BY FieldsOfForms, KindsAre
  <1>2. {"type", "client_id", "remark", "server_ip", "local_proxy"} \subseteq TunnelFields /\ {"type", "remark", "server_ip"} \cap Numbers = {}
    BY DEF TunnelFields, TunnelText, Numbers, Limits
  <1>3. ASSUME NEW t \in Types
        PROVE  /\ AddTunnelBlank(t) \in [TunnelFields -> Values]
               /\ \A f \in TunnelFields \cap Numbers : AddTunnelBlank(t)[f] \in NumValues
               /\ AddTunnelBlank(t)["type"] = t /\ AddTunnelBlank(t)["client_id"] = opened
    <2>1. t \in Values /\ {"0", "own", "0.0.0.0"} \subseteq Values /\ \A f : Zero(f) \in Values
      BY ValuesAre DEF NumValues
    <2>2. opened \in NumValues /\ \A f \in Numbers : Zero(f) \in NumValues
      BY DEF NumValues, Zero
    <2> QED BY <1>2, <2>1, <2>2 DEF AddTunnelBlank
  <1>4. /\ EditTunnelBlank \in [TunnelFields -> Values]
        /\ \A f \in TunnelFields \cap Numbers : EditTunnelBlank[f] \in NumValues
        /\ EditTunnelBlank["type"] = "tcp" /\ EditTunnelBlank["client_id"] = "0"
    <2>1. "tcp" \in Types /\ "0" \in Values /\ "0" \in NumValues
      BY TypesAre, ValuesAre DEF NumValues
    <2> DEFINE b == AddTunnelBlank("tcp")
    <2>2. EditTunnelBlank = [b EXCEPT !["client_id"] = "0"]
      BY DEF EditTunnelBlank
    <2>3. /\ b \in [TunnelFields -> Values] /\ (\A f \in TunnelFields \cap Numbers : b[f] \in NumValues)
          /\ b["type"] = "tcp"
      BY <1>3, <2>1
    <2> HIDE DEF b
    <2> QED BY <1>2, <2>1, <2>2, <2>3
  <1>5. /\ StoredTunnel(type) \in [TunnelFields -> Values]
        /\ \A f \in TunnelFields \cap Numbers : StoredTunnel(type)[f] \in NumValues
        /\ StoredTunnel(type)["type"] = type /\ StoredTunnel(type)["client_id"] = "own"
        /\ TypeOnly(StoredTunnel(type))
    <2>1. type \in Values /\ {"1", "own", "10.0.0.1", "a&amp_b"} \subseteq Values /\ \A f : Zero(f) \in Values
      BY ValuesAre DEF NumValues, Escaped
    <2>2. {"1", "own"} \subseteq NumValues /\ \A f \in Numbers : Zero(f) \in NumValues
      BY DEF NumValues, Zero
    <2>3. \A f \in TunnelFields : StoredTunnel(type)[f] = CASE f = "type" -> type
                              [] f = "client_id" -> "own"
                              [] f = "server_ip" -> "10.0.0.1"
                              [] f = "remark" -> "a&amp_b"
                              [] f \in TypeFields[type] -> IF f \in Numbers THEN "1" ELSE "a&amp_b"
                              [] OTHER -> Zero(f)
      BY DEF StoredTunnel
    <2>4. /\ \A f \in TunnelFields : StoredTunnel(type)[f] \in Values
          /\ \A f \in TunnelFields \cap Numbers : StoredTunnel(type)[f] \in NumValues
          /\ StoredTunnel(type)["type"] = type /\ StoredTunnel(type)["client_id"] = "own"
      <3>1. StoredTunnel(type)["type"] = type /\ StoredTunnel(type)["client_id"] = "own"
        <4>1. {"type", "client_id"} \cap TypeFields[type] = {}
          BY TypesAre
        <4> QED BY <1>2, <2>3, <4>1
      <3>2. ASSUME NEW f \in TunnelFields
            PROVE  StoredTunnel(type)[f] \in {type, "1", "own", "10.0.0.1", "a&amp_b", Zero(f)}
        BY <2>3
      <3>3. ASSUME NEW f \in TunnelFields \cap Numbers
            PROVE  StoredTunnel(type)[f] \in {"1", "own", Zero(f)}
        <4>1. f \notin {"type", "server_ip", "remark"}
          BY <1>2
        <4> QED BY <4>1, <2>3
      <3> QED BY <2>1, <2>2, <3>1, <3>2, <3>3
    <2>5. TypeOnly(StoredTunnel(type))
      BY <2>3, <2>4 DEF TypeOnly
    <2>6. StoredTunnel(type) = [f \in TunnelFields |-> StoredTunnel(type)[f]]
      BY DEF StoredTunnel
    <2> QED BY <2>4, <2>5, <2>6
  <1>6. "tcp" \in Types
    BY TypesAre
  <1>7. OnPage("AddTunnel", opened, AddTunnelBlank(type))
    BY <1>1, <1>3 DEF OnPage, IsEntry
  <1>8. OnPage("EditTunnel", opened, EditTunnelBlank)
    BY <1>1, <1>4, <1>6 DEF OnPage, IsEntry
  <1>9. OnServer("EditTunnel", StoredTunnel(type))
    BY <1>1, <1>5 DEF OnServer, IsEntry
  <1> QED BY <1>7, <1>8, <1>9

LEMMA HostsFirst ==
    ASSUME NEW scheme \in Schemes, opened \in {"0", "own"}
    PROVE  /\ OnPage("AddHost", opened, AddHostBlank)
           /\ OnPage("EditHost", opened, EditHostBlank)
           /\ OnServer("EditHost", StoredHost(scheme))
  <1>1. \A page \in {"AddHost", "EditHost"} : FieldsOf(page) = HostFields /\ page \notin TunnelForms
    BY FieldsOfForms, KindsAre
  <1>2. {"client_id", "scheme", "local_proxy"} \subseteq HostFields /\ HostFields \cap Numbers = {"client_id", "local_proxy"}
    BY FieldsAre DEF HostFields
  <1>3. {"0", "1", "own", "all", "a&amp_b", NoText, scheme} \subseteq Values /\ \A f : Zero(f) \in Values
    BY ValuesAre DEF NumValues, Escaped, Schemes
  <1>4. {"0", "1", "own"} \subseteq NumValues /\ \A f \in Numbers : Zero(f) \in NumValues
    BY DEF NumValues, Zero
  <1>5. /\ AddHostBlank \in [HostFields -> Values] /\ AddHostBlank["client_id"] = opened
        /\ \A f \in HostFields \cap Numbers : AddHostBlank[f] \in NumValues
    BY <1>2, <1>3, <1>4 DEF AddHostBlank
  <1>6. /\ EditHostBlank \in [HostFields -> Values] /\ EditHostBlank["client_id"] = "0"
        /\ \A f \in HostFields \cap Numbers : EditHostBlank[f] \in NumValues
    BY <1>2, <1>3, <1>4, <1>5 DEF EditHostBlank
  <1>7. /\ StoredHost(scheme) \in [HostFields -> Values] /\ StoredHost(scheme)["client_id"] = "own"
        /\ \A f \in HostFields \cap Numbers : StoredHost(scheme)[f] \in NumValues
    <2>1. ASSUME NEW f \in HostFields
          PROVE  StoredHost(scheme)[f] \in {scheme, "own", "1", NoText, "a&amp_b"}
      BY DEF StoredHost
    <2>2. StoredHost(scheme)["client_id"] = "own" /\ StoredHost(scheme)["local_proxy"] = "1"
      BY <1>2 DEF StoredHost, Certs
    <2>3. StoredHost(scheme) = [f \in HostFields |-> StoredHost(scheme)[f]]
      BY DEF StoredHost
    <2> QED BY <1>2, <1>3, <1>4, <2>1, <2>2, <2>3
  <1>8. OnPage("AddHost", opened, AddHostBlank)
    BY <1>1, <1>5 DEF OnPage, IsEntry
  <1>9. OnPage("EditHost", opened, EditHostBlank)
    BY <1>1, <1>6 DEF OnPage, IsEntry
  <1>10. OnServer("EditHost", StoredHost(scheme))
    BY <1>1, <1>7 DEF OnServer, IsEntry
  <1> QED BY <1>8, <1>9, <1>10

LEMMA FormBaseInit == FormInit => FormBase
  <1> SUFFICES ASSUME FormInit PROVE FormBase
    OBVIOUS
  <1>1. EnvOK
    BY DEF FormInit, EnvOK
  <1>2. form \in {"AddClient", "EditClient", "AddTunnel", "EditTunnel", "AddHost", "EditHost"}
    BY <1>1, FormsAre, KindsAre DEF AllForms
  <1>3. opened \in {"0", "own"}
    BY <1>1 DEF EnvOK
  <1>4. OnPage(form, opened, vals) /\ StoreOK
    <2>1. \A e : OnServer(form, e) => <<e>> \in Seq(ServerEntries(form)) /\ Len(<<e>>) <= 1
      BY DEF ServerEntries, OnServer, IsEntry
    <2>2. <<>> \in Seq(ServerEntries(form)) /\ Len(<<>>) <= 1
      OBVIOUS
    <2>3. CASE form = "AddClient"
      BY <2>2, <2>3, ClientsFirst DEF FormInit, StoreOK
    <2>4. CASE form = "EditClient"
      BY <2>1, <2>4, ClientsFirst DEF FormInit, StoreOK
    <2>5. CASE form = "AddTunnel"
      <3>1. PICK type \in Types \cap Stored : vals = AddTunnelBlank(type) /\ store = <<>>
        BY <2>5 DEF FormInit
      <3> QED BY <1>3, <2>2, <2>5, <3>1, TunnelsFirst DEF StoreOK
    <2>6. CASE form = "EditTunnel"
      <3>1. PICK type \in Types \cap Stored : vals = EditTunnelBlank /\ store = <<StoredTunnel(type)>>
        BY <2>6 DEF FormInit
      <3> QED BY <1>3, <2>1, <2>6, <3>1, TunnelsFirst DEF StoreOK
    <2>7. CASE form = "AddHost"
      <3>1. vals = AddHostBlank /\ store = <<>> /\ "all" \in Schemes
        BY <2>7 DEF FormInit, Schemes
      <3> QED BY <1>3, <2>2, <2>7, <3>1, HostsFirst DEF StoreOK
    <2>8. CASE form = "EditHost"
      <3>1. PICK scheme \in Schemes \cap Stored : vals = EditHostBlank /\ store = <<StoredHost(scheme)>>
        BY <2>8 DEF FormInit
      <3> QED BY <1>3, <2>1, <2>8, <3>1, HostsFirst DEF StoreOK
    <2> QED BY <1>2, <2>3, <2>4, <2>5, <2>6, <2>7, <2>8
  <1>5. /\ asked \subseteq {"config", "load", "clients"}
        /\ config = {} /\ snapshot = NoReq /\ phase = "blank" /\ view = "form" /\ saving = FALSE /\ req = NoReq
        /\ touched = {} /\ stale = {} /\ unkeyed = FALSE /\ typed = 0 /\ submits = 0 /\ others = 0
    BY DEF FormInit
  <1>6. PageOK /\ SnapOK
    BY <1>4, <1>5 DEF PageOK, SnapOK
  <1>7. SaveOK /\ ViewOK
    BY <1>5 DEF SaveOK, ViewOK, NoReq
  <1>8. HistOK
    <2>1. MaxTyped[form] \in Nat /\ MaxSubmits[form] \in 1..9 /\ MaxOthers \in Nat
      BY <1>1, BoundsAssumption DEF EnvOK
    <2>2. 0 \in 0..MaxTyped[form] /\ 0 \in 0..MaxSubmits[form] /\ 0 \in 0..MaxOthers
      BY <2>1
    <2> QED BY <1>5, <2>2 DEF HistOK
  <1> QED BY <1>1, <1>4, <1>6, <1>7, <1>8 DEF FormBase

----------------------------------------------------------------------------
(* The steps of the page.                                                    *)
LEMMA ServerToPage ==
    ASSUME NEW page \in EditForms, NEW client, NEW e, OnServer(page, e)
    PROVE  OnPage(page, client, e)
  BY DEF OnServer, OnPage, EditForms

LEMMA ArrivalsKeep ==
    ASSUME FormBase, ConfigArrives \/ ClientsArrive \/ LoadServed \/ LoadFails
    PROVE  FormBase'
  <1>1. /\ UNCHANGED <<env, store, view, saving, req, touched, unkeyed, typed, submits, others, vals>>
        /\ asked' \subseteq asked
        /\ config' \in {config, Full(site, admin)}
        /\ stale' \in {stale, {}}
    BY DEF ConfigArrives, ClientsArrive, LoadServed, LoadFails, db, Full
  <1>2. EnvOK' /\ StoreOK' /\ ViewOK' /\ SaveOK'
    BY <1>1 DEF env, FormBase, EnvOK, StoreOK, ViewOK, SaveOK
  <1>3. HistOK'
    BY <1>1 DEF env, FormBase, HistOK
  <1>4. phase' \in {"blank", "loaded", "failed"} /\ (phase' # "blank" => "load" \notin asked')
    BY <1>1 DEF FormBase, PageOK, ConfigArrives, ClientsArrive, LoadServed, LoadFails
  <1>5. PageOK'
    BY <1>1, <1>4 DEF env, FormBase, PageOK
  <1>6. SnapOK'
    <2>1. CASE ConfigArrives \/ ClientsArrive
      <3>1. snapshot' = snapshot /\ ("load" \in asked => "load" \in asked')
        BY <2>1 DEF ConfigArrives, ClientsArrive
      <3> QED BY <1>1, <3>1 DEF env, FormBase, SnapOK
    <2>2. CASE LoadServed
      <3>1. "load" \in asked' /\ snapshot' \in {[stage |-> "missing"]} \cup {[stage |-> "found", entry |-> store[1]] : i \in {j \in {1} : store # <<>>}}
        BY <2>2 DEF LoadServed
      <3>2. store # <<>> => OnServer(form, store[1])
        <4>1. store # <<>> => store[1] \in ServerEntries(form)
          BY DEF FormBase, StoreOK
        <4> QED BY <4>1 DEF ServerEntries
      <3> QED BY <1>1, <3>1, <3>2 DEF env, SnapOK
    <2>3. CASE LoadFails
      <3>1. snapshot' = NoReq
        BY <2>3 DEF LoadFails
      <3> QED BY <3>1 DEF SnapOK
    <2> QED BY <2>1, <2>2, <2>3
  <1> QED BY <1>2, <1>3, <1>5, <1>6 DEF FormBase

LEMMA LoadedKeeps ==
    ASSUME FormBase, NEW p \in EditForms, Loaded(p)
    PROVE  FormBase'
  <1>1. /\ UNCHANGED <<env, store, config, view, saving, req, stale, unkeyed, typed, submits, others>>
        /\ form = p /\ vals' = snapshot.entry /\ snapshot.stage = "found"
        /\ phase' = "loaded" /\ touched' = {} /\ asked' = asked \ {"load"} /\ snapshot' = NoReq
    BY DEF Loaded, db
  <1>2. EnvOK' /\ StoreOK' /\ ViewOK' /\ SaveOK'
    BY <1>1 DEF env, FormBase, EnvOK, StoreOK, ViewOK, SaveOK
  <1>3. HistOK'
    BY <1>1 DEF env, FormBase, HistOK
  <1>4. OnServer(form, snapshot.entry)
    BY <1>1 DEF FormBase, SnapOK, NoReq
  <1>5. OnPage(form, opened, vals')
    BY <1>1, <1>4, ServerToPage
  <1>6. PageOK' /\ SnapOK'
    BY <1>1, <1>5 DEF env, FormBase, PageOK, SnapOK
  <1> QED BY <1>2, <1>3, <1>6 DEF FormBase

LEMMA TypeKeeps ==
    ASSUME FormBase, Type
    PROVE  FormBase'
  <1>1. /\ UNCHANGED <<env, store, config, asked, snapshot, phase, view, saving, req, stale, submits, others>>
        /\ typed < MaxTyped[form] /\ typed' = typed + 1
        /\ unkeyed' = (unkeyed \/ (form \notin EditForms /\ submits > 0))
    BY DEF Type, db
  <1>f. PICK f \in Shown(config, vals) \ ReadOnly(config) :
             \E v \in ChoicesOf(f) : vals' = [vals EXCEPT ![f] = v] /\ touched' = touched \cup {f}
    BY DEF Type
  <1>2. PICK v \in ChoicesOf(f) : vals' = [vals EXCEPT ![f] = v] /\ touched' = touched \cup {f}
    BY <1>f
  <1>3. form \in AllForms /\ Fields = FieldsOf(form) /\ f \in FieldsOf(form)
    <2>1. form \in AllForms /\ Fields = FieldsOf(form)
      BY FormsAre, FieldsOfForms DEF FormBase
    <2>2. f \in ShownOf(form, config, vals)
      BY <1>2, <2>1, ShownOfForm
    <2> QED BY <2>1, <2>2, SentAreFields DEF FormBase, PageOK, OnPage
  <1>4. /\ v \in Values /\ (f \in Numbers => v \in NumValues) /\ (f = "type" => v \in Types)
        /\ f = "client_id" => v \in {"0", "own"}
    <2>1. Types \cup Schemes \cup NumValues \cup {NoText, "new"} \subseteq Values
      BY ValuesAre
    <2>2. CASE f \in {"type", "scheme"}
      BY <1>2, <2>1, <2>2 DEF ChoicesOf, Numbers, Limits
    <2>3. CASE f = "client_id"
      BY <1>2, <2>1, <2>3 DEF ChoicesOf, NumValues, Limits
    <2>4. CASE f \in Numbers \ {"client_id"}
      BY <1>2, <2>1, <2>4 DEF ChoicesOf, NumValues, Numbers, Limits
    <2>5. CASE f \notin Numbers \cup {"type", "scheme"}
      BY <1>2, <2>1, <2>5 DEF ChoicesOf, Numbers
    <2> QED BY <2>2, <2>3, <2>4, <2>5
  <1>5. OnPage(form, opened, vals')
    <2>1. OnPage(form, opened, vals)
      BY DEF FormBase, PageOK
    <2>2. IsEntry(form, vals')
      BY <1>2, <1>3, <1>4, <2>1 DEF OnPage, IsEntry
    <2>3. /\ form \in {"AddTunnel", "AddHost"} /\ opened # "0" => f # "client_id"
          /\ form = "EditTunnel" => f \notin {"client_id", "type"}
          /\ form = "EditHost" => f # "client_id"
      BY <1>2 DEF ReadOnly
    <2>4. \A g : g # f => vals'[g] = vals[g]
      BY <1>2, <2>1 DEF OnPage, IsEntry
    <2> QED BY <2>1, <2>2, <2>3, <2>4 DEF OnPage
  <1>6. EnvOK' /\ StoreOK' /\ SnapOK' /\ SaveOK' /\ ViewOK'
    BY <1>1 DEF env, FormBase, EnvOK, StoreOK, SnapOK, SaveOK, ViewOK
  <1>7. PageOK'
    BY <1>1, <1>2, <1>3, <1>5 DEF env, FormBase, PageOK
  <1>8. HistOK'
    <2>1. typed' \in 0..MaxTyped[form] /\ form' = form
      BY <1>1, BoundsAssumption DEF env, FormBase, HistOK, EnvOK
    <2>2. unkeyed' \in BOOLEAN
      BY <1>1
    <2> QED BY <1>1, <2>1, <2>2 DEF FormBase, HistOK
  <1> QED BY <1>6, <1>7, <1>8 DEF FormBase

\* What formBody leaves of the parameters of a page.
LEMMA BodyCarries ==
    ASSUME NEW page \in AllForms, NEW c, NEW v, IsEntry(page, v), NEW params,
           SentOf(page, c, v) \subseteq DOMAIN params,
           \A f \in SentOf(page, c, v) : params[f] = v[f] \/ (params[f] = Undef /\ v[f] = Zero(f)),
           \A f \in DOMAIN params \ SentOf(page, c, v) : params[f] = Undef,
           NEW r, r.body = FormBody(params), r.config = c, r.vals = v
    PROVE  Carries(page, r)
  <1> DEFINE sent == SentOf(page, c, v)
             B == {k \in DOMAIN params : params[k] \notin {Undef, NoText}}
  <1>1. r.body = [x \in B |-> params[x]]
    BY DEF FormBody, Restrict
  <1>2. sent \subseteq FieldsOf(page)
    BY SentAreFields
  <1>3. B \subseteq sent
    OBVIOUS
  <1>4. \A f \in B : params[f] = v[f] /\ v[f] # NoText
    BY <1>3
  <1>5. ASSUME NEW f \in sent \ B
        PROVE  v[f] = Zero(f)
    <2>1. params[f] \in {Undef, NoText}
      OBVIOUS
    <2>2. v[f] \in Values
      BY <1>2 DEF IsEntry
    <2>3. CASE params[f] = Undef
      BY <2>2, <2>3, ValuesAre
    <2>4. CASE params[f] = NoText
      <3>1. v[f] = NoText
        BY <2>4, Texts
      <3>2. f \notin Numbers
        BY <1>2, <3>1, Texts DEF IsEntry
      <3> QED BY <3>1, <3>2 DEF Zero
    <2> QED BY <2>1, <2>3, <2>4
  <1>6. DOMAIN r.body = B /\ \A f \in B : r.body[f] = params[f]
    BY <1>1
  <1> HIDE DEF B, sent
  <1>7. /\ DOMAIN r.body \subseteq sent
        /\ \A f \in DOMAIN r.body : r.body[f] = v[f] /\ v[f] # NoText
        /\ \A f \in sent \ DOMAIN r.body : v[f] = Zero(f)
    BY <1>3, <1>4, <1>5, <1>6
  <1> QED BY <1>7 DEF Carries, sent

LEMMA SubmitKeeps ==
    ASSUME FormBase, NEW p, NEW v, NEW params, Submit(p, v, params), OnPage(form, opened, v),
           \/ params = [f \in SentOf(form, config, v) |-> v[f]]
           \/ form = "AddClient" /\ params = AddClientParams(config, v)
    PROVE  FormBase'
  <1>1. /\ UNCHANGED <<env, store, config, asked, snapshot, phase, view, touched, stale, unkeyed, typed, others>>
        /\ form = p /\ submits < MaxSubmits[form] /\ submits' = submits + 1
        /\ FormShown /\ saving' = TRUE /\ vals' = v
        /\ req' = [stage |-> "sent", body |-> FormBody(params), vals |-> v, phase |-> phase,
                   config |-> config, touched |-> touched, shown |-> Shown(config, v)]
    BY DEF Submit, db
  <1>2. form \in AllForms /\ IsEntry(form, v)
    BY FormsAre DEF FormBase, OnPage
  <1>3. Carries(form, req')
    <2>1. CASE params = [f \in SentOf(form, config, v) |-> v[f]]
      <3>1. /\ SentOf(form, config, v) \subseteq DOMAIN params
            /\ \A f \in SentOf(form, config, v) : params[f] = v[f]
            /\ DOMAIN params \ SentOf(form, config, v) = {}
        BY <2>1
      <3>2. req'.body = FormBody(params) /\ req'.config = config /\ req'.vals = v
        BY <1>1
      <3> QED BY <1>2, <3>1, <3>2, BodyCarries
    <2>2. CASE form = "AddClient" /\ params = AddClientParams(config, v)
      <3>0. Limits \subseteq ClientFields /\ "group_id" \in ClientFields /\ "group_id" \notin Limits /\ Zero("group_id") = "0"
        BY DEF ClientFields, Limits, Zero, Numbers
      <3>1. SentOf(form, config, v) = ClientFields \ (Limits \ AllowedLimits(config))
        BY <2>2, SentOfForms
      <3>2. /\ SentOf(form, config, v) \subseteq DOMAIN params
            /\ \A f \in SentOf(form, config, v) : params[f] = v[f] \/ (params[f] = Undef /\ v[f] = Zero(f))
            /\ \A f \in DOMAIN params \ SentOf(form, config, v) : params[f] = Undef
        BY <2>2, <3>0, <3>1 DEF AddClientParams
      <3>3. req'.body = FormBody(params) /\ req'.config = config /\ req'.vals = v
        BY <1>1
      <3> QED BY <1>2, <3>2, <3>3, BodyCarries
    <2> QED BY <2>1, <2>2
  <1>4. SaveOK'
    <2>1. phase \in {"blank", "loaded"} /\ touched \subseteq FieldsOf(form) /\ config \in {{}, Full(site, admin)}
      BY <1>1 DEF FormBase, PageOK, FormShown
    <2>2. req'.shown = ShownOf(form, config, v)
      BY <1>1, <1>2, ShownOfForm
    <2>3. IsSave(form, opened, {{}, Full(site, admin)}, req')
      BY <1>1, <1>3, <2>1, <2>2 DEF IsSave
    <2> QED BY <1>1, <2>3 DEF env, SaveOK
  <1>5. EnvOK' /\ StoreOK' /\ SnapOK' /\ ViewOK'
    BY <1>1 DEF env, FormBase, EnvOK, StoreOK, SnapOK, ViewOK
  <1>6. PageOK'
    BY <1>1 DEF env, FormBase, PageOK
  <1>7. HistOK'
    <2>1. MaxSubmits[form] \in Nat
      BY BoundsAssumption DEF FormBase, EnvOK
    <2>2. submits' \in 0..MaxSubmits[form] /\ form' = form
      BY <1>1, <2>1 DEF env, FormBase, HistOK
    <2> QED BY <1>1, <2>2 DEF FormBase, HistOK
  <1> QED BY <1>4, <1>5, <1>6, <1>7 DEF FormBase

\* The key of AddClient.
LEMMA WithKeyOnPage ==
    ASSUME FormBase, form = "AddClient", submits < MaxSubmits[form]
    PROVE  /\ OnPage(form, opened, WithKey) /\ WithKey["vkey"] # NoText
           /\ vals["vkey"] # NoText => WithKey = vals
  <1>1. FieldsOf(form) = ClientFields /\ form \notin TunnelForms
    BY FieldsOfForms, KindsAre
  <1>2. "vkey" \in ClientFields /\ "vkey" \notin Numbers
    BY DEF ClientFields, ClientText, Numbers, Limits
  <1>3. submits \in 0..9
    BY BoundsAssumption DEF FormBase, EnvOK, HistOK
  <1>4. RandomKey(submits) \in Values /\ RandomKey(submits) # NoText
    BY <1>3, ValuesAre
  <1>5. vals \in [ClientFields -> Values] /\ \A f \in ClientFields \cap Numbers : vals[f] \in NumValues
    BY <1>1 DEF FormBase, PageOK, OnPage, IsEntry
  <1>6. /\ WithKey \in [ClientFields -> Values] /\ WithKey["vkey"] # NoText
        /\ \A f \in ClientFields \cap Numbers : WithKey[f] = vals[f]
        /\ vals["vkey"] # NoText => WithKey = vals
    BY <1>2, <1>4, <1>5 DEF WithKey
  <1>7. IsEntry(form, WithKey)
    BY <1>1, <1>5, <1>6 DEF IsEntry
  <1> QED BY <1>6, <1>7 DEF OnPage

LEMMA SubmitsKeep ==
    ASSUME FormBase, Submits
    PROVE  FormBase'
  <1>0. OnPage(form, opened, vals)
    BY DEF FormBase, PageOK
  <1>1. CASE SubmitAddClient
    <2>1. Submit("AddClient", WithKey, AddClientParams(config, WithKey))
      BY <1>1 DEF SubmitAddClient
    <2>2. form = "AddClient" /\ submits < MaxSubmits[form]
      BY <2>1 DEF Submit
    <2> QED BY <2>1, <2>2, WithKeyOnPage, SubmitKeeps
  <1>2. CASE SubmitEditClient
    <2>1. Submit("EditClient", vals, EditClientParams(config, vals)) /\ form = "EditClient"
      BY <1>2 DEF SubmitEditClient, Submit
    <2>2. EditClientParams(config, vals) = [f \in SentOf(form, config, vals) |-> vals[f]]
      <3>1. SentOf(form, config, vals) = EditClientSent(config)
        BY <2>1, SentOfForms
      <3> QED BY <3>1 DEF EditClientParams, EditClientSent
    <2> QED BY <1>0, <2>1, <2>2, SubmitKeeps
  <1>3. CASE SubmitAddTunnel \/ SubmitEditTunnel
    <2>1. PICK p \in TunnelForms : Submit(p, vals, TunnelParams(config, vals)) /\ form = p
      BY <1>3, KindsAre DEF SubmitAddTunnel, SubmitEditTunnel, Submit
    <2>2. TunnelParams(config, vals) = [f \in SentOf(form, config, vals) |-> vals[f]]
      <3>1. SentOf(form, config, vals) = TunnelSent(config, vals)
        BY <2>1, SentOfForms
      <3> QED BY <3>1 DEF TunnelParams, TunnelSent
    <2> QED BY <1>0, <2>1, <2>2, SubmitKeeps
  <1>4. CASE SubmitAddHost \/ SubmitEditHost
    <2>1. PICK p \in HostForms : Submit(p, vals, HostParams(config, vals)) /\ form = p
      BY <1>4, KindsAre DEF SubmitAddHost, SubmitEditHost, Submit
    <2>2. HostParams(config, vals) = [f \in SentOf(form, config, vals) |-> vals[f]]
      <3>1. SentOf(form, config, vals) = HostSent(config, vals)
        BY <2>1, SentOfForms
      <3> QED BY <3>1 DEF HostParams, HostSent
    <2> QED BY <1>0, <2>1, <2>2, SubmitKeeps
  <1> QED BY <1>1, <1>2, <1>3, <1>4 DEF Submits

LEMMA LeavesKeep ==
    ASSUME FormBase, SaveArrives \/ Cancel \/ Back
    PROVE  FormBase'
  <1>1. /\ UNCHANGED <<env, store, config, asked, snapshot, phase, vals, touched, stale, unkeyed, typed, submits, others>>
        /\ \/ UNCHANGED <<req, saving>>
           \/ req' = NoReq /\ saving' = FALSE
    BY DEF SaveArrives, Cancel, Back, db
  <1>2. EnvOK' /\ PageOK' /\ SnapOK' /\ StoreOK' /\ HistOK'
    BY <1>1 DEF env, FormBase, EnvOK, PageOK, SnapOK, StoreOK, HistOK
  <1>3. SaveOK'
    <2>1. CASE req' = NoReq /\ saving' = FALSE
      BY <2>1 DEF SaveOK, NoReq
    <2>2. CASE UNCHANGED <<req, saving>>
      BY <1>1, <2>2 DEF env, FormBase, SaveOK
    <2> QED BY <1>1, <2>1, <2>2
  <1>4. \/ view' = view \/ view' = "tcp"
        \/ \E v : OnPage(form, opened, v) /\ view' = Dest(v)
    <2>1. OnPage(form, opened, vals)
      BY DEF FormBase, PageOK
    <2>2. CASE SaveArrives
      <3>1. req.stage = "ok" => OnPage(form, opened, req.vals)
        BY DEF FormBase, SaveOK, IsSave, NoReq
      <3> QED BY <2>2, <3>1 DEF SaveArrives
    <2>3. CASE Cancel \/ Back
      BY <2>1, <2>3 DEF Cancel, Back
    <2> QED BY <2>2, <2>3
  <1>5. ViewOK'
    <2>1. Renders("tcp")
      BY DEF Renders, TunnelLists
    <2> QED BY <1>1, <1>4, <2>1, DestDrawn DEF env, FormBase, ViewOK
  <1> QED BY <1>2, <1>3, <1>5 DEF FormBase

----------------------------------------------------------------------------
(* The steps of the server.                                                  *)

\* A parameter that the page sends is stored as the server escapes it, one that
\* it does not send is reset.
LEMMA PostedIs ==
    ASSUME FormBase, req.stage = "sent"
    PROVE  /\ IsSave(form, opened, {{}, Full(site, admin)}, req)
           /\ Posted = [f \in FieldsOf(form) |-> IF f \in SentOf(form, req.config, req.vals)
                                                 THEN Escape(req.vals[f]) ELSE Zero(f)]
  <1>1. IsSave(form, opened, {{}, Full(site, admin)}, req)
    BY DEF FormBase, SaveOK, NoReq
  <1>2. Fields = FieldsOf(form)
    BY FormsAre, FieldsOfForms DEF FormBase
  <1>3. ASSUME NEW f \in FieldsOf(form)
        PROVE  Read(f) = IF f \in SentOf(form, req.config, req.vals) THEN Escape(req.vals[f]) ELSE Zero(f)
    <2>1. CASE f \in DOMAIN req.body
      <3>1. f \in SentOf(form, req.config, req.vals) /\ req.body[f] = req.vals[f]
        BY <1>1, <2>1 DEF IsSave, Carries
      <3>2. f \in Numbers => Escape(req.vals[f]) = req.vals[f]
        BY <1>1, EscapeIs DEF IsSave, OnPage, IsEntry
      <3> QED BY <2>1, <3>1, <3>2 DEF Read
    <2>2. CASE f \notin DOMAIN req.body
      <3>1. f \in SentOf(form, req.config, req.vals) => req.vals[f] = Zero(f)
        BY <1>1, <2>2 DEF IsSave, Carries
      <3>2. Zero(f) \notin Escaped
        BY Texts DEF Zero, Escaped
      <3> QED BY <2>2, <3>1, <3>2, EscapeIs DEF Read
    <2> QED BY <2>1, <2>2
  <1> QED BY <1>1, <1>2, <1>3 DEF Posted

LEMMA PostedIsEntry ==
    ASSUME FormBase, req.stage = "sent"
    PROVE  /\ IsEntry(form, Posted)
           /\ form \in TunnelForms => Posted["type"] = req.vals["type"] /\ TypeOnly(Posted)
           /\ form \in TunnelForms \cup HostForms => Posted["client_id"] = req.vals["client_id"]
  <1> DEFINE sent == SentOf(form, req.config, req.vals)
  <1>1. /\ IsEntry(form, req.vals)
        /\ \A f \in FieldsOf(form) : Posted[f] = IF f \in sent THEN Escape(req.vals[f]) ELSE Zero(f)
        /\ Posted = [f \in FieldsOf(form) |-> Posted[f]]
    BY PostedIs DEF IsSave, OnPage
  <1>2. \A f \in FieldsOf(form) : Posted[f] \in Values /\ (f \in Numbers => Posted[f] \in NumValues)
    <2>1. \A f \in Numbers : Zero(f) \in NumValues
      BY DEF Zero, NumValues
    <2> HIDE DEF sent
    <2> QED BY <1>1, <2>1, EscapeIs, ValuesAre DEF IsEntry
  <1>3. ASSUME form \in TunnelForms
        PROVE  Posted["type"] = req.vals["type"] /\ Posted["client_id"] = req.vals["client_id"]
    <2>1. {"type", "client_id"} \subseteq sent /\ FieldsOf(form) = TunnelFields
      BY <1>3, SentOfForms, FieldsOfForms DEF TunnelSent
    <2>2. {"type", "client_id"} \subseteq TunnelFields /\ "client_id" \in Numbers
      BY DEF TunnelFields, TunnelText, Numbers
    <2>3. req.vals["type"] \in Types /\ req.vals["client_id"] \in NumValues
      BY <1>1, <1>3, <2>1, <2>2 DEF IsEntry
    <2> HIDE DEF sent
    <2> QED BY <1>1, <2>1, <2>2, <2>3, EscapeIs
  <1>4. ASSUME form \in TunnelForms
        PROVE  TypeOnly(Posted)
    <2>1. sent \subseteq TypeFields[req.vals["type"]] \cup {"type", "client_id", "remark", "server_ip", "local_proxy"}
      BY <1>4, SentOfForms DEF TunnelSent
    <2>2. FieldsOf(form) = TunnelFields
      BY <1>4, FieldsOfForms
    <2> HIDE DEF sent
    <2> QED BY <1>1, <1>3, <1>4, <2>1, <2>2 DEF TypeOnly
  <1>5. ASSUME form \in HostForms
        PROVE  Posted["client_id"] = req.vals["client_id"]
    <2>1. "client_id" \in sent /\ FieldsOf(form) = HostFields
      BY <1>5, SentOfForms, FieldsOfForms DEF HostSent, HostFields, Certs
    <2>2. "client_id" \in HostFields /\ "client_id" \in Numbers
      BY DEF HostFields, Numbers
    <2>3. req.vals["client_id"] \in NumValues
      BY <1>1, <2>1, <2>2 DEF IsEntry
    <2> HIDE DEF sent
    <2> QED BY <1>1, <2>1, <2>2, <2>3, EscapeIs
  <1>6. form \in TunnelForms => Posted["type"] \in Types
    BY <1>1, <1>3 DEF IsEntry
  <1>7. IsEntry(form, Posted)
    BY <1>1, <1>2, <1>6 DEF IsEntry
  <1> QED BY <1>3, <1>4, <1>5, <1>7

\* The same with the client that the server puts in for a user.
LEMMA PostedOwnIsEntry ==
    ASSUME FormBase, req.stage = "sent", form \in TunnelForms \cup HostForms
    PROVE  /\ PostedOwn \in [FieldsOf(form) -> Values] /\ IsEntry(form, PostedOwn)
           /\ \A f \in FieldsOf(form) \ {"client_id"} : PostedOwn[f] = Posted[f]
           /\ PostedOwn["client_id"] = IF admin THEN req.vals["client_id"] ELSE "own"
           /\ form \in TunnelForms => TypeOnly(PostedOwn)
           /\ form \in {"EditTunnel", "EditHost"} /\ PostedOwn["client_id"] # "0" => OnServer(form, PostedOwn)
  <1>1. /\ "client_id" \in FieldsOf(form) /\ "client_id" \in Numbers
        /\ form \in TunnelForms => FieldsOf(form) = TunnelFields /\ "type" \in FieldsOf(form)
    BY FieldsOfForms DEF TunnelFields, TunnelText, HostFields, Numbers
  <1>2. /\ Posted \in [FieldsOf(form) -> Values] /\ Posted["client_id"] = req.vals["client_id"]
        /\ \A f \in FieldsOf(form) \cap Numbers : Posted[f] \in NumValues
        /\ form \in TunnelForms => Posted["type"] \in Types /\ TypeOnly(Posted)
    BY PostedIsEntry DEF IsEntry
  <1>3. "own" \in Values /\ "own" \in NumValues
    BY ValuesAre DEF NumValues
  <1>4. /\ PostedOwn \in [FieldsOf(form) -> Values]
        /\ \A f \in FieldsOf(form) \ {"client_id"} : PostedOwn[f] = Posted[f]
        /\ PostedOwn["client_id"] = IF admin THEN req.vals["client_id"] ELSE "own"
    BY <1>1, <1>2, <1>3 DEF PostedOwn
  <1>5. IsEntry(form, PostedOwn)
    BY <1>1, <1>2, <1>3, <1>4 DEF IsEntry
  <1>6. form \in TunnelForms => TypeOnly(PostedOwn)
    BY <1>1, <1>2, <1>4 DEF TypeOnly
  <1>7. form \in {"EditTunnel", "EditHost"} => req.vals["client_id"] \in {"0", "own"}
    BY PostedIs DEF IsSave, OnPage
  <1>8. form \in {"EditTunnel", "EditHost"} /\ PostedOwn["client_id"] # "0" => OnServer(form, PostedOwn)
    BY <1>4, <1>5, <1>6, <1>7, KindsAre DEF OnServer
  <1> QED BY <1>4, <1>5, <1>6, <1>8

LEMMA ServedKeeps ==
    ASSUME FormBase, req.stage \in {"sent", "ok"}, NEW outcome \in {"ok", "failed"}, Served(outcome),
           StoreOK', stale' \subseteq FieldsOf(form), unkeyed' \in BOOLEAN
    PROVE  FormBase'
  <1>1. /\ UNCHANGED <<env, config, asked, snapshot, phase, vals, view, saving, touched, typed, submits, others>>
        /\ req' = [req EXCEPT !.stage = outcome]
    BY DEF Served, screen
  <1>2. EnvOK' /\ PageOK' /\ SnapOK' /\ HistOK' /\ ViewOK'
    BY <1>1 DEF env, FormBase, EnvOK, PageOK, SnapOK, HistOK, ViewOK
  <1>3. SaveOK'
    <2>1. IsSave(form, opened, {{}, Full(site, admin)}, req)
      BY DEF FormBase, SaveOK, NoReq
    <2>2. /\ DOMAIN req' = DOMAIN req /\ req'.stage = outcome
          /\ \A k \in DOMAIN req \ {"stage"} : req'[k] = req[k]
      BY <1>1, <2>1 DEF IsSave
    <2>3. /\ req'.body = req.body /\ req'.vals = req.vals /\ req'.phase = req.phase
          /\ req'.config = req.config /\ req'.touched = req.touched /\ req'.shown = req.shown
      BY <2>1, <2>2 DEF IsSave
    <2>4. Carries(form, req')
      BY <2>1, <2>3 DEF IsSave, Carries
    <2>5. IsSave(form, opened, {{}, Full(site, admin)}, req')
      BY <2>1, <2>2, <2>3, <2>4 DEF IsSave
    <2>6. saving' = (req'.stage # "none")
      <3>1. saving = (req.stage # "none") /\ req.stage # "none" /\ req'.stage # "none"
        BY <2>2 DEF FormBase, SaveOK
      <3> QED BY <1>1, <3>1
    <2> QED BY <1>1, <2>5, <2>6 DEF env, SaveOK
  <1> QED BY <1>2, <1>3 DEF FormBase

LEMMA AddsKeep ==
    ASSUME FormBase, req.stage = "sent", form \notin EditForms, NEW entry, OnServer(form, entry),
           NEW outcome \in {"ok", "failed"}, NEW again \in BOOLEAN, Adds(entry, outcome, again)
    PROVE  FormBase'
  <1>1. /\ store' = Append(store, entry) /\ unkeyed' = (unkeyed \/ again) /\ Served(outcome) /\ stale' = stale
    BY DEF Adds
  <1>2. form' = form
    BY <1>1 DEF Served, env
  <1>3. entry \in ServerEntries(form)
    BY DEF ServerEntries, OnServer, IsEntry
  <1>4. StoreOK'
    BY <1>1, <1>2, <1>3 DEF FormBase, StoreOK
  <1>5. stale' \subseteq FieldsOf(form) /\ unkeyed' \in BOOLEAN
    BY <1>1 DEF FormBase, HistOK
  <1> QED BY <1>1, <1>4, <1>5, ServedKeeps

LEMMA ChangesKeep ==
    ASSUME FormBase, req.stage = "sent", form \in EditForms, store # <<>>, NEW entry, OnServer(form, entry), Changes(entry)
    PROVE  FormBase' /\ store' = <<entry>>
  <1>1. /\ store' = [store EXCEPT ![1] = entry] /\ Served("ok") /\ UNCHANGED <<bound, unkeyed>>
        /\ stale' \subseteq stale \cup Fields
    BY DEF Changes
  <1>2. form' = form /\ Fields = FieldsOf(form)
    BY <1>1, FormsAre, FieldsOfForms DEF Served, env, FormBase
  <1>3. entry \in ServerEntries(form)
    BY DEF ServerEntries, OnServer, IsEntry
  <1>4. store \in Seq(ServerEntries(form)) /\ Len(store) = 1
    <2>1. store \in Seq(ServerEntries(form)) /\ Len(store) <= 1
      BY DEF FormBase, StoreOK
    <2> DEFINE T == ServerEntries(form)
    <2>2. store \in Seq(T) /\ Len(store) <= 1
      BY <2>1
    <2> HIDE DEF T
    <2>3. Len(store) \in Nat \ {0}
      BY <2>2, EmptySeq
    <2>4. Len(store) = 1
      <3> DEFINE n == Len(store)
      <3>1. n <= 1 /\ n \in Nat \ {0}
        BY <2>2, <2>3
      <3> HIDE DEF n
      <3>2. n = 1
        BY <3>1
      <3> QED BY <3>2 DEF n
    <2> QED BY <2>2, <2>4 DEF T
  <1>5. store' \in Seq(ServerEntries(form)) /\ store' = <<entry>>
    BY <1>1, <1>3, <1>4
  <1>6. StoreOK'
    BY <1>2, <1>5 DEF StoreOK
  <1>7. stale' \subseteq FieldsOf(form) /\ unkeyed' \in BOOLEAN
    BY <1>1, <1>2 DEF FormBase, HistOK
  <1> QED BY <1>1, <1>5, <1>6, <1>7, ServedKeeps

\* What EditClient stores.
EditedClient ==
    LET kept == (IF admin THEN {} ELSE {"vkey", "group_id"} \cup Limits)
                \cup (IF admin \/ "allow_user_change_username" \in site THEN {} ELSE {"web_username"})
    IN  [f \in ClientFields |-> IF f \in kept THEN store[1][f] ELSE Posted[f]]

LEMMA FirstEntry ==
    ASSUME FormBase, store # <<>>
    PROVE  OnServer(form, store[1]) /\ store[1] \in [FieldsOf(form) -> Values] /\ 1 \in DOMAIN store
  <1> DEFINE T == ServerEntries(form)
  <1>1. store \in Seq(T)
    BY DEF FormBase, StoreOK
  <1> HIDE DEF T
  <1>2. Len(store) \in Nat \ {0}
    BY <1>1, EmptySeq
  <1>3. store[1] \in T /\ 1 \in DOMAIN store
    BY <1>1, <1>2, ElementOfSeq, LenProperties
  <1> QED BY <1>3 DEF T, ServerEntries

LEMMA EditedClientOnServer ==
    ASSUME FormBase, req.stage = "sent", form = "EditClient", store # <<>>
    PROVE  OnServer(form, EditedClient)
  <1>1. FieldsOf(form) = ClientFields /\ form \notin TunnelForms
    BY FieldsOfForms, KindsAre
  <1>2. IsEntry(form, Posted) /\ IsEntry(form, store[1])
    BY FirstEntry, PostedIsEntry DEF OnServer
  <1>3. \A f \in ClientFields : EditedClient[f] \in {store[1][f], Posted[f]}
    BY DEF EditedClient
  <1>4. EditedClient = [f \in ClientFields |-> EditedClient[f]]
    BY DEF EditedClient
  <1>5. IsEntry(form, EditedClient)
    BY <1>1, <1>2, <1>3, <1>4 DEF IsEntry
  <1> QED BY <1>5 DEF OnServer

LEMMA ServesKeep ==
    ASSUME FormBase, Serves
    PROVE  FormBase'
  <1>0. /\ "AddClient" \notin EditForms /\ "AddTunnel" \notin EditForms /\ "AddHost" \notin EditForms
        /\ \A page \in {"AddClient", "AddTunnel", "AddHost"} : \A e : IsEntry(page, e) => OnServer(page, e)
    BY DEF EditForms, OnServer
  <1>1. CASE ServeAddClient
    <2>1. req.stage = "sent" /\ form = "AddClient" /\ Adds(Posted, "ok", FALSE)
      BY <1>1 DEF ServeAddClient
    <2> QED BY <1>0, <2>1, PostedIsEntry, AddsKeep
  <1>2. CASE ServeEditClient
    <2>1. req.stage = "sent" /\ form = "EditClient" /\ store # <<>> /\ Changes(EditedClient)
      BY <1>2 DEF ServeEditClient, EditedClient
    <2> QED BY <2>1, EditedClientOnServer, ChangesKeep DEF EditForms
  <1>3. CASE ServeAddTunnel
    <2>1. req.stage = "sent" /\ form = "AddTunnel"
      BY <1>3 DEF ServeAddTunnel
    <2>2. OnServer(form, PostedOwn)
      BY <1>0, <2>1, PostedOwnIsEntry, KindsAre
    <2>3. \E outcome \in {"ok", "failed"}, again \in BOOLEAN : Adds(PostedOwn, outcome, again)
      BY <1>3 DEF ServeAddTunnel
    <2> QED BY <1>0, <2>1, <2>2, <2>3, AddsKeep
  <1>4. CASE ServeEditTunnel
    <2>1. req.stage = "sent" /\ form = "EditTunnel" /\ store # <<>> /\ PostedOwn["client_id"] # "0" /\ Changes(PostedOwn)
      BY <1>4 DEF ServeEditTunnel
    <2> QED BY <2>1, PostedOwnIsEntry, KindsAre, ChangesKeep DEF EditForms
  <1>5. CASE ServeAddHost
    <2>1. req.stage = "sent" /\ form = "AddHost"
      BY <1>5 DEF ServeAddHost
    <2> DEFINE h == [PostedOwn EXCEPT !["location"] = IF @ = NoText THEN "/" ELSE @]
    <2>2. Adds(h, "ok", FALSE)
      BY <1>5 DEF ServeAddHost
    <2>3. OnServer(form, h)
      <3>1. PostedOwn \in [HostFields -> Values] /\ IsEntry(form, PostedOwn) /\ FieldsOf(form) = HostFields /\ form \notin TunnelForms
        BY <2>1, PostedOwnIsEntry, FieldsOfForms, KindsAre
      <3>2. "/" \in Values /\ "location" \notin Numbers
        BY ValuesAre DEF Numbers, Limits
      <3>3. IsEntry(form, h)
        BY <3>1, <3>2 DEF IsEntry
      <3> QED BY <1>0, <2>1, <3>3
    <2> HIDE DEF h
    <2> QED BY <1>0, <2>1, <2>2, <2>3, AddsKeep
  <1>6. CASE ServeEditHost
    <2>1. req.stage = "sent" /\ form = "EditHost" /\ store # <<>> /\ PostedOwn["client_id"] # "0" /\ Changes(PostedOwn)
      BY <1>6 DEF ServeEditHost
    <2> QED BY <2>1, PostedOwnIsEntry, KindsAre, ChangesKeep DEF EditForms
  <1>7. CASE ServeGone \/ ServeRefused \/ Lose
    <2>1. /\ \E outcome \in {"ok", "failed"} : Served(outcome)
          /\ UNCHANGED <<db, stale, unkeyed>> /\ req.stage \in {"sent", "ok"}
      BY <1>7 DEF ServeGone, ServeRefused, Lose
    <2>2. StoreOK' /\ stale' \subseteq FieldsOf(form) /\ unkeyed' \in BOOLEAN
      BY <2>1 DEF Served, db, env, FormBase, StoreOK, HistOK
    <2> QED BY <2>1, <2>2, ServedKeeps
  <1> QED BY <1>1, <1>2, <1>3, <1>4, <1>5, <1>6, <1>7 DEF Serves

\* Another administrator.
LEMMA OtherSavesKeep ==
    ASSUME FormBase, OtherSaves \/ OtherDeletes
    PROVE  FormBase'
  <1>1. /\ UNCHANGED <<env, screen, saving, req, touched, unkeyed, typed, submits>>
        /\ others' = others + 1 /\ others < MaxOthers /\ form \in EditForms /\ store # <<>>
    BY DEF OtherSaves, OtherDeletes
  <1>2. EnvOK' /\ PageOK' /\ SnapOK' /\ SaveOK' /\ ViewOK'
    BY <1>1 DEF env, screen, FormBase, EnvOK, PageOK, SnapOK, SaveOK, ViewOK
  <1>3. /\ OtherField \in FieldsOf(form) /\ OtherField \notin {"client_id", "type"}
        /\ OtherField \in Numbers => OtherField = "max_conn"
        /\ form = "EditTunnel" => OtherField = "server_ip"
    <2>1. OtherField = CASE form \in ClientForms -> "max_conn" [] form \in TunnelForms -> "server_ip" [] form \in HostForms -> "target"
      BY DEF OtherField
    <2>2. form \in AllForms
      BY FormsAre DEF FormBase
    <2>3. CASE form \in ClientForms
      <3>1. OtherField = "max_conn" /\ FieldsOf(form) = ClientFields /\ form # "EditTunnel"
        BY <2>1, <2>3, KindsAre, FieldsOfForms
      <3> QED BY <3>1 DEF ClientFields, Limits
    <2>4. CASE form \in TunnelForms
      <3>1. OtherField = "server_ip" /\ FieldsOf(form) = TunnelFields
        BY <2>1, <2>4, KindsAre, FieldsOfForms
      <3> QED BY <3>1 DEF TunnelFields, TunnelText, Numbers, Limits
    <2>5. CASE form \in HostForms
      <3>1. OtherField = "target" /\ FieldsOf(form) = HostFields /\ form # "EditTunnel"
        BY <2>1, <2>5, KindsAre, FieldsOfForms
      <3> QED BY <3>1 DEF HostFields, HostText, Numbers, Limits
    <2> QED BY <2>2, <2>3, <2>4, <2>5 DEF AllForms
  <1>4. HistOK'
    <2>1. MaxOthers \in Nat
      BY BoundsAssumption
    <2>2. stale' \subseteq FieldsOf(form) /\ form' = form
      BY <1>1, <1>3 DEF OtherSaves, OtherDeletes, env, FormBase, HistOK
    <2> QED BY <1>1, <2>1, <2>2 DEF FormBase, HistOK
  <1>5. StoreOK'
    <2>0. form' = form
      BY <1>1 DEF env
    <2>1. CASE OtherDeletes
      BY <2>0, <2>1 DEF OtherDeletes, StoreOK
    <2>2. CASE OtherSaves
      <3> DEFINE x == IF OtherField \in Numbers THEN "3" ELSE "other"
                 e == [store[1] EXCEPT ![OtherField] = x]
      <3>1. store' = [store EXCEPT ![1] = e]
        BY <2>2 DEF OtherSaves
      <3>2. x \in Values /\ (OtherField \in Numbers => x \in NumValues)
        BY ValuesAre DEF NumValues
      <3>3. OnServer(form, store[1]) /\ store[1] \in [FieldsOf(form) -> Values]
        BY <1>1, FirstEntry
      <3> HIDE DEF x
      <3>4. /\ e \in [FieldsOf(form) -> Values]
            /\ \A f \in FieldsOf(form) \cap Numbers : e[f] \in NumValues
            /\ e["type"] = store[1]["type"] /\ e["client_id"] = store[1]["client_id"]
            /\ form = "EditTunnel" => \A f \in TunnelFields \ {"server_ip"} : e[f] = store[1][f]
        BY <1>3, <3>2, <3>3 DEF OnServer, IsEntry
      <3> HIDE DEF e
      <3>5. OnServer(form, e)
        BY <3>3, <3>4 DEF OnServer, IsEntry, TypeOnly
      <3>6. e \in ServerEntries(form)
        BY <3>4, <3>5 DEF ServerEntries
      <3> DEFINE T == ServerEntries(form)
      <3>7. store \in Seq(T) /\ Len(store) <= 1 /\ 1 \in 1..Len(store)
        <4>1. store \in Seq(T) /\ Len(store) <= 1
          BY <1>1 DEF FormBase, StoreOK
        <4> HIDE DEF T
        <4>2. Len(store) \in Nat \ {0}
          BY <1>1, <4>1, EmptySeq
        <4> QED BY <4>1, <4>2
      <3>8. e \in T
        BY <3>6
      <3> HIDE DEF T
      <3>9. store' \in Seq(T) /\ Len(store') <= 1
        BY <3>1, <3>7, <3>8, ExceptSeq
      <3> QED BY <2>0, <3>9 DEF StoreOK, T
    <2> QED BY <2>1, <2>2
  <1> QED BY <1>2, <1>4, <1>5 DEF FormBase

LEMMA FormBaseStep == FormBase /\ [FormNext]_formVars => FormBase'
  <1> SUFFICES ASSUME FormBase, [FormNext]_formVars
               PROVE  FormBase'
    OBVIOUS
  <1>1. CASE Effects
    <2>1. CASE LoadClient \/ LoadTunnel \/ LoadHost
      BY <2>1, LoadedKeeps DEF LoadClient, LoadTunnel, LoadHost, EditForms
    <2> QED BY <1>1, <2>1, ArrivalsKeep DEF Effects
  <1>2. CASE UNCHANGED formVars
    BY <1>2 DEF formVars, env, db, screen, FormBase, EnvOK, PageOK, SnapOK, StoreOK, SaveOK, HistOK, ViewOK
  <1> QED BY <1>1, <1>2, TypeKeeps, SubmitsKeep, LeavesKeep, ServesKeep, OtherSavesKeep DEF FormNext

\* While no page is open nothing happens on it.
LEMMA FormIdleStays == FormIdle /\ [FormNext]_formVars => FormIdle'
  <1> SUFFICES ASSUME FormIdle, [FormNext]_formVars
               PROVE  FormIdle'
    OBVIOUS
  <1>1. view = "none" /\ form = "none" /\ req.stage = "none"
    BY DEF FormIdle, NoReq
  <1>2. ~FormNext
    <2>1. ~(ConfigArrives \/ ClientsArrive \/ LoadServed \/ LoadFails)
      BY <1>1 DEF ConfigArrives, ClientsArrive, LoadServed, LoadFails
    <2>2. ~(LoadClient \/ LoadTunnel \/ LoadHost)
      BY <1>1 DEF LoadClient, LoadTunnel, LoadHost, Loaded
    <2>3. ~Submits
      BY <1>1 DEF Submits, SubmitAddClient, SubmitEditClient, SubmitAddTunnel, SubmitEditTunnel,
         SubmitAddHost, SubmitEditHost, Submit
    <2>4. ~(Type \/ SaveArrives \/ Cancel \/ Back)
      BY <1>1 DEF Type, SaveArrives, Cancel, Back, FormShown
    <2>5. ~Serves
      BY <1>1 DEF Serves, ServeAddClient, ServeEditClient, ServeAddTunnel, ServeEditTunnel,
         ServeAddHost, ServeEditHost, ServeGone, ServeRefused, Lose
    <2>6. ~(OtherSaves \/ OtherDeletes)
      BY <1>1 DEF OtherSaves, OtherDeletes, EditForms
    <2> QED BY <2>1, <2>2, <2>3, <2>4, <2>5, <2>6 DEF FormNext, Effects
  <1> QED BY <1>2 DEF formVars, env, db, screen, FormIdle

----------------------------------------------------------------------------
(* Saves that are repeated.  As long as no save was stored without a mark   *)
(* that the next one collides with, nobody has typed since the first save:  *)
(* what is under way is what the page holds, and the entry on the server    *)
(* carries the mark of that.                                                 *)
Marked(page, ports, e, v) ==
    /\ page = "AddClient" => e["vkey"] = Escape(v["vkey"])
    /\ page = "AddTunnel" /\ v["type"] = "secret" => e["type"] = "secret" /\ e["password"] = Escape(v["password"])
    /\ page = "AddTunnel" /\ v["type"] # "secret" => v["port"] \in ports
    /\ page = "AddHost" => /\ e["host"] = Escape(v["host"]) /\ e["scheme"] = Escape(v["scheme"])
                           /\ e["location"] = IF Escape(v["location"]) = NoText THEN "/" ELSE Escape(v["location"])
RetryInv ==
    form \notin EditForms /\ ~unkeyed =>
      /\ submits = 0 => store = <<>> /\ req = NoReq
      /\ req = NoReq \/ req.vals = vals
      /\ form = "AddClient" /\ submits # 0 => vals["vkey"] # NoText
      /\ \/ store = <<>>
         \/ \E e : store = <<e>> /\ Marked(form, bound, e, vals)

LEMMA RetryInvHolds == FormBase /\ RetryInv => RetryNeverDoubles
  <1> SUFFICES ASSUME FormBase, RetryInv, ~unkeyed
               PROVE  Len(store) <= 1
    BY DEF RetryNeverDoubles
  <1>1. CASE form \in EditForms
    BY <1>1 DEF FormBase, StoreOK
  <1>2. CASE form \notin EditForms
    <2>1. store = <<>> \/ \E e : store = <<e>>
      BY <1>2 DEF RetryInv
    <2> QED BY <2>1
  <1> QED BY <1>1, <1>2

LEMMA RetryInvInit == FormInit => RetryInv
  <1> SUFFICES ASSUME FormInit, form \notin EditForms
               PROVE  store = <<>> /\ req = NoReq /\ submits = 0
    BY DEF RetryInv
  <1>1. EnvOK
    BY DEF FormInit, EnvOK
  <1>2. form \in {"AddClient", "AddTunnel", "AddHost"}
    BY <1>1, FormsAre, KindsAre DEF AllForms, EditForms
  <1> QED BY <1>2 DEF FormInit

\* The marks of a save.
LEMMA PostedMarks ==
    ASSUME FormBase, req.stage = "sent"
    PROVE  /\ form = "AddClient" => Posted["vkey"] = Escape(req.vals["vkey"])
           /\ form = "AddTunnel" => /\ PostedOwn["type"] = req.vals["type"]
                                    /\ req.vals["type"] = "secret" => PostedOwn["password"] = Escape(req.vals["password"])
                                    /\ req.vals["type"] # "secret" => PostedOwn["port"] = req.vals["port"]
           /\ form = "AddHost" => \A f \in {"host", "scheme", "location"} : PostedOwn[f] = Escape(req.vals[f])
  <1> DEFINE sent == SentOf(form, req.config, req.vals)
  <1>1. /\ IsEntry(form, req.vals)
        /\ \A f \in FieldsOf(form) : Posted[f] = IF f \in sent THEN Escape(req.vals[f]) ELSE Zero(f)
    BY PostedIs DEF IsSave, OnPage
  <1>2. CASE form = "AddClient"
    <2>1. "vkey" \in sent /\ "vkey" \in FieldsOf(form) /\ form \notin TunnelForms \cup HostForms
      BY <1>2, SentOfForms, FieldsOfForms, KindsAre DEF ClientFields, ClientText, Limits
    <2> HIDE DEF sent
    <2> QED BY <1>1, <1>2, <2>1
  <1>3. CASE form = "AddTunnel"
    <2>1. form \in TunnelForms /\ req.vals["type"] \in Types
      BY <1>1, <1>3, KindsAre DEF IsEntry
    <2>2. sent = TunnelSent(req.config, req.vals) /\ FieldsOf(form) = TunnelFields
      BY <2>1, SentOfForms, FieldsOfForms
    <2>3. /\ "type" \in sent
          /\ req.vals["type"] = "secret" => "password" \in sent
          /\ req.vals["type"] # "secret" => "port" \in sent
      BY <2>1, <2>2, TypesAre DEF TunnelSent
    <2>4. {"type", "password", "port"} \subseteq TunnelFields /\ "port" \in Numbers
      BY DEF TunnelFields, TunnelText, Numbers
    <2>5. req.vals["port"] \in NumValues
      BY <1>1, <2>2, <2>4 DEF IsEntry
    <2>6. /\ Escape(req.vals["type"]) = req.vals["type"] /\ Escape(req.vals["port"]) = req.vals["port"]
      BY <2>1, <2>5, EscapeIs
    <2>7. \A f \in FieldsOf(form) \ {"client_id"} : PostedOwn[f] = Posted[f]
      BY <2>1, PostedOwnIsEntry
    <2> HIDE DEF sent
    <2> QED BY <1>1, <1>3, <2>2, <2>3, <2>4, <2>6, <2>7
  <1>4. CASE form = "AddHost"
    <2>1. form \in HostForms /\ sent = HostSent(req.config, req.vals) /\ FieldsOf(form) = HostFields
      BY <1>4, KindsAre, SentOfForms, FieldsOfForms
    <2>2. {"host", "scheme", "location"} \subseteq sent /\ {"host", "scheme", "location"} \subseteq HostFields
      BY <2>1 DEF HostSent, HostFields, HostText, Certs
    <2>3. \A f \in FieldsOf(form) \ {"client_id"} : PostedOwn[f] = Posted[f]
      BY <2>1, PostedOwnIsEntry
    <2> HIDE DEF sent
    <2> QED BY <1>1, <1>4, <2>1, <2>2, <2>3
  <1> QED BY <1>2, <1>3, <1>4

\* What is left as it is by most steps.
LEMMA RetryStays ==
    ASSUME RetryInv, UNCHANGED <<form, store, bound, vals, submits, unkeyed>>,
           req' = req \/ req' = NoReq \/ (req # NoReq /\ req'.vals = req.vals)
    PROVE  RetryInv'
  BY DEF RetryInv

LEMMA RetrySubmits ==
    ASSUME FormBase, RetryInv, Submits
    PROVE  RetryInv'
  <1>1. PICK p, v, params : Submit(p, v, params) /\ (v = vals \/ (v = WithKey /\ form = "AddClient"))
                            /\ (form = "AddClient" => v = WithKey)
    <2>1. \E p, v, params : Submit(p, v, params) /\ ((v = vals /\ p # "AddClient") \/ (v = WithKey /\ p = "AddClient"))
      BY DEF Submits, SubmitAddClient, SubmitEditClient, SubmitAddTunnel, SubmitEditTunnel, SubmitAddHost, SubmitEditHost
    <2> QED BY <2>1 DEF Submit
  <1>2. /\ UNCHANGED <<form, store, bound, unkeyed>> /\ vals' = v /\ submits' = submits + 1
        /\ submits < MaxSubmits[form] /\ req'.vals = v
    BY <1>1 DEF Submit, env, db
  <1>3. submits' # 0
    BY <1>2 DEF FormBase, HistOK
  <1>4. form = "AddClient" => v["vkey"] # NoText /\ (vals["vkey"] # NoText => v = vals)
    BY <1>1, <1>2, WithKeyOnPage
  <1>5. ASSUME form \notin EditForms, ~unkeyed
        PROVE  store = <<>> \/ v = vals
    BY <1>1, <1>4, <1>5 DEF RetryInv
  <1> QED BY <1>2, <1>3, <1>4, <1>5 DEF RetryInv

LEMMA RetryAdds ==
    ASSUME FormBase, RetryInv, req.stage = "sent", NEW entry, NEW outcome, NEW again \in BOOLEAN,
           Adds(entry, outcome, again), bound \subseteq bound',
           ~again => Marked(form, bound', entry, req.vals),
           ~again /\ ~unkeyed => store = <<>>
    PROVE  RetryInv'
  <1>1. /\ store' = Append(store, entry) /\ unkeyed' = (unkeyed \/ again)
        /\ UNCHANGED <<form, vals, submits>> /\ req' = [req EXCEPT !.stage = outcome]
    BY DEF Adds, Served, env, screen
  <1>2. IsSave(form, opened, {{}, Full(site, admin)}, req) /\ req # NoReq
    BY PostedIs DEF NoReq
  <1>3. req'.vals = req.vals
    BY <1>1, <1>2 DEF IsSave
  <1> SUFFICES ASSUME form \notin EditForms, ~unkeyed, ~again
               PROVE  RetryInv'
    BY <1>1 DEF RetryInv
  <1>4. store = <<>> /\ req.vals = vals /\ submits # 0
    BY <1>2 DEF RetryInv
  <1>5. store' = <<entry>>
    BY <1>1, <1>4
  <1>6. Marked(form, bound', entry, vals)
    BY <1>4
  <1> QED BY <1>1, <1>3, <1>4, <1>5, <1>6 DEF RetryInv

LEMMA RetryServes ==
    ASSUME FormBase, RetryInv, Serves
    PROVE  RetryInv'
  <1>0. /\ req.stage = "sent" => req # NoReq
        /\ form \notin EditForms /\ ~unkeyed /\ req # NoReq /\ store # <<>> =>
              \E e : store = <<e>> /\ Marked(form, bound, e, req.vals)
    BY DEF RetryInv, NoReq
  <1>1. CASE ServeAddClient
    <2>1. /\ form = "AddClient" /\ req.stage = "sent" /\ Adds(Posted, "ok", FALSE) /\ bound' = bound
          /\ \A e \in Entries : e["vkey"] # Posted["vkey"]
      BY <1>1 DEF ServeAddClient
    <2>2. Posted["vkey"] = Escape(req.vals["vkey"])
      BY <2>1, PostedMarks
    <2>3. Marked(form, bound', Posted, req.vals)
      BY <2>1, <2>2 DEF Marked
    <2>4. ASSUME ~unkeyed
          PROVE  store = <<>>
      <3> SUFFICES ASSUME store # <<>>
                   PROVE  FALSE
        OBVIOUS
      <3>1. PICK e : store = <<e>> /\ Marked(form, bound, e, req.vals)
        BY <1>0, <2>1, <2>4 DEF EditForms
      <3>2. e \in Entries
        BY <3>1 DEF Entries
      <3> QED BY <2>1, <2>2, <3>1, <3>2 DEF Marked
    <2> QED BY <2>1, <2>3, <2>4, RetryAdds
  <1>2. CASE ServeAddTunnel
    <2> DEFINE port == IF PostedOwn["type"] = "secret" THEN "0" ELSE PostedOwn["port"]
    <2>1. /\ form = "AddTunnel" /\ req.stage = "sent" /\ port \notin bound
          /\ \A e \in Entries : e["type"] = "secret" => e["password"] # PostedOwn["password"]
          /\ \/ /\ Adds(PostedOwn, "ok", PostedOwn["type"] # "secret" /\ port = "0")
                /\ bound' = bound \cup ({port} \ {"0"})
             \/ (\E answer \in {"ok", "failed"} : Adds(PostedOwn, answer, TRUE)) /\ UNCHANGED bound
      BY <1>2 DEF ServeAddTunnel
    <2>2. /\ PostedOwn["type"] = req.vals["type"]
          /\ req.vals["type"] = "secret" => PostedOwn["password"] = Escape(req.vals["password"])
          /\ req.vals["type"] # "secret" => PostedOwn["port"] = req.vals["port"]
      BY <2>1, PostedMarks
    <2>3. ASSUME ~unkeyed
          PROVE  store = <<>>
      <3> SUFFICES ASSUME store # <<>>
                   PROVE  FALSE
        OBVIOUS
      <3>1. PICK e : store = <<e>> /\ Marked(form, bound, e, req.vals)
        BY <1>0, <2>1, <2>3 DEF EditForms
      <3>2. e \in Entries
        BY <3>1 DEF Entries
      <3> QED BY <2>1, <2>2, <3>1, <3>2 DEF Marked
    <2>4. CASE \E answer \in {"ok", "failed"} : Adds(PostedOwn, answer, TRUE) /\ UNCHANGED bound
      BY <2>1, <2>4, RetryAdds
    <2>5. CASE Adds(PostedOwn, "ok", PostedOwn["type"] # "secret" /\ port = "0") /\ bound' = bound \cup ({port} \ {"0"})
      <3>1. ~(PostedOwn["type"] # "secret" /\ port = "0") => Marked(form, bound', PostedOwn, req.vals)
        BY <2>1, <2>2, <2>5 DEF Marked
      <3>2. bound \subseteq bound'
        BY <2>5
      <3> DEFINE again == PostedOwn["type"] # "secret" /\ port = "0"
      <3>3. again \in BOOLEAN /\ Adds(PostedOwn, "ok", again)
        BY <2>5
      <3>4. ~again => Marked(form, bound', PostedOwn, req.vals)
        BY <3>1
      <3> HIDE DEF again
      <3> QED BY <2>1, <2>3, <3>2, <3>3, <3>4, RetryAdds
    <2> QED BY <2>1, <2>4, <2>5
  <1>3. CASE ServeAddHost
    <2> DEFINE h == [PostedOwn EXCEPT !["location"] = IF @ = NoText THEN "/" ELSE @]
    <2>1. /\ form = "AddHost" /\ req.stage = "sent" /\ Adds(h, "ok", FALSE) /\ bound' = bound
          /\ \A e \in Entries : ~ /\ e["host"] = h["host"] /\ e["location"] = h["location"]
                                  /\ e["scheme"] \in {"all", h["scheme"]}
      BY <1>3 DEF ServeAddHost
    <2>2. /\ h["host"] = Escape(req.vals["host"]) /\ h["scheme"] = Escape(req.vals["scheme"])
          /\ h["location"] = IF Escape(req.vals["location"]) = NoText THEN "/" ELSE Escape(req.vals["location"])
      <3>1. /\ PostedOwn["host"] = Escape(req.vals["host"]) /\ PostedOwn["scheme"] = Escape(req.vals["scheme"])
            /\ PostedOwn["location"] = Escape(req.vals["location"])
        BY <2>1, PostedMarks
      <3>2. PostedOwn \in [HostFields -> Values] /\ {"host", "scheme", "location"} \subseteq HostFields
        BY <2>1, PostedOwnIsEntry, FieldsOfForms, KindsAre DEF HostFields, HostText
      <3> QED BY <3>1, <3>2
    <2> HIDE DEF h
    <2>3. Marked(form, bound', h, req.vals)
      BY <2>1, <2>2 DEF Marked
    <2>4. ASSUME ~unkeyed
          PROVE  store = <<>>
      <3> SUFFICES ASSUME store # <<>>
                   PROVE  FALSE
        OBVIOUS
      <3>1. PICK e : store = <<e>> /\ Marked(form, bound, e, req.vals)
        BY <1>0, <2>1, <2>4 DEF EditForms
      <3>2. e \in Entries
        BY <3>1 DEF Entries
      <3> QED BY <2>1, <2>2, <3>1, <3>2 DEF Marked
    <2> QED BY <2>1, <2>3, <2>4, RetryAdds
  <1>4. CASE ServeEditClient \/ ServeEditTunnel \/ ServeEditHost
    <2>1. form \in EditForms /\ form' = form
      BY <1>4 DEF ServeEditClient, ServeEditTunnel, ServeEditHost, Changes, Served, env, EditForms
    <2> QED BY <2>1 DEF RetryInv
  <1>5. CASE ServeGone \/ ServeRefused \/ Lose
    <2>1. /\ UNCHANGED <<form, store, bound, vals, submits, unkeyed>> /\ req.stage \in {"sent", "ok"}
          /\ \E outcome : req' = [req EXCEPT !.stage = outcome]
      BY <1>5 DEF ServeGone, ServeRefused, Lose, Served, env, screen, db
    <2>2. req # NoReq /\ IsSave(form, opened, {{}, Full(site, admin)}, req)
      BY <2>1 DEF FormBase, SaveOK, NoReq
    <2>3. req'.vals = req.vals
      BY <2>1, <2>2 DEF IsSave
    <2> QED BY <2>1, <2>2, <2>3, RetryStays
  <1> QED BY <1>1, <1>2, <1>3, <1>4, <1>5 DEF Serves

LEMMA RetryInvStep == FormBase /\ RetryInv /\ [FormNext]_formVars => RetryInv'
  <1> SUFFICES ASSUME FormBase, RetryInv, [FormNext]_formVars
               PROVE  RetryInv'
    OBVIOUS
  <1>1. CASE ConfigArrives \/ ClientsArrive \/ LoadServed \/ LoadFails
    BY <1>1, RetryStays DEF ConfigArrives, ClientsArrive, LoadServed, LoadFails, env, db
  <1>2. CASE LoadClient \/ LoadTunnel \/ LoadHost \/ OtherSaves \/ OtherDeletes
    <2>1. form \in EditForms /\ form' = form
      BY <1>2 DEF LoadClient, LoadTunnel, LoadHost, Loaded, OtherSaves, OtherDeletes, env, EditForms
    <2> QED BY <2>1 DEF RetryInv
  <1>3. CASE Type
    <2>1. /\ UNCHANGED <<form, store, bound, req, submits>>
          /\ unkeyed' = (unkeyed \/ (form \notin EditForms /\ submits > 0))
      BY <1>3 DEF Type, env, db
    <2>2. submits \in Nat
      BY BoundsAssumption DEF FormBase, HistOK, EnvOK
    <2> DEFINE saved == submits > 0
        again == form \notin EditForms
    <2>3. again /\ ~unkeyed' => ~unkeyed /\ ~saved
      <3>1. unkeyed' = (unkeyed \/ (again /\ saved))
        BY <2>1
      <3> HIDE DEF again, saved
      <3> QED BY <3>1, Zenon
    <2>4. ~saved => submits = 0
      BY <2>2
    <2> HIDE DEF saved
    <2> QED BY <2>1, <2>3, <2>4 DEF RetryInv
  <1>4. CASE SaveArrives \/ Cancel \/ Back
    BY <1>4, RetryStays DEF SaveArrives, Cancel, Back, env, db
  <1>5. CASE UNCHANGED formVars
    BY <1>5, RetryStays DEF formVars, env, db, screen
  <1> QED BY <1>1, <1>2, <1>3, <1>4, <1>5, RetrySubmits, RetryServes DEF FormNext, Effects

(* Saves that keep what was not touched, and store what was.  What a page    *)
(* holds and nobody touched is what the server has, but for what became      *)
(* stale; so is what a save under way holds; and so is the entry that is on   *)
(* its way to the page.                                                      *)
Agrees(page, v, e, except) == \A f \in FieldsOf(page) \ except : Same(v[f], e[f])
\* What an EditClient page for a user has not let him change.
Writable(page, c, chosen) ==
    page = "EditClient" =>
      /\ "vkey" \in chosen => "isAdmin" \in c
      /\ "web_username" \in chosen => "isAdmin" \in c \/ "allow_user_change_username" \in c

PageLoaded ==
    phase = "loaded" =>
      /\ form = "EditTunnel" => TypeOnly(vals)
      /\ store # <<>> => Agrees(form, vals, store[1], touched \cup stale)
SaveLoaded ==
    req # NoReq /\ req.phase = "loaded" =>
      /\ phase = "loaded" /\ req.touched \subseteq touched
      /\ \A f \in FieldsOf(form) \ touched : vals[f] = req.vals[f]
      /\ form = "EditTunnel" => TypeOnly(req.vals)
      /\ store # <<>> => Agrees(form, req.vals, store[1], req.touched \cup stale)
SnapFresh ==
    snapshot.stage = "found" /\ store # <<>> => Agrees(form, snapshot.entry, store[1], stale)
LoadInv ==
    /\ Writable(form, config, touched) /\ (req # NoReq => Writable(form, req.config, req.touched))
    /\ form \notin EditForms => phase = "blank" /\ "load" \notin asked
    /\ PageLoaded /\ SaveLoaded /\ SnapFresh

LEMMA SameAs ==
    ASSUME NEW v, NEW w
    PROVE  /\ Same(v, v) /\ Same(v, Escape(v))
           /\ Same(v, w) => Same(w, Escape(v)) /\ Same(w, v)
  <1>1. v \in Escaped => Escape(v) \in Escaped
    BY EscapeIs
  <1>2. v \notin Escaped => Escape(v) = v
    BY EscapeIs
  <1> QED BY <1>1, <1>2 DEF Same

LEMMA SitesAre ==
    ASSUME FormBase, req # NoReq
    PROVE  /\ IsSave(form, opened, {{}, Full(site, admin)}, req)
           /\ "isAdmin" \notin site /\ "notAdmin" \notin site
           /\ req.config = {} \/ (req.config = site \cup {"isAdmin"} /\ admin) \/ (req.config = site \cup {"notAdmin"} /\ ~admin)
  <1>1. IsSave(form, opened, {{}, Full(site, admin)}, req)
    BY DEF FormBase, SaveOK
  <1>2. {"isAdmin", "notAdmin"} \cap site = {}
    BY FormsAssumption DEF FormBase, EnvOK
  <1> QED BY <1>1, <1>2 DEF IsSave, Full

LEMMA LoadInvInit == FormInit => LoadInv
  <1> SUFFICES ASSUME FormInit PROVE LoadInv
    OBVIOUS
  <1>1. /\ phase = "blank" /\ req = NoReq /\ snapshot.stage = "none" /\ touched = {}
        /\ form \notin EditForms => "load" \notin asked
    BY DEF FormInit, NoReq
  <1> QED BY <1>1 DEF LoadInv, Writable, PageLoaded, SaveLoaded, SnapFresh

\* While the entry has not arrived no page shows it, and no save carries it.
LEMMA NotLoaded ==
    ASSUME FormBase, LoadInv, "load" \in asked
    PROVE  phase = "blank" /\ form \in EditForms /\ (req # NoReq => req.phase # "loaded")
  BY DEF FormBase, PageOK, LoadInv, SaveLoaded

LEMMA ArrivalsFresh ==
    ASSUME FormBase, LoadInv, ConfigArrives \/ ClientsArrive \/ LoadServed \/ LoadFails
    PROVE  LoadInv'
  <1>1. /\ UNCHANGED <<env, store, vals, req, touched>>
        /\ config' \in {config, Full(site, admin)} /\ asked' \subseteq asked
    BY DEF ConfigArrives, ClientsArrive, LoadServed, LoadFails, db, Full
  <1>2. Writable(form, config', touched)
    <2>1. config \in {{}, Full(site, admin)} /\ Writable(form, config, touched)
      BY DEF FormBase, PageOK, LoadInv
    <2> QED BY <1>1, <2>1 DEF Writable
  <1>3. CASE ConfigArrives \/ ClientsArrive
    <2>1. UNCHANGED <<phase, snapshot, stale>>
      BY <1>3 DEF ConfigArrives, ClientsArrive
    <2> QED BY <1>1, <1>2, <2>1 DEF env, LoadInv, PageLoaded, SaveLoaded, SnapFresh
  <1>4. CASE LoadServed
    <2>1. /\ "load" \in asked /\ UNCHANGED <<phase, asked>>
          /\ snapshot' = IF store # <<>> THEN [stage |-> "found", entry |-> store[1]] ELSE [stage |-> "missing"]
      BY <1>4 DEF LoadServed
    <2>2. store # <<>> => snapshot'.entry = store[1]
      BY <2>1
    <2>3. SnapFresh'
      BY <1>1, <2>2, SameAs DEF env, SnapFresh, Agrees
    <2> QED BY <1>1, <1>2, <2>1, <2>3, NotLoaded DEF env, LoadInv, PageLoaded, SaveLoaded
  <1>5. CASE LoadFails
    <2>1. "load" \in asked /\ phase' = "failed" /\ snapshot' = NoReq
      BY <1>5 DEF LoadFails
    <2>2. snapshot'.stage = "none"
      BY <2>1 DEF NoReq
    <2> QED BY <1>1, <1>2, <2>1, <2>2, NotLoaded DEF env, LoadInv, PageLoaded, SaveLoaded, SnapFresh
  <1> QED BY <1>3, <1>4, <1>5

LEMMA LoadedFresh ==
    ASSUME FormBase, LoadInv, NEW p \in EditForms, Loaded(p)
    PROVE  LoadInv'
  <1>1. /\ UNCHANGED <<env, store, req, stale, config>> /\ form = p /\ "load" \in asked /\ snapshot.stage = "found"
        /\ vals' = snapshot.entry /\ phase' = "loaded" /\ touched' = {} /\ snapshot' = NoReq
    BY DEF Loaded, db
  <1>2. OnServer(form, snapshot.entry) /\ form' = form /\ snapshot'.stage = "none"
    BY <1>1 DEF FormBase, SnapOK, NoReq, env
  <1>3. PageLoaded'
    BY <1>1, <1>2 DEF LoadInv, SnapFresh, PageLoaded, OnServer
  <1> QED BY <1>1, <1>2, <1>3, NotLoaded DEF LoadInv, Writable, SaveLoaded, SnapFresh

LEMMA TypeFresh ==
    ASSUME FormBase, LoadInv, Type
    PROVE  LoadInv'
  <1>1. UNCHANGED <<env, store, config, asked, snapshot, phase, req, stale>>
    BY DEF Type, db
  <1>f. PICK f \in Shown(config, vals) \ ReadOnly(config) :
             \E v \in ChoicesOf(f) : vals' = [vals EXCEPT ![f] = v] /\ touched' = touched \cup {f}
    BY DEF Type
  <1>2. /\ \A g : g # f => vals'[g] = vals[g]
        /\ touched' = touched \cup {f}
    BY <1>f DEF FormBase, PageOK, OnPage, IsEntry
  <1>3. form \in AllForms /\ f \in ShownOf(form, config, vals)
    BY FormsAre, ShownOfForm DEF FormBase
  <1>4. Writable(form, config, touched')
    <2>1. form = "EditClient" => f \notin EditClientReadOnly(config)
      BY DEF ReadOnly
    <2> QED BY <1>2, <2>1 DEF LoadInv, Writable, EditClientReadOnly
  <1>5. ASSUME form = "EditTunnel", TypeOnly(vals)
        PROVE  TypeOnly(vals')
    <2>1. f # "type" /\ f \in {"type", "client_id", "remark", "server_ip"} \cup TypeFields[vals["type"]]
      BY <1>3, <1>5, SentOfForms, KindsAre DEF ReadOnly, TunnelShown
    <2> QED BY <1>2, <1>5, <2>1 DEF TypeOnly
  <1>6. PageLoaded'
    BY <1>1, <1>2, <1>5 DEF env, LoadInv, PageLoaded, Agrees
  <1>7. SaveLoaded'
    BY <1>1, <1>2 DEF env, LoadInv, SaveLoaded
  <1>8. SnapFresh'
    BY <1>1 DEF env, LoadInv, SnapFresh
  <1> QED BY <1>1, <1>4, <1>6, <1>7, <1>8 DEF env, LoadInv

LEMMA SubmitsFresh ==
    ASSUME FormBase, LoadInv, Submits
    PROVE  LoadInv'
  <1>1. PICK p, v, params : Submit(p, v, params) /\ (p # "AddClient" => v = vals)
    <2>1. \E p, v, params : Submit(p, v, params) /\ (p # "AddClient" => v = vals)
      BY DEF Submits, SubmitAddClient, SubmitEditClient, SubmitAddTunnel, SubmitEditTunnel, SubmitAddHost, SubmitEditHost
    <2> QED BY <2>1
  <1>2. /\ UNCHANGED <<env, store, config, asked, snapshot, phase, touched, stale>> /\ form = p
        /\ vals' = v /\ req'.vals = v /\ req'.phase = phase /\ req'.config = config /\ req'.touched = touched
    BY <1>1 DEF Submit, db
  <1>3. form \notin EditForms => phase = "blank"
    BY DEF LoadInv
  <1>4. form \in EditForms => vals' = vals
    BY <1>1, <1>2 DEF EditForms
  <1>5. PageLoaded'
    BY <1>2, <1>3, <1>4 DEF env, LoadInv, PageLoaded
  <1>6. SaveLoaded'
    BY <1>2, <1>5 DEF env, SaveLoaded, PageLoaded
  <1> QED BY <1>2, <1>5, <1>6 DEF env, LoadInv, SnapFresh

\* What an edit leaves of the entry, and what it stores.
Kept == (IF admin THEN {} ELSE {"vkey", "group_id"} \cup Limits)
        \cup (IF admin \/ "allow_user_change_username" \in site THEN {} ELSE {"web_username"})
Edited == IF form = "EditClient" THEN EditedClient ELSE PostedOwn

LEMMA EditClientSends ==
    ASSUME FormBase, req.stage = "sent", form = "EditClient", NEW f \in ClientFields \ Kept
    PROVE  f \in SentOf(form, req.config, req.vals) \/ (f \in Limits /\ admin /\ f \notin req.shown)
  <1>0. PICK c : c = req.config
    OBVIOUS
  <1>1. /\ "isAdmin" \notin site /\ "notAdmin" \notin site
        /\ c = {} \/ (c = site \cup {"isAdmin"} /\ admin) \/ (c = site \cup {"notAdmin"} /\ ~admin)
        /\ req.shown = ShownOf(form, c, req.vals)
    BY <1>0, SitesAre DEF NoReq, IsSave
  <1>2. SentOf(form, c, req.vals) = EditClientSent(c) /\ req.shown = EditClientShown(c, req.vals) \cup EditClientLimits(c)
    BY <1>1, SentOfForms
  <1>3. CASE f \in Limits
    <2>1. admin
      BY <1>3 DEF Kept
    <2>2. "notAdmin" \notin c /\ (c # {} => "isAdmin" \in c)
      BY <1>1, <2>1
    <2>3. f \in AllowedLimits(c) => c # {}
      BY DEF AllowedLimits
    <2>4. f \notin EditClientShown(c, req.vals)
      BY <1>3 DEF EditClientShown, Limits
    <2> QED BY <1>0, <1>2, <1>3, <2>1, <2>2, <2>3, <2>4 DEF EditClientSent, EditClientLimits
  <1>4. CASE f \in {"vkey", "group_id"}
    <2>1. "notAdmin" \notin c
      BY <1>1, <1>4 DEF Kept
    <2> QED BY <1>0, <1>2, <1>4, <2>1 DEF EditClientSent
  <1>5. CASE f = "web_username"
    <2>1. "notAdmin" \notin c \/ "allow_user_change_username" \in c
      BY <1>1, <1>5 DEF Kept
    <2> QED BY <1>0, <1>2, <1>5, <2>1 DEF EditClientSent
  <1>6. CASE f \notin Limits \cup {"vkey", "group_id", "web_username"}
    BY <1>0, <1>2, <1>6 DEF EditClientSent, ClientFields, ClientText
  <1> QED BY <1>0, <1>3, <1>4, <1>5, <1>6

\* On the other pages whatever is shown is sent.
LEMMA ShownIsSent ==
    ASSUME FormBase, req.stage = "sent", form # "EditClient", NEW f \in FieldsOf(form)
    PROVE  \/ f \in SentOf(form, req.config, req.vals)
           \/ /\ f \notin req.shown
              /\ \/ form = "AddClient"
                 \/ f \in {"server_ip", "local_proxy"} \cup Certs
                 \/ form \in TunnelForms /\ f \notin TypeFields[req.vals["type"]] \cup {"type", "client_id", "remark"}
  <1>1. form \in AllForms /\ req.shown = ShownOf(form, req.config, req.vals) /\ IsEntry(form, req.vals)
    BY FormsAre, PostedIs DEF FormBase, IsSave, OnPage
  <1>2. CASE form = "AddClient"
    <2>1. FieldsOf(form) = ClientFields
      BY <1>2, FieldsOfForms, KindsAre
    <2>2. Limits \cap {"web_username", "web_password"} = {} /\ AllowedLimits(req.config) \subseteq Limits
      BY DEF Limits, AllowedLimits
    <2> QED BY <1>1, <1>2, <2>1, <2>2, SentOfForms DEF AddClientShown
  <1>3. CASE form \in TunnelForms
    <2>1. FieldsOf(form) = TunnelFields
      BY <1>3, FieldsOfForms
    <2> QED BY <1>1, <1>3, <2>1, SentOfForms DEF TunnelShown, TunnelSent
  <1>4. CASE form \in HostForms
    <2>1. FieldsOf(form) = HostFields
      BY <1>4, FieldsOfForms
    <2>2. "local_proxy" \notin Certs
      BY DEF Certs
    <2> QED BY <1>1, <1>4, <2>1, <2>2, SentOfForms DEF AddHostShown, HostSent
  <1> QED BY <1>1, <1>2, <1>3, <1>4, KindsAre DEF AllForms

LEMMA EditedIs ==
    ASSUME FormBase, req.stage = "sent", form \in EditForms, store # <<>>, NEW f \in FieldsOf(form)
    PROVE  \/ Edited[f] = store[1][f] /\ ((form = "EditClient" /\ f \in Kept) \/ (f = "client_id" /\ ~admin))
           \/ Edited[f] = Escape(req.vals[f])
           \/ f \notin req.shown /\ f \in ResetWhenHidden
           \/ /\ f \notin req.shown /\ form = "EditTunnel" /\ Edited[f] = Zero(f)
              /\ f \notin TypeFields[req.vals["type"]] \cup {"type", "client_id", "remark", "server_ip", "local_proxy"}
  <1>1. Posted[f] = IF f \in SentOf(form, req.config, req.vals) THEN Escape(req.vals[f]) ELSE Zero(f)
    BY PostedIs
  <1>2. CASE form = "EditClient"
    <2>1. f \in ClientFields /\ Edited[f] = IF f \in Kept THEN store[1][f] ELSE Posted[f]
      BY <1>2, FieldsOfForms, KindsAre DEF Edited, EditedClient, Kept
    <2>2. f \notin Kept => f \in SentOf(form, req.config, req.vals) \/ (f \in Limits /\ admin /\ f \notin req.shown)
      BY <1>2, <2>1, EditClientSends
    <2> QED BY <1>1, <1>2, <2>1, <2>2 DEF ResetWhenHidden
  <1>3. CASE form # "EditClient"
    <2>1. form \in {"EditTunnel", "EditHost"} /\ Edited = PostedOwn
      BY <1>3 DEF EditForms, Edited
    <2>2. CASE f = "client_id" /\ ~admin
      <3>1. Edited[f] = "own" /\ store[1][f] = "own"
        BY <2>1, <2>2, FirstEntry, PostedOwnIsEntry, KindsAre DEF OnServer
      <3> QED BY <2>2, <3>1
    <2>3. CASE f = "client_id" /\ admin
      <3>1. Edited[f] = req.vals[f]
        BY <2>1, <2>3, PostedOwnIsEntry, KindsAre
      <3>2. req.vals[f] \in NumValues
        BY <2>1, <2>3, PostedIs DEF IsSave, OnPage, IsEntry, Numbers
      <3> QED BY <3>1, <3>2, EscapeIs
    <2>4. CASE f # "client_id"
      <3>1. Edited[f] = Posted[f]
        BY <2>1, <2>4, PostedOwnIsEntry, KindsAre
      <3>2. form \in TunnelForms => form = "EditTunnel"
        BY <2>1, KindsAre
      <3> QED BY <1>1, <1>3, <2>1, <3>1, <3>2, ShownIsSent DEF ResetWhenHidden
    <2> QED BY <2>2, <2>3, <2>4
  <1> QED BY <1>2, <1>3

\* The fields of a save are not changed by its way to the server and back.
LEMMA ServedSave ==
    ASSUME FormBase, req.stage \in {"sent", "ok"}, NEW outcome, Served(outcome)
    PROVE  /\ req # NoReq /\ req'.vals = req.vals /\ req'.phase = req.phase
           /\ req'.config = req.config /\ req'.touched = req.touched
           /\ UNCHANGED <<env, config, asked, snapshot, phase, vals, touched>>
  <1>1. IsSave(form, opened, {{}, Full(site, admin)}, req) /\ req # NoReq
    BY DEF FormBase, SaveOK, NoReq
  <1>2. req' = [req EXCEPT !.stage = outcome]
    BY DEF Served
  <1> QED BY <1>1, <1>2 DEF IsSave, Served, screen

LEMMA AddsFresh ==
    ASSUME FormBase, LoadInv, req.stage = "sent", form \notin EditForms, NEW entry, NEW outcome, NEW again,
           Adds(entry, outcome, again)
    PROVE  LoadInv'
  <1>1. Served(outcome) /\ phase = "blank" /\ snapshot = NoReq
    BY DEF Adds, LoadInv, FormBase, SnapOK
  <1>2. /\ req # NoReq /\ req'.phase = req.phase /\ req'.config = req.config /\ req'.touched = req.touched
        /\ UNCHANGED <<env, config, asked, snapshot, phase, vals, touched>>
    BY <1>1, ServedSave
  <1>3. snapshot'.stage = "none" /\ req.phase # "loaded"
    BY <1>1, <1>2 DEF NoReq, LoadInv, SaveLoaded
  <1> QED BY <1>1, <1>2, <1>3 DEF env, LoadInv, PageLoaded, SaveLoaded, SnapFresh

LEMMA ChangesFresh ==
    ASSUME FormBase, LoadInv, req.stage = "sent", form \in EditForms, store # <<>>, Changes(Edited), OnServer(form, Edited)
    PROVE  LoadInv'
  <1>1. /\ Served("ok") /\ store' = <<Edited>> /\ store' # <<>> /\ store'[1] = Edited
        /\ stale' = stale \cup {f \in FieldsOf(form) : Edited[f] # store[1][f] /\ (req.phase = "blank" \/ f \notin req.shown)}
    <2>1. store' = <<Edited>>
      BY ChangesKeep
    <2>2. Fields = FieldsOf(form)
      BY FormsAre, FieldsOfForms DEF FormBase
    <2> QED BY <2>1, <2>2 DEF Changes
  <1>2. /\ req # NoReq /\ req'.vals = req.vals /\ req'.phase = req.phase
        /\ req'.config = req.config /\ req'.touched = req.touched
        /\ UNCHANGED <<env, config, asked, snapshot, phase, vals, touched>>
    BY <1>1, ServedSave
  <1>3. IsSave(form, opened, {{}, Full(site, admin)}, req)
    BY PostedIs
  <1>4. ASSUME NEW f \in FieldsOf(form) \ stale'
        PROVE  \/ Edited[f] = store[1][f]
               \/ req.phase = "loaded" /\ Edited[f] = Escape(req.vals[f])
    <2> SUFFICES ASSUME Edited[f] # store[1][f]
                 PROVE  req.phase = "loaded" /\ Edited[f] = Escape(req.vals[f])
      OBVIOUS
    <2>1. req.phase = "loaded" /\ f \in req.shown
      BY <1>1, <1>3 DEF IsSave
    <2> QED BY <2>1, EditedIs
  <1>5. PageLoaded'
    <2> SUFFICES ASSUME phase = "loaded"
                 PROVE  /\ form = "EditTunnel" => TypeOnly(vals)
                        /\ Agrees(form, vals, Edited, touched \cup stale')
      BY <1>1, <1>2 DEF env, PageLoaded
    <2>1. form = "EditTunnel" => TypeOnly(vals)
      BY DEF LoadInv, PageLoaded
    <2>2. ASSUME NEW f \in FieldsOf(form) \ (touched \cup stale')
          PROVE  Same(vals[f], Edited[f])
      <3>1. Same(vals[f], store[1][f])
        BY <1>1, <2>2 DEF LoadInv, PageLoaded, Agrees
      <3>2. req.phase = "loaded" => vals[f] = req.vals[f]
        BY <1>2, <2>2 DEF LoadInv, SaveLoaded
      <3> QED BY <1>4, <2>2, <3>1, <3>2, SameAs
    <2> QED BY <2>1, <2>2 DEF Agrees
  <1>6. SaveLoaded'
    <2> SUFFICES ASSUME req.phase = "loaded"
                 PROVE  Agrees(form, req.vals, Edited, req.touched \cup stale')
      BY <1>1, <1>2 DEF env, LoadInv, SaveLoaded
    <2>1. ASSUME NEW f \in FieldsOf(form) \ (req.touched \cup stale')
          PROVE  Same(req.vals[f], Edited[f])
      <3>1. Same(req.vals[f], store[1][f])
        BY <1>1, <1>2, <2>1 DEF LoadInv, SaveLoaded, Agrees
      <3> QED BY <1>4, <2>1, <3>1, SameAs
    <2> QED BY <2>1 DEF Agrees
  <1>7. SnapFresh'
    <2> SUFFICES ASSUME snapshot.stage = "found"
                 PROVE  Agrees(form, snapshot.entry, Edited, stale')
      BY <1>1, <1>2 DEF env, SnapFresh
    <2>1. req.phase # "loaded"
      <3>1. "load" \in asked
        BY DEF FormBase, SnapOK, NoReq
      <3> QED BY <1>2, <3>1, NotLoaded
    <2>2. \A f \in FieldsOf(form) \ stale : Same(snapshot.entry[f], store[1][f])
      BY DEF LoadInv, SnapFresh, Agrees
    <2>3. \A f \in FieldsOf(form) \ stale' : f \notin stale /\ Edited[f] = store[1][f]
      BY <1>1, <1>4, <2>1
    <2> QED BY <2>2, <2>3 DEF Agrees
  <1> QED BY <1>2, <1>5, <1>6, <1>7 DEF env, LoadInv

\* The step of each page's handler.
LEMMA EditsAre ==
    ASSUME FormBase, ServeEditClient \/ ServeEditTunnel \/ ServeEditHost
    PROVE  req.stage = "sent" /\ form \in EditForms /\ store # <<>> /\ Changes(Edited) /\ OnServer(form, Edited)
  <1>1. CASE ServeEditClient
    <2>1. req.stage = "sent" /\ form = "EditClient" /\ store # <<>> /\ Changes(EditedClient)
      BY <1>1 DEF ServeEditClient, EditedClient
    <2>2. Edited = EditedClient
      BY <2>1 DEF Edited
    <2> QED BY <2>1, <2>2, EditedClientOnServer DEF EditForms
  <1>2. CASE ServeEditTunnel \/ ServeEditHost
    <2>1. req.stage = "sent" /\ form \in {"EditTunnel", "EditHost"} /\ store # <<>> /\ PostedOwn["client_id"] # "0" /\ Changes(PostedOwn)
      BY <1>2 DEF ServeEditTunnel, ServeEditHost
    <2>2. Edited = PostedOwn
      BY <2>1 DEF Edited
    <2> QED BY <2>1, <2>2, PostedOwnIsEntry, KindsAre DEF EditForms
  <1> QED BY <1>1, <1>2

LEMMA ServesFresh ==
    ASSUME FormBase, LoadInv, Serves
    PROVE  LoadInv'
  <1>1. CASE ServeAddClient \/ ServeAddTunnel \/ ServeAddHost
    <2>1. /\ req.stage = "sent" /\ form \notin EditForms
          /\ \E entry, outcome, again : Adds(entry, outcome, again)
      BY <1>1 DEF ServeAddClient, ServeAddTunnel, ServeAddHost, EditForms
    <2> QED BY <2>1, AddsFresh
  <1>2. CASE ServeEditClient \/ ServeEditTunnel \/ ServeEditHost
    BY <1>2, EditsAre, ChangesFresh
  <1>3. CASE ServeGone \/ ServeRefused \/ Lose
    <2>1. /\ \E outcome \in {"ok", "failed"} : Served(outcome)
          /\ UNCHANGED <<store, stale>> /\ req.stage \in {"sent", "ok"}
      BY <1>3 DEF ServeGone, ServeRefused, Lose, db
    <2>2. /\ req # NoReq /\ req'.vals = req.vals /\ req'.phase = req.phase
          /\ req'.config = req.config /\ req'.touched = req.touched
          /\ UNCHANGED <<env, config, asked, snapshot, phase, vals, touched>>
      BY <2>1, ServedSave
    <2> QED BY <2>1, <2>2 DEF env, LoadInv, PageLoaded, SaveLoaded, SnapFresh
  <1> QED BY <1>1, <1>2, <1>3 DEF Serves

\* What another administrator changes is stale.
LEMMA OtherSavesFresh ==
    ASSUME FormBase, LoadInv, OtherSaves \/ OtherDeletes
    PROVE  LoadInv'
  <1>1. UNCHANGED <<env, config, asked, snapshot, phase, vals, req, touched>> /\ store # <<>>
    BY DEF OtherSaves, OtherDeletes, screen
  <1>2. CASE OtherDeletes
    <2>1. store' = <<>>
      BY <1>2 DEF OtherDeletes
    <2> QED BY <1>1, <2>1 DEF env, OtherDeletes, LoadInv, PageLoaded, SaveLoaded, SnapFresh
  <1>3. CASE OtherSaves
    <2> DEFINE x == IF OtherField \in Numbers THEN "3" ELSE "other"
    <2>1. store' = [store EXCEPT ![1][OtherField] = x] /\ stale' = stale \cup {OtherField}
      BY <1>3 DEF OtherSaves
    <2> HIDE DEF x
    <2>2. \A f \in FieldsOf(form) \ stale' : store'[1][f] = store[1][f]
      BY <1>1, <2>1, FirstEntry
    <2>3. ASSUME NEW v, NEW chosen, Agrees(form, v, store[1], chosen \cup stale)
          PROVE  Agrees(form, v, store'[1], chosen \cup stale')
      BY <2>1, <2>2, <2>3 DEF Agrees
    <2>4. ASSUME Agrees(form, snapshot.entry, store[1], stale)
          PROVE  Agrees(form, snapshot.entry, store'[1], stale')
      BY <2>1, <2>2, <2>4 DEF Agrees
    <2>5. PageLoaded'
      BY <1>1, <2>3 DEF env, LoadInv, PageLoaded
    <2>6. SaveLoaded'
      BY <1>1, <2>3 DEF env, LoadInv, SaveLoaded
    <2>7. SnapFresh'
      BY <1>1, <2>4 DEF env, LoadInv, SnapFresh
    <2> QED BY <1>1, <2>5, <2>6, <2>7 DEF env, LoadInv
  <1> QED BY <1>2, <1>3

LEMMA LoadInvStep == FormBase /\ LoadInv /\ [FormNext]_formVars => LoadInv'
  <1> SUFFICES ASSUME FormBase, LoadInv, [FormNext]_formVars
               PROVE  LoadInv'
    OBVIOUS
  <1>1. CASE Effects
    <2>1. CASE LoadClient \/ LoadTunnel \/ LoadHost
      BY <2>1, LoadedFresh DEF LoadClient, LoadTunnel, LoadHost, EditForms
    <2> QED BY <1>1, <2>1, ArrivalsFresh DEF Effects
  <1>2. CASE SaveArrives \/ Cancel \/ Back
    <2>1. UNCHANGED <<env, store, config, asked, snapshot, phase, vals, touched, stale>> /\ req' \in {req, NoReq}
      BY <1>2 DEF SaveArrives, Cancel, Back, db
    <2> QED BY <2>1 DEF env, LoadInv, PageLoaded, SaveLoaded, SnapFresh
  <1>3. CASE UNCHANGED formVars
    BY <1>3 DEF formVars, env, db, screen, LoadInv, PageLoaded, SaveLoaded, SnapFresh
  <1> QED BY <1>1, <1>2, <1>3, TypeFresh, SubmitsFresh, ServesFresh, OtherSavesFresh DEF FormNext

----------------------------------------------------------------------------
(* What one save does.                                                       *)

\* A save under way is accepted by the handler of its page.
LEMMA AcceptedBy ==
    ASSUME FormBase, [FormNext]_formVars, Accepted
    PROVE  \/ ServeAddClient \/ ServeAddTunnel \/ ServeAddHost
           \/ ServeEditClient \/ ServeEditTunnel \/ ServeEditHost
  <1>1. /\ req.stage = "sent" /\ req'.stage = "ok" /\ (form \in EditForms => store # <<>>) /\ saving
        /\ req' # req
    BY DEF Accepted, FormBase, SaveOK
  <1>2. ~Effects /\ ~Type /\ ~Cancel /\ ~Back /\ ~OtherSaves /\ ~OtherDeletes
    BY <1>1 DEF Effects, ConfigArrives, ClientsArrive, LoadServed, LoadClient, LoadTunnel, LoadHost, Loaded, LoadFails,
       Type, Cancel, Back, OtherSaves, OtherDeletes
  <1>3. ~Submits /\ ~SaveArrives
    BY <1>1 DEF Submits, SubmitAddClient, SubmitEditClient, SubmitAddTunnel, SubmitEditTunnel,
       SubmitAddHost, SubmitEditHost, Submit, SaveArrives
  <1>4. ~ServeRefused /\ ~Lose
    <2>1. "stage" \in DOMAIN req
      BY <1>1, PostedIs DEF IsSave
    <2> QED BY <1>1, <2>1 DEF ServeRefused, Lose, Served
  <1>5. ~ServeGone
    BY <1>1 DEF ServeGone, EditForms
  <1>6. FormNext
    BY <1>1 DEF formVars
  <1> QED BY <1>2, <1>3, <1>4, <1>5, <1>6 DEF FormNext, Serves

\* An edit that is accepted.
LEMMA EditAccepted ==
    ASSUME FormBase, [FormNext]_formVars, Accepted, form \in EditForms
    PROVE  /\ req.stage = "sent" /\ store # <<>> /\ store'[1] = Edited
           /\ Fields = FieldsOf(form)
  <1>1. ServeEditClient \/ ServeEditTunnel \/ ServeEditHost
    BY AcceptedBy DEF ServeAddClient, ServeAddTunnel, ServeAddHost, EditForms
  <1>2. req.stage = "sent" /\ store # <<>> /\ Changes(Edited) /\ OnServer(form, Edited)
    BY <1>1, EditsAre
  <1>3. store' = <<Edited>>
    BY <1>2, ChangesKeep
  <1>4. Fields = FieldsOf(form)
    BY FormsAre, FieldsOfForms DEF FormBase
  <1> QED BY <1>2, <1>3, <1>4

LEMMA KeepsUntouchedStep ==
    ASSUME FormBase, LoadInv, [FormNext]_formVars, Accepted, form \in EditForms, req.phase = "loaded",
           NEW f \in Fields \ (req.touched \cup stale), f \in ResetWhenHidden => f \in req.shown
    PROVE  Same(store[1][f], store'[1][f])
  <1>1. req.stage = "sent" /\ store # <<>> /\ store'[1] = Edited /\ f \in FieldsOf(form)
    BY EditAccepted
  <1>2. req # NoReq
    BY <1>1 DEF NoReq
  <1>3. Same(req.vals[f], store[1][f])
    BY <1>1, <1>2 DEF LoadInv, SaveLoaded, Agrees
  <1>4. CASE Edited[f] = store[1][f]
    BY <1>1, <1>4, SameAs
  <1>5. CASE Edited[f] = Escape(req.vals[f])
    BY <1>1, <1>3, <1>5, SameAs
  <1>6. CASE /\ form = "EditTunnel" /\ Edited[f] = Zero(f)
             /\ f \notin TypeFields[req.vals["type"]] \cup {"type", "client_id", "remark", "server_ip", "local_proxy"}
    <2>1. TypeOnly(req.vals) /\ f \in TunnelFields
      BY <1>1, <1>2, <1>6, FieldsOfForms, KindsAre DEF LoadInv, SaveLoaded
    <2>2. req.vals[f] = Zero(f)
      BY <1>6, <2>1 DEF TypeOnly
    <2> QED BY <1>1, <1>3, <1>6, <2>2, SameAs
  <1> QED BY <1>1, <1>4, <1>5, <1>6, EditedIs

\* What an entry that is added has of the page.
LEMMA AddAccepted ==
    ASSUME FormBase, [FormNext]_formVars, Accepted, form \notin EditForms
    PROVE  /\ req.stage = "sent" /\ Fields = FieldsOf(form)
           /\ \E e : store' = Append(store, e) /\
                 \A f \in FieldsOf(form) :
                    \/ e[f] = Posted[f] \/ (f = "client_id" /\ ~admin)
                    \/ f = "location" /\ Posted[f] = NoText
  <1>1. ServeAddClient \/ ServeAddTunnel \/ ServeAddHost
    BY AcceptedBy DEF ServeEditClient, ServeEditTunnel, ServeEditHost, EditForms
  <1>2. Fields = FieldsOf(form) /\ req.stage = "sent"
    BY FormsAre, FieldsOfForms DEF FormBase, Accepted
  <1>3. CASE ServeAddClient
    BY <1>2, <1>3 DEF ServeAddClient, Adds
  <1>4. CASE ServeAddTunnel \/ ServeAddHost
    <2>1. form \in TunnelForms \cup HostForms /\ (ServeAddHost => form = "AddHost")
      BY <1>4, KindsAre DEF ServeAddTunnel, ServeAddHost
    <2>2. /\ PostedOwn \in [FieldsOf(form) -> Values]
          /\ \A f \in FieldsOf(form) \ {"client_id"} : PostedOwn[f] = Posted[f]
          /\ PostedOwn["client_id"] = IF admin THEN req.vals["client_id"] ELSE "own"
      BY <1>2, <2>1, PostedOwnIsEntry
    <2>3. Posted["client_id"] = req.vals["client_id"]
      BY <1>2, <2>1, PostedIsEntry
    <2>4. \A f \in FieldsOf(form) : PostedOwn[f] = Posted[f] \/ (f = "client_id" /\ ~admin)
      BY <2>2, <2>3
    <2>5. CASE ServeAddTunnel
      <3>1. store' = Append(store, PostedOwn)
        BY <2>5 DEF ServeAddTunnel, Adds
      <3> QED BY <1>2, <2>4, <3>1
    <2>6. CASE ServeAddHost
      <3> DEFINE h == [PostedOwn EXCEPT !["location"] = IF @ = NoText THEN "/" ELSE @]
      <3>1. store' = Append(store, h)
        BY <2>6 DEF ServeAddHost, Adds
      <3>2. "location" \in FieldsOf(form)
        BY <2>1, <2>6, FieldsOfForms, KindsAre DEF HostFields, HostText
      <3>3. \A f \in FieldsOf(form) : h[f] = PostedOwn[f] \/ (f = "location" /\ PostedOwn[f] = NoText)
        BY <2>2, <3>2
      <3> HIDE DEF h
      <3>4. \A f \in FieldsOf(form) : \/ h[f] = Posted[f] \/ (f = "client_id" /\ ~admin)
                                      \/ f = "location" /\ Posted[f] = NoText
        BY <2>4, <3>3
      <3> QED BY <1>2, <3>1, <3>4
    <2> QED BY <1>4, <2>5, <2>6
  <1> QED BY <1>1, <1>3, <1>4

LEMMA TypedIsStoredStep ==
    ASSUME FormBase, LoadInv, [FormNext]_formVars, Accepted, NEW f \in req.touched \cap req.shown
    PROVE  \/ store'[SavedId][f] = Escape(req.vals[f])
           \/ f = "group_id" /\ ~admin /\ req.config = {}
           \/ f = "client_id" /\ ~admin
           \/ f = "location" /\ req.vals[f] = NoText
  <1>1. req.stage = "sent" /\ IsSave(form, opened, {{}, Full(site, admin)}, req) /\ req # NoReq /\ f \in FieldsOf(form)
    <2>1. req.stage = "sent"
      BY DEF Accepted
    <2> QED BY <2>1, PostedIs DEF IsSave, NoReq
  <1>2. CASE form \notin EditForms
    <2>1. PICK e : store' = Append(store, e) /\
             \A g \in FieldsOf(form) : \/ e[g] = Posted[g] \/ (g = "client_id" /\ ~admin)
                                       \/ g = "location" /\ Posted[g] = NoText
      BY <1>2, AddAccepted
    <2>2. store'[SavedId] = e
      <3>1. store \in Seq(ServerEntries(form))
        BY DEF FormBase, StoreOK
      <3>2. SavedId = Len(store')
        BY <1>2 DEF SavedId
      <3> DEFINE T == ServerEntries(form)
      <3>3. store \in Seq(T)
        BY <3>1
      <3> HIDE DEF T
      <3> QED BY <2>1, <3>2, <3>3, AppendProperties
    <2>3. Posted[f] = Escape(req.vals[f])
      <3>1. form # "EditClient"
        BY <1>2 DEF EditForms
      <3> QED BY <1>1, <3>1, ShownIsSent, PostedIs
    <2>4. Posted[f] = NoText => req.vals[f] = NoText
      BY <2>3, EscapeIs
    <2> QED BY <1>1, <2>1, <2>2, <2>3, <2>4
  <1>3. CASE form \in EditForms
    <2>1. store # <<>> /\ store'[1] = Edited /\ SavedId = 1
      BY <1>3, EditAccepted DEF SavedId
    <2>2. \/ Edited[f] = Escape(req.vals[f])
          \/ f = "client_id" /\ ~admin
          \/ form = "EditClient" /\ f \in Kept
      BY <1>1, <1>3, <2>1, EditedIs
    <2>3. ASSUME form = "EditClient", f \in Kept
          PROVE  f = "group_id" /\ ~admin /\ req.config = {}
      <3>1. /\ "isAdmin" \notin site /\ "notAdmin" \notin site
            /\ ~admin /\ (req.config = {} \/ req.config = site \cup {"notAdmin"})
        BY <1>1, <2>3, SitesAre DEF Kept
      <3>2. /\ req.shown = EditClientShown(req.config, req.vals) \cup EditClientLimits(req.config)
            /\ Writable(form, req.config, req.touched)
        BY <1>1, <2>3, SentOfForms DEF IsSave, LoadInv
      <3>3. "isAdmin" \notin req.config
        BY <3>1
      <3>4. f # "vkey"
        BY <2>3, <3>2, <3>3 DEF Writable
      <3>5. f # "web_username"
        BY <2>3, <3>1, <3>2, <3>3 DEF Writable, Kept, Limits
      <3>6. f \notin Limits
        BY <3>2, <3>3 DEF EditClientShown, EditClientLimits, Limits
      <3>7. f = "group_id"
        BY <2>3, <3>4, <3>5, <3>6 DEF Kept
      <3>8. "notAdmin" \notin req.config
        BY <3>2, <3>3, <3>7 DEF EditClientShown, EditClientLimits
      <3> QED BY <3>1, <3>7, <3>8
    <2> QED BY <2>1, <2>2, <2>3
  <1> QED BY <1>2, <1>3

----------------------------------------------------------------------------
(* The panel.                                                                *)

\* No list is open.
LEMMA IdleListInv == ListIdle => ListInv
  <1> SUFFICES ASSUME ListIdle
               PROVE  ListInv
    OBVIOUS
  <1>1. list = "none" /\ groups = <<>> /\ target = Closed
    BY DEF ListIdle
  <1> QED BY <1>1, EmptyTyped DEF ListInv, Closed

\* While no list is open there is nothing to click, nothing under way.
LEMMA ListIdleStays == ListIdle /\ [ListNext]_listVars => ListIdle'
  <1> SUFFICES ASSUME ListIdle, [ListNext]_listVars
               PROVE  ListIdle'
    OBVIOUS
  <1>1. /\ list = "none" /\ calls = {} /\ fetches = <<>> /\ target = Closed
        /\ target.mode = "closed" /\ DOMAIN fetches = {}
    BY NothingListed DEF ListIdle, Closed
  <1>2. ~Turns
    BY <1>1 DEF Turns, TurnPage, SelectGroup, SwitchType, ShowAllHosts, RowsShown, Acts
  <1>3. ~Searches
    BY <1>1 DEF Searches, TypeWord, SearchClients, SearchHosts, SearchTunnels, Acts
  <1>4. ~ListArrives /\ ~ListFails
    BY <1>1 DEF ListArrives, ListFails
  <1>5. ~ClickRow
    BY <1>1 DEF ClickRow, Acts
  <1>6. ~Dialogs
    BY <1>1 DEF Dialogs, OpenMenu, MenuAdd, MenuMove, MenuEdit, AddButton, LongPress, Release, CloseDialog,
                ConfirmAdd, ConfirmEdit, PickParent, MenuDelete, NothingOpen
  <1>7. ~Handlers
    BY <1>1 DEF Handlers, ServeRow, ServeGroup, CallFails, GroupsArrive, CallArrives
  <1>8. ~OtherWrites
    BY <1>1 DEF OtherWrites, Acts
  <1>9. UNCHANGED listVars
    BY <1>2, <1>3, <1>4, <1>5, <1>6, <1>7, <1>8 DEF ListNext
  <1> QED BY <1>9 DEF ListIdle, listVars, query, rows

\* Each part is closed or has what was proved of it.
FormPart == FormBase /\ RetryInv /\ LoadInv
ListPart == ListInv /\ (ListIdle \/ ListRows)
WebInv == (FormIdle \/ FormPart) /\ ListPart /\ AppInv

LEMMA WebInvInit == WebInit => WebInv
  BY FormBaseInit, RetryInvInit, LoadInvInit, ListInvInit, ListRowsInit, IdleListInv, AppInvInit
     DEF WebInit, WebInv, FormPart, ListPart

LEMMA PartsStep == [WebNext]_webVars => [FormNext]_formVars /\ [ListNext]_listVars /\ [AppNext]_appVars
  BY DEF WebNext, webVars

LEMMA WebInvStep == WebInv /\ [WebNext]_webVars => WebInv'
  <1> SUFFICES ASSUME WebInv, [WebNext]_webVars
               PROVE  WebInv'
    OBVIOUS
  <1>1. [FormNext]_formVars /\ [ListNext]_listVars /\ [AppNext]_appVars
    BY PartsStep
  <1>2. (FormIdle \/ FormPart)'
    BY <1>1, FormIdleStays, FormBaseStep, RetryInvStep, LoadInvStep DEF WebInv, FormPart
  <1>3. ListPart'
    BY <1>1, ListInvStep, ListIdleStays, ListRowsStep DEF WebInv, ListPart
  <1>4. AppInv'
    BY <1>1, AppInvStep DEF WebInv
  <1> QED BY <1>2, <1>3, <1>4 DEF WebInv

LEMMA WebInvHolds == WebSpec => []WebInv
  <1> QED BY WebInvInit, WebInvStep, PTL DEF WebSpec

(* Every variable of the frame, the lists and the forms stays in its set,   *)
(* and the controls of a page are those of its kind of entry, whatever       *)
(* arrives, is typed or is stored in the meantime.                           *)
THEOREM PanelTyped == WebSpec => []TypeOK
  <1>1. WebInv => TypeOK
    <2>1. FormPart => FormTypeOK
      BY FormBaseTypeOK DEF FormPart
    <2>2. FormIdle => FormTypeOK
      BY DEF FormTypeOK
    <2>3. ListPart => ListTypeOK
      BY ListRowsTypeOK DEF ListPart, ListTypeOK
    <2> QED BY <2>1, <2>2, <2>3, AppInvTypeOK DEF WebInv, TypeOK
  <1> QED BY <1>1, WebInvHolds, PTL

(* Wherever the user goes, a save leads or the end of the session throws     *)
(* him, App draws something; but for the types of tunnel that AddTunnel      *)
(* names otherwise than the sidebar does.                                    *)
THEOREM PanelDrawn == WebSpec => []EveryViewDrawn
  <1>1. FormIdle => view = "none"
    BY DEF FormIdle
  <1>2. FormPart => view = "form" \/ Renders(view) \/ (view \in BlankTypes /\ form = "AddTunnel" /\ opened = "0")
    BY DEF FormPart, FormBase, ViewOK
  <1>3. AppInv => panel \in {"none", "boot"} \/ Renders(panel) \/ panel \in BlankTypes
    BY DEF AppInv, AppTyped, Drawn
  <1>4. WebInv => EveryViewDrawn
    BY <1>1, <1>2, <1>3 DEF WebInv, EveryViewDrawn
  <1> QED BY <1>4, WebInvHolds, PTL

(* When all answers have come, a list shows the rows of the filter, the page *)
(* and the word it shows: nothing it asks for is forgotten, unless two       *)
(* answers crossed or one failed.                                            *)
THEOREM PanelRowsAnswer == WebSpec => []RowsAnswerQuery
  <1>1. ListIdle => RowsAnswerQuery
    BY DEF ListIdle, RowsAnswerQuery
  <1>2. WebInv => RowsAnswerQuery
    BY <1>1, ListRowsAnswer DEF WebInv, ListPart
  <1> QED BY <1>2, WebInvHolds, PTL

(* The tree of groups in the panel that is checked: it has every group but   *)
(* those on a cycle or below one, and offers no move that closes a cycle in   *)
(* the list it was drawn from.                                                *)
THEOREM PanelGroupsFaithful == WebSpec => []GroupsFaithful
  <1>1. WebInv => GroupsFaithful
    BY ListInvFaithful DEF WebInv, ListPart
  <1> QED BY <1>1, WebInvHolds, PTL

(* A save that is repeated because its answer was lost makes no second      *)
(* entry, as long as the server can know the first one again.                *)
THEOREM PanelRetries == WebSpec => []RetryNeverDoubles
  <1>1. FormIdle => RetryNeverDoubles
    <2>1. Len(<<>>) <= 1
      OBVIOUS
    <2> QED BY <2>1 DEF FormIdle, RetryNeverDoubles
  <1>2. WebInv => RetryNeverDoubles
    BY <1>1, RetryInvHolds DEF WebInv, FormPart
  <1> QED BY <1>2, WebInvHolds, PTL

\* No save is under way while no page is open.
LEMMA AcceptedOpen == WebInv /\ Accepted => FormPart
  BY DEF WebInv, Accepted, FormIdle, NoReq

(* An edit that was made on what the server answered changes no field that   *)
(* its user left alone, but for what handleSubmit lets the server reset.     *)
THEOREM PanelKeepsUntouched == WebSpec => KeepsUntouched
  <1>1. WebInv /\ [WebNext]_webVars =>
          [Accepted /\ form \in EditForms /\ req.phase = "loaded" =>
             \A f \in Fields \ (req.touched \cup stale) :
                (f \in ResetWhenHidden => f \in req.shown) => Same(store[1][f], store'[1][f])]_formVars
    BY PartsStep, AcceptedOpen, KeepsUntouchedStep DEF FormPart
  <1> QED BY <1>1, WebInvHolds, PTL DEF WebSpec, KeepsUntouched

(* What the user chose and sees when saving is what is stored: each page     *)
(* sends what it shows, and its handler stores what the page may send; of    *)
(* the passwords that EditClient claims to keep when empty nothing is said.  *)
THEOREM PanelStoresTyped == WebSpec => TypedIsStored
  <1>1. WebInv /\ [WebNext]_webVars =>
          [Accepted =>
             \A f \in req.touched \cap req.shown :
                \/ store'[SavedId][f] = Escape(req.vals[f])
                \/ f = "group_id" /\ ~admin /\ req.config = {}
                \/ f = "client_id" /\ ~admin
                \/ f \in {"location"} \cup SaidToBeKept /\ req.vals[f] = NoText]_formVars
    BY PartsStep, AcceptedOpen, TypedIsStoredStep DEF FormPart
  <1> QED BY <1>1, WebInvHolds, PTL DEF WebSpec, TypedIsStored
=============================================================================
