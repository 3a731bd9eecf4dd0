---------------------------- MODULE GroupOutline ----------------------------
(* What the web pages make of the client groups: the flat list of getGroups *)
(* becomes a tree (buildTree), the tree a list of choices                   *)
(* (flattenWithDepth).  A list of groups is a function from the ids in it   *)
(* to their parent_id, which is 0 for none and may be of a group that is    *)
(* not, or not any more, in the list.                                        *)
EXTENDS Naturals, FiniteSets

CONSTANTS GroupIds,  \* the ids a group can have
          MaxDepth   \* the depth below which no group is offered, 5 in the code

ASSUME GroupIdsAssumption == 0 \notin GroupIds

GroupLists == UNION {[D -> GroupIds \cup {0}] : D \in SUBSET GroupIds}

\* A mutant of Roots: a group whose parent is missing is nobody's.
RootsListed(G) == {g \in DOMAIN G : G[g] = 0}

\* buildTree: a group without parent is a root, and so is one whose parent is
\* not in the list; every other group is a child of its parent.
Roots(G) == {g \in DOMAIN G : G[g] \notin DOMAIN G}

\* A mutant of Tree: the skipped group is left out, its children are not.
TreeSkipsNode(G, skip) ==
    {g \in DOMAIN G \ skip :
        \A S \in SUBSET DOMAIN G :
            (\A h \in DOMAIN G : h \in Roots(G) \/ G[h] \in S => h \in S) => g \in S}

\* The groups that going down from the roots reaches, without entering those
\* to skip: the smallest set with the roots and the children of its members.
Tree(G, skip) ==
    {g \in DOMAIN G :
        \A S \in SUBSET DOMAIN G :
            (\A h \in DOMAIN G \ skip : h \in Roots(G) \/ G[h] \in S => h \in S) => g \in S}

\* The parent of a group, its parent, and so on.
Above(G, g) ==
    {a \in DOMAIN G :
        \A S \in SUBSET DOMAIN G :
            (\A h \in S \cup {g} : G[h] \in DOMAIN G => G[h] \in S) => a \in S}

Depth(G, g) == Cardinality(Above(G, g))

\* What ClientGroupTree renders when everything is expanded.
Rendered(G) == Tree(G, {})

\* The parents GroupModal offers for a new group.
ParentOptions(G) == {0} \cup {g \in Tree(G, {}) : Depth(G, g) < MaxDepth}

\* The parents MoveGroupPopover offers for a group.
MoveOptions(G, g) == {0} \cup {h \in Tree(G, {g}) : Depth(G, h) < MaxDepth}

\* The groups MoveClientToGroupModal offers for a client.
ClientOptions(G) == {0} \cup {g \in Tree(G, {}) : Depth(G, g) < MaxDepth}

\* The groups on a cycle or below one: those of the sets that have the parents
\* of all their members.
Circular(G) == UNION {S \in SUBSET DOMAIN G : \A g \in S : G[g] \in S}
=============================================================================
