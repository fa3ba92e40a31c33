----------------------------- MODULE CategoryTree -----------------------------
(***************************************************************************)
(* The category tree and the administrators who move its nodes.  A move is *)
(* read without a lock, patched, and written under one advisory lock by a  *)
(* statement that walks the subtree of the node it moves; a delete takes   *)
(* no lock and promotes the children.                                      *)
(***************************************************************************)
EXTENDS Naturals

CONSTANTS
    Categories,    \* node ids
    Admins,        \* administrators' requests in flight
    MaxMoves,      \* bound on the requests begun
    Root,          \* the parent of a root
    Unborn, Gone   \* an id not handed out yet, and one whose row was deleted

ASSUME TreeAssumption ==
    /\ {Root, Unborn, Gone} \cap Categories = {} /\ Unborn # Gone /\ Root \notin {Unborn, Gone}
    /\ MaxMoves \in Nat

VARIABLES
    parent,     \* parent of every node that exists, by id
    holding,    \* categories some listing is filed under
    request,    \* each administrator's request
    moves       \* requests begun so far

treeVars == <<parent, holding, request, moves>>

Quiet == [op |-> "none"]

Nodes == {n \in Categories : parent[n] \notin {Unborn, Gone}}

\* Mutant: only the node and its children are walked.
BelowOnce(tree, n) == {n} \cup {c \in DOMAIN tree : tree[c] = n}

\* A set of nodes that holds the children of its members.
WithChildren(tree, S) == \A c \in DOMAIN tree : tree[c] \in S => c \in S

\* WITH RECURSIVE ... UNION over the tree the statement sees reaches the least set
\* that holds the node and the children of its members.
Below(tree, n) ==
    {c \in DOMAIN tree : \A S \in SUBSET DOMAIN tree : n \in S /\ WithChildren(tree, S) => c \in S}

CreateCategory(n) ==
    /\ parent[n] = Unborn
    /\ \E p \in Nodes \cup {Root} : parent' = [parent EXCEPT ![n] = p]
    /\ UNCHANGED <<holding, request, moves>>

\* The tree is read, the node found and the patch applied; no lock is held.
AdminUpdateCategory(a, n) ==
    /\ request[a] = Quiet
    /\ moves < MaxMoves
    /\ n \in Nodes
    /\ \E p \in Nodes \cup {Root} :
        request' = [request EXCEPT ![a] = [op |-> "move", node |-> n, to |-> p]]
    /\ moves' = moves + 1
    /\ UNCHANGED <<parent, holding>>

\* Mutant: moves do not wait for one another.
NoTreeLock == TRUE

TreeLockFree == \A b \in Admins : request[b].op \notin {"move_ok", "loop"}

\* Behind the lock the node is looked up again, and the statement walks the
\* tree of its own snapshot: a parent inside the moved subtree, the node
\* itself included, touches no row.
WalkSubtree(a) ==
    LET r == request[a]
        verdict == IF r.to \in Below(parent, r.node) THEN "loop" ELSE "move_ok"
    IN  /\ r.op = "move"
        /\ TreeLockFree
        /\ request' = [request EXCEPT ![a] = IF r.node \in Nodes THEN [r EXCEPT !.op = verdict]
                                             ELSE Quiet]
        /\ UNCHANGED <<parent, holding, moves>>

\* The commit; a parent that no longer exists fails the foreign key.
UpdateCategory(a) ==
    LET r == request[a]
    IN  /\ r.op \in {"move_ok", "loop"}
        /\ request' = [request EXCEPT ![a] = Quiet]
        /\ parent' = IF r.op = "move_ok" /\ r.node \in Nodes /\ r.to \in Nodes \cup {Root}
                     THEN [parent EXCEPT ![r.node] = r.to]
                     ELSE parent
        /\ UNCHANGED <<holding, moves>>

\* Mutant: the children of a deleted node keep its id.
LeaveChildren(n) == [parent EXCEPT ![n] = Gone]

\* ON DELETE SET NULL promotes the children.
PromoteChildren(n) ==
    [c \in Categories |-> CASE c = n -> Gone
                            [] parent[c] = n -> Root
                            [] OTHER -> parent[c]]

\* A category still holding listings is refused by the foreign key.
DeleteCategory(n) ==
    /\ n \in Nodes
    /\ n \notin holding
    /\ parent' = PromoteChildren(n)
    /\ UNCHANGED <<holding, request, moves>>

\* A seller files a listing under a category that exists, or the last one
\* leaves it.
FileListing(n) ==
    /\ n \in Nodes
    /\ holding' = IF n \in holding THEN holding \ {n} ELSE holding \cup {n}
    /\ UNCHANGED <<parent, request, moves>>

TreeInit ==
    /\ parent = [c \in Categories |-> Unborn]
    /\ holding = {}
    /\ request = [a \in Admins |-> Quiet]
    /\ moves = 0

TreeNext ==
    \/ \E n \in Categories :
        \/ CreateCategory(n)
        \/ DeleteCategory(n)
        \/ FileListing(n)
        \/ \E a \in Admins : AdminUpdateCategory(a, n)
    \/ \E a \in Admins : WalkSubtree(a) \/ UpdateCategory(a)

TreeSpec == TreeInit /\ [][TreeNext]_treeVars

(* Every node hangs from a node that exists, or is a root.                 *)
TreeTypeOK ==
    /\ DOMAIN parent = Categories
    /\ \A n \in Nodes : parent[n] \in Nodes \cup {Root}
    /\ holding \subseteq Nodes

(* Two administrators never close a loop between them: each move is legal  *)
(* in the tree its request read, and the walk under the tree lock decides  *)
(* on the tree as it is, so following parents from any node ends at a root.*)
NoCategoryLoop ==
    \A S \in SUBSET Nodes : S # {} => \E n \in S : parent[n] \notin S

=============================================================================
