-------------------------------- MODULE Forest --------------------------------
(***************************************************************************)
(* What the tree API of node.c promises, without pointers: a forest of     *)
(* ordered trees.  Each node has a sequence of children, a node is the     *)
(* child of at most one node, and an operation moves one subtree to one    *)
(* place and disturbs no other order.                                      *)
(***************************************************************************)
EXTENDS SequencesExt

CONSTANT Node

VARIABLES
  nodes,     \* the nodes that exist
  children   \* the ordered children of each node

fvars == <<nodes, children>>

Init ==
  /\ nodes = {}
  /\ children = [n \in Node |-> <<>>]

\* The children of every node once n has left its place, if it has one.
Without(n) == [p \in Node |-> RemoveFirst(children[p], n)]

\* The nodes of the subtree at n.
Below(n) ==
  {m \in Node : \A S \in SUBSET Node :
     (n \in S /\ \A x \in S : ToSet(children[x]) \subseteq S) => m \in S}

Create(n) ==
  /\ n \notin nodes
  /\ nodes' = nodes \cup {n}
  /\ UNCHANGED children

Detach(n) ==
  /\ children' = Without(n)
  /\ UNCHANGED nodes

\* c becomes the child of p at position i of the list without c.
Place(c, p, i) ==
  /\ p \notin Below(c)
  /\ i \in 1 .. Len(Without(c)[p]) + 1
  /\ children' = [Without(c) EXCEPT ![p] = InsertAt(@, i, c)]
  /\ UNCHANGED nodes

\* new takes the place of old, which becomes a root.
Exchange(old, new) ==
  \E p \in Node :
    /\ old \in ToSet(children[p])
    /\ p \notin Below(new)
    /\ children' = [Without(new) EXCEPT
                      ![p] = [i \in DOMAIN @ |-> IF @[i] = old THEN new ELSE @[i]]]
    /\ UNCHANGED nodes

Discard(n) ==
  /\ nodes' = nodes \ Below(n)
  /\ children' = [p \in Node |-> IF p \in Below(n) THEN <<>> ELSE Without(n)[p]]

\* A copy of the subtree at n, as a root.
Copy(n, g) ==
  /\ DOMAIN g = Below(n)
  /\ nodes' = nodes \cup {g[x] : x \in Below(n)}
  /\ children' = [p \in Node |->
       IF \E x \in Below(n) : g[x] = p
       THEN LET x == CHOOSE y \in Below(n) : g[y] = p
            IN  [i \in DOMAIN children[x] |-> g[children[x][i]]]
       ELSE children[p]]

Copies(n) == {g \in [Below(n) -> Node \ nodes] :
  \A x, y \in Below(n) : x # y => g[x] # g[y]}

Next ==
  \/ \E n \in Node : Create(n)
  \/ \E n \in nodes : Detach(n) \/ Discard(n)
  \/ \E c, p \in nodes : \E i \in 1 .. Len(children[p]) + 1 : Place(c, p, i)
  \/ \E old, new \in nodes : Exchange(old, new)
  \/ \E n \in nodes : \E g \in Copies(n) : Copy(n, g)

Spec == Init /\ [][Next]_fvars
=============================================================================
