------------------------------ MODULE NodeForest ------------------------------
(***************************************************************************)
(* The mapping under which NodeTree implements Forest: the children of a   *)
(* node, read along next.                                                  *)
(***************************************************************************)
EXTENDS NodeTree, SequencesExt

\* The walk from p's first_child along next, for as many steps as nodes have p
\* for their parent.
Walk(h, p) ==
  LET at[i \in 1 .. Cardinality({n \in Node : h.parent[n] = p})] ==
        IF i = 1 THEN h.first_child[p]
        ELSE IF at[i - 1] = NULL THEN NULL ELSE h.next[at[i - 1]]
  IN  at

ChildLists == [p \in Node |-> Walk(heap, p)]

Abstract == INSTANCE Forest WITH nodes <- live, children <- ChildLists

\* Every behaviour of the pointer structure is a behaviour of the ordered
\* forest: each call moves exactly the node it names to exactly the place it
\* names, in every neighbouring list.
ImplementsForest == Abstract!Spec

\* The parent's other children, and where n is among them.
Others(n, s) == Abstract!Without(s)[heap.parent[n]]
IndexAmong(n, s) == CHOOSE i \in DOMAIN Others(n, s) : Others(n, s)[i] = n

\* Each call does what it is named for, also when the node it moves is already
\* there or right beside: append puts it last and prepend first, the insertions
\* put it next to the node named, replace puts it in its place.
EachCall ==
  [][/\ \A n \in live : UnlinkNode(n) => Abstract!Detach(n)
     /\ \A n \in live : Free(n) => Abstract!Discard(n)
     /\ \A p, c \in live : PrependNode(p, c) => Abstract!Place(c, p, 1)
     /\ \A p, c \in live :
          AppendNode(p, c) => Abstract!Place(c, p, Len(Abstract!Without(c)[p]) + 1)
     /\ \A n, s \in live :
          InsertNodeBefore(n, s) =>
            Abstract!Place(s, heap.parent[n], IndexAmong(n, s))
     /\ \A n, s \in live :
          InsertNodeAfter(n, s) =>
            Abstract!Place(s, heap.parent[n], IndexAmong(n, s) + 1)
     /\ \A n, s \in live : Replace(n, s) => Abstract!Exchange(n, s)]_vars
=============================================================================
