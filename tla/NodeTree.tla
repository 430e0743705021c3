------------------------------- MODULE NodeTree -------------------------------
(***************************************************************************)
(* The tree API of node.c as a state machine: callers create nodes, link,  *)
(* move, replace, clone and free them in any order.  An operation whose    *)
(* checks fail returns 0 (the Ruby binding raises Markly::Error) and       *)
(* changes nothing, so only successful calls are steps.                    *)
(***************************************************************************)
EXTENDS NodeLinks

CONSTANTS
  CallTypes,    \* the node types callers create
  SelfSibling   \* whether a caller may insert a node beside itself

ASSUME CallTypesAssumption == CallTypes \subseteq NodeTypes \ {"none"}
ASSUME SelfSiblingAssumption == SelfSibling \in BOOLEAN

VARIABLE heap

vars == heap

Init ==
  heap = [type        |-> [n \in Node |-> "none"],
          next        |-> [n \in Node |-> NULL],
          prev        |-> [n \in Node |-> NULL],
          parent      |-> [n \in Node |-> NULL],
          first_child |-> [n \in Node |-> NULL],
          last_child  |-> [n \in Node |-> NULL]]

live == Live(heap)

-----------------------------------------------------------------------------
(***************************************************************************)
(* The operations.                                                         *)
(***************************************************************************)
New(n, t) ==
  /\ n \notin live
  /\ heap' = Fresh(heap, n, t)

UnlinkNode(n) == heap' = Unlink(heap, n)

InsertNodeBefore(n, s) ==
  /\ SelfSibling \/ s # n
  /\ MayInsertBeside(heap, n, s)
  /\ heap' = InsertBefore(heap, n, s)

InsertNodeAfter(n, s) ==
  /\ SelfSibling \/ s # n
  /\ MayInsertBeside(heap, n, s)
  /\ heap' = InsertAfter(heap, n, s)

Replace(old, new) ==
  /\ SelfSibling \/ new # old
  /\ MayInsertBeside(heap, old, new)
  /\ heap' = ReplaceNode(heap, old, new)

PrependNode(p, c) ==
  /\ CanContain(heap, p, c)
  /\ heap' = PrependChild(heap, p, c)

AppendNode(p, c) ==
  /\ CanContain(heap, p, c)
  /\ heap' = AppendChild(heap, p, c)

Free(n) == heap' = FreeNode(heap, n)

\* Mutant: the parent is not asked whether it may contain the new type.
SetTypeUnchecked(n, t) ==
  /\ heap.first_child[n] = NULL
  /\ t # heap.type[n]
  /\ heap' = [heap EXCEPT !.type = Store(heap.type, n, t)]

\* cmark_node_set_type.  Both callers (the table and the strikethrough
\* extension) convert a node that has no children.
SetType(n, t) ==
  LET retyped == [heap EXCEPT !.type = Store(heap.type, n, t)]
  IN  /\ heap.first_child[n] = NULL
      /\ t # heap.type[n]
      /\ CanContain(retyped, heap.parent[n], n)
      /\ heap' = retyped

\* The recursion of S_clone_node ends only on a node that is not its own
\* ancestor.
Clone(n, g) ==
  /\ n \notin AncestorsOrSelf(heap, heap.parent[n])
  /\ Clonable(heap, n)
  /\ heap' = CloneNode(heap, n, g)

CloneTargets(n) ==
  {g \in [Subtree(heap, n) -> Node \ live] :
     \A x, y \in Subtree(heap, n) : x # y => g[x] # g[y]}

Next ==
  \/ \E n \in Node, t \in CallTypes : New(n, t)
  \/ \E n \in live : UnlinkNode(n)
  \/ \E n, s \in live : InsertNodeBefore(n, s)
  \/ \E n, s \in live : InsertNodeAfter(n, s)
  \/ \E n, s \in live : Replace(n, s)
  \/ \E p, c \in live : PrependNode(p, c)
  \/ \E p, c \in live : AppendNode(p, c)
  \/ \E n \in live : Free(n)
  \/ \E n \in live, t \in CallTypes : SetType(n, t)
  \/ \E n \in live : \E g \in CloneTargets(n) : Clone(n, g)

Spec == Init /\ [][Next]_vars

-----------------------------------------------------------------------------
(***************************************************************************)
(* Properties.                                                             *)
(***************************************************************************)

\* The heap is a record of pointer fields and node types.
TypeOK == heap \in Heap

\* Neighbours agree on every link.  Every relinking function of node.c
\* updates up to seven pointers and must leave all of the links consistent,
\* whatever tree the moved node came from.
WellLinked == Linked(heap)

\* No node is its own ancestor.  Rendering, cloning and the Ruby walk recurse
\* on this.  It rests on the ancestor walk of S_can_contain, which only runs
\* with safety checks enabled.
Acyclic == Founded(heap.parent)

\* No pointer of an allocated node leads to a released one: cmark_node_free
\* releases every node that still points into the subtree it releases.
NoDangling ==
  \A n \in live : Targets(heap, n) \subseteq live \cup {NULL}

\* A parent may contain each of its children, so that cmark_node_clone, which
\* re-appends every child to the clone of its parent, never fails on a tree
\* the API built.
Containment ==
  \A n \in live :
    heap.parent[n] # NULL =>
      CanContainType(heap.type[heap.parent[n]], heap.type[n])

\* The repository's own checker, run at the end of parsing in debug builds,
\* finds nothing to report below any root (proved in NodeForestProofs).
NodeCheckClean ==
  \A n \in live : heap.parent[n] = NULL => CheckErrors(heap, n) = {}
=============================================================================
