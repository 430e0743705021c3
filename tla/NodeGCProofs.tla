---------------------------- MODULE NodeGCProofs ----------------------------
(***************************************************************************)
(* The Ruby binding never leaves a reference to a freed node, for any      *)
(* number of nodes and objects, as long as no document has footnotes (the  *)
(* link from a reference to its definition is the one pointer that leads   *)
(* out of a tree, and NodeGCBorrowed shows where it ends).                 *)
(*                                                                         *)
(* What makes it true is a fact about whole trees that no single object    *)
(* knows.  Objects of one tree are connected: the parent of a node with a  *)
(* live object has a live object (Climbs), so the marks of any of them     *)
(* reach the root and from there all the others.  A collection therefore   *)
(* kills all the objects of a tree or none, and a set D of whole trees     *)
(* holds all that wait for their finaliser, however many of the nodes      *)
(* between them have already lost theirs (Apart).  The program starts from *)
(* an object outside D, and a link never crosses the border of D.          *)
(***************************************************************************)
EXTENDS NodeGC, NodeLinksProofs

\* The objects that wait for their finaliser, or not, by their nodes.
LiveObject(n) == user_data[n] # NONE /\ slot[user_data[n]] = "live"
DeadObject(n) == user_data[n] # NONE /\ slot[user_data[n]] = "dead"

\* The node of every object leads back to it, and the other way round; an
\* address without a node leads to none.
Tied ==
  /\ \A n \in Node : user_data[n] # NONE =>
       /\ n \in live
       /\ slot[user_data[n]] # "free"
       /\ data[user_data[n]] = n
  /\ \A w \in Object : data[w] # NULL =>
       /\ data[w] \in live
       /\ user_data[data[w]] = w

\* An object the program holds has not been collected.
HeldAlive ==
  \A w \in held : slot[w] = "live" /\ data[w] # NULL

\* The parent of a node with a live object has a live object.
Climbs ==
  \A n \in Node : LiveObject(n) /\ heap.parent[n] # NULL => LiveObject(heap.parent[n])

\* The node that waits for its object is allocated and has none, and if it has
\* a parent, it is the child or the sibling of a node the program holds.
Waiting ==
  wrapping # NULL =>
    /\ wrapping \in live
    /\ user_data[wrapping] = NONE
    /\ heap.parent[wrapping] # NULL =>
         \E w \in held : heap.parent[wrapping] \in {data[w], heap.parent[data[w]]}

\* The dead objects fill whole trees, in which no object lives and which
\* Markly_Node_wrap is not about to give one.
Severs(D) ==
  /\ WholeTrees(heap, D)
  /\ wrapping \notin D
  /\ \A n \in Node : DeadObject(n) => n \in D
  /\ \A n \in Node : LiveObject(n) => n \notin D

Apart == \E D \in SUBSET Node : Severs(D)

IInv ==
  /\ TypeOK
  /\ WellFormed(heap)
  /\ parent_footnote_def = [n \in Node |-> NULL]
  /\ Tied
  /\ HeldAlive
  /\ Climbs
  /\ Waiting
  /\ Apart

-----------------------------------------------------------------------------
(***************************************************************************)
(* What the program holds.                                                 *)
(***************************************************************************)

\* What a receiver wraps is an allocated node with a live object, outside the
\* trees of the dead.
LEMMA HeldNodes ==
  ASSUME IInv, NEW w \in held
  PROVE  /\ w \in Object
         /\ data[w] \in live /\ data[w] \in Node
         /\ user_data[data[w]] = w
         /\ LiveObject(data[w])
         /\ \A D : Severs(D) => data[w] \notin D
<1>1. w \in Object /\ slot[w] = "live" /\ data[w] # NULL
  BY DEF IInv, TypeOK, HeldAlive
<1>2. data[w] \in live /\ user_data[data[w]] = w
  BY <1>1 DEF IInv, Tied
<1>3. data[w] \in Node /\ LiveObject(data[w])
  BY <1>1, <1>2, ObjectAssumption DEF live, Live, LiveObject
<1> QED
  BY <1>1, <1>2, <1>3 DEF Severs

\* So is its parent, if it has one.
LEMMA HeldParents ==
  ASSUME IInv, NEW w \in held, heap.parent[data[w]] # NULL
  PROVE  /\ heap.parent[data[w]] \in live /\ heap.parent[data[w]] \in Node
         /\ LiveObject(heap.parent[data[w]])
         /\ \A D : Severs(D) => heap.parent[data[w]] \notin D
<1>1. /\ data[w] \in Node /\ LiveObject(data[w])
      /\ \A D : Severs(D) => data[w] \notin D
  BY HeldNodes
<1>2. heap.parent[data[w]] \in live /\ heap.parent[data[w]] \in Node
  BY <1>1, ParentsLive DEF IInv, live, Live
<1> QED
  BY <1>1, <1>2 DEF IInv, Climbs, Severs, WholeTrees

\* The nodes on a child list are the nodes with that parent.
LEMMA ChildListParents ==
  ASSUME WellFormed(heap), NEW n \in Node, NEW m \in Node
  PROVE  m \in ChildList(n) <=> heap.parent[m] = n
<1>1. heap \in Heap /\ Linked(heap) /\ Founded(heap.prev)
  BY DEF WellFormed
<1> DEFINE K == {x \in Node : heap.parent[x] = n}
<1>2. /\ heap.first_child[n] \in K \cup {NULL}
      /\ \A x \in K : heap.next[x] \in K \cup {NULL}
  BY <1>1, Pointers DEF Linked, FirstLinked, NextLinked
<1>3. ChildList(n) \subseteq K
  <2> HIDE DEF K
  <2>1. K \in SUBSET Node
    BY DEF K
  <2> QED
    BY <1>2, <2>1 DEF ChildList
<1>4. /\ heap.first_child[n] \in ChildList(n) \cup {NULL}
      /\ \A x \in ChildList(n) : heap.next[x] \in ChildList(n) \cup {NULL}
  <2>1. ASSUME heap.first_child[n] # NULL
        PROVE  heap.first_child[n] \in ChildList(n)
    BY <1>1, <2>1, Pointers DEF ChildList
  <2>2. ASSUME NEW x \in ChildList(n), heap.next[x] # NULL
        PROVE  heap.next[x] \in ChildList(n)
    BY <1>1, <2>2, Pointers DEF ChildList
  <2> QED
    BY <2>1, <2>2
<1>5. K \ ChildList(n) = {}
  <2> DEFINE S == K \ ChildList(n)
  <2>1. ASSUME NEW x \in S
        PROVE  heap.prev[x] \in S
    <3>1. x \in Node /\ heap.parent[x] = n
      OBVIOUS
    <3>2. heap.prev[x] # NULL
      BY <1>1, <1>4, <2>1, <3>1, NullAssumption DEF Linked, ParentLinked
    <3>3. /\ heap.prev[x] \in Node /\ heap.parent[heap.prev[x]] = n
          /\ heap.next[heap.prev[x]] = x
      BY <1>1, <3>1, <3>2, Pointers DEF Linked, PrevLinked
    <3>4. heap.prev[x] \notin ChildList(n)
      BY <1>4, <2>1, <3>1, <3>3, NullAssumption
    <3> QED
      BY <3>3, <3>4
  <2> QED
    BY <1>1, <2>1 DEF Founded
<1> QED
  BY <1>3, <1>5

\* An object marks those of its node's parent and children, and no others.
LEMMA MarksNeighbours ==
  ASSUME WellFormed(heap), NEW w \in Object, data[w] \in Node, NEW v
  PROVE  v \in Marks(w) <=>
           /\ v # NONE
           /\ \E m \in Node : /\ v = user_data[m]
                              /\ \/ heap.parent[m] = data[w]
                                 \/ heap.parent[data[w]] = m
<1>1. heap.parent[data[w]] \in Node \cup {NULL}
  BY Pointers DEF WellFormed
<1>2. ChildList(data[w]) \subseteq Node
  BY DEF ChildList
<1> QED
  BY <1>1, <1>2, ChildListParents, NullAssumption DEF Marks

-----------------------------------------------------------------------------
(***************************************************************************)
(* The calls of the program.  None touches an object; they differ in what  *)
(* becomes of the heap and in what they return.                            *)
(***************************************************************************)

\* The objects stay tied to their nodes while no node is freed.
LEMMA TiedKept ==
  ASSUME IInv, UNCHANGED rubyvars, Live(heap) \subseteq Live(heap')
  PROVE  Tied'
  BY DEF IInv, Tied, live, rubyvars

\* A call that adds nodes, none of them below an old one, and returns the root
\* of a new tree.
LEMMA GrowKeeps ==
  ASSUME IInv, UNCHANGED rubyvars, NEW r, Return(r),
         r \in Live(heap'), r \notin Live(heap), heap'.parent[r] = NULL,
         WellFormed(heap'), parent_footnote_def' = [n \in Node |-> NULL],
         lender' \in [Node -> Pointer \cup {STALE}],
         Live(heap) \subseteq Live(heap'),
         \A m \in Live(heap) : heap'.parent[m] = heap.parent[m],
         \A m \in Node \ Live(heap) : heap'.parent[m] \notin Live(heap)
  PROVE  IInv'
<1>1. r \in Node /\ user_data[r] = NONE
  BY DEF IInv, Tied, live, Live
<1>2. wrapping' = r /\ held' = held
  BY <1>1 DEF Return, rubyvars
<1>3. TypeOK'
  BY <1>1, <1>2 DEF IInv, TypeOK, rubyvars, WellFormed, Pointer
<1>4. Tied' /\ HeldAlive'
  BY <1>2, TiedKept DEF IInv, HeldAlive, rubyvars
<1>5. Climbs'
  <2>1. ASSUME NEW n \in Node, LiveObject(n), heap'.parent[n] # NULL
        PROVE  LiveObject(heap'.parent[n])
    BY <2>1 DEF IInv, Climbs, Tied, live, LiveObject
  <2>2. ASSUME NEW n
        PROVE  LiveObject(n)' <=> user_data[n] # NONE /\ slot[user_data[n]] = "live"
    BY DEF LiveObject, rubyvars
  <2> QED
    BY <2>1 DEF Climbs, LiveObject, rubyvars
<1>6. Waiting'
  BY <1>1, <1>2 DEF Waiting, live, rubyvars
<1>7. Apart'
  <2>1. PICK D \in SUBSET Node : Severs(D)
    BY DEF IInv, Apart
  <2>2. WholeTrees(heap', D)
    BY <2>1 DEF Severs, WholeTrees
  <2>3. r \notin D
    BY <2>1 DEF Severs, WholeTrees
  <2>4. Severs(D)'
    BY <1>2, <2>1, <2>2, <2>3 DEF Severs, DeadObject, LiveObject, rubyvars
  <2> QED
    BY <2>4 DEF Apart
<1> QED
  BY <1>3, <1>4, <1>5, <1>6, <1>7 DEF IInv

\* A call that moves nodes: each goes below a node the program holds or below
\* the parent of one, or becomes a root.
LEMMA MoveKeeps ==
  ASSUME IInv, UNCHANGED <<parent_footnote_def, lender, rubyvars, held, wrapping>>,
         Idle, WellFormed(heap'), Live(heap') = Live(heap),
         \A n \in Node : heap'.parent[n] # heap.parent[n] =>
           /\ \E w \in held : data[w] = n
           /\ \/ heap'.parent[n] = NULL
              \/ \E w \in held : heap'.parent[n] \in {data[w], heap.parent[data[w]]}
  PROVE  IInv'
<1>1. ASSUME NEW n \in Node, heap'.parent[n] # heap.parent[n], heap'.parent[n] # NULL
      PROVE  LiveObject(heap'.parent[n])
             /\ \A D : Severs(D) => heap'.parent[n] \notin D
  BY <1>1, HeldNodes, HeldParents
<1>2. ASSUME NEW n \in Node, heap'.parent[n] # heap.parent[n]
      PROVE  \A D : Severs(D) => n \notin D
  BY <1>2, HeldNodes
<1>3. TypeOK' /\ Tied' /\ HeldAlive' /\ Waiting'
  BY TiedKept DEF IInv, TypeOK, WellFormed, HeldAlive, Waiting, Idle, rubyvars
<1>4. Climbs'
  <2>1. ASSUME NEW n \in Node, LiveObject(n), heap'.parent[n] # NULL
        PROVE  LiveObject(heap'.parent[n])
    BY <1>1, <2>1 DEF IInv, Climbs
  <2> QED
    BY <2>1 DEF Climbs, LiveObject, rubyvars
<1>5. Apart'
  <2>1. PICK D \in SUBSET Node : Severs(D)
    BY DEF IInv, Apart
  <2>2. ASSUME NEW n \in Node, heap'.parent[n] # NULL
        PROVE  n \in D <=> heap'.parent[n] \in D
    BY <1>1, <1>2, <2>1, <2>2 DEF Severs, WholeTrees
  <2>3. Severs(D)'
    BY <2>1, <2>2 DEF Severs, WholeTrees, DeadObject, LiveObject, rubyvars
  <2> QED
    BY <2>3 DEF Apart
<1> QED
  BY <1>3, <1>4, <1>5 DEF IInv, rubyvars

\* Markly::Node.new
LEMMA NewNodeKeeps ==
  ASSUME IInv, NEW n \in Node, NEW t \in CallTypes, NewNode(n, t)
  PROVE  IInv'
<1>1. heap \in Heap /\ n \in Node \ Live(heap) /\ t \in NodeTypes \ {"none"}
  BY CallTypesAssumption DEF IInv, TypeOK, NewNode, live
<1>2. heap' = Fresh(heap, n, t)
  BY DEF NewNode
<1>3. WellFormed(heap')
  BY <1>1, <1>2, FreshWellFormed DEF IInv
<1>4. /\ Live(heap') = Live(heap) \cup {n}
      /\ \A m \in Node : heap'.parent[m] = IF m = n THEN NULL ELSE heap.parent[m]
  BY <1>1, <1>2, FreshFields
<1>5. \A m \in Node \ Live(heap) : heap.parent[m] \notin Live(heap)
  BY ParentsLive, NullAssumption DEF IInv, Live
<1>6. NULL \notin Live(heap) /\ Live(heap) \subseteq Node
  BY NullAssumption DEF Live
<1>7. UNCHANGED rubyvars /\ Return(n) /\ UNCHANGED <<parent_footnote_def, lender>>
  BY DEF NewNode
<1> QED
  BY <1>1, <1>3, <1>4, <1>5, <1>6, <1>7, GrowKeeps DEF IInv, TypeOK

\* Markly::Parser#parse
LEMMA ParseKeeps ==
  ASSUME IInv, NEW r \in Node, NEW p \in Node, NEW t \in Node, Parse(r, p, t)
  PROVE  IInv'
<1> DEFINE h1 == Fresh(heap, r, "document")
           h2 == Fresh(h1, p, "paragraph")
           h3 == Fresh(h2, t, "text")
           h4 == AppendChild(h3, r, p)
<1>1. /\ heap \in Heap /\ WellFormed(heap)
      /\ r \notin Live(heap) /\ p \notin Live(heap) /\ t \notin Live(heap)
      /\ r # p /\ r # t /\ p # t
  BY DEF IInv, TypeOK, Parse, live
<1>2. /\ heap' = AppendChild(h4, p, t)
      /\ UNCHANGED rubyvars /\ Return(r) /\ UNCHANGED parent_footnote_def
      /\ lender' = [lender EXCEPT ![t] = p]
  BY DEF Parse
<1>3. {"document", "paragraph", "text"} \subseteq NodeTypes \ {"none"}
  BY DEF NodeTypes, BlockTypes, InlineTypes
<1>4. /\ WellFormed(h1) /\ h1 \in Heap /\ Live(h1) = Live(heap) \cup {r}
      /\ \A m \in Node : h1.type[m] = IF m = r THEN "document" ELSE heap.type[m]
      /\ \A m \in Node : h1.parent[m] = IF m = r THEN NULL ELSE heap.parent[m]
  BY <1>1, <1>3, FreshWellFormed, FreshFields DEF WellFormed
<1> HIDE DEF h1
<1>5. /\ WellFormed(h2) /\ h2 \in Heap /\ Live(h2) = Live(heap) \cup {r, p}
      /\ \A m \in Node : h2.type[m] = IF m = p THEN "paragraph" ELSE h1.type[m]
      /\ \A m \in Node : h2.parent[m] = IF m = p THEN NULL ELSE h1.parent[m]
  BY <1>1, <1>3, <1>4, FreshWellFormed, FreshFields DEF WellFormed
<1> HIDE DEF h2
<1>6. /\ WellFormed(h3) /\ h3 \in Heap /\ Live(h3) = Live(heap) \cup {r, p, t}
      /\ \A m \in Node : h3.type[m] = IF m = t THEN "text" ELSE h2.type[m]
      /\ \A m \in Node : h3.parent[m] = IF m = t THEN NULL ELSE h2.parent[m]
  <2>1. t \in Node \ Live(h2) /\ "text" \in NodeTypes \ {"none"}
    BY <1>1, <1>3, <1>5
  <2>2. WellFormed(h3)
    BY <1>5, <2>1, FreshWellFormed
  <2>3. /\ Live(h3) = Live(h2) \cup {t}
        /\ \A m \in Node : h3.type[m] = IF m = t THEN "text" ELSE h2.type[m]
        /\ \A m \in Node : h3.parent[m] = IF m = t THEN NULL ELSE h2.parent[m]
    BY <1>5, <2>1, FreshFields
  <2> HIDE DEF h3
  <2> QED
    BY <1>5, <2>2, <2>3 DEF WellFormed
<1> HIDE DEF h3
<1>7. h3.type[r] = "document" /\ h3.type[p] = "paragraph" /\ h3.type[t] = "text"
  BY <1>1, <1>4, <1>5, <1>6
<1>8. CanContainType("document", "paragraph") /\ CanContainType("paragraph", "text")
  BY DEF CanContainType, BlockTypes, InlineTypes
<1>9. /\ WellFormed(h4) /\ h4 \in Heap /\ h4.type = h3.type /\ Live(h4) = Live(h3)
      /\ \A m \in Node : h4.parent[m] = IF m = p THEN r ELSE h3.parent[m]
  <2>1. r \in Live(h3) /\ p \in Live(h3) /\ CanContainType(h3.type[r], h3.type[p])
    BY <1>6, <1>7, <1>8
  <2> QED
    BY <1>6, <2>1, Appends
<1> HIDE DEF h4
<1>10. /\ WellFormed(heap') /\ Live(heap') = Live(heap) \cup {r, p, t}
       /\ \A m \in Node : heap'.parent[m] = IF m = t THEN p ELSE h4.parent[m]
  <2>1. /\ p \in Live(h4) /\ t \in Live(h4) /\ CanContainType(h4.type[p], h4.type[t])
        /\ Live(h4) = Live(heap) \cup {r, p, t}
    BY <1>6, <1>7, <1>8, <1>9
  <2> DEFINE h5 == AppendChild(h4, p, t)
  <2>2. /\ WellFormed(h5) /\ Live(h5) = Live(h4)
        /\ \A m \in Node : h5.parent[m] = IF m = t THEN p ELSE h4.parent[m]
    BY <1>9, <2>1, Appends
  <2>3. heap' = h5
    BY <1>2
  <2> HIDE DEF h5
  <2> QED
    BY <2>1, <2>2, <2>3
<1>11. \A m \in Node :
         heap'.parent[m] = CASE m = t -> p
                             [] m = p -> r
                             [] m = r -> NULL
                             [] OTHER -> heap.parent[m]
  BY <1>1, <1>4, <1>5, <1>6, <1>9, <1>10
<1>12. \A m \in Node \ Live(heap) : heap.parent[m] \notin Live(heap)
  BY <1>1, ParentsLive, NullAssumption DEF Live
<1>13. NULL \notin Live(heap) /\ Live(heap) \subseteq Node
  BY NullAssumption DEF Live
<1>14. \A m \in Live(heap) : heap'.parent[m] = heap.parent[m]
  BY <1>1, <1>11, <1>13
<1>15. \A m \in Node \ Live(heap) : heap'.parent[m] \notin Live(heap)
  BY <1>1, <1>11, <1>12, <1>13
<1>16. heap'.parent[r] = NULL
  BY <1>1, <1>11
<1>17. lender' \in [Node -> Pointer \cup {STALE}]
  BY <1>2 DEF IInv, TypeOK, Pointer
<1> QED
  BY <1>1, <1>2, <1>10, <1>14, <1>15, <1>16, <1>17, GrowKeeps DEF IInv

\* Markly::Node#dup
LEMMA DuplicateKeeps ==
  ASSUME IInv, NEW w \in Receivers, NEW g \in CloneTargets(data[w]), Duplicate(w, g)
  PROVE  IInv'
<1> DEFINE n == data[w]
           T == Subtree(heap, n)
<1>1. /\ heap \in Heap /\ WellFormed(heap) /\ n \in Live(heap) /\ n \in Node
      /\ n \notin AncestorsOrSelf(heap, heap.parent[n])
  BY HeldNodes DEF IInv, TypeOK, Receivers, Duplicate, live
<1>2. /\ g \in [T -> Node \ Live(heap)] /\ \A x, y \in T : x # y => g[x] # g[y]
      /\ n \in T /\ T \subseteq Node
  BY <1>1, SubtreeWalk DEF CloneTargets, live
<1>3. /\ heap' = CloneNode(heap, n, g)
      /\ UNCHANGED rubyvars /\ UNCHANGED lender /\ Return(g[n])
      /\ parent_footnote_def' =
           [m \in Node |->
              IF \E x \in DOMAIN g : g[x] = m
              THEN LET d == parent_footnote_def[CHOOSE x \in DOMAIN g : g[x] = m]
                   IN  IF d \in DOMAIN g THEN g[d] ELSE NULL
              ELSE parent_footnote_def[m]]
  BY DEF Duplicate
<1>4. Descendants(heap, T, n)
  BY <1>1, SubtreeDescendants
<1>5. WellFormed(heap')
  BY <1>1, <1>2, <1>3, CloneWellFormed
<1> HIDE DEF n, T
<1>6. Copied(heap, heap', T, n, g)
  BY <1>1, <1>2, <1>3, CloneFields
<1>7. \A m \in Live(heap), x \in T : g[x] # m
  BY <1>2
<1>8. /\ \A m \in Live(heap) : heap'.type[m] = heap.type[m]
      /\ \A m \in Live(heap) : heap'.parent[m] = heap.parent[m]
  BY <1>6, <1>7 DEF Copied, Live
<1>9. Live(heap) \subseteq Live(heap')
  BY <1>8 DEF Live
<1>10. ASSUME NEW m \in Node \ Live(heap)
       PROVE  heap'.parent[m] \notin Live(heap)
  <2>1. CASE \E x \in T : g[x] = m
    <3>1. PICK x \in T : g[x] = m
      BY <2>1
    <3>2. heap'.parent[m] \in {NULL, Image(g, heap.parent[x])}
      BY <1>6, <3>1 DEF Copied
    <3>3. Image(g, heap.parent[x]) \notin Live(heap) /\ NULL \notin Live(heap)
      BY <1>2, NullAssumption DEF Image, Live
    <3> QED
      BY <3>2, <3>3
  <2>2. CASE \A x \in T : g[x] # m
    <3>1. heap'.parent[m] = heap.parent[m]
      BY <1>6, <2>2 DEF Copied
    <3>2. heap.parent[m] = NULL
      BY <1>1, ParentsLive
    <3> QED
      BY <3>1, <3>2, NullAssumption DEF Live
  <2> QED
    BY <2>1, <2>2
<1>11. /\ g[n] \in Node \ Live(heap)
       /\ heap'.parent[g[n]] = NULL
       /\ heap'.type[g[n]] = heap.type[n]
  BY <1>2, <1>6 DEF Copied
<1>12. g[n] \in Live(heap')
  BY <1>1, <1>11 DEF Live
<1>13. parent_footnote_def' = [m \in Node |-> NULL]
  <2>1. DOMAIN g \subseteq Node
    BY <1>2
  <2>2. \A x \in Node : parent_footnote_def[x] = NULL
    BY DEF IInv
  <2>3. ASSUME NEW m \in Node, \E x \in DOMAIN g : g[x] = m
        PROVE  parent_footnote_def[CHOOSE x \in DOMAIN g : g[x] = m] = NULL
    BY <2>1, <2>2, <2>3
  <2>4. NULL \notin DOMAIN g
    BY <2>1, NullAssumption
  <2> QED
    BY <1>3, <2>2, <2>3, <2>4
<1> QED
  BY <1>3, <1>5, <1>8, <1>9, <1>10, <1>11, <1>12, <1>13, GrowKeeps DEF IInv, TypeOK

\* parent, first_child, last_child, next and previous.  What a link leads to is
\* in the tree of the receiver, so that its object, if it has one, is alive.
LEMMA NavigateKeeps ==
  ASSUME IInv, NEW w \in Receivers, Navigate(w)
  PROVE  IInv'
<1> DEFINE n == data[w]
<1>1. /\ w \in held /\ n \in Node /\ LiveObject(n)
      /\ \A D : Severs(D) => n \notin D
  BY HeldNodes DEF Receivers
<1>2. parent_footnote_def[n] = NULL
  BY <1>1 DEF IInv
<1>3. PICK m \in Targets(heap, n) \ {NULL} :
        UNCHANGED <<treevars, rubyvars>> /\ Return(m) /\ Idle
  BY <1>2 DEF Navigate, Targets
<1>4. m \in Node /\ m \in live
  BY <1>1, <1>3, Pointers, NullAssumption
     DEF IInv, WellFormed, Closed, Targets, live, Live
<1>5. \A D : Severs(D) => m \notin D
  BY <1>1, <1>3, NeighboursTogether DEF IInv, Severs
<1> HIDE DEF n
<1>6. CASE user_data[m] # NONE
  <2>1. LiveObject(m)
    <3>1. ~DeadObject(m)
      BY <1>4, <1>5 DEF IInv, Apart, Severs
    <3>2. user_data[m] \in Object /\ slot[user_data[m]] # "free"
      BY <1>4, <1>6 DEF IInv, TypeOK, Tied
    <3>3. slot[user_data[m]] \in {"free", "live", "dead"}
      BY <3>2 DEF IInv, TypeOK
    <3> QED
      BY <1>6, <3>1, <3>2, <3>3 DEF DeadObject, LiveObject
  <2>2. held' = held \cup {user_data[m]} /\ wrapping' = NULL
    BY <1>3, <1>6 DEF Return, rubyvars
  <2>3. user_data[m] \in Object /\ slot[user_data[m]] = "live"
        /\ data[user_data[m]] # NULL
    BY <1>4, <2>1, NullAssumption DEF IInv, TypeOK, Tied, LiveObject
  <2>4. TypeOK' /\ HeldAlive' /\ Waiting'
    BY <1>3, <2>2, <2>3
       DEF IInv, TypeOK, HeldAlive, Waiting, treevars, rubyvars, Pointer
  <2>5. Tied' /\ Climbs'
    BY <1>3 DEF IInv, Tied, Climbs, LiveObject, live, treevars, rubyvars
  <2>6. Apart'
    BY <1>3, <2>2, NullAssumption
       DEF IInv, Apart, Severs, DeadObject, LiveObject, treevars, rubyvars
  <2> QED
    BY <1>3, <2>4, <2>5, <2>6 DEF IInv, treevars
<1>7. CASE user_data[m] = NONE
  <2>1. held' = held /\ wrapping' = m
    BY <1>3, <1>7 DEF Return, rubyvars
  <2>2. ASSUME heap.parent[m] # NULL
        PROVE  heap.parent[m] \in {n, heap.parent[n]}
    <3>1. m # heap.parent[n]
      BY <1>1, <1>3, <1>7 DEF IInv, Climbs, LiveObject
    <3>2. Linked(heap)
      BY DEF IInv, WellFormed
    <3> QED
      BY <1>1, <1>3, <3>1, <3>2
         DEF Targets, Linked, FirstLinked, LastLinked, NextLinked, PrevLinked
  <2>3. Waiting'
    BY <1>1, <1>3, <1>4, <1>7, <2>1, <2>2 DEF Waiting, live, treevars, rubyvars, n
  <2>4. TypeOK' /\ HeldAlive' /\ Tied' /\ Climbs'
    BY <1>3, <1>4, <2>1
       DEF IInv, TypeOK, HeldAlive, Tied, Climbs, LiveObject, live, treevars, rubyvars,
           Pointer
  <2>5. Apart'
    BY <1>3, <1>5, <2>1
       DEF IInv, Apart, Severs, DeadObject, LiveObject, treevars, rubyvars
  <2> QED
    BY <1>3, <2>3, <2>4, <2>5 DEF IInv, treevars
<1> QED
  BY <1>6, <1>7

\* The edits.  Whatever they relink, the only nodes that change parents are the
\* two the program named, and the only new parents the receiver and its parent.
LEMMA EditKeeps ==
  ASSUME SelfSibling = FALSE, IInv, NEW v \in Receivers, NEW w \in Receivers, Edit(v, w)
  PROVE  IInv'
<1> DEFINE n == data[v]
           m == data[w]
<1>1. /\ heap \in Heap /\ WellFormed(heap) /\ v \in held /\ w \in held
      /\ n \in Live(heap) /\ n \in Node /\ m \in Live(heap) /\ m \in Node
  BY HeldNodes DEF IInv, TypeOK, Receivers, live
<1>2. Idle /\ UNCHANGED <<parent_footnote_def, lender, rubyvars, held, wrapping>>
  BY DEF Edit
<1>3. ASSUME CanContain(heap, n, m),
             heap' = AppendChild(heap, n, m) \/ heap' = PrependChild(heap, n, m)
      PROVE  IInv'
  <2>1. WellFormed(heap')
    BY <1>1, <1>3, AppendWellFormed, PrependWellFormed DEF CanContain
  <2>2. Live(heap') = Live(heap)
    BY <1>1, <1>3, RelinkedTypes DEF Live
  <2>3. \A x \in Node : heap'.parent[x] = IF x = m THEN n ELSE heap.parent[x]
    BY <1>1, <1>3, Parents
  <2> QED
    BY <1>1, <1>2, <2>1, <2>2, <2>3, MoveKeeps
<1>4. ASSUME n # m, MayInsertBeside(heap, n, m),
             heap' = InsertBefore(heap, n, m) \/ heap' = InsertAfter(heap, n, m)
      PROVE  IInv'
  <2>1. WellFormed(heap')
    BY <1>1, <1>4, InsertBeforeWellFormed, InsertAfterWellFormed
       DEF MayInsertBeside, CanContain
  <2>2. Live(heap') = Live(heap)
    BY <1>1, <1>4, RelinkedTypes DEF Live
  <2>3. \A x \in Node :
          heap'.parent[x] = IF x = m THEN heap.parent[n] ELSE heap.parent[x]
    BY <1>1, <1>4, Parents
  <2> QED
    BY <1>1, <1>2, <2>1, <2>2, <2>3, MoveKeeps
<1>5. ASSUME n # m, MayInsertBeside(heap, n, m), heap' = ReplaceNode(heap, n, m)
      PROVE  IInv'
  <2>1. WellFormed(heap') /\ WellFormed(InsertBefore(heap, n, m))
    BY <1>1, <1>5, ReplaceWellFormed, InsertBeforeWellFormed
       DEF MayInsertBeside, CanContain
  <2>2. Live(heap') = Live(heap)
    BY <1>1, <1>5, RelinkedTypes DEF Live
  <2>3. \A x \in Node : InsertBefore(heap, n, m).parent[x]
                         = IF x = m THEN heap.parent[n] ELSE heap.parent[x]
    BY <1>1, Parents
  <2>4. \A x \in Node : heap'.parent[x] = IF x = n THEN NULL
                                         ELSE InsertBefore(heap, n, m).parent[x]
    <3>1. InsertBefore(heap, n, m) \in Heap
      BY <2>1 DEF WellFormed
    <3>2. Unlinked(InsertBefore(heap, n, m), heap', n)
      BY <1>1, <1>5, <3>1, UnlinkFields DEF ReplaceNode
    <3> QED
      BY <3>2 DEF Unlinked
  <2> QED
    BY <1>1, <1>2, <2>1, <2>2, <2>3, <2>4, MoveKeeps
<1>6. ASSUME heap' = Unlink(heap, n)
      PROVE  IInv'
  <2>0. Detached(heap, heap', n)
    <3>1. WellFormed(heap) /\ n \in Live(heap)
      BY <1>1
    <3> QED
      BY <1>6, <3>1, UnlinkDetaches
  <2>1. WellFormed(heap')
    BY <2>0 DEF Detached
  <2>2. Live(heap') = Live(heap)
    BY <2>0 DEF Detached
  <2>3. \A x \in Node : heap'.parent[x] = IF x = n THEN NULL ELSE heap.parent[x]
    <3>1. heap \in Heap /\ n \in Node
      BY <1>1
    <3>2. Unlinked(heap, heap', n)
      BY <1>6, <3>1, UnlinkFields
    <3> QED
      BY <3>2 DEF Unlinked
  <2> QED
    BY <1>1, <1>2, <2>1, <2>2, <2>3, MoveKeeps
<1> QED
  BY <1>3, <1>4, <1>5, <1>6 DEF Edit

\* string_content and the end of a reference change neither heap nor objects.
LEMMA LocalKeeps ==
  ASSUME IInv, UNCHANGED <<heap, parent_footnote_def, rubyvars, wrapping>>, Idle,
         held' \subseteq held, lender' \in [Node -> Pointer \cup {STALE}]
  PROVE  IInv'
<1>1. TypeOK' /\ HeldAlive' /\ Waiting'
  BY DEF IInv, TypeOK, HeldAlive, Waiting, Idle, rubyvars
<1>2. Tied' /\ Climbs' /\ Apart'
  BY DEF IInv, Tied, Climbs, Apart, Severs, DeadObject, LiveObject, live, rubyvars
<1> QED
  BY <1>1, <1>2 DEF IInv

-----------------------------------------------------------------------------
(***************************************************************************)
(* The allocation of an object, and the collector.                         *)
(***************************************************************************)

\* The rest of Markly_Node_wrap: the new object is the only one of its node,
\* and the parent of the node has a live one.
LEMMA WrapKeeps ==
  ASSUME IInv, NEW w \in Object, Wrap(w)
  PROVE  IInv'
<1> DEFINE n == wrapping
<1>1. /\ n # NULL /\ slot[w] = "free"
      /\ slot' = [slot EXCEPT ![w] = "live"]
      /\ data' = [data EXCEPT ![w] = n]
      /\ user_data' = [user_data EXCEPT ![n] = w]
      /\ held' = held \cup {w} /\ wrapping' = NULL
      /\ UNCHANGED <<heap, parent_footnote_def, lender>>
  BY DEF Wrap, treevars
<1>2. /\ n \in live /\ n \in Node /\ user_data[n] = NONE
      /\ heap.parent[n] # NULL =>
           \E v \in held : heap.parent[n] \in {data[v], heap.parent[data[v]]}
  BY <1>1 DEF IInv, Waiting, live, Live
<1>3. \A m \in Node : user_data[m] # w
  BY <1>1, ObjectAssumption DEF IInv, Tied
<1>4. /\ user_data \in [Node -> Object \cup {NONE}]
      /\ data \in [Object -> Pointer]
      /\ slot \in [Object -> {"free", "live", "dead"}]
      /\ held \subseteq Object
  BY DEF IInv, TypeOK
<1>5. TypeOK'
  BY <1>1, <1>2, <1>4 DEF IInv, TypeOK, Pointer
<1> HIDE DEF n
<1>6. \A m \in Node : user_data'[m] = IF m = n THEN w ELSE user_data[m]
  BY <1>1, <1>4
<1>7. \A x \in Object : /\ data'[x] = IF x = w THEN n ELSE data[x]
                        /\ slot'[x] = IF x = w THEN "live" ELSE slot[x]
  BY <1>1, <1>4
<1>8. \A m \in Node : m # n /\ user_data[m] # NONE => user_data[m] \in Object \ {w}
  BY <1>3, <1>4
<1>9. Tied'
  <2>1. ASSUME NEW m \in Node, user_data'[m] # NONE
        PROVE  m \in live' /\ slot'[user_data'[m]] # "free" /\ data'[user_data'[m]] = m
    BY <1>1, <1>2, <1>6, <1>7, <1>8, <2>1 DEF IInv, Tied, live
  <2>2. ASSUME NEW x \in Object, data'[x] # NULL
        PROVE  data'[x] \in live' /\ user_data'[data'[x]] = x
    BY <1>1, <1>2, <1>6, <1>7, <2>2, ObjectAssumption DEF IInv, Tied, live, Live
  <2> QED
    BY <2>1, <2>2 DEF Tied
<1>10. HeldAlive'
  <2>1. w \notin held
    BY <1>1 DEF IInv, HeldAlive
  <2>2. ASSUME NEW x \in held'
        PROVE  slot'[x] = "live" /\ data'[x] # NULL
    BY <1>1, <1>4, <1>7, <2>2 DEF IInv, HeldAlive, n
  <2> QED
    BY <2>2 DEF HeldAlive
<1>11. \A m \in Node : /\ LiveObject(m)' <=> m = n \/ LiveObject(m)
                       /\ DeadObject(m)' => DeadObject(m)
  BY <1>2, <1>6, <1>7, <1>8, ObjectAssumption DEF LiveObject, DeadObject
<1>12. Climbs'
  <2>1. ASSUME heap.parent[n] # NULL
        PROVE  LiveObject(heap.parent[n])
    BY <1>2, <2>1, HeldNodes, HeldParents
  <2>2. \A m \in Node : heap.parent[m] \in Node \cup {NULL}
    BY Pointers DEF IInv, WellFormed
  <2>3. ASSUME NEW m \in Node, LiveObject(m)', NEW p \in Node, p = heap.parent[m]
        PROVE  LiveObject(p)'
    <3>1. CASE m = n
      BY <1>11, <2>1, <2>3, <3>1, NullAssumption
    <3>2. CASE m # n
      BY <1>11, <2>3, <3>2, NullAssumption DEF IInv, Climbs
    <3> QED
      BY <3>1, <3>2
  <2> QED
    BY <1>1, <2>2, <2>3 DEF Climbs, LiveObject
<1>13. Waiting'
  BY <1>1 DEF Waiting
<1>14. Apart'
  <2>1. PICK D \in SUBSET Node : Severs(D)
    BY DEF IInv, Apart
  <2>2. n \notin D
    BY <2>1 DEF Severs, n
  <2>3. ASSUME NEW m \in Node
        PROVE  /\ DeadObject(m)' => m \in D
               /\ LiveObject(m)' => m \notin D
    BY <1>11, <2>1, <2>2 DEF Severs
  <2>4. WholeTrees(heap, D)' /\ (wrapping \notin D)'
    BY <1>1, <2>1, NullAssumption DEF Severs, WholeTrees
  <2>5. Severs(D)'
    BY <2>3, <2>4 DEF Severs, LiveObject, DeadObject
  <2> QED
    BY <2>5 DEF Apart
<1> QED
  BY <1>1, <1>5, <1>9, <1>10, <1>12, <1>13, <1>14 DEF IInv

\* rb_gc_mark starts from the references and follows the marks, and reaches
\* nothing else.
LEMMA ReachableMarks ==
  ASSUME IInv
  PROVE  /\ held \subseteq Reachable
         /\ \A v \in Reachable : Marks(v) \subseteq Reachable
<1>1. held \subseteq Object
  BY DEF IInv, TypeOK
<1>2. \A v \in Object : Marks(v) \subseteq Object
  <2>1. ASSUME NEW v \in Object, data[v] # NULL
        PROVE  /\ ChildList(data[v]) \subseteq Node
               /\ heap.parent[data[v]] \in Node \cup {NULL}
    BY <2>1, Pointers DEF IInv, TypeOK, Pointer, ChildList
  <2>2. \A m \in Node : user_data[m] \in Object \cup {NONE}
    BY DEF IInv, TypeOK
  <2> QED
    BY <2>1, <2>2 DEF Marks
<1>3. held \subseteq Reachable
  BY <1>1 DEF Reachable
<1>4. ASSUME NEW v \in Reachable, NEW x \in Marks(v)
      PROVE  x \in Reachable
  BY <1>2, <1>4 DEF Reachable
<1> QED
  BY <1>3, <1>4

\* Markly_Node_Type_mark reaches all the objects of a tree from any of them, so
\* that a collection leaves a tree alone or kills all of its objects.
LEMMA MarkKeeps ==
  ASSUME IInv, Mark
  PROVE  IInv'
<1> DEFINE Kept(n) == LiveObject(n) /\ user_data[n] \in Reachable
           X == {n \in Node : LiveObject(n) /\ user_data[n] \notin Reachable}
           R == {n \in Node : Kept(n)}
           D == {n \in Live(heap) : AncestorsOrSelf(heap, n) \cap X # {}}
<1>1. /\ WellFormed(heap) /\ heap \in Heap
      /\ \A n \in Node : user_data[n] \in Object \cup {NONE}
      /\ slot \in [Object -> {"free", "live", "dead"}]
  BY DEF IInv, TypeOK
<1>2. /\ \A w \in Object : slot[w] # "dead"
      /\ slot' = [w \in Object |->
                    IF slot[w] = "live" /\ w \notin Reachable THEN "dead" ELSE slot[w]]
      /\ UNCHANGED <<heap, parent_footnote_def, lender, user_data, data, held, wrapping>>
  BY DEF Mark, treevars
<1>3. \A n \in Node : /\ LiveObject(n)' <=> n \in R
                      /\ DeadObject(n)' <=> n \in X
  BY <1>1, <1>2 DEF LiveObject, DeadObject
\* The objects of a parent and its child are kept or lost together.
<1>4. ASSUME NEW n \in Node, LiveObject(n), heap.parent[n] # NULL
      PROVE  /\ heap.parent[n] \in Node /\ LiveObject(heap.parent[n])
             /\ user_data[n] \in Reachable <=> user_data[heap.parent[n]] \in Reachable
  <2> DEFINE p == heap.parent[n]
             w == user_data[n]
             v == user_data[p]
  <2>1. p \in Node /\ LiveObject(p)
    BY <1>1, <1>4, Pointers DEF IInv, Climbs
  <2>2. /\ w \in Object /\ v \in Object /\ w # NONE /\ v # NONE
        /\ data[w] = n /\ data[v] = p
    BY <1>1, <1>4, <2>1 DEF IInv, Tied, LiveObject
  <2> HIDE DEF p, w, v
  <2>3. v \in Marks(w) /\ w \in Marks(v)
    BY <1>1, <2>1, <2>2, MarksNeighbours DEF p, w, v
  <2> QED
    BY <2>1, <2>3, ReachableMarks DEF p, w, v
<1>5. TypeOK' /\ Tied' /\ Waiting'
  <2>1. slot' \in [Object -> {"free", "live", "dead"}]
    BY <1>1, <1>2
  <2>2. TypeOK' /\ Waiting'
    BY <1>2, <2>1 DEF IInv, TypeOK, Waiting, live
  <2>3. \A w \in Object : slot'[w] = "free" => slot[w] = "free"
    BY <1>1, <1>2
  <2>4. Tied'
    BY <1>1, <1>2, <2>3 DEF IInv, Tied, live
  <2> QED
    BY <2>2, <2>4
<1>6. HeldAlive'
  BY <1>2, ReachableMarks DEF IInv, TypeOK, HeldAlive
<1>7. Climbs'
  BY <1>2, <1>3, <1>4 DEF Climbs, LiveObject
<1>8. ASSUME NEW n \in R
      PROVE  heap.parent[n] \in R \cup {NULL}
  BY <1>4
<1>9. ASSUME NEW n \in X
      PROVE  heap.parent[n] \in X \cup {NULL}
  BY <1>4
<1>10. WholeTrees(heap, D)
  <2> HIDE DEF X
  <2>1. X \in SUBSET Node
    BY DEF X
  <2> QED
    BY <1>1, <1>9, <2>1, BelowIsWhole
<1>11. ASSUME NEW n \in X
       PROVE  n \in D
  <2>1. n \in Live(heap) /\ n \in Node
    BY DEF IInv, Tied, LiveObject, live
  <2>2. n \in AncestorsOrSelf(heap, n)
    BY <1>1, <2>1, AncestorsStep
  <2> HIDE DEF X
  <2> QED
    BY <2>1, <2>2
<1>12. ASSUME NEW n \in R
       PROVE  n \notin D
  <2>1. R \cap X = {} /\ R \in SUBSET Node
    OBVIOUS
  <2> HIDE DEF R, X
  <2>2. AncestorsOrSelf(heap, n) \subseteq R
    BY <1>8, <2>1, AncestorsWithin
  <2> QED
    BY <2>1, <2>2
<1>13. wrapping \notin D
  <2>1. SUFFICES ASSUME wrapping \in Live(heap)
                 PROVE  wrapping \notin D
    OBVIOUS
  <2>2. /\ wrapping \in Node /\ wrapping # NULL /\ wrapping \notin X
        /\ heap.parent[wrapping] # NULL =>
             \E w \in held : heap.parent[wrapping] \in {data[w], heap.parent[data[w]]}
    BY <2>1, NullAssumption DEF IInv, Waiting, Live, LiveObject
  <2>3. ASSUME heap.parent[wrapping] # NULL
        PROVE  heap.parent[wrapping] \in R
    <3>1. PICK w \in held : heap.parent[wrapping] \in {data[w], heap.parent[data[w]]}
      BY <2>2, <2>3
    <3>2. data[w] \in R
      BY HeldNodes, ReachableMarks
    <3> HIDE DEF R
    <3> QED
      BY <1>8, <2>3, <3>1, <3>2
  <2> DEFINE S == R \cup {wrapping}
  <2>4. S \in SUBSET Node /\ S \cap X = {} /\ wrapping \in S
    BY <2>2
  <2>5. \A n \in S : heap.parent[n] \in S \cup {NULL}
    <3> HIDE DEF R
    <3> QED
      BY <1>8, <2>3
  <2> HIDE DEF S, X
  <2>6. AncestorsOrSelf(heap, wrapping) \subseteq S
    BY <2>4, <2>5, AncestorsWithin
  <2> QED
    BY <2>4, <2>6
<1>14. Apart'
  <2>1. D \in SUBSET Node
    BY DEF Live
  <2>2. PICK E \in SUBSET Node : E = D
    BY <2>1
  <2> HIDE DEF D, R, X
  <2>3. WholeTrees(heap', E) /\ wrapping' \notin E
    BY <1>2, <1>10, <1>13, <2>2
  <2>4. \A n \in Node : /\ DeadObject(n)' => n \in E
                        /\ LiveObject(n)' => n \notin E
    BY <1>3, <1>11, <1>12, <2>2
  <2>5. Severs(E)'
    BY <2>3, <2>4 DEF Severs, LiveObject, DeadObject
  <2> QED
    BY <2>5 DEF Apart
<1> QED
  BY <1>1, <1>2, <1>5, <1>6, <1>7, <1>14 DEF IInv

\* Markly_Node_Type_free: the object of a root frees the tree, in which only
\* dead objects are left; any other object lets go of its node.
LEMMA SweepKeeps ==
  ASSUME IInv, NEW w \in Object, Sweep(w)
  PROVE  IInv'
<1> DEFINE n == data[w]
<1>1. /\ WellFormed(heap) /\ heap \in Heap
      /\ user_data \in [Node -> Object \cup {NONE}]
      /\ data \in [Object -> Pointer]
      /\ slot \in [Object -> {"free", "live", "dead"}]
      /\ held \subseteq Object
  BY DEF IInv, TypeOK
<1>2. /\ slot[w] = "dead" /\ slot' = [slot EXCEPT ![w] = "free"]
      /\ UNCHANGED <<held, wrapping>>
  BY DEF Sweep
<1>3. PICK D \in SUBSET Node : Severs(D)
  BY DEF IInv, Apart
<1>4. /\ w \notin held
      /\ \A x \in Object : slot'[x] = IF x = w THEN "free" ELSE slot[x]
  BY <1>1, <1>2 DEF IInv, HeldAlive
<1>5. \A x \in held : data[x] \in Node \ D /\ user_data[data[x]] = x
  BY <1>3, HeldNodes
<1>6. CASE n = NULL
  <2>1. UNCHANGED <<heap, parent_footnote_def, lender, user_data, data>>
    BY <1>6 DEF Sweep, treevars
  <2>2. \A m \in Node : user_data[m] # w
    BY <1>6, NullAssumption, ObjectAssumption DEF IInv, Tied, live, Live
  <2>3. \A m \in Node : /\ LiveObject(m)' <=> LiveObject(m)
                        /\ DeadObject(m)' <=> DeadObject(m)
    BY <1>1, <1>4, <2>1, <2>2 DEF LiveObject, DeadObject
  <2>4. TypeOK'
    BY <1>1, <1>2, <2>1 DEF IInv, TypeOK
  <2>5. Tied' /\ HeldAlive' /\ Waiting'
    BY <1>1, <1>2, <1>4, <2>1, <2>2 DEF IInv, Tied, HeldAlive, Waiting, live
  <2>6. Climbs'
    BY <1>1, <2>1, <2>3, Pointers DEF IInv, Climbs, LiveObject
  <2>7. Severs(D)'
    BY <1>2, <1>3, <2>1, <2>3 DEF Severs, LiveObject, DeadObject
  <2> QED
    BY <2>1, <2>4, <2>5, <2>6, <2>7 DEF IInv, Apart
<1>7. ASSUME n # NULL
      PROVE  /\ n \in Node /\ n \in live /\ n \in D
             /\ user_data[n] = w
             /\ \A m \in Node : user_data[m] = w => m = n
  <2>1. n \in live /\ user_data[n] = w
    BY <1>7 DEF IInv, Tied
  <2>2. n \in Node /\ DeadObject(n)
    BY <1>2, <2>1, ObjectAssumption DEF live, Live, DeadObject
  <2>3. \A m \in Node : user_data[m] = w => m = n
    BY ObjectAssumption DEF IInv, Tied
  <2> QED
    BY <1>3, <2>1, <2>2, <2>3 DEF Severs
<1>8. CASE n # NULL /\ OwnsTree(n)
  <2> DEFINE F == Freed(heap, n)
  <2>1. heap.parent[n] = NULL
    BY <1>8 DEF OwnsTree
  <2>2. /\ F \subseteq D /\ F \subseteq Node
        /\ WellFormed(heap')
        /\ Live(heap') = Live(heap) \ F
        /\ \A m \in Node : heap'.parent[m] = IF m \in F THEN NULL ELSE heap.parent[m]
    <3>1. heap' = FreeNode(heap, n)
      BY <1>8 DEF Sweep
    <3> QED
      BY <1>1, <1>3, <1>7, <1>8, <2>1, <3>1, FreeRoot DEF Severs
  <2>3. n \in F
    BY <1>1, <1>7, <1>8, SubtreeWalk, UnlinkClears DEF Freed, OwnCleared
  <2>4. /\ data' = Cleared(F)
        /\ user_data' = [m \in Node |-> IF m \in F THEN NONE ELSE user_data[m]]
        /\ parent_footnote_def' = Severed(parent_footnote_def, F)
        /\ lender' = Severed(lender, F)
    BY <1>8 DEF Sweep
  <2> HIDE DEF F, n
  <2>5. \A m \in Node : user_data'[m] = IF m \in F THEN NONE ELSE user_data[m]
    BY <2>4
  <2>6. \A x \in Object : data'[x] = IF \E m \in F : user_data[m] = x
                                    THEN NULL ELSE data[x]
    BY <2>4 DEF Cleared
  <2>7. \A m \in F : user_data[m] # NONE => data[user_data[m]] = m
    BY <2>2 DEF IInv, Tied
  <2>8. ASSUME NEW m \in Node \ F, user_data[m] # NONE
        PROVE  /\ user_data[m] \in Object \ {w}
               /\ data'[user_data[m]] = m
               /\ slot'[user_data[m]] = slot[user_data[m]]
    <3>1. user_data[m] \in Object \ {w}
      BY <1>1, <1>7, <1>8, <2>3, <2>8
    <3>2. data[user_data[m]] = m
      BY <2>8 DEF IInv, Tied
    <3>3. \A k \in F : user_data[k] # user_data[m]
      BY <2>7, <2>8, <3>2
    <3> QED
      BY <1>4, <2>6, <3>1, <3>2, <3>3
  <2>9. Tied'
    <3>1. ASSUME NEW m \in Node, user_data'[m] # NONE
          PROVE  /\ m \in live' /\ slot'[user_data'[m]] # "free"
                 /\ data'[user_data'[m]] = m
      BY <2>2, <2>5, <2>8, <3>1 DEF IInv, Tied, live
    <3>2. ASSUME NEW x \in Object, data'[x] # NULL
          PROVE  data'[x] \in live' /\ user_data'[data'[x]] = x
      <4>1. data'[x] = data[x] /\ \A m \in F : user_data[m] # x
        BY <2>6, <3>2
      <4>2. data[x] \in live /\ user_data[data[x]] = x
        BY <3>2, <4>1 DEF IInv, Tied
      <4> QED
        BY <2>2, <2>5, <4>1, <4>2 DEF live, Live
    <3> QED
      BY <3>1, <3>2 DEF Tied
  <2>10. ASSUME NEW x \in held
         PROVE  x \in Object /\ x # w /\ data'[x] = data[x] /\ data[x] \in Node \ F
    BY <1>1, <1>4, <1>5, <2>2, <2>5, <2>8, ObjectAssumption
  <2>11. HeldAlive'
    BY <1>2, <1>4, <2>10 DEF IInv, HeldAlive
  <2>12. ASSUME NEW m \in Node
         PROVE  /\ LiveObject(m)' <=> LiveObject(m)
                /\ DeadObject(m)' => DeadObject(m) /\ m \notin F
    <3>1. CASE m \in F
      BY <1>3, <2>2, <2>5, <3>1 DEF Severs, LiveObject, DeadObject
    <3>2. CASE m \notin F
      BY <2>5, <2>8, <3>2 DEF LiveObject, DeadObject
    <3> QED
      BY <3>1, <3>2
  <2>13. Climbs'
    <3>1. \A m \in Node : heap.parent[m] \in Node \cup {NULL}
      BY <1>1, Pointers
    <3>2. ASSUME NEW m \in Node, LiveObject(m)', heap'.parent[m] # NULL,
                 NEW p, p = heap'.parent[m]
          PROVE  LiveObject(p)'
      <4>1. p = heap.parent[m] /\ p \in Node /\ LiveObject(m)
        BY <2>2, <2>12, <3>1, <3>2
      <4> QED
        BY <2>12, <3>2, <4>1 DEF IInv, Climbs
    <3> QED
      BY <3>2 DEF Climbs, LiveObject
  <2>14. Waiting'
    <3>1. SUFFICES ASSUME wrapping # NULL
                   PROVE  /\ wrapping \in Live(heap') /\ user_data'[wrapping] = NONE
                          /\ heap'.parent[wrapping] # NULL =>
                               \E x \in held : heap'.parent[wrapping]
                                               \in {data'[x], heap'.parent[data'[x]]}
      BY <1>2 DEF Waiting, live
    <3>2. /\ wrapping \in Live(heap) /\ user_data[wrapping] = NONE
          /\ heap.parent[wrapping] # NULL =>
               \E x \in held : heap.parent[wrapping] \in {data[x], heap.parent[data[x]]}
      BY <3>1 DEF IInv, Waiting, live
    <3>3. wrapping \in Node /\ wrapping \notin F
      BY <1>3, <2>2, <3>2 DEF Severs, Live
    <3>4. \A x \in held : heap'.parent[data'[x]] = heap.parent[data[x]]
      BY <2>2, <2>10
    <3> QED
      BY <2>2, <2>5, <2>10, <3>2, <3>3, <3>4
  <2>15. PICK E \in SUBSET Node : E = D \ F
    OBVIOUS
  <2>16. Severs(E)'
    <3>1. WholeTrees(heap', E)
      <4>1. ASSUME NEW m \in Node, heap'.parent[m] # NULL
            PROVE  m \in E <=> heap'.parent[m] \in E
        BY <1>3, <2>2, <2>15, <4>1, ParentsLive DEF Severs, WholeTrees
      <4>2. E \subseteq Live(heap')
        BY <1>3, <2>2, <2>15 DEF Severs, WholeTrees
      <4> QED
        BY <4>1, <4>2 DEF WholeTrees
    <3>2. wrapping' \notin E
      BY <1>2, <1>3, <2>15 DEF Severs
    <3>3. \A m \in Node : /\ DeadObject(m)' => m \in E
                          /\ LiveObject(m)' => m \notin E
      BY <1>3, <2>12, <2>15 DEF Severs
    <3> QED
      BY <3>1, <3>2, <3>3 DEF Severs, LiveObject, DeadObject
  <2>17. parent_footnote_def' = [m \in Node |-> NULL]
    BY <2>2, <2>4, NullAssumption DEF IInv, Severed
  <2>18. TypeOK'
    <3>1. data' \in [Object -> Pointer]
      BY <1>1, <2>4 DEF Cleared, Pointer
    <3>2. user_data' \in [Node -> Object \cup {NONE}]
      BY <1>1, <2>4
    <3>3. lender' \in [Node -> Pointer \cup {STALE}]
      BY <2>4 DEF IInv, TypeOK, Severed, Pointer
    <3>4. /\ heap' \in Heap
          /\ parent_footnote_def' \in [Node -> Pointer \cup {STALE}]
      BY <2>2, <2>17 DEF WellFormed, Pointer
    <3>5. slot' \in [Object -> {"free", "live", "dead"}]
      BY <1>1, <1>2
    <3> QED
      BY <1>2, <3>1, <3>2, <3>3, <3>4, <3>5 DEF IInv, TypeOK
  <2> QED
    BY <2>2, <2>9, <2>11, <2>13, <2>14, <2>16, <2>17, <2>18 DEF IInv, Apart
<1>9. CASE n # NULL /\ ~OwnsTree(n)
  <2>1. /\ user_data' = [user_data EXCEPT ![n] = NONE]
        /\ data' = [data EXCEPT ![w] = NULL]
        /\ UNCHANGED <<heap, parent_footnote_def, lender>>
    BY <1>9 DEF Sweep, treevars
  <2>2. n \in Node /\ n \in D /\ \A m \in Node : user_data[m] = w <=> m = n
    BY <1>7, <1>9
  <2> HIDE DEF n
  <2>3. \A m \in Node : user_data'[m] = IF m = n THEN NONE ELSE user_data[m]
    BY <1>1, <2>1
  <2>4. \A x \in Object : data'[x] = IF x = w THEN NULL ELSE data[x]
    BY <1>1, <2>1
  <2>5. \A m \in Node : m # n /\ user_data[m] # NONE => user_data[m] \in Object \ {w}
    BY <1>1, <2>2
  <2>6. TypeOK'
    BY <1>1, <1>2, <2>1 DEF IInv, TypeOK, Pointer
  <2>7. Tied'
    <3>1. ASSUME NEW m \in Node, user_data'[m] # NONE
          PROVE  /\ m \in live' /\ slot'[user_data'[m]] # "free"
                 /\ data'[user_data'[m]] = m
      BY <1>4, <2>1, <2>3, <2>4, <2>5, <3>1 DEF IInv, Tied, live
    <3>2. ASSUME NEW x \in Object, data'[x] # NULL
          PROVE  data'[x] \in live' /\ user_data'[data'[x]] = x
      BY <2>1, <2>2, <2>3, <2>4, <3>2 DEF IInv, Tied, live, Live
    <3> QED
      BY <3>1, <3>2 DEF Tied
  <2>8. HeldAlive' /\ Waiting'
    <3>1. \A x \in held : x \in Object /\ x # w /\ data'[x] = data[x]
      BY <1>1, <1>4, <2>4
    <3>2. wrapping # NULL => wrapping # n
      BY <1>3, <2>2 DEF Severs
    <3>3. HeldAlive'
      BY <1>2, <1>4, <3>1 DEF IInv, HeldAlive
    <3>4. Waiting'
      BY <1>2, <2>1, <2>3, <3>1, <3>2 DEF IInv, Waiting, live, Live
    <3> QED
      BY <3>3, <3>4
  <2>9. \A m \in Node : /\ LiveObject(m)' <=> LiveObject(m)
                        /\ DeadObject(m)' => DeadObject(m)
    BY <1>2, <1>4, <2>2, <2>3, <2>5 DEF LiveObject, DeadObject
  <2>10. Climbs'
    BY <1>1, <2>1, <2>9, Pointers DEF IInv, Climbs, LiveObject
  <2>11. Severs(D)'
    BY <1>2, <1>3, <2>1, <2>9 DEF Severs, LiveObject, DeadObject
  <2> QED
    BY <2>1, <2>6, <2>7, <2>8, <2>10, <2>11 DEF IInv, Apart
<1> QED
  BY <1>6, <1>8, <1>9

-----------------------------------------------------------------------------
(***************************************************************************)
(* The theorems.                                                           *)
(***************************************************************************)

\* At the start there is neither a node nor an object.
LEMMA InitIInv == Init => IInv
<1>1. SUFFICES ASSUME Init
               PROVE  IInv
  OBVIOUS
<1>2. WellFormed(heap) /\ Live(heap) = {}
  <2>1. heap \in Heap
    BY <1>1 DEF Init, Heap, Pointer, NodeTypes
  <2>2. Live(heap) = {} /\ \A n \in Node : Targets(heap, n) = {NULL}
    BY <1>1 DEF Init, Live, Targets
  <2>3. Linked(heap) /\ Founded(heap.prev) /\ Contained(heap)
    BY <1>1, NullAssumption
       DEF Init, Linked, Founded, Contained, NextLinked, PrevLinked, FirstLinked,
           LastLinked, EndsLinked, ParentLinked
  <2> QED
    BY <2>1, <2>2, <2>3 DEF WellFormed, Closed
<1>3. TypeOK
  BY <1>1, <1>2 DEF Init, TypeOK, WellFormed, Pointer
<1>4. Tied /\ HeldAlive /\ Waiting /\ Climbs
  BY <1>1 DEF Init, Tied, HeldAlive, Waiting, Climbs, LiveObject
<1>5. Severs({})
  BY <1>1 DEF Init, Severs, WholeTrees, DeadObject
<1>6. Apart
  BY <1>5 DEF Apart
<1> QED
  BY <1>1, <1>2, <1>3, <1>4, <1>6 DEF Init, IInv

\* Every call, allocation and step of the collector keeps the invariant.
LEMMA NextIInv ==
  ASSUME Footnotes = FALSE, SelfSibling = FALSE, IInv, [Next]_vars
  PROVE  IInv'
<1>1. ASSUME NEW n \in Node, NEW t \in CallTypes, NewNode(n, t)
      PROVE  IInv'
  BY <1>1, NewNodeKeeps
<1>2. ASSUME NEW r \in Node, NEW p \in Node, NEW t \in Node, Parse(r, p, t)
      PROVE  IInv'
  BY <1>2, ParseKeeps
<1>3. ASSUME NEW r \in Node, NEW p \in Node, NEW f \in Node, NEW d \in Node,
             ParseFootnote(r, p, f, d)
      PROVE  IInv'
  BY <1>3 DEF ParseFootnote
<1>4. ASSUME NEW w \in Receivers, NEW g \in CloneTargets(data[w]), Duplicate(w, g)
      PROVE  IInv'
  BY <1>4, DuplicateKeeps
<1>5. ASSUME NEW w \in Receivers, Navigate(w)
      PROVE  IInv'
  BY <1>5, NavigateKeeps
<1>6. ASSUME NEW v \in Receivers, NEW w \in Receivers, Edit(v, w)
      PROVE  IInv'
  BY <1>6, EditKeeps
<1>7. ASSUME NEW w \in Receivers, StringContent(w)
      PROVE  IInv'
  <2>1. lender' \in [Node -> Pointer \cup {STALE}]
    BY <1>7 DEF IInv, TypeOK, StringContent, Pointer
  <2> QED
    BY <1>7, <2>1, LocalKeeps DEF StringContent
<1>8. ASSUME NEW w \in held, Drop(w)
      PROVE  IInv'
  <2>1. lender' \in [Node -> Pointer \cup {STALE}]
    BY <1>8 DEF IInv, TypeOK, Drop, treevars
  <2> QED
    BY <1>8, <2>1, LocalKeeps DEF Drop, treevars
<1>9. ASSUME NEW w \in Object, Wrap(w)
      PROVE  IInv'
  BY <1>9, WrapKeeps
<1>10. ASSUME Mark
       PROVE  IInv'
  BY <1>10, MarkKeeps
<1>11. ASSUME NEW w \in Object, Sweep(w)
       PROVE  IInv'
  BY <1>11, SweepKeeps
<1>12. CASE UNCHANGED vars
  <2>1. UNCHANGED <<heap, parent_footnote_def, lender, user_data, data, slot, held,
                    wrapping>>
    BY <1>12 DEF vars
  <2> QED
    BY <2>1 DEF IInv, TypeOK, Tied, HeldAlive, Climbs, Waiting, Apart, Severs,
                DeadObject, LiveObject, live
<1> QED
  BY <1>1, <1>2, <1>3, <1>4, <1>5, <1>6, <1>7, <1>8, <1>9, <1>10, <1>11, <1>12
     DEF Next, Program

\* The inductive invariant: the objects of a tree live and die together, and a
\* link never leads from what the program holds to what awaits its finaliser.
THEOREM ObjectsOfATreeTogether ==
  ASSUME Footnotes = FALSE, SelfSibling = FALSE
  PROVE  Spec => []IInv
<1>1. IInv /\ [Next]_vars => IInv'
  BY NextIInv
<1> QED
  BY <1>1, InitIInv, PTL DEF Spec

\* Nodes, objects and the pointers between them keep their types.
THEOREM TypesKept ==
  ASSUME Footnotes = FALSE, SelfSibling = FALSE
  PROVE  Spec => []TypeOK
<1>1. IInv => TypeOK
  BY DEF IInv
<1> QED
  BY <1>1, ObjectsOfATreeTogether, PTL

\* An object the program holds is alive and wraps an allocated node that leads
\* back to it, whatever it edits and whenever the collector marks and sweeps.
THEOREM NoReferenceIsLost ==
  ASSUME Footnotes = FALSE, SelfSibling = FALSE
  PROVE  Spec => []HeldIntact
<1>1. IInv => HeldIntact
  BY HeldNodes DEF IInv, HeldAlive, HeldIntact
<1> QED
  BY <1>1, ObjectsOfATreeTogether, PTL

\* A cached object is never a slot that has been swept, and an object awaiting
\* its finaliser never points at a freed node.
THEOREM CacheAndDataAgree ==
  ASSUME Footnotes = FALSE, SelfSibling = FALSE
  PROVE  Spec => []Paired
<1>1. ASSUME IInv, NEW w \in Object, data[w] # NULL
      PROVE  slot[w] # "free" /\ data[w] \in live /\ user_data[data[w]] = w
  BY <1>1, ObjectAssumption DEF IInv, Tied, live, Live
<1>2. ASSUME IInv, NEW n \in live, user_data[n] # NONE
      PROVE  slot[user_data[n]] # "free" /\ data[user_data[n]] = n
  BY <1>2 DEF IInv, Tied, live, Live
<1>3. IInv => Paired
  BY <1>1, <1>2 DEF Paired
<1> QED
  BY <1>3, ObjectsOfATreeTogether, PTL

\* While dead objects wait to be swept, none of them is a neighbour of a live
\* one in its tree.
THEOREM TreesDieTogether ==
  ASSUME Footnotes = FALSE, SelfSibling = FALSE
  PROVE  Spec => []TreesDieWhole
<1>1. ASSUME IInv, NEW w \in Object, slot[w] = "dead", data[w] # NULL,
             NEW v \in Marks(w)
      PROVE  slot[v] = "dead"
  <2> DEFINE n == data[w]
  <2>1. n \in Node /\ DeadObject(n)
    BY <1>1, ObjectAssumption DEF IInv, Tied, live, Live, DeadObject
  <2>2. WellFormed(heap)
    BY <1>1 DEF IInv
  <2>3. PICK m \in Node : /\ v = user_data[m] /\ v # NONE
                          /\ heap.parent[m] = n \/ heap.parent[n] = m
    BY <1>1, <2>1, <2>2, MarksNeighbours
  <2>4. PICK D \in SUBSET Node : Severs(D)
    BY <1>1 DEF IInv, Apart
  <2> HIDE DEF n
  <2>5. m \in D
    BY <2>1, <2>3, <2>4, NullAssumption DEF Severs, WholeTrees
  <2>6. ~LiveObject(m)
    BY <2>4, <2>5 DEF Severs
  <2>7. v \in Object /\ slot[v] \in {"free", "live", "dead"} /\ slot[v] # "free"
    BY <1>1, <2>3 DEF IInv, TypeOK, Tied
  <2> QED
    BY <2>3, <2>6, <2>7 DEF LiveObject
<1>2. IInv => TreesDieWhole
  BY <1>1 DEF TreesDieWhole
<1> QED
  BY <1>2, ObjectsOfATreeTogether, PTL
=============================================================================
