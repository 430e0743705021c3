--------------------------- MODULE NodeForestProofs ---------------------------
(***************************************************************************)
(* The tree operations keep a heap well formed, for any set of nodes: one  *)
(* step of the proof per operation of NodeTree, each an instance of a      *)
(* lemma of NodeLinksProofs about the operator the operation applies.      *)
(*                                                                         *)
(* And the pointer structure implements the ordered forest.  Lists gives   *)
(* every node a sequence that its pointers agree with in both directions.  *)
(* That there are such sequences is preserved by every operation, because  *)
(* each turns them into the sequences Forest asks for: unlinking takes an  *)
(* element out, an insertion into a gap puts one in.  As the walk along    *)
(* next can only find one sequence, these are the child lists of           *)
(* NodeForest, and the steps are those of Forest.                          *)
(***************************************************************************)
EXTENDS NodeForest, NodeLinksProofs, ListLemmas

-----------------------------------------------------------------------------
(***************************************************************************)
(* Well-formedness.  It holds for callers that never insert a node beside  *)
(* itself: insert_before(n, n) makes n its own neighbour.                  *)
(***************************************************************************)

\* The empty heap is well-formed.
LEMMA InitWellFormed == Init => WellFormed(heap)
<1>1. SUFFICES ASSUME Init
               PROVE  WellFormed(heap)
  OBVIOUS
<1>2. heap \in Heap
  BY <1>1 DEF Init, Heap, Pointer, NodeTypes
<1>3. /\ Live(heap) = {}
      /\ \A n \in Node : Targets(heap, n) = {NULL}
  BY <1>1 DEF Init, Live, Targets
<1>4. Linked(heap) /\ Founded(heap.prev) /\ Contained(heap)
  BY <1>1, NullAssumption
     DEF Init, Linked, Founded, Contained, NextLinked, PrevLinked, FirstLinked,
         LastLinked, EndsLinked, ParentLinked
<1> QED
  BY <1>2, <1>3, <1>4 DEF WellFormed, Closed

\* Every call of the API keeps a heap well-formed.
LEMMA NextWellFormed ==
  ASSUME SelfSibling = FALSE, WellFormed(heap), [Next]_vars
  PROVE  WellFormed(heap')
<1> USE DEF live
<1>1. ASSUME NEW n \in Node, NEW t \in CallTypes, New(n, t)
      PROVE  WellFormed(heap')
  BY <1>1, FreshWellFormed, CallTypesAssumption DEF New
<1>2. ASSUME NEW n \in live, UnlinkNode(n)
      PROVE  WellFormed(heap')
  BY <1>2, UnlinkWellFormed DEF UnlinkNode
<1>3. ASSUME NEW n \in live, NEW s \in live, InsertNodeBefore(n, s)
      PROVE  WellFormed(heap')
  BY <1>3, InsertBeforeWellFormed DEF InsertNodeBefore, MayInsertBeside, CanContain
<1>4. ASSUME NEW n \in live, NEW s \in live, InsertNodeAfter(n, s)
      PROVE  WellFormed(heap')
  BY <1>4, InsertAfterWellFormed DEF InsertNodeAfter, MayInsertBeside, CanContain
<1>5. ASSUME NEW n \in live, NEW s \in live, Replace(n, s)
      PROVE  WellFormed(heap')
  BY <1>5, ReplaceWellFormed DEF Replace, MayInsertBeside, CanContain
<1>6. ASSUME NEW p \in live, NEW c \in live, PrependNode(p, c)
      PROVE  WellFormed(heap')
  BY <1>6, PrependWellFormed DEF PrependNode, CanContain
<1>7. ASSUME NEW p \in live, NEW c \in live, AppendNode(p, c)
      PROVE  WellFormed(heap')
  BY <1>7, AppendWellFormed DEF AppendNode, CanContain
<1>8. ASSUME NEW n \in live, Free(n)
      PROVE  WellFormed(heap')
  BY <1>8, FreeWellFormed DEF Free
<1>9. ASSUME NEW n \in live, NEW t \in CallTypes, SetType(n, t)
      PROVE  WellFormed(heap')
  <2>1. heap \in Heap /\ n \in Node /\ t \in NodeTypes \ {"none"}
    BY CallTypesAssumption DEF WellFormed, Live
  <2>2. heap.first_child[n] = NULL
    BY <1>9 DEF SetType
  <2>3. heap' = [heap EXCEPT !.type = Store(heap.type, n, t)]
    BY <1>9 DEF SetType
  <2>4. heap'.type[n] = t
    BY <2>1, <2>3 DEF Heap, Store
  <2>5. CanContainType(heap'.type[heap.parent[n]], t)
    BY <1>9, <2>3, <2>4 DEF SetType, CanContain
  <2> QED
    BY <2>1, <2>2, <2>3, <2>5, RetypedWellFormed
<1>10. ASSUME NEW n \in live, NEW g \in CloneTargets(n), Clone(n, g)
       PROVE  WellFormed(heap')
  BY <1>10, CloneWellFormed DEF Clone, CloneTargets
<1>11. CASE UNCHANGED vars
  BY <1>11 DEF vars
<1> QED
  BY <1>1, <1>2, <1>3, <1>4, <1>5, <1>6, <1>7, <1>8, <1>9, <1>10, <1>11 DEF Next

\* Well-formedness is an inductive invariant: typed, linked, with sibling lists
\* that end, closed under pointers, each child of a type its parent may
\* contain.  The weaker invariants the runs check are not inductive one by one:
\* that a release leaves no dangling pointer needs the links, and these need
\* the targets to be allocated.
THEOREM WellFormedInvariant ==
  ASSUME SelfSibling = FALSE
  PROVE  Spec => []WellFormed(heap)
<1>1. WellFormed(heap) /\ [Next]_vars => WellFormed(heap)'
  BY NextWellFormed
<1> QED
  BY <1>1, InitWellFormed, PTL DEF Spec

\* The heap always consists of pointers and node types, whatever the sequence
\* of node.c calls.
THEOREM TypeCorrect ==
  ASSUME SelfSibling = FALSE
  PROVE  Spec => []TypeOK
<1>1. WellFormed(heap) => TypeOK
  BY DEF WellFormed, TypeOK
<1> QED
  BY <1>1, WellFormedInvariant, PTL

\* Whatever the sequence of node.c calls, and wherever the moved nodes come
\* from, next and prev are inverse, first_child and last_child are the ends of
\* the list of children, and siblings share their parent.
THEOREM LinksAgree ==
  ASSUME SelfSibling = FALSE
  PROVE  Spec => []WellLinked
<1>1. WellFormed(heap) => WellLinked
  BY DEF WellFormed, WellLinked
<1> QED
  BY <1>1, WellFormedInvariant, PTL

\* cmark_node_free releases every node that points into what it releases: no
\* allocated node ever points to a released one.
THEOREM NothingDangles ==
  ASSUME SelfSibling = FALSE
  PROVE  Spec => []NoDangling
<1>1. WellFormed(heap) => NoDangling
  BY DEF WellFormed, Closed, NoDangling, live
<1> QED
  BY <1>1, WellFormedInvariant, PTL

\* The repository's own checker, cmark_node_check, which debug builds run at the
\* end of a parse, has nothing to report below any root, whatever calls of
\* node.c have built the tree.
THEOREM CheckFindsNothing ==
  ASSUME SelfSibling = FALSE
  PROVE  Spec => []NodeCheckClean
<1>1. ASSUME WellFormed(heap), NEW n \in Node
      PROVE  CheckErrors(heap, n) = {}
  <2>1. heap \in Heap /\ Linked(heap)
    BY <1>1 DEF WellFormed
  <2>2. Subtree(heap, n) \subseteq Node
    BY <2>1, SubtreeWalk
  <2>3. ASSUME NEW x \in Subtree(heap, n)
        PROVE  /\ heap.first_child[x] # NULL =>
                    /\ heap.prev[heap.first_child[x]] = NULL
                    /\ heap.parent[heap.first_child[x]] = x
               /\ heap.next[x] # NULL =>
                    /\ heap.prev[heap.next[x]] = x
                    /\ heap.parent[heap.next[x]] = heap.parent[x]
               /\ heap.next[x] = NULL /\ heap.parent[x] # NULL =>
                    heap.last_child[heap.parent[x]] = x
    BY <2>1, <2>2 DEF Linked, FirstLinked, NextLinked, ParentLinked
  <2> QED
    BY <2>3 DEF CheckErrors
<1>2. WellFormed(heap) => NodeCheckClean
  BY <1>1 DEF NodeCheckClean, live, Live
<1> QED
  BY <1>2, WellFormedInvariant, PTL

\* S_can_contain and cmark_node_set_type keep every child of a type its
\* parent may contain, so cmark_node_clone never refuses a tree.
THEOREM ParentsContain ==
  ASSUME SelfSibling = FALSE
  PROVE  Spec => []Containment
<1>1. WellFormed(heap) => Containment
  BY DEF WellFormed, Contained, Containment, live, Live
<1> QED
  BY <1>1, WellFormedInvariant, PTL

\* With safety checks on, every call keeps the ancestor relation founded.
LEMMA NextAcyclic ==
  ASSUME SelfSibling = FALSE, SafetyChecks = TRUE, WellFormed(heap), Acyclic,
         [Next]_vars
  PROVE  Acyclic'
<1> USE DEF live, Acyclic
<1>0. heap \in Heap /\ live \subseteq Node
  BY DEF WellFormed, Live
<1>1. ASSUME NEW n \in Node, NEW t \in CallTypes, New(n, t)
      PROVE  Acyclic'
  <2>1. \A m \in Node : heap'.parent[m] \in {heap.parent[m], NULL}
    BY <1>1 DEF New, Fresh, Store
  <2> QED
    BY <2>1, FoundedShrinks
<1>2. ASSUME NEW n \in live, UnlinkNode(n)
      PROVE  Acyclic'
  <2>1. \A m \in Node : heap'.parent[m] \in {heap.parent[m], NULL}
    BY <1>0, <1>2, UnlinkFields DEF UnlinkNode, Unlinked
  <2> QED
    BY <2>1, FoundedShrinks
<1>3. ASSUME NEW n \in live, NEW s \in live, MayInsertBeside(heap, n, s)
      PROVE  /\ heap.parent[n] \in Node
             /\ s \notin AncestorsOrSelf(heap, heap.parent[n])
  BY <1>0, <1>3, Pointers DEF MayInsertBeside, CanContain
<1>4. ASSUME NEW n \in live, NEW s \in live, InsertNodeBefore(n, s)
      PROVE  Acyclic'
  <2>1. MayInsertBeside(heap, n, s) /\ heap' = InsertBefore(heap, n, s)
    BY <1>4 DEF InsertNodeBefore
  <2>2. \A m \in Node :
          heap'.parent[m] = IF m = s THEN heap.parent[n] ELSE heap.parent[m]
    BY <1>0, <2>1, Parents
  <2>3. heap.parent[n] \in Node /\ s \notin AncestorsOrSelf(heap, heap.parent[n])
    BY <1>3, <2>1
  <2> QED
    BY <1>0, <2>2, <2>3, FoundedInsert
<1>5. ASSUME NEW n \in live, NEW s \in live, InsertNodeAfter(n, s)
      PROVE  Acyclic'
  <2>1. MayInsertBeside(heap, n, s) /\ heap' = InsertAfter(heap, n, s)
    BY <1>5 DEF InsertNodeAfter
  <2>2. \A m \in Node :
          heap'.parent[m] = IF m = s THEN heap.parent[n] ELSE heap.parent[m]
    BY <1>0, <2>1, Parents
  <2>3. heap.parent[n] \in Node /\ s \notin AncestorsOrSelf(heap, heap.parent[n])
    BY <1>3, <2>1
  <2> QED
    BY <1>0, <2>2, <2>3, FoundedInsert
<1>6. ASSUME NEW n \in live, NEW s \in live, Replace(n, s)
      PROVE  Acyclic'
  <2> DEFINE i == InsertBefore(heap, n, s)
  <2>1. MayInsertBeside(heap, n, s) /\ s # n /\ heap' = Unlink(i, n)
    BY <1>6 DEF Replace, ReplaceNode
  <2>2. i \in Heap
    BY <2>1, InsertBeforeWellFormed DEF MayInsertBeside, CanContain, WellFormed
  <2>3. Founded(i.parent)
    <3>1. \A m \in Node :
            i.parent[m] = IF m = s THEN heap.parent[n] ELSE heap.parent[m]
      BY <1>0, Parents
    <3>2. heap.parent[n] \in Node /\ s \notin AncestorsOrSelf(heap, heap.parent[n])
      BY <1>3, <2>1
    <3> HIDE DEF i
    <3> QED
      BY <1>0, <3>1, <3>2, FoundedInsert
  <2> HIDE DEF i
  <2>4. \A m \in Node : heap'.parent[m] \in {i.parent[m], NULL}
    <3>1. Unlinked(i, heap', n)
      BY <1>0, <2>1, <2>2, UnlinkFields
    <3> QED
      BY <3>1 DEF Unlinked
  <2> QED
    BY <2>3, <2>4, FoundedShrinks
<1>7. ASSUME NEW p \in live, NEW c \in live, PrependNode(p, c)
      PROVE  Acyclic'
  <2>1. c \notin AncestorsOrSelf(heap, p) /\ heap' = PrependChild(heap, p, c)
    BY <1>7 DEF PrependNode, CanContain
  <2>2. \A m \in Node : heap'.parent[m] = IF m = c THEN p ELSE heap.parent[m]
    BY <1>0, <2>1, Parents
  <2> QED
    BY <1>0, <2>1, <2>2, FoundedInsert
<1>8. ASSUME NEW p \in live, NEW c \in live, AppendNode(p, c)
      PROVE  Acyclic'
  <2>1. c \notin AncestorsOrSelf(heap, p) /\ heap' = AppendChild(heap, p, c)
    BY <1>8 DEF AppendNode, CanContain
  <2>2. \A m \in Node : heap'.parent[m] = IF m = c THEN p ELSE heap.parent[m]
    BY <1>0, <2>1, Parents
  <2> QED
    BY <1>0, <2>1, <2>2, FoundedInsert
<1>9. ASSUME NEW n \in live, Free(n)
      PROVE  Acyclic'
  <2>1. \A m \in Node : heap'.parent[m] \in {heap.parent[m], NULL}
    BY <1>0, <1>9 DEF Free, FreeNode, Release, NodeUnlink, Heap
  <2> QED
    BY <2>1, FoundedShrinks
<1>10. ASSUME NEW n \in live, NEW t \in CallTypes, SetType(n, t)
       PROVE  Acyclic'
  <2>1. heap'.parent = heap.parent
    BY <1>0, <1>10 DEF SetType, Heap
  <2> QED
    BY <2>1
<1>11. ASSUME NEW n \in live, NEW g \in CloneTargets(n), Clone(n, g)
       PROVE  Acyclic'
  <2> DEFINE T == Subtree(heap, n)
  <2>1. /\ Descendants(heap, T, n)
        /\ g \in [T -> Node \ Live(heap)]
        /\ \A x, y \in T : x # y => g[x] # g[y]
    BY <1>11, SubtreeDescendants DEF Clone, CloneTargets
  <2>2. n \in T /\ T \subseteq Node
    BY <1>0, SubtreeWalk
  <2>3. heap' = CloneNode(heap, n, g)
    BY <1>11 DEF Clone
  <2> HIDE DEF T
  <2>4. Copied(heap, heap', T, n, g)
    BY <1>0, <2>1, <2>2, <2>3, CloneFields
  <2> QED
    BY <1>0, <2>1, <2>4, FoundedClone
<1>12. CASE UNCHANGED vars
  BY <1>12 DEF vars
<1> QED
  BY <1>1, <1>2, <1>4, <1>5, <1>6, <1>7, <1>8, <1>9, <1>10, <1>11, <1>12 DEF Next

\* With safety checks enabled, the ancestor walk of S_can_contain is all it
\* takes: no sequence of calls makes a node its own ancestor.
THEOREM NoCycles ==
  ASSUME SelfSibling = FALSE, SafetyChecks = TRUE
  PROVE  Spec => []Acyclic
<1>1. Init => Acyclic
  BY NullAssumption DEF Init, Acyclic, Founded
<1>2. WellFormed(heap) /\ Acyclic /\ [Next]_vars => Acyclic'
  BY NextAcyclic
<1> QED
  BY <1>1, <1>2, WellFormedInvariant, PTL DEF Spec

-----------------------------------------------------------------------------
(***************************************************************************)
(* The children of a node as a list.                                       *)
(***************************************************************************)

\* s is the list of p's children, from either end.
IsList(h, p, s) ==
  /\ s \in Seq(Node)
  /\ h.first_child[p] = IF Len(s) = 0 THEN NULL ELSE s[1]
  /\ h.last_child[p] = IF Len(s) = 0 THEN NULL ELSE s[Len(s)]
  /\ \A i \in 1 .. Len(s) : h.next[s[i]] = IF i < Len(s) THEN s[i + 1] ELSE NULL
  /\ \A i \in 1 .. Len(s) : h.prev[s[i]] = IF 1 < i THEN s[i - 1] ELSE NULL
  /\ \A i, j \in 1 .. Len(s) : s[i] = s[j] => i = j
  /\ \A m \in Node : h.parent[m] = p <=> \E i \in 1 .. Len(s) : s[i] = m

Lists(h, L) == L \in [Node -> Seq(Node)] /\ \A p \in Node : IsList(h, p, L[p])

IInv == WellFormed(heap) /\ \E L \in [Node -> Seq(Node)] : Lists(heap, L)

-----------------------------------------------------------------------------
(***************************************************************************)
(* Reading the lists.                                                      *)
(***************************************************************************)

\* There are as many children as the list has places.
LEMMA ListCounts ==
  ASSUME NEW h, NEW p \in Node, NEW s, IsList(h, p, s)
  PROVE  Cardinality({n \in Node : h.parent[n] = p}) = Len(s)
<1> DEFINE K == {n \in Node : h.parent[n] = p}
<1>1. s \in Seq(Node) /\ Len(s) \in Nat /\ \A i \in 1 .. Len(s) : s[i] \in Node
  BY ElementOfSeq DEF IsList
<1>2. \A i \in 1 .. Len(s) : s[i] \in K
  BY <1>1 DEF IsList
<1>3. \A n \in K : \E i \in 1 .. Len(s) : s[i] = n
  BY DEF IsList
<1>4. DOMAIN s = 1 .. Len(s) /\ s = [i \in 1 .. Len(s) |-> s[i]]
  BY <1>1
<1>5. s \in [1 .. Len(s) -> K]
  BY <1>2, <1>4
<1>6. \A i, j \in 1 .. Len(s) : s[i] = s[j] => i = j
  BY DEF IsList
<1>7. s \in Bijection(1 .. Len(s), K)
  BY <1>3, <1>5, <1>6 DEF Bijection, Injection, Surjection, IsInjective
<1>8. ExistsBijection(1 .. Len(s), K)
  BY <1>7 DEF ExistsBijection
<1> HIDE DEF K
<1>9. Cardinality(K) = Len(s)
  BY <1>1, <1>8, FS_CountingElements
<1> QED
  BY <1>9 DEF K

\* The walk along next finds the list.
LEMMA WalkFinds ==
  ASSUME NEW h, NEW p \in Node, NEW s, IsList(h, p, s)
  PROVE  Walk(h, p) = s
<1> DEFINE D == 1 .. Cardinality({n \in Node : h.parent[n] = p})
           Goes(at) == at = [i \in D |-> IF i = 1 THEN h.first_child[p]
                                         ELSE IF at[i - 1] = NULL THEN NULL
                                         ELSE h.next[at[i - 1]]]
<1>0. Cardinality({n \in Node : h.parent[n] = p}) = Len(s)
  BY ListCounts
<1>1. s \in Seq(Node) /\ Len(s) \in Nat /\ D = 1 .. Len(s)
  <2>1. s \in Seq(Node)
    BY DEF IsList
  <2>2. D = 1 .. Len(s)
    BY <1>0
  <2> QED
    BY <2>1, <2>2
<1>2. \A i \in 1 .. Len(s) : s[i] \in Node
  BY <1>1, ElementOfSeq
<1>3. Walk(h, p) = CHOOSE at : Goes(at)
  BY DEF Walk
<1> HIDE DEF D
<1>4. Goes(s)
  <2> DEFINE w == [i \in D |-> IF i = 1 THEN h.first_child[p]
                               ELSE IF s[i - 1] = NULL THEN NULL
                               ELSE h.next[s[i - 1]]]
  <2>1. ASSUME NEW i \in 1 .. Len(s)
        PROVE  w[i] = s[i]
    <3>1. CASE i = 1
      BY <1>1, <3>1 DEF IsList
    <3>2. CASE i # 1
      <4>1. i - 1 \in 1 .. Len(s) /\ i - 1 < Len(s) /\ (i - 1) + 1 = i
        BY <1>1, <3>2
      <4>2. h.next[s[i - 1]] = s[i]
        BY <4>1 DEF IsList
      <4>3. s[i - 1] # NULL
        BY <1>2, <4>1, NullAssumption
      <4> QED
        BY <1>1, <3>2, <4>2, <4>3
    <3> QED
      BY <3>1, <3>2
  <2>2. DOMAIN w = 1 .. Len(s) /\ DOMAIN s = 1 .. Len(s) /\ s = [i \in 1 .. Len(s) |-> s[i]]
    BY <1>1
  <2>3. w = s
    BY <1>1, <2>1, <2>2
  <2> QED
    BY <2>3
<1>5. ASSUME NEW at, Goes(at)
      PROVE  at = s
  <2>1. DOMAIN at = 1 .. Len(s) /\ at = [i \in 1 .. Len(s) |-> at[i]]
    BY <1>1, <1>5
  <2>2. \A i \in 1 .. Len(s) : at[i] = s[i]
    <3> DEFINE E == {i \in 1 .. Len(s) : at[i] # s[i]}
    <3>1. SUFFICES ASSUME E # {}
                   PROVE  FALSE
      OBVIOUS
    <3>2. PICK i \in E : \A k \in E : i <= k
      <4>1. E \in SUBSET Nat
        OBVIOUS
      <4> HIDE DEF E
      <4> QED
        BY <3>1, <4>1, LeastNumber
    <3>3. i \in 1 .. Len(s) /\ at[i] # s[i]
      BY <3>2
    <3>4. at[i] = IF i = 1 THEN h.first_child[p]
                  ELSE IF at[i - 1] = NULL THEN NULL ELSE h.next[at[i - 1]]
      BY <1>1, <1>5, <3>3
    <3>5. i # 1
      BY <1>1, <3>3, <3>4 DEF IsList
    <3>6. i - 1 \in 1 .. Len(s) /\ i - 1 < Len(s) /\ (i - 1) + 1 = i /\ i - 1 \notin E
      BY <1>1, <3>2, <3>3, <3>5
    <3>7. at[i - 1] = s[i - 1]
      BY <3>6
    <3>8. s[i - 1] # NULL /\ h.next[s[i - 1]] = s[i]
      BY <1>2, <3>6, NullAssumption DEF IsList
    <3> QED
      BY <3>3, <3>4, <3>5, <3>7, <3>8
  <2>3. s = [i \in 1 .. Len(s) |-> s[i]]
    BY <1>1
  <2> QED
    BY <2>1, <2>2, <2>3
<1> HIDE DEF Goes
<1> QED
  BY <1>3, <1>4, <1>5

\* What p's list depends on.
SameAt(h, w, p) ==
  /\ w.first_child[p] = h.first_child[p] /\ w.last_child[p] = h.last_child[p]
  /\ \A m \in Node : w.parent[m] = p <=> h.parent[m] = p
  /\ \A m \in Node : h.parent[m] = p => w.next[m] = h.next[m] /\ w.prev[m] = h.prev[m]

\* A list that no change touches stays.
LEMMA ListStays ==
  ASSUME NEW h, NEW p, NEW s, IsList(h, p, s), NEW w, SameAt(h, w, p)
  PROVE  IsList(w, p, s)
<1>1. /\ s \in Seq(Node)
      /\ h.first_child[p] = IF Len(s) = 0 THEN NULL ELSE s[1]
      /\ h.last_child[p] = IF Len(s) = 0 THEN NULL ELSE s[Len(s)]
      /\ \A i \in 1 .. Len(s) : h.next[s[i]] = IF i < Len(s) THEN s[i + 1] ELSE NULL
      /\ \A i \in 1 .. Len(s) : h.prev[s[i]] = IF 1 < i THEN s[i - 1] ELSE NULL
      /\ \A i, j \in 1 .. Len(s) : s[i] = s[j] => i = j
      /\ \A m \in Node : h.parent[m] = p <=> \E i \in 1 .. Len(s) : s[i] = m
  BY DEF IsList
<1>2. \A i \in 1 .. Len(s) : s[i] \in Node /\ h.parent[s[i]] = p
  BY <1>1, ElementOfSeq
<1>3. \A i \in 1 .. Len(s) : w.next[s[i]] = h.next[s[i]] /\ w.prev[s[i]] = h.prev[s[i]]
  BY <1>2 DEF SameAt
<1>4. /\ w.first_child[p] = IF Len(s) = 0 THEN NULL ELSE s[1]
      /\ w.last_child[p] = IF Len(s) = 0 THEN NULL ELSE s[Len(s)]
  BY <1>1 DEF SameAt
<1>5. /\ \A i \in 1 .. Len(s) : w.next[s[i]] = IF i < Len(s) THEN s[i + 1] ELSE NULL
      /\ \A i \in 1 .. Len(s) : w.prev[s[i]] = IF 1 < i THEN s[i - 1] ELSE NULL
  BY <1>1, <1>3
<1>6. \A m \in Node : w.parent[m] = p <=> \E i \in 1 .. Len(s) : s[i] = m
  BY <1>1 DEF SameAt
<1> QED
  BY <1>1, <1>4, <1>5, <1>6 DEF IsList

-----------------------------------------------------------------------------
(***************************************************************************)
(* Taking a node out of its list.                                          *)
(***************************************************************************)

\* A list without n, which it has at g.
LEMMA RemovedFirst ==
  ASSUME NEW T, NEW s \in Seq(T), NEW g \in 1 .. Len(s), NEW n, s[g] = n,
         \A i, j \in 1 .. Len(s) : s[i] = s[j] => i = j
  PROVE  LacksPlace(T, s, g, RemoveFirst(s, n))
<1> DEFINE I == {i \in 1 .. Len(s) : s[i] = n}
           d == SubSeq(s, 1, g - 1) \o SubSeq(s, g + 1, Len(s))
<1>1. I = {g}
  OBVIOUS
<1>2. Min(I) = g
  BY <1>1 DEF Min
<1>3. SelectInSeq(s, LAMBDA v : v = n) = g
  BY <1>1, <1>2 DEF SelectInSeq
<1>4. RemoveFirst(s, n) = d
  BY <1>3 DEF RemoveFirst, RemoveAt
<1> HIDE DEF d
<1>5. LacksPlace(T, s, g, d)
  BY RemovedAt, Zenon DEF d
<1> QED
  BY <1>4, <1>5

\* A list without n, which it does not have.
LEMMA RemovedNone ==
  ASSUME NEW s, NEW n, \A i \in 1 .. Len(s) : s[i] # n
  PROVE  RemoveFirst(s, n) = s
  BY DEF RemoveFirst

Cut(L, n) == [p \in Node |-> RemoveFirst(L[p], n)]

StandsAt(h, s, n, g) ==
  /\ s[g] = n
  /\ h.next[n] = IF g < Len(s) THEN s[g + 1] ELSE NULL
  /\ h.prev[n] = IF 1 < g THEN s[g - 1] ELSE NULL

\* A node is on the list of its parent, and its neighbours there are those it
\* points to.
LEMMA OnItsList ==
  ASSUME NEW h, NEW q \in Node, NEW s, IsList(h, q, s), NEW n \in Node, h.parent[n] = q
  PROVE  \E g \in 1 .. Len(s) : StandsAt(h, s, n, g)
<1>1. PICK g \in 1 .. Len(s) : s[g] = n
  BY DEF IsList
<1> QED
  BY <1>1 DEF IsList, StandsAt

\* The list that n leaves.
LEMMA UnlinkList ==
  ASSUME NEW h, WellFormed(h), NEW q \in Node, NEW s, IsList(h, q, s), NEW n \in Node,
         h.parent[n] = q, NEW v, Unlinked(h, v, n)
  PROVE  IsList(v, q, RemoveFirst(s, n))
<1> DEFINE r == RemoveFirst(s, n)
<1> HIDE DEF r
<1>0. PICK g \in 1 .. Len(s) : StandsAt(h, s, n, g)
  BY OnItsList
<1>1. /\ s[g] = n
      /\ h.next[n] = IF g < Len(s) THEN s[g + 1] ELSE NULL
      /\ h.prev[n] = IF 1 < g THEN s[g - 1] ELSE NULL
  BY <1>0 DEF StandsAt
<1>2. /\ s \in Seq(Node) /\ Len(s) \in Nat /\ \A i \in 1 .. Len(s) : s[i] \in Node
      /\ \A i, j \in 1 .. Len(s) : s[i] = s[j] => i = j
      /\ h.first_child[q] = s[1] /\ h.last_child[q] = s[Len(s)]
  <2>1. s \in Seq(Node) /\ Len(s) \in Nat /\ \A i \in 1 .. Len(s) : s[i] \in Node
    BY ElementOfSeq DEF IsList
  <2> QED
    BY <1>1, <2>1 DEF IsList
<1>3. /\ r \in Seq(Node) /\ Len(r) = Len(s) - 1
      /\ \A i \in 1 .. Len(s) - 1 : r[i] = IF i < g THEN s[i] ELSE s[i + 1]
  <2>1. LacksPlace(Node, s, g, RemoveFirst(s, n))
    BY <1>1, <1>2, RemovedFirst
  <2> QED
    BY <2>1 DEF LacksPlace, r
<1>4. /\ \A i \in 1 .. Len(s) : h.next[s[i]] = IF i < Len(s) THEN s[i + 1] ELSE NULL
      /\ \A i \in 1 .. Len(s) : h.prev[s[i]] = IF 1 < i THEN s[i - 1] ELSE NULL
      /\ \A m \in Node : h.parent[m] = q <=> \E i \in 1 .. Len(s) : s[i] = m
  BY DEF IsList
<1>5. /\ v.first_child[q] = IF s[1] = n THEN h.next[n] ELSE s[1]
      /\ v.last_child[q] = IF s[Len(s)] = n THEN h.prev[n] ELSE s[Len(s)]
      /\ \A m \in Node \ {n} :
           /\ v.next[m] = IF m = h.prev[n] THEN h.next[n] ELSE h.next[m]
           /\ v.prev[m] = IF m = h.next[n] THEN h.prev[n] ELSE h.prev[m]
           /\ v.parent[m] = h.parent[m]
      /\ v.parent[n] = NULL
  BY <1>2 DEF Unlinked
\* Places in the shorter list are places in the longer one.
<1> DEFINE at(i) == IF i < g THEN i ELSE i + 1
<1>6. \A i \in 1 .. Len(r) : /\ at(i) \in 1 .. Len(s) /\ at(i) # g /\ r[i] = s[at(i)]
                             /\ r[i] \in Node \ {n}
  <2>1. ASSUME NEW i \in 1 .. Len(r)
        PROVE  /\ at(i) \in 1 .. Len(s) /\ at(i) # g /\ r[i] = s[at(i)]
               /\ r[i] \in Node \ {n}
    <3>1. at(i) \in 1 .. Len(s) /\ at(i) # g
      BY <1>2, <1>3
    <3>2. r[i] = s[at(i)]
      BY <1>2, <1>3
    <3>3. s[at(i)] \in Node /\ s[at(i)] # s[g]
      <4> HIDE DEF at
      <4> QED
        BY <1>2, <3>1
    <3> QED
      BY <1>1, <3>1, <3>2, <3>3
  <2> QED
    BY <2>1
<1>7. v.first_child[q] = IF Len(r) = 0 THEN NULL ELSE r[1]
  <2>1. CASE g = 1
    BY <1>1, <1>2, <1>3, <1>5, <2>1
  <2>2. CASE g # 1
    <3>1. s[1] # n
      BY <1>1, <1>2, <2>2
    <3> QED
      BY <1>1, <1>2, <1>3, <1>5, <2>2, <3>1
  <2> QED
    BY <2>1, <2>2
<1>8. v.last_child[q] = IF Len(r) = 0 THEN NULL ELSE r[Len(r)]
  <2>1. CASE g = Len(s)
    BY <1>1, <1>2, <1>3, <1>5, <2>1
  <2>2. CASE g # Len(s)
    <3>1. s[Len(s)] # n
      BY <1>1, <1>2, <2>2
    <3>2. Len(r) \in 1 .. Len(s) - 1 /\ ~(Len(r) < g) /\ Len(r) + 1 = Len(s)
      BY <1>2, <1>3, <2>2
    <3> QED
      BY <1>3, <1>5, <3>1, <3>2
  <2> QED
    BY <2>1, <2>2
<1>9. ASSUME NEW i \in 1 .. Len(r)
      PROVE  v.next[r[i]] = IF i < Len(r) THEN r[i + 1] ELSE NULL
  <2>1. v.next[r[i]] = IF r[i] = h.prev[n] THEN h.next[n] ELSE h.next[s[at(i)]]
    BY <1>5, <1>6
  <2>2. CASE i + 1 < g
    <3>1. g - 1 \in 1 .. Len(s) /\ s[i] # s[g - 1] /\ 1 < g /\ i \in 1 .. Len(s)
      BY <1>2, <1>3, <2>2
    <3>2. v.next[r[i]] = h.next[s[i]] /\ i < Len(s)
      BY <1>1, <1>2, <1>6, <2>1, <2>2, <3>1
    <3> QED
      BY <1>2, <1>3, <1>4, <2>2, <3>1, <3>2
  <2>3. CASE i + 1 = g
    <3>1. r[i] = s[g - 1] /\ h.prev[n] = s[g - 1]
      BY <1>1, <1>2, <1>6, <2>3
    <3> QED
      BY <1>1, <1>2, <1>3, <2>1, <2>3, <3>1
  <2>4. CASE g <= i
    <3>1. i + 1 \in 1 .. Len(s) /\ r[i] = s[i + 1]
      BY <1>2, <1>3, <1>6, <2>4
    <3>2. r[i] # h.prev[n]
      <4>1. ASSUME 1 < g
            PROVE  g - 1 \in 1 .. Len(s) /\ s[i + 1] # s[g - 1]
        BY <1>2, <2>4, <3>1, <4>1
      <4> QED
        BY <1>1, <1>2, <3>1, <4>1, NullAssumption
    <3> QED
      BY <1>2, <1>3, <1>4, <2>1, <2>4, <3>1, <3>2
  <2> QED
    BY <1>2, <1>3, <2>2, <2>3, <2>4
<1>10. ASSUME NEW i \in 1 .. Len(r)
       PROVE  v.prev[r[i]] = IF 1 < i THEN r[i - 1] ELSE NULL
  <2>1. v.prev[r[i]] = IF r[i] = h.next[n] THEN h.prev[n] ELSE h.prev[s[at(i)]]
    BY <1>5, <1>6
  <2>2. CASE i < g
    <3>1. i \in 1 .. Len(s) /\ r[i] = s[i]
      BY <1>2, <1>3, <1>6, <2>2
    <3>2. r[i] # h.next[n]
      <4>1. ASSUME g < Len(s)
            PROVE  g + 1 \in 1 .. Len(s) /\ s[i] # s[g + 1]
        BY <1>2, <2>2, <3>1, <4>1
      <4> QED
        BY <1>1, <1>2, <3>1, <4>1, NullAssumption
    <3> QED
      BY <1>2, <1>3, <1>4, <2>1, <2>2, <3>1, <3>2
  <2>3. CASE i = g
    <3>1. r[i] = s[g + 1] /\ h.next[n] = s[g + 1]
      BY <1>1, <1>2, <1>3, <1>6, <2>3
    <3> QED
      BY <1>1, <1>2, <1>3, <2>1, <2>3, <3>1
  <2>4. CASE g < i
    <3>1. i + 1 \in 1 .. Len(s) /\ r[i] = s[i + 1] /\ g < Len(s)
      BY <1>2, <1>3, <1>6, <2>4
    <3>2. g + 1 \in 1 .. Len(s) /\ s[i + 1] # s[g + 1]
      BY <1>2, <2>4, <3>1
    <3>3. v.prev[r[i]] = h.prev[s[i + 1]]
      BY <1>1, <2>1, <2>4, <3>1, <3>2
    <3>4. h.prev[s[i + 1]] = s[i]
      BY <1>2, <1>4, <2>4, <3>1
    <3>5. i - 1 \in 1 .. Len(s) - 1 /\ ~(i - 1 < g) /\ (i - 1) + 1 = i /\ 1 < i
      BY <1>2, <1>3, <2>4
    <3>6. r[i - 1] = s[i]
      BY <1>3, <3>5
    <3> QED
      BY <3>3, <3>4, <3>5, <3>6
  <2> QED
    BY <1>2, <1>3, <2>2, <2>3, <2>4
<1>11. ASSUME NEW i \in 1 .. Len(r), NEW j \in 1 .. Len(r), r[i] = r[j]
       PROVE  i = j
  <2>1. s[at(i)] = s[at(j)] /\ at(i) \in 1 .. Len(s) /\ at(j) \in 1 .. Len(s)
    BY <1>6, <1>11
  <2>2. at(i) = at(j)
    <3> HIDE DEF at
    <3> QED
      BY <1>2, <2>1
  <2> QED
    BY <1>2, <1>3, <2>2
<1>12. ASSUME NEW m \in Node
       PROVE  v.parent[m] = q <=> \E i \in 1 .. Len(r) : r[i] = m
  <2>1. CASE m = n
    BY <1>5, <1>6, <2>1, NullAssumption
  <2>2. CASE m # n
    <3>1. ASSUME NEW j \in 1 .. Len(s), s[j] = m
          PROVE  \E i \in 1 .. Len(r) : r[i] = m
      <4>1. j # g
        BY <1>1, <2>2, <3>1
      <4>2. CASE j < g
        BY <1>2, <1>3, <3>1, <4>2
      <4>3. CASE g < j
        <5>1. j - 1 \in 1 .. Len(r) /\ ~(j - 1 < g) /\ (j - 1) + 1 = j
          BY <1>2, <1>3, <4>3
        <5>2. r[j - 1] = s[(j - 1) + 1]
          BY <1>3, <5>1
        <5> QED
          BY <3>1, <5>1, <5>2
      <4> QED
        BY <1>2, <4>1, <4>2, <4>3
    <3>2. (\E i \in 1 .. Len(r) : r[i] = m) => \E j \in 1 .. Len(s) : s[j] = m
      <4> HIDE DEF at
      <4> QED
        BY <1>6
    <3> QED
      BY <1>4, <1>5, <2>2, <3>1, <3>2
  <2> QED
    BY <2>1, <2>2
<1> QED
  BY <1>3, <1>7, <1>8, <1>9, <1>10, <1>11, <1>12 DEF IsList, r

\* The lists that it does not leave.
LEMMA UnlinkOthers ==
  ASSUME NEW h, WellFormed(h), NEW q \in Node, NEW s, IsList(h, q, s), NEW n \in Node,
         h.parent[n] # q, NEW v, Unlinked(h, v, n)
  PROVE  IsList(v, q, s) /\ RemoveFirst(s, n) = s
<1>1. s \in Seq(Node) /\ Len(s) \in Nat /\ \A i \in 1 .. Len(s) : s[i] \in Node
  BY ElementOfSeq DEF IsList
<1>2. \A i \in 1 .. Len(s) : h.parent[s[i]] = q
  BY <1>1 DEF IsList
<1>3. h \in Heap /\ Linked(h)
  BY DEF WellFormed
<1>4. ASSUME NEW m \in Node, h.parent[m] = q
      PROVE  m # n /\ m # h.prev[n] /\ m # h.next[n]
  BY <1>3, <1>4, NullAssumption DEF Linked, NextLinked, PrevLinked
<1>5. \A m \in Node : h.parent[m] = q =>
        v.next[m] = h.next[m] /\ v.prev[m] = h.prev[m] /\ v.parent[m] = q
  BY <1>4 DEF Unlinked
<1>6. /\ v.first_child[q] = h.first_child[q] /\ v.last_child[q] = h.last_child[q]
      /\ \A m \in Node : v.parent[m] = q <=> h.parent[m] = q
  BY <1>5, NullAssumption DEF Unlinked
<1>7. IsList(v, q, s)
  <2>1. SameAt(h, v, q)
    BY <1>5, <1>6 DEF SameAt
  <2> QED
    BY <2>1, ListStays
<1>8. RemoveFirst(s, n) = s
  BY <1>1, <1>2, <1>4, RemovedNone
<1> QED
  BY <1>7, <1>8

\* cmark_node_unlink takes the node out of its list and leaves the others.
LEMMA UnlinkLists ==
  ASSUME NEW h, WellFormed(h), NEW L, Lists(h, L), NEW n \in Node,
         NEW v, Unlinked(h, v, n)
  PROVE  Lists(v, Cut(L, n))
<1>1. ASSUME NEW q \in Node
      PROVE  IsList(v, q, Cut(L, n)[q])
  <2>1. IsList(h, q, L[q])
    BY DEF Lists
  <2>2. Cut(L, n)[q] = RemoveFirst(L[q], n)
    BY DEF Cut
  <2>3. CASE h.parent[n] = q
    BY <2>1, <2>2, <2>3, UnlinkList
  <2>4. CASE h.parent[n] # q
    <3>1. IsList(v, q, L[q]) /\ RemoveFirst(L[q], n) = L[q]
      BY <2>1, <2>4, UnlinkOthers
    <3> QED
      BY <2>2, <3>1
  <2> QED
    BY <2>3, <2>4
<1>2. \A q \in Node : Cut(L, n)[q] \in Seq(Node)
  BY <1>1 DEF IsList
<1>3. Cut(L, n) \in [Node -> Seq(Node)]
  BY <1>2 DEF Cut
<1> QED
  BY <1>1, <1>3 DEF Lists
-----------------------------------------------------------------------------
(***************************************************************************)
(* Putting a node into a list.                                             *)
(***************************************************************************)

\* A list with e put in.
LEMMA PutIn ==
  ASSUME NEW T, NEW s \in Seq(T), NEW g \in 1 .. Len(s) + 1, NEW e \in T
  PROVE  HasPlace(T, s, g, e, InsertAt(s, g, e))
<1> DEFINE d == SubSeq(s, 1, g - 1) \o <<e>> \o SubSeq(s, g, Len(s))
<1>1. HasPlace(T, s, g, e, d)
  BY InsertedAt, Zenon
<1> QED
  BY <1>1, Zenon DEF InsertAt

\* a and b are the neighbours at place i of s.
IsGap(s, i, a, b) ==
  /\ i \in 1 .. Len(s) + 1
  /\ a = IF i = 1 THEN NULL ELSE s[i - 1]
  /\ b = IF i = Len(s) + 1 THEN NULL ELSE s[i]

\* The list that c joins.
LEMMA InsertList ==
  ASSUME NEW v, NEW p \in Node, NEW s, IsList(v, p, s), NEW c, Isolated(v, c),
         NEW i, NEW a, NEW b, IsGap(s, i, a, b), NEW w, Inserted(v, w, c, p, a, b)
  PROVE  IsList(w, p, InsertAt(s, i, c))
<1> DEFINE r == InsertAt(s, i, c)
<1> HIDE DEF r
<1>1. /\ i \in 1 .. Len(s) + 1
      /\ a = IF i = 1 THEN NULL ELSE s[i - 1]
      /\ b = IF i = Len(s) + 1 THEN NULL ELSE s[i]
  BY DEF IsGap
<1>2. /\ s \in Seq(Node) /\ Len(s) \in Nat /\ \A k \in 1 .. Len(s) : s[k] \in Node
      /\ \A k, j \in 1 .. Len(s) : s[k] = s[j] => k = j
  <2>1. s \in Seq(Node) /\ Len(s) \in Nat /\ \A k \in 1 .. Len(s) : s[k] \in Node
    BY ElementOfSeq DEF IsList
  <2> QED
    BY <2>1 DEF IsList
<1>3. c \in Node /\ v.parent[c] = NULL /\ \A k \in 1 .. Len(s) : s[k] # c
  BY <1>2, NullAssumption DEF Isolated, IsList
<1>4. /\ r \in Seq(Node) /\ Len(r) = Len(s) + 1
      /\ \A k \in 1 .. Len(s) + 1 :
           r[k] = IF k < i THEN s[k] ELSE IF k = i THEN c ELSE s[k - 1]
  <2>1. HasPlace(Node, s, i, c, InsertAt(s, i, c))
    BY <1>1, <1>2, <1>3, PutIn
  <2> QED
    BY <2>1 DEF HasPlace, r
<1>5. /\ v.first_child[p] = IF Len(s) = 0 THEN NULL ELSE s[1]
      /\ v.last_child[p] = IF Len(s) = 0 THEN NULL ELSE s[Len(s)]
      /\ \A k \in 1 .. Len(s) : v.next[s[k]] = IF k < Len(s) THEN s[k + 1] ELSE NULL
      /\ \A k \in 1 .. Len(s) : v.prev[s[k]] = IF 1 < k THEN s[k - 1] ELSE NULL
      /\ \A m \in Node : v.parent[m] = p <=> \E k \in 1 .. Len(s) : s[k] = m
  BY DEF IsList
<1>6. /\ \A m \in Node :
           /\ w.next[m] = IF m = c THEN b ELSE IF m = a THEN c ELSE v.next[m]
           /\ w.prev[m] = IF m = c THEN a ELSE IF m = b THEN c ELSE v.prev[m]
           /\ w.parent[m] = IF m = c THEN p ELSE v.parent[m]
      /\ w.first_child[p] = IF a = NULL THEN c ELSE v.first_child[p]
      /\ w.last_child[p] = IF b = NULL THEN c ELSE v.last_child[p]
  BY DEF Inserted
<1>7. (a = NULL <=> i = 1) /\ (b = NULL <=> i = Len(s) + 1)
  <2>1. i # 1 => s[i - 1] # NULL
    BY <1>1, <1>2, NullAssumption
  <2>2. i # Len(s) + 1 => s[i] # NULL
    BY <1>1, <1>2, NullAssumption
  <2> QED
    BY <1>1, <2>1, <2>2
<1>8. w.first_child[p] = IF Len(r) = 0 THEN NULL ELSE r[1]
  BY <1>1, <1>2, <1>4, <1>5, <1>6, <1>7
<1>9. w.last_child[p] = IF Len(r) = 0 THEN NULL ELSE r[Len(r)]
  BY <1>1, <1>2, <1>4, <1>5, <1>6, <1>7
<1>10. ASSUME NEW k \in 1 .. Len(r)
       PROVE  w.next[r[k]] = IF k < Len(r) THEN r[k + 1] ELSE NULL
  <2>1. CASE k + 1 < i
    <3>1. k \in 1 .. Len(s) /\ i - 1 \in 1 .. Len(s) /\ k < Len(s) /\ k + 1 \in 1 .. Len(r)
      BY <1>1, <1>2, <1>4, <2>1
    <3>2. r[k] = s[k] /\ r[k + 1] = s[k + 1] /\ a = s[i - 1] /\ s[k] # s[i - 1]
      BY <1>1, <1>2, <1>4, <2>1, <3>1
    <3>3. w.next[s[k]] = v.next[s[k]]
      BY <1>2, <1>3, <1>6, <3>1, <3>2
    <3> QED
      BY <1>4, <1>5, <3>1, <3>2, <3>3
  <2>2. CASE k + 1 = i
    <3>1. k \in 1 .. Len(s) /\ r[k] = s[k] /\ a = s[k] /\ r[k + 1] = c /\ k < Len(r)
      BY <1>1, <1>2, <1>4, <2>2
    <3> QED
      BY <1>2, <1>3, <1>6, <3>1
  <2>3. CASE k = i
    <3>1. r[k] = c /\ (i < Len(s) + 1 => i + 1 \in 1 .. Len(r) /\ r[i + 1] = s[i])
      BY <1>1, <1>2, <1>4, <2>3
    <3> QED
      BY <1>1, <1>3, <1>4, <1>6, <2>3, <3>1
  <2>4. CASE i < k
    <3>1. k - 1 \in 1 .. Len(s) /\ r[k] = s[k - 1] /\ (k - 1) + 1 = k
      BY <1>1, <1>2, <1>4, <2>4
    <3>2. s[k - 1] # a
      <4>1. CASE i = 1
        BY <1>1, <1>2, <3>1, <4>1, NullAssumption
      <4>2. CASE i # 1
        <5>1. i - 1 \in 1 .. Len(s) /\ i - 1 # k - 1 /\ a = s[i - 1]
          BY <1>1, <1>2, <2>4, <4>2
        <5> QED
          BY <1>2, <3>1, <5>1
      <4> QED
        BY <4>1, <4>2
    <3>3. w.next[s[k - 1]] = v.next[s[k - 1]]
      BY <1>2, <1>3, <1>6, <3>1, <3>2
    <3>7. w.next[r[k]] = IF k - 1 < Len(s) THEN s[k] ELSE NULL
      BY <1>5, <3>1, <3>3
    <3>4. k < Len(r) => k + 1 \in 1 .. Len(s) + 1 /\ ~(k + 1 < i) /\ k + 1 # i /\ (k + 1) - 1 = k
      BY <1>1, <1>2, <1>4, <2>4
    <3>5. k < Len(r) => r[k + 1] = s[k]
      BY <1>4, <3>4
    <3>6. k < Len(r) <=> k - 1 < Len(s)
      BY <1>2, <1>4
    <3> QED
      BY <3>5, <3>6, <3>7
  <2> QED
    BY <1>1, <1>2, <1>4, <2>1, <2>2, <2>3, <2>4
<1>11. ASSUME NEW k \in 1 .. Len(r)
       PROVE  w.prev[r[k]] = IF 1 < k THEN r[k - 1] ELSE NULL
  <2>1. CASE k < i
    <3>1. k \in 1 .. Len(s) /\ r[k] = s[k] /\ (1 < k => r[k - 1] = s[k - 1])
      BY <1>1, <1>2, <1>4, <2>1
    <3>2. s[k] # b
      <4>1. CASE i = Len(s) + 1
        BY <1>1, <1>2, <3>1, <4>1, NullAssumption
      <4>2. CASE i # Len(s) + 1
        <5>1. i \in 1 .. Len(s) /\ i # k /\ b = s[i]
          BY <1>1, <1>2, <2>1, <4>2
        <5> QED
          BY <1>2, <3>1, <5>1
      <4> QED
        BY <4>1, <4>2
    <3>3. w.prev[r[k]] = v.prev[s[k]]
      BY <1>2, <1>3, <1>6, <3>1, <3>2
    <3> QED
      BY <1>5, <3>1, <3>3
  <2>2. CASE k = i
    <3>1. r[k] = c /\ (1 < i => r[i - 1] = s[i - 1])
      BY <1>1, <1>2, <1>4, <2>2
    <3> QED
      BY <1>1, <1>3, <1>6, <2>2, <3>1
  <2>3. CASE k = i + 1
    <3>1. i \in 1 .. Len(s) /\ r[k] = s[i] /\ b = s[i] /\ k - 1 = i /\ r[i] = c /\ 1 < k
      BY <1>1, <1>2, <1>4, <2>3
    <3> QED
      BY <1>2, <1>3, <1>6, <3>1
  <2>4. CASE i + 1 < k
    <3>1. k - 1 \in 1 .. Len(s) /\ i \in 1 .. Len(s) /\ i # k - 1 /\ 1 < k - 1 /\ 1 < k
      BY <1>1, <1>2, <1>4, <2>4
    <3>2. r[k] = s[k - 1] /\ b = s[i] /\ s[k - 1] # s[i]
      BY <1>1, <1>2, <1>4, <2>4, <3>1
    <3>3. k - 1 \in 1 .. Len(s) + 1 /\ ~(k - 1 < i) /\ k - 1 # i
      BY <1>1, <1>2, <2>4, <3>1
    <3>4. r[k - 1] = s[(k - 1) - 1]
      BY <1>4, <3>3
    <3>5. w.prev[r[k]] = v.prev[s[k - 1]]
      BY <1>2, <1>3, <1>6, <3>1, <3>2
    <3>6. v.prev[s[k - 1]] = s[(k - 1) - 1]
      BY <1>5, <3>1
    <3> QED
      BY <3>1, <3>4, <3>5, <3>6
  <2> QED
    BY <1>1, <1>2, <1>4, <2>1, <2>2, <2>3, <2>4
<1>12. ASSUME NEW k \in 1 .. Len(r), NEW j \in 1 .. Len(r), r[k] = r[j]
       PROVE  k = j
  <2>1. ASSUME NEW l \in 1 .. Len(r)
        PROVE  \/ l = i /\ r[l] = c
               \/ l < i /\ l \in 1 .. Len(s) /\ r[l] = s[l]
               \/ i < l /\ l - 1 \in 1 .. Len(s) /\ r[l] = s[l - 1]
    BY <1>1, <1>2, <1>4
  <2>2. \/ k = i /\ r[k] = c
        \/ k < i /\ k \in 1 .. Len(s) /\ r[k] = s[k]
        \/ i < k /\ k - 1 \in 1 .. Len(s) /\ r[k] = s[k - 1]
    BY <2>1
  <2>3. \/ j = i /\ r[j] = c
        \/ j < i /\ j \in 1 .. Len(s) /\ r[j] = s[j]
        \/ i < j /\ j - 1 \in 1 .. Len(s) /\ r[j] = s[j - 1]
    BY <2>1
  <2>4. CASE k = i
    BY <1>2, <1>3, <1>12, <2>2, <2>3, <2>4
  <2>5. CASE k < i
    <3>1. k \in 1 .. Len(s) /\ r[j] = s[k] /\ s[k] # c
      BY <1>1, <1>3, <1>12, <2>2, <2>5
    <3>2. i < j => k # j - 1
      BY <1>1, <1>4, <2>5
    <3> QED
      BY <1>2, <2>3, <3>1, <3>2
  <2>6. CASE i < k
    <3>1. k - 1 \in 1 .. Len(s) /\ r[j] = s[k - 1] /\ s[k - 1] # c
      BY <1>1, <1>3, <1>12, <2>2, <2>6
    <3>2. j < i => j # k - 1
      BY <1>1, <1>4, <2>6
    <3>3. k - 1 = j - 1 => k = j
      BY <1>4
    <3> QED
      BY <1>2, <2>3, <3>1, <3>2, <3>3
  <2> QED
    BY <1>1, <1>4, <2>4, <2>5, <2>6
<1>13. ASSUME NEW m \in Node
       PROVE  w.parent[m] = p <=> \E k \in 1 .. Len(r) : r[k] = m
  <2>1. i \in 1 .. Len(r) /\ r[i] = c
    BY <1>1, <1>2, <1>4
  <2>2. CASE m = c
    BY <1>3, <1>6, <2>1, <2>2
  <2>3. CASE m # c
    <3>1. ASSUME NEW k \in 1 .. Len(s)
          PROVE  \E l \in 1 .. Len(r) : r[l] = s[k]
      <4>1. CASE k < i
        BY <1>2, <1>4, <4>1
      <4>2. CASE i <= k
        <5>1. k + 1 \in 1 .. Len(r) /\ r[k + 1] = s[k]
          BY <1>1, <1>2, <1>4, <4>2
        <5> QED
          BY <5>1
      <4> QED
        BY <1>1, <4>1, <4>2
    <3>2. ASSUME NEW k \in 1 .. Len(r), k # i
          PROVE  \E l \in 1 .. Len(s) : s[l] = r[k]
      <4>1. CASE k < i
        BY <1>1, <1>2, <1>4, <4>1
      <4>2. CASE i < k
        <5>1. k - 1 \in 1 .. Len(s) /\ r[k] = s[k - 1]
          BY <1>1, <1>2, <1>4, <4>2
        <5> QED
          BY <5>1
      <4> QED
        BY <1>1, <1>4, <3>2, <4>1, <4>2
    <3>3. w.parent[m] = p <=> \E k \in 1 .. Len(s) : s[k] = m
      BY <1>5, <1>6, <2>3
    <3>4. (\E k \in 1 .. Len(s) : s[k] = m) => \E k \in 1 .. Len(r) : r[k] = m
      BY <3>1
    <3>5. (\E k \in 1 .. Len(r) : r[k] = m) => \E k \in 1 .. Len(s) : s[k] = m
      BY <2>1, <2>3, <3>2
    <3> QED
      BY <3>3, <3>4, <3>5
  <2> QED
    BY <2>2, <2>3
<1> QED
  BY <1>4, <1>8, <1>9, <1>10, <1>11, <1>12, <1>13 DEF IsList, r

\* The lists that it does not join.
LEMMA InsertOthers ==
  ASSUME NEW v, NEW p \in Node, NEW q \in Node \ {p}, NEW s, IsList(v, q, s), NEW c,
         Isolated(v, c), NEW a, NEW b, Gap(v, p, a, b), NEW w, Inserted(v, w, c, p, a, b)
  PROVE  IsList(w, q, s)
<1>1. ASSUME NEW m \in Node, v.parent[m] = q
      PROVE  m # c /\ m # a /\ m # b
  BY <1>1, NullAssumption DEF Gap, Isolated
<1>2. \A m \in Node : v.parent[m] = q =>
        w.next[m] = v.next[m] /\ w.prev[m] = v.prev[m] /\ w.parent[m] = q
  BY <1>1 DEF Inserted
<1>3. /\ w.first_child[q] = v.first_child[q] /\ w.last_child[q] = v.last_child[q]
      /\ \A m \in Node : w.parent[m] = q <=> v.parent[m] = q
  BY <1>2 DEF Inserted, Isolated
<1>4. SameAt(v, w, q)
  BY <1>2, <1>3 DEF SameAt
<1> QED
  BY <1>4, ListStays

\* Inserting a node that is on no list puts it into one list and leaves the others.
LEMMA InsertLists ==
  ASSUME NEW v, NEW M, Lists(v, M), NEW p \in Node, NEW c, Isolated(v, c), NEW i,
         NEW a, NEW b, Gap(v, p, a, b), IsGap(M[p], i, a, b),
         NEW w, Inserted(v, w, c, p, a, b)
  PROVE  Lists(w, [M EXCEPT ![p] = InsertAt(M[p], i, c)])
<1> DEFINE Q == [M EXCEPT ![p] = InsertAt(M[p], i, c)]
<1>1. M \in [Node -> Seq(Node)] /\ \A q \in Node : IsList(v, q, M[q])
  BY DEF Lists
<1>2. IsList(w, p, InsertAt(M[p], i, c))
  BY <1>1, InsertList
<1>3. \A q \in Node \ {p} : IsList(w, q, M[q])
  BY <1>1, InsertOthers
<1>4. \A q \in Node : IsList(w, q, Q[q])
  BY <1>1, <1>2, <1>3
<1>5. InsertAt(M[p], i, c) \in Seq(Node)
  BY <1>2 DEF IsList
<1>6. Q \in [Node -> Seq(Node)]
  BY <1>1, <1>5
<1> QED
  BY <1>4, <1>6 DEF Lists
-----------------------------------------------------------------------------
(***************************************************************************)
(* The lists after each operation.                                         *)
(***************************************************************************)
Moved(L, c, p, i) == [Cut(L, c) EXCEPT ![p] = InsertAt(Cut(L, c)[p], i, c)]

\* The list of a node, with its neighbours, once c has left.
LEMMA LeavesLists ==
  ASSUME NEW h, WellFormed(h), NEW L, Lists(h, L), NEW c \in Live(h)
  PROVE  Lists(Unlink(h, c), Cut(L, c))
  BY UnlinkFields, UnlinkLists DEF WellFormed, Live

\* What Moved is made of.
LEMMA Moves ==
  ASSUME NEW h, WellFormed(h), NEW L, Lists(h, L), NEW c \in Live(h), NEW p \in Node,
         NEW i, NEW a, NEW b, NEW w,
         LET v == Unlink(h, c)
         IN  /\ Detached(h, v, c) /\ Gap(v, p, a, b)
             /\ IsGap(Cut(L, c)[p], i, a, b) /\ Inserted(v, w, c, p, a, b)
  PROVE  Lists(w, Moved(L, c, p, i))
<1> DEFINE v == Unlink(h, c)
<1>1. Lists(v, Cut(L, c))
  BY LeavesLists
<1>2. /\ Isolated(v, c) /\ Gap(v, p, a, b)
      /\ IsGap(Cut(L, c)[p], i, a, b) /\ Inserted(v, w, c, p, a, b)
  BY DEF Detached
<1> HIDE DEF v
<1> QED
  BY <1>1, <1>2, InsertLists DEF Moved

\* cmark_node_prepend_child puts c first.
LEMMA PrependLists ==
  ASSUME NEW h, WellFormed(h), NEW L, Lists(h, L), NEW p \in Live(h), NEW c \in Live(h)
  PROVE  Lists(PrependChild(h, p, c), Moved(L, c, p, 1))
<1> DEFINE v == Unlink(h, c)
           s == Cut(L, c)[p]
           w == PrependChild(h, p, c)
<1>1. /\ Detached(h, v, c) /\ Gap(v, p, NULL, v.first_child[p])
      /\ Inserted(v, w, c, p, NULL, v.first_child[p])
  BY PrependInserts
<1>2. Lists(v, Cut(L, c)) /\ p \in Node
  BY LeavesLists DEF Live
<1> HIDE DEF w
<1>3. IsGap(s, 1, NULL, v.first_child[p])
  <2> HIDE DEF v
  <2>1. IsList(v, p, s)
    BY <1>2 DEF Lists
  <2> HIDE DEF s
  <2> QED
    BY <2>1 DEF IsList, IsGap
<1> QED
  BY <1>1, <1>2, <1>3, Moves DEF w

\* cmark_node_append_child puts c last.
LEMMA AppendLists ==
  ASSUME NEW h, WellFormed(h), NEW L, Lists(h, L), NEW p \in Live(h), NEW c \in Live(h)
  PROVE  Lists(AppendChild(h, p, c), Moved(L, c, p, Len(Cut(L, c)[p]) + 1))
<1> DEFINE v == Unlink(h, c)
           s == Cut(L, c)[p]
           w == AppendChild(h, p, c)
<1>1. /\ Detached(h, v, c) /\ Gap(v, p, v.last_child[p], NULL)
      /\ Inserted(v, w, c, p, v.last_child[p], NULL)
  BY AppendInserts
<1>2. Lists(v, Cut(L, c)) /\ p \in Node
  BY LeavesLists DEF Live
<1> HIDE DEF w
<1>3. IsGap(s, Len(s) + 1, v.last_child[p], NULL)
  <2> HIDE DEF v
  <2>1. IsList(v, p, s)
    BY <1>2 DEF Lists
  <2> HIDE DEF s
  <2>2. Len(s) \in Nat /\ v.last_child[p] = IF Len(s) = 0 THEN NULL ELSE s[Len(s)]
    BY <2>1 DEF IsList
  <2> QED
    BY <2>2 DEF IsGap
<1> QED
  BY <1>1, <1>2, <1>3, Moves DEF w

\* n is at g in the list of its parent once c has left.
AtPlace(h, L, n, c, g) ==
  g \in 1 .. Len(Cut(L, c)[h.parent[n]]) /\ Cut(L, c)[h.parent[n]][g] = n

\* The place of n and its neighbours.
LEMMA PlaceAmong ==
  ASSUME NEW h, WellFormed(h), NEW L, Lists(h, L), NEW c \in Live(h),
         NEW n \in Live(h), n # c, h.parent[n] \in Node
  PROVE  \E g : /\ AtPlace(h, L, n, c, g)
                /\ StandsAt(Unlink(h, c), Cut(L, c)[h.parent[n]], n, g)
<1> DEFINE v == Unlink(h, c)
           p == h.parent[n]
           s == Cut(L, c)[p]
<1>1. Lists(v, Cut(L, c)) /\ n \in Node /\ c \in Node /\ h \in Heap
  BY LeavesLists DEF Live, WellFormed
<1>2. v.parent[n] = p
  BY <1>1, UnlinkFields DEF Unlinked
<1>3. IsList(v, p, s)
  BY <1>1 DEF Lists
<1>4. PICK g \in 1 .. Len(s) : StandsAt(v, s, n, g)
  <2> HIDE DEF v, s, p
  <2> QED
    BY <1>1, <1>2, <1>3, OnItsList DEF p
<1> QED
  BY <1>4 DEF AtPlace, StandsAt

\* cmark_node_insert_before puts c where n is.
LEMMA InsertBeforeLists ==
  ASSUME NEW h, WellFormed(h), NEW L, Lists(h, L), NEW n \in Live(h), NEW c \in Live(h),
         n # c, h.parent[n] # NULL
  PROVE  \E g : /\ AtPlace(h, L, n, c, g)
                /\ Lists(InsertBefore(h, n, c), Moved(L, c, h.parent[n], g))
<1> DEFINE v == Unlink(h, c)
           p == h.parent[n]
           s == Cut(L, c)[p]
           w == InsertBefore(h, n, c)
<1>1. /\ Detached(h, v, c) /\ p \in Live(h) /\ Gap(v, p, v.prev[n], n)
      /\ Inserted(v, w, c, p, v.prev[n], n)
  BY InsertBeforeInserts
<1>2. p \in Node
  BY <1>1 DEF Live
<1>3. PICK g : AtPlace(h, L, n, c, g) /\ StandsAt(v, s, n, g)
  BY <1>2, PlaceAmong
<1> HIDE DEF w
<1>4. IsGap(s, g, v.prev[n], n)
  <2>1. g \in 1 .. Len(s) /\ s[g] = n
    BY <1>3 DEF AtPlace
  <2>2. v.prev[n] = IF 1 < g THEN s[g - 1] ELSE NULL
    BY <1>3 DEF StandsAt
  <2>3. Len(s) \in Nat
    BY <1>2, LeavesLists DEF Lists, IsList
  <2> HIDE DEF v, s
  <2> QED
    BY <2>1, <2>2, <2>3 DEF IsGap
<1>5. Lists(w, Moved(L, c, p, g))
  BY <1>1, <1>2, <1>4, Moves
<1> QED
  BY <1>3, <1>5 DEF w

\* cmark_node_insert_after puts c behind n.
LEMMA InsertAfterLists ==
  ASSUME NEW h, WellFormed(h), NEW L, Lists(h, L), NEW n \in Live(h), NEW c \in Live(h),
         n # c, h.parent[n] # NULL
  PROVE  \E g : /\ AtPlace(h, L, n, c, g)
                /\ Lists(InsertAfter(h, n, c), Moved(L, c, h.parent[n], g + 1))
<1> DEFINE v == Unlink(h, c)
           p == h.parent[n]
           s == Cut(L, c)[p]
           w == InsertAfter(h, n, c)
<1>1. /\ Detached(h, v, c) /\ p \in Live(h) /\ Gap(v, p, n, v.next[n])
      /\ Inserted(v, w, c, p, n, v.next[n])
  BY InsertAfterInserts
<1>2. p \in Node
  BY <1>1 DEF Live
<1>3. PICK g : AtPlace(h, L, n, c, g) /\ StandsAt(v, s, n, g)
  BY <1>2, PlaceAmong
<1> HIDE DEF w
<1>4. IsGap(s, g + 1, n, v.next[n])
  <2>1. g \in 1 .. Len(s) /\ s[g] = n
    BY <1>3 DEF AtPlace
  <2>2. v.next[n] = IF g < Len(s) THEN s[g + 1] ELSE NULL
    BY <1>3 DEF StandsAt
  <2>3. Len(s) \in Nat
    BY <1>2, LeavesLists DEF Lists, IsList
  <2> HIDE DEF v, s
  <2> QED
    BY <2>1, <2>2, <2>3 DEF IsGap
<1>5. Lists(w, Moved(L, c, p, g + 1))
  BY <1>1, <1>2, <1>4, Moves
<1> QED
  BY <1>3, <1>5 DEF w
\* cmark_node_replace puts c in the place of n.
Exchanged(L, n, c, p) ==
  [Cut(L, c) EXCEPT ![p] = [i \in DOMAIN Cut(L, c)[p] |->
     IF Cut(L, c)[p][i] = n THEN c ELSE Cut(L, c)[p][i]]]

\* Putting c before n and taking n out is the exchange of the two.
LEMMA PutInTakenOut ==
  ASSUME NEW s \in Seq(Node), \A i, j \in 1 .. Len(s) : s[i] = s[j] => i = j,
         NEW c \in Node, \A i \in 1 .. Len(s) : s[i] # c,
         NEW g \in 1 .. Len(s), NEW n, s[g] = n
  PROVE  RemoveFirst(InsertAt(s, g, c), n) =
           [i \in DOMAIN s |-> IF s[i] = n THEN c ELSE s[i]]
<1> DEFINE r == InsertAt(s, g, c)
           u == RemoveFirst(r, n)
<1>1. Len(s) \in Nat /\ DOMAIN s = 1 .. Len(s)
  OBVIOUS
<1>2. /\ r \in Seq(Node) /\ Len(r) = Len(s) + 1
      /\ \A i \in 1 .. Len(s) + 1 :
           r[i] = IF i < g THEN s[i] ELSE IF i = g THEN c ELSE s[i - 1]
  <2>1. HasPlace(Node, s, g, c, InsertAt(s, g, c))
    BY <1>1, PutIn
  <2> QED
    BY <2>1 DEF HasPlace
<1> HIDE DEF r
<1>3. g + 1 \in 1 .. Len(r) /\ r[g + 1] = n
  BY <1>1, <1>2
<1>4. ASSUME NEW k \in 1 .. Len(r), NEW j \in 1 .. Len(r), r[k] = r[j]
      PROVE  k = j
  <2>1. ASSUME NEW l \in 1 .. Len(r)
        PROVE  \/ l = g /\ r[l] = c
               \/ l < g /\ l \in 1 .. Len(s) /\ r[l] = s[l]
               \/ g < l /\ l - 1 \in 1 .. Len(s) /\ r[l] = s[l - 1]
    BY <1>1, <1>2
  <2>2. \/ k = g /\ r[k] = c
        \/ k < g /\ k \in 1 .. Len(s) /\ r[k] = s[k]
        \/ g < k /\ k - 1 \in 1 .. Len(s) /\ r[k] = s[k - 1]
    BY <2>1
  <2>3. \/ j = g /\ r[j] = c
        \/ j < g /\ j \in 1 .. Len(s) /\ r[j] = s[j]
        \/ g < j /\ j - 1 \in 1 .. Len(s) /\ r[j] = s[j - 1]
    BY <2>1
  <2>4. CASE k = g
    BY <1>2, <1>4, <2>2, <2>3, <2>4
  <2>5. CASE k < g
    <3>1. k \in 1 .. Len(s) /\ r[j] = s[k] /\ s[k] # c
      BY <1>1, <1>4, <2>2, <2>5
    <3>2. g < j => k # j - 1
      BY <1>1, <2>5
    <3> QED
      BY <1>2, <2>3, <3>1, <3>2
  <2>6. CASE g < k
    <3>1. k - 1 \in 1 .. Len(s) /\ r[j] = s[k - 1] /\ s[k - 1] # c
      BY <1>1, <1>4, <2>2, <2>6
    <3>2. j < g => j # k - 1
      BY <1>1, <2>6
    <3>3. k - 1 = j - 1 => k = j
      BY <1>1
    <3> QED
      BY <1>2, <2>3, <3>1, <3>2, <3>3
  <2> QED
    BY <1>1, <2>4, <2>5, <2>6
<1>5. /\ u \in Seq(Node) /\ Len(u) = Len(s)
      /\ \A i \in 1 .. Len(s) : u[i] = IF i < g + 1 THEN r[i] ELSE r[i + 1]
  <2>1. LacksPlace(Node, r, g + 1, RemoveFirst(r, n))
    BY <1>2, <1>3, <1>4, RemovedFirst
  <2> QED
    BY <1>1, <1>2, <2>1 DEF LacksPlace
<1> HIDE DEF u
<1>6. ASSUME NEW i \in 1 .. Len(s)
      PROVE  u[i] = IF s[i] = n THEN c ELSE s[i]
  <2>1. CASE i < g
    BY <1>1, <1>2, <1>5, <2>1
  <2>2. CASE i = g
    BY <1>1, <1>2, <1>5, <2>2
  <2>3. CASE g < i
    <3>1. i + 1 \in 1 .. Len(s) + 1 /\ ~(i + 1 < g) /\ i + 1 # g /\ (i + 1) - 1 = i
      BY <1>1, <2>3
    <3>2. r[i + 1] = s[i]
      BY <1>2, <3>1
    <3>3. s[i] # n /\ ~(i < g + 1)
      BY <1>1, <2>3
    <3> QED
      BY <1>5, <3>2, <3>3
  <2> QED
    BY <1>1, <2>1, <2>2, <2>3
<1>7. u = [i \in 1 .. Len(s) |-> u[i]]
  BY <1>5
<1>8. u = [i \in 1 .. Len(s) |-> IF s[i] = n THEN c ELSE s[i]]
  BY <1>6, <1>7
<1> QED
  BY <1>1, <1>8 DEF u, r

\* The lists that a replacement leaves.
LEMMA ReplaceLists ==
  ASSUME NEW h, WellFormed(h), NEW L, Lists(h, L), NEW n \in Live(h), NEW c \in Live(h),
         n # c, h.parent[n] # NULL, CanContainType(h.type[h.parent[n]], h.type[c])
  PROVE  Lists(ReplaceNode(h, n, c), Exchanged(L, n, c, h.parent[n]))
<1> DEFINE w == InsertBefore(h, n, c)
           p == h.parent[n]
           M == Cut(L, c)
<1>1. PICK g : AtPlace(h, L, n, c, g) /\ Lists(w, Moved(L, c, p, g))
  BY InsertBeforeLists
<1>2. WellFormed(w) /\ w.type = h.type
  BY InsertBeforeWellFormed, RelinkedTypes DEF WellFormed
<1>3. Lists(Unlink(w, n), Cut(Moved(L, c, p, g), n))
  <2>1. n \in Live(w)
    BY <1>2 DEF Live
  <2> HIDE DEF w
  <2> QED
    BY <1>1, <1>2, <2>1, LeavesLists
<1>4. Lists(Unlink(h, c), M) /\ c \in Node /\ n \in Node /\ h \in Heap
  BY LeavesLists DEF Live, WellFormed
<1>5. Unlinked(h, Unlink(h, c), c)
  BY <1>4, UnlinkFields
<1>6. p \in Node
  BY <1>4, Pointers
<1> DEFINE s == M[p]
<1>7. /\ M \in [Node -> Seq(Node)]
      /\ \A q \in Node : IsList(Unlink(h, c), q, M[q])
  BY <1>4 DEF Lists
<1>8. \A q \in Node : \A i \in 1 .. Len(M[q]) : M[q][i] # c /\ (M[q][i] = n => q = p)
  <2> TAKE q \in Node
  <2> TAKE i \in 1 .. Len(M[q])
  <2>1. M[q][i] \in Node /\ Unlink(h, c).parent[M[q][i]] = q
    <3>1. M[q] \in Seq(Node) /\ IsList(Unlink(h, c), q, M[q])
      BY <1>7
    <3>2. M[q][i] \in Node
      BY <3>1, ElementOfSeq
    <3> QED
      BY <3>1, <3>2 DEF IsList
  <2> QED
    BY <1>4, <1>5, <1>6, <2>1, NullAssumption DEF Unlinked
<1>9. g \in 1 .. Len(s) /\ s[g] = n
  BY <1>1 DEF AtPlace
<1>10. RemoveFirst(InsertAt(s, g, c), n) =
         [i \in DOMAIN s |-> IF s[i] = n THEN c ELSE s[i]]
  <2>1. s \in Seq(Node) /\ \A i, j \in 1 .. Len(s) : s[i] = s[j] => i = j
    BY <1>6, <1>7 DEF IsList
  <2>2. \A i \in 1 .. Len(s) : s[i] # c
    BY <1>6, <1>8
  <2> HIDE DEF s
  <2> QED
    BY <1>4, <1>9, <2>1, <2>2, PutInTakenOut
<1>11. ASSUME NEW q \in Node \ {p}
       PROVE  RemoveFirst(M[q], n) = M[q]
  BY <1>8, RemovedNone
<1>12. Cut(Moved(L, c, p, g), n) = Exchanged(L, n, c, p)
  <2>1. \A q \in Node : Moved(L, c, p, g)[q] = IF q = p THEN InsertAt(s, g, c) ELSE M[q]
    BY <1>6, <1>7 DEF Moved
  <2>2. \A q \in Node : Exchanged(L, n, c, p)[q] =
          IF q = p THEN [i \in DOMAIN s |-> IF s[i] = n THEN c ELSE s[i]] ELSE M[q]
    BY <1>6, <1>7 DEF Exchanged
  <2>3. DOMAIN Exchanged(L, n, c, p) = Node
        /\ Exchanged(L, n, c, p) = [q \in Node |-> Exchanged(L, n, c, p)[q]]
    BY <1>7 DEF Exchanged
  <2> HIDE DEF M, s, p
  <2>4. \A q \in Node : RemoveFirst(Moved(L, c, p, g)[q], n) = Exchanged(L, n, c, p)[q]
    BY <1>10, <1>11, <2>1, <2>2
  <2> QED
    BY <2>3, <2>4 DEF Cut
<1> QED
  BY <1>3, <1>12 DEF ReplaceNode
\* Only the pointers matter.
SameLinks(h, w) ==
  \A m \in Node :
    /\ w.next[m] = h.next[m] /\ w.prev[m] = h.prev[m]
    /\ w.parent[m] = h.parent[m]
    /\ w.first_child[m] = h.first_child[m] /\ w.last_child[m] = h.last_child[m]

\* What changes no pointer changes no list.
LEMMA SameLists ==
  ASSUME NEW h, NEW w, SameLinks(h, w), NEW L, Lists(h, L)
  PROVE  Lists(w, L)
<1>1. \A q \in Node : SameAt(h, w, q)
  BY DEF SameAt, SameLinks
<1> QED
  BY <1>1, ListStays DEF Lists

\* The lists of the nodes that a release leaves; those released have none.
LEMMA ReleasedLists ==
  ASSUME NEW v, WellFormed(v), NEW L, Lists(v, L), NEW n \in Node, NEW T,
         Descendants(v, T, n), v.parent[n] = NULL, NEW w, Released(v, w, T)
  PROVE  Lists(w, [p \in Node |-> IF p \in T THEN <<>> ELSE L[p]])
<1>1. ASSUME NEW q \in T
      PROVE  IsList(w, q, <<>>)
  <2>1. q \in Node
    BY DEF Descendants, Live
  <2>2. w.first_child[q] = NULL /\ w.last_child[q] = NULL
    BY <2>1 DEF Released, Targets
  <2>3. ASSUME NEW m \in Node
        PROVE  w.parent[m] # q
    <3>1. CASE m \in T
      BY <2>1, <3>1, NullAssumption DEF Released, Targets
    <3>2. CASE m \notin T
      BY <3>2 DEF Released, Descendants
    <3> QED
      BY <3>1, <3>2
  <2>4. <<>> \in Seq(Node) /\ Len(<<>>) = 0 /\ 1 .. 0 = {}
    OBVIOUS
  <2> QED
    BY <2>2, <2>3, <2>4 DEF IsList
<1>2. ASSUME NEW q \in Node \ T
      PROVE  IsList(w, q, L[q])
  <2> DEFINE s == L[q]
  <2>1. IsList(v, q, s)
    BY DEF Lists
  <2> HIDE DEF s
  <2>2. ASSUME NEW m \in Node, v.parent[m] = q
        PROVE  m \notin T
    BY <2>2, NullAssumption DEF Descendants
  <2>3. \A m \in Node : w.parent[m] = q <=> v.parent[m] = q
    <3> TAKE m \in Node
    <3>1. CASE m \in T
      BY <2>2, <3>1, NullAssumption DEF Released, Targets
    <3>2. CASE m \notin T
      BY <3>2 DEF Released
    <3> QED
      BY <3>1, <3>2
  <2>4. /\ \A m \in Node : v.parent[m] = q =>
             w.next[m] = v.next[m] /\ w.prev[m] = v.prev[m]
        /\ w.first_child[q] = v.first_child[q] /\ w.last_child[q] = v.last_child[q]
    BY <2>2 DEF Released
  <2>5. IsList(w, q, s)
    <3>1. SameAt(v, w, q)
      BY <2>3, <2>4 DEF SameAt
    <3> QED
      BY <2>1, <3>1, ListStays
  <2> QED
    BY <2>5 DEF s
<1> DEFINE Q == [p \in Node |-> IF p \in T THEN <<>> ELSE L[p]]
<1>3. \A q \in Node : IsList(w, q, Q[q])
  BY <1>1, <1>2
<1> HIDE DEF Q
<1>4. \A q \in Node : Q[q] \in Seq(Node)
  BY <1>3 DEF IsList
<1>5. Q \in [Node -> Seq(Node)]
  BY <1>4 DEF Q
<1>6. Lists(w, Q)
  BY <1>3, <1>5 DEF Lists
<1> QED
  BY <1>6 DEF Q

\* The copies have copies of the lists, and the lists of the others stay.
Doubled(L, T, g) ==
  [p \in Node |->
     IF \E x \in T : g[x] = p
     THEN LET x == CHOOSE y \in T : g[y] = p
          IN  [i \in DOMAIN L[x] |-> g[L[x][i]]]
     ELSE L[p]]

\* Copying a subtree copies its lists.
LEMMA CopiedLists ==
  ASSUME NEW h, WellFormed(h), NEW L, Lists(h, L), NEW n \in Node, NEW T,
         Descendants(h, T, n), NEW g \in [T -> Node \ Live(h)],
         \A x, y \in T : x # y => g[x] # g[y], NEW w, Copied(h, w, T, n, g)
  PROVE  Lists(w, Doubled(L, T, g))
<1>0. /\ T \subseteq Node /\ DOMAIN g = T /\ NULL \notin T
      /\ \A x \in T : g[x] \in Node /\ g[x] \notin Live(h)
  BY NullAssumption DEF Descendants, Live
<1>1. ASSUME NEW x \in T
      PROVE  IsList(w, g[x], [i \in DOMAIN L[x] |-> g[L[x][i]]])
  <2> DEFINE s == L[x]
  <2>1. IsList(h, x, s)
    BY <1>0 DEF Lists
  <2> HIDE DEF s
  <2>2. /\ s \in Seq(Node) /\ Len(s) \in Nat /\ DOMAIN s = 1 .. Len(s)
        /\ \A i \in 1 .. Len(s) : s[i] \in Node /\ h.parent[s[i]] = x
    BY <2>1, ElementOfSeq DEF IsList
  <2>3. \A i \in 1 .. Len(s) : s[i] \in T \ {n}
    BY <2>2 DEF Descendants
  <2> DEFINE r == [i \in 1 .. Len(s) |-> g[s[i]]]
  <2>4. r \in Seq(Node) /\ Len(r) = Len(s) /\ \A i \in 1 .. Len(s) : r[i] = g[s[i]]
    <3>1. \A i \in 1 .. Len(s) : g[s[i]] \in Node
      BY <1>0, <2>3
    <3> QED
      BY <2>2, <3>1
  <2> HIDE DEF r
  <2>5. /\ h.first_child[x] = IF Len(s) = 0 THEN NULL ELSE s[1]
        /\ h.last_child[x] = IF Len(s) = 0 THEN NULL ELSE s[Len(s)]
        /\ \A i \in 1 .. Len(s) : h.next[s[i]] = IF i < Len(s) THEN s[i + 1] ELSE NULL
        /\ \A i \in 1 .. Len(s) : h.prev[s[i]] = IF 1 < i THEN s[i - 1] ELSE NULL
        /\ \A i, j \in 1 .. Len(s) : s[i] = s[j] => i = j
        /\ \A m \in Node : h.parent[m] = x <=> \E i \in 1 .. Len(s) : s[i] = m
    BY <2>1 DEF IsList
  <2>6. /\ w.first_child[g[x]] = IF Len(r) = 0 THEN NULL ELSE r[1]
        /\ w.last_child[g[x]] = IF Len(r) = 0 THEN NULL ELSE r[Len(r)]
    <3>1. /\ w.first_child[g[x]] = Image(g, h.first_child[x])
          /\ w.last_child[g[x]] = Image(g, h.last_child[x])
      BY DEF Copied
    <3>2. CASE Len(s) = 0
      BY <1>0, <2>4, <2>5, <3>1, <3>2 DEF Image
    <3>3. CASE Len(s) # 0
      <4>1. 1 \in 1 .. Len(s) /\ Len(s) \in 1 .. Len(s)
        BY <2>2, <3>3
      <4> QED
        BY <1>0, <2>3, <2>4, <2>5, <3>1, <3>3, <4>1 DEF Image
    <3> QED
      BY <3>2, <3>3
  <2>7. ASSUME NEW i \in 1 .. Len(r)
        PROVE  /\ w.next[r[i]] = IF i < Len(r) THEN r[i + 1] ELSE NULL
               /\ w.prev[r[i]] = IF 1 < i THEN r[i - 1] ELSE NULL
    <3>1. s[i] \in T /\ s[i] # n /\ r[i] = g[s[i]]
      BY <2>3, <2>4
    <3>2. w.next[r[i]] = Image(g, h.next[s[i]]) /\ w.prev[r[i]] = Image(g, h.prev[s[i]])
      BY <3>1 DEF Copied
    <3>3. i < Len(r) => i + 1 \in 1 .. Len(s)
      BY <2>2, <2>4
    <3>4. 1 < i => i - 1 \in 1 .. Len(s)
      BY <2>2, <2>4
    <3>5. w.next[r[i]] = IF i < Len(r) THEN r[i + 1] ELSE NULL
      <4>1. CASE i < Len(r)
        <5>1. h.next[s[i]] = s[i + 1] /\ s[i + 1] \in T /\ r[i + 1] = g[s[i + 1]]
          BY <2>3, <2>4, <2>5, <3>3, <4>1
        <5> QED
          BY <1>0, <3>2, <4>1, <5>1 DEF Image
      <4>2. CASE ~(i < Len(r))
        <5>1. h.next[s[i]] = NULL
          BY <2>4, <2>5, <4>2
        <5> QED
          BY <1>0, <3>2, <4>2, <5>1 DEF Image
      <4> QED
        BY <4>1, <4>2
    <3>6. w.prev[r[i]] = IF 1 < i THEN r[i - 1] ELSE NULL
      <4>1. CASE 1 < i
        <5>1. h.prev[s[i]] = s[i - 1] /\ s[i - 1] \in T /\ r[i - 1] = g[s[i - 1]]
          BY <2>3, <2>4, <2>5, <3>4, <4>1
        <5> QED
          BY <1>0, <3>2, <4>1, <5>1 DEF Image
      <4>2. CASE ~(1 < i)
        <5>1. h.prev[s[i]] = NULL
          BY <2>4, <2>5, <4>2
        <5> QED
          BY <1>0, <3>2, <4>2, <5>1 DEF Image
      <4> QED
        BY <4>1, <4>2
    <3> QED
      BY <3>5, <3>6
  <2>8. \A i, j \in 1 .. Len(r) : r[i] = r[j] => i = j
    BY <2>3, <2>4, <2>5
  <2>9. ASSUME NEW m \in Node
        PROVE  w.parent[m] = g[x] <=> \E i \in 1 .. Len(r) : r[i] = m
    <3>1. CASE \E y \in T : g[y] = m
      <4>1. PICK y \in T : g[y] = m
        BY <3>1
      <4>2. CASE y = n
        <5>1. w.parent[m] = NULL
          BY <4>1, <4>2 DEF Copied
        <5>2. \A i \in 1 .. Len(r) : r[i] # m
          BY <2>3, <2>4, <4>1, <4>2
        <5> QED
          BY <1>0, <5>1, <5>2, NullAssumption
      <4>3. CASE y # n
        <5>1. h.parent[y] \in T /\ w.parent[m] = g[h.parent[y]]
          BY <1>0, <4>1, <4>3 DEF Descendants, Copied, Image
        <5>2. w.parent[m] = g[x] <=> h.parent[y] = x
          BY <5>1
        <5>3. h.parent[y] = x <=> \E i \in 1 .. Len(s) : s[i] = y
          BY <1>0, <2>5
        <5>4. \A i \in 1 .. Len(s) : s[i] = y <=> r[i] = m
          BY <2>3, <2>4, <4>1
        <5> QED
          BY <2>4, <5>2, <5>3, <5>4
      <4> QED
        BY <4>2, <4>3
    <3>2. CASE ~ \E y \in T : g[y] = m
      <4>1. w.parent[m] = h.parent[m]
        BY <3>2 DEF Copied
      <4>2. w.parent[m] # g[x]
        BY <1>0, <4>1, ParentsLive, NullAssumption
      <4>3. \A i \in 1 .. Len(r) : r[i] # m
        BY <2>3, <2>4, <3>2
      <4> QED
        BY <4>2, <4>3
    <3> QED
      BY <3>1, <3>2
  <2>10. IsList(w, g[x], r)
    BY <2>4, <2>6, <2>7, <2>8, <2>9 DEF IsList
  <2> QED
    BY <2>2, <2>10 DEF r, s
<1>2. ASSUME NEW p \in Node, \A x \in T : g[x] # p
      PROVE  IsList(w, p, L[p])
  <2> DEFINE s == L[p]
  <2>1. IsList(h, p, s)
    BY DEF Lists
  <2> HIDE DEF s
  <2>2. ASSUME NEW m \in Node, h.parent[m] = p
        PROVE  \A x \in T : g[x] # m
    BY <1>0, <2>2, ParentsLive, NullAssumption
  <2>3. \A m \in Node : w.parent[m] = p <=> h.parent[m] = p
    <3> TAKE m \in Node
    <3>1. CASE \E x \in T : g[x] = m
      <4>1. PICK x \in T : g[x] = m
        BY <3>1
      <4>2. w.parent[m] # p
        <5>1. w.parent[m] \in {NULL} \cup {g[y] : y \in T}
          BY <1>0, <4>1 DEF Copied, Image
        <5> QED
          BY <1>2, <5>1, NullAssumption
      <4> QED
        BY <2>2, <3>1, <4>2
    <3>2. CASE ~ \E x \in T : g[x] = m
      BY <3>2 DEF Copied
    <3> QED
      BY <3>1, <3>2
  <2>4. \A m \in Node : h.parent[m] = p => w.next[m] = h.next[m] /\ w.prev[m] = h.prev[m]
    BY <2>2 DEF Copied
  <2>5. w.first_child[p] = h.first_child[p] /\ w.last_child[p] = h.last_child[p]
    BY <1>2 DEF Copied
  <2>6. IsList(w, p, s)
    <3>1. SameAt(h, w, p)
      BY <2>3, <2>4, <2>5 DEF SameAt
    <3> QED
      BY <2>1, <3>1, ListStays
  <2> QED
    BY <2>6 DEF s
<1> DEFINE Q == Doubled(L, T, g)
<1>3. ASSUME NEW p \in Node
      PROVE  IsList(w, p, Q[p])
  <2>1. CASE \E x \in T : g[x] = p
    <3> DEFINE x == CHOOSE y \in T : g[y] = p
    <3>1. x \in T /\ g[x] = p
      BY <2>1
    <3>2. Q[p] = [i \in DOMAIN L[x] |-> g[L[x][i]]]
      BY <2>1 DEF Doubled
    <3> HIDE DEF x, Q
    <3>3. IsList(w, g[x], [i \in DOMAIN L[x] |-> g[L[x][i]]])
      BY <1>1, <3>1
    <3> QED
      BY <3>1, <3>2, <3>3
  <2>2. CASE ~ \E x \in T : g[x] = p
    <3>1. Q[p] = L[p]
      BY <2>2 DEF Doubled
    <3> QED
      BY <1>2, <2>2, <3>1
  <2> QED
    BY <2>1, <2>2
<1>4. DOMAIN Q = Node /\ Q = [p \in Node |-> Q[p]]
  BY DEF Doubled
<1> HIDE DEF Q
<1>5. \A p \in Node : Q[p] \in Seq(Node)
  BY <1>3 DEF IsList
<1>6. Q \in [Node -> Seq(Node)]
  BY <1>4, <1>5
<1>7. Lists(w, Q)
  BY <1>3, <1>6 DEF Lists
<1> QED
  BY <1>7 DEF Q
-----------------------------------------------------------------------------
(***************************************************************************)
(* Subtrees: what first_child and next reach is what has n above it.       *)
(***************************************************************************)
Under(h, n) ==
  {m \in Node : \A S \in SUBSET Node :
     (n \in S /\ \A x \in Node : h.parent[x] \in S => x \in S) => m \in S}

\* It is the least set with n and all children.
LEMMA UnderClosed ==
  ASSUME NEW h, NEW n \in Node
  PROVE  /\ Under(h, n) \subseteq Node /\ n \in Under(h, n)
         /\ \A x \in Node : h.parent[x] \in Under(h, n) => x \in Under(h, n)
<1>1. Under(h, n) \subseteq Node /\ n \in Under(h, n)
  BY DEF Under
<1>2. ASSUME NEW x \in Node, h.parent[x] \in Under(h, n)
      PROVE  x \in Under(h, n)
  <2>1. SUFFICES ASSUME NEW S \in SUBSET Node, n \in S,
                        \A y \in Node : h.parent[y] \in S => y \in S
                 PROVE  x \in S
    BY DEF Under
  <2>2. h.parent[x] \in S
    BY <1>2, <2>1 DEF Under
  <2> QED
    BY <2>1, <2>2
<1> QED
  BY <1>1, <1>2

\* No smaller set has n and all children.
LEMMA UnderLeast ==
  ASSUME NEW h, NEW n, NEW S \in SUBSET Node, n \in S,
         \A x \in Node : h.parent[x] \in S => x \in S
  PROVE  Under(h, n) \subseteq S
  BY DEF Under

\* What is no ancestor of p has p not under it.
LEMMA NotUnder ==
  ASSUME NEW h, NEW p \in Node, NEW c \in Node, c \notin AncestorsOrSelf(h, p)
  PROVE  p \notin Under(h, c)
<1>1. PICK S \in SUBSET Node : /\ p \in S \cup {NULL}
                               /\ \A m \in S : h.parent[m] \in S \cup {NULL}
                               /\ c \notin S
  BY DEF AncestorsOrSelf
<1>2. c \in Node \ S /\ p \notin Node \ S
  BY <1>1, NullAssumption
<1>3. \A x \in Node : h.parent[x] \in Node \ S => x \in Node \ S
  BY <1>1, NullAssumption
<1>4. Node \ S \in SUBSET Node
  OBVIOUS
<1> QED
  BY <1>2, <1>3, <1>4, UnderLeast

\* The walk along first_child and next finds all that is under n.
LEMMA SubtreeIsUnder ==
  ASSUME NEW h, WellFormed(h), NEW n \in Node, Descendants(h, Subtree(h, n), n)
  PROVE  Subtree(h, n) = Under(h, n)
<1> DEFINE T == Subtree(h, n)
           S == Under(h, n)
<1>1. h \in Heap /\ Linked(h)
  BY DEF WellFormed
<1>2. S \subseteq Node /\ n \in S /\ \A x \in Node : h.parent[x] \in S => x \in S
  BY UnderClosed
<1>3. S \subseteq T
  <2>1. T \in SUBSET Node /\ n \in T /\ \A x \in Node : h.parent[x] \in T => x \in T
    BY DEF Descendants, Live
  <2> HIDE DEF T
  <2> QED
    BY <2>1, UnderLeast
<1>4. \A x \in S \ {n} : h.parent[x] \in S
  <2> DEFINE G == {x \in S : x = n \/ h.parent[x] \in S}
  <2>1. G \in SUBSET Node /\ n \in G
    BY <1>2
  <2>2. \A x \in Node : h.parent[x] \in G => x \in G
    BY <1>2
  <2> HIDE DEF G
  <2>3. S \subseteq G
    BY <2>1, <2>2, UnderLeast
  <2> QED
    BY <2>3 DEF G
<1> HIDE DEF S
<1>5. \A x \in S : h.first_child[x] \in S \cup {NULL}
  <2> TAKE x \in S
  <2>1. h.first_child[x] # NULL => h.first_child[x] \in Node /\ h.parent[h.first_child[x]] = x
    BY <1>1, <1>2, Pointers DEF Linked, FirstLinked
  <2> QED
    BY <1>2, <2>1
<1>6. \A x \in S \ {n} : h.next[x] \in S \cup {NULL}
  <2> TAKE x \in S \ {n}
  <2>1. h.next[x] # NULL => h.next[x] \in Node /\ h.parent[h.next[x]] = h.parent[x]
    BY <1>1, <1>2, Pointers DEF Linked, NextLinked
  <2> QED
    BY <1>2, <1>4, <2>1
<1>7. T \subseteq S
  BY <1>2, <1>5, <1>6, SubtreeLeast
<1> QED
  BY <1>3, <1>7 DEF S

\* Unlinking n leaves what is under it.
LEMMA UnderUnlinked ==
  ASSUME NEW h \in Heap, NEW n \in Node
  PROVE  Under(Unlink(h, n), n) = Under(h, n)
<1> DEFINE v == Unlink(h, n)
<1>1. \A m \in Node : v.parent[m] = IF m = n THEN NULL ELSE h.parent[m]
  BY UnlinkFields DEF Unlinked
<1> HIDE DEF v
<1>2. ASSUME NEW S \in SUBSET Node, n \in S
      PROVE  (\A x \in Node : v.parent[x] \in S => x \in S)
               <=> (\A x \in Node : h.parent[x] \in S => x \in S)
  BY <1>1, <1>2, NullAssumption
<1>3. Under(v, n) = Under(h, n)
  BY <1>2 DEF Under
<1> QED
  BY <1>3 DEF v

-----------------------------------------------------------------------------
(***************************************************************************)
(* Forest, read off the lists.                                             *)
(***************************************************************************)

\* The sequences the pointers agree with are those the walk finds.
LEMMA ChildListsFound ==
  ASSUME NEW L, Lists(heap, L)
  PROVE  ChildLists = L
<1>1. \A p \in Node : Walk(heap, p) = L[p]
  BY WalkFinds DEF Lists
<1>2. L = [p \in Node |-> L[p]]
  BY DEF Lists
<1> QED
  BY <1>1, <1>2 DEF ChildLists

\* The same after a step.
LEMMA ChildListsFoundNext ==
  ASSUME NEW L, Lists(heap', L)
  PROVE  ChildLists' = L
<1>1. \A p \in Node : Walk(heap', p) = L[p]
  BY WalkFinds DEF Lists
<1>2. L = [p \in Node |-> L[p]]
  BY DEF Lists
<1> QED
  BY <1>1, <1>2 DEF ChildLists

\* Leaving the lists is the same function there.
LEMMA AbstractWithout ==
  ASSUME NEW n
  PROVE  Abstract!Without(n) = Cut(ChildLists, n)
  BY DEF Abstract!Without, Cut, Abstract!RemoveFirst, RemoveFirst, Abstract!RemoveAt,
         RemoveAt, Abstract!SelectInSeq, SelectInSeq, Abstract!Min, Min

\* InsertAt is the same function there.
LEMMA AbstractInsertAt ==
  ASSUME NEW s, NEW i, NEW c
  PROVE  Abstract!InsertAt(s, i, c) = InsertAt(s, i, c)
  BY DEF Abstract!InsertAt, InsertAt

\* What is below a node there is what is under it here.
LEMMA AbstractBelow ==
  ASSUME NEW L, Lists(heap, L), NEW n
  PROVE  Abstract!Below(n) = Under(heap, n)
<1>1. ChildLists = L
  BY ChildListsFound
<1>2. ASSUME NEW x \in Node
      PROVE  Abstract!ToSet(L[x]) = {m \in Node : heap.parent[m] = x}
  <2>1. IsList(heap, x, L[x])
    BY DEF Lists
  <2>2. L[x] \in Seq(Node) /\ \A i \in 1 .. Len(L[x]) : L[x][i] \in Node
    BY <2>1, ElementOfSeq DEF IsList
  <2>3. Abstract!ToSet(L[x]) = {L[x][i] : i \in 1 .. Len(L[x])}
    BY <2>2 DEF Abstract!ToSet
  <2> QED
    BY <2>1, <2>2, <2>3 DEF IsList
<1>3. ASSUME NEW S \in SUBSET Node
      PROVE  (\A x \in S : Abstract!ToSet(L[x]) \subseteq S)
               <=> (\A x \in Node : heap.parent[x] \in S => x \in S)
  BY <1>2
<1> QED
  BY <1>1, <1>3 DEF Abstract!Below, Under
\* The step of Forest that moves c.
LEMMA MovedIsPlace ==
  ASSUME NEW L, Lists(heap, L), NEW c, NEW p \in Node, c \in Node,
         NEW i \in 1 .. Len(Cut(L, c)[p]) + 1,
         Lists(heap', Moved(L, c, p, i)), live' = live,
         c \notin AncestorsOrSelf(heap, p)
  PROVE  Abstract!Place(c, p, i)
<1>1. ChildLists = L /\ ChildLists' = Moved(L, c, p, i)
  BY ChildListsFound, ChildListsFoundNext
<1>2. Abstract!Without(c) = Cut(L, c)
  BY <1>1, AbstractWithout
<1>3. p \notin Abstract!Below(c)
  BY AbstractBelow, NotUnder
<1>4. p \in DOMAIN Cut(L, c)
  BY DEF Cut
<1>5. Moved(L, c, p, i) = [Cut(L, c) EXCEPT ![p] = Abstract!InsertAt(Cut(L, c)[p], i, c)]
  BY AbstractInsertAt DEF Moved
<1> QED
  BY <1>1, <1>2, <1>3, <1>4, <1>5 DEF Abstract!Place

\* cmark_node_unlink detaches a node.
LEMMA UnlinkStep ==
  ASSUME WellFormed(heap), NEW L, Lists(heap, L), NEW n \in live, UnlinkNode(n)
  PROVE  /\ Lists(heap', Cut(L, n))
         /\ Abstract!Detach(n)
<1>1. heap' = Unlink(heap, n) /\ n \in Live(heap)
  BY DEF UnlinkNode, live
<1>2. Lists(heap', Cut(L, n))
  BY <1>1, LeavesLists
<1>3. ChildLists = L /\ ChildLists' = Cut(L, n)
  BY <1>2, ChildListsFound, ChildListsFoundNext
<1>4. live' = live
  BY <1>1, RelinkedTypes DEF live, Live, WellFormed
<1> QED
  BY <1>2, <1>3, <1>4, AbstractWithout DEF Abstract!Detach

\* cmark_node_prepend_child puts the child first.
LEMMA PrependStep ==
  ASSUME WellFormed(heap), NEW L, Lists(heap, L), NEW p \in live, NEW c \in live,
         PrependNode(p, c)
  PROVE  /\ \E K : Lists(heap', K)
         /\ SafetyChecks => Abstract!Place(c, p, 1)
<1>1. heap' = PrependChild(heap, p, c) /\ p \in Live(heap) /\ c \in Live(heap)
  BY DEF PrependNode, live
<1>2. Lists(heap', Moved(L, c, p, 1))
  BY <1>1, PrependLists
<1>3. live' = live
  BY <1>1, RelinkedTypes DEF live, Live, WellFormed
<1>4. 1 \in 1 .. Len(Cut(L, c)[p]) + 1 /\ c \in Node /\ p \in Node
  BY <1>1, LeavesLists DEF Lists, IsList, Live
<1>5. SafetyChecks => c \notin AncestorsOrSelf(heap, p)
  BY DEF PrependNode, CanContain
<1>6. SafetyChecks => Abstract!Place(c, p, 1)
  BY <1>2, <1>3, <1>4, <1>5, MovedIsPlace
<1> QED
  BY <1>2, <1>6

\* cmark_node_append_child puts the child last.
LEMMA AppendStep ==
  ASSUME WellFormed(heap), NEW L, Lists(heap, L), NEW p \in live, NEW c \in live,
         AppendNode(p, c)
  PROVE  /\ \E K : Lists(heap', K)
         /\ SafetyChecks => Abstract!Place(c, p, Len(Abstract!Without(c)[p]) + 1)
<1> DEFINE i == Len(Cut(L, c)[p]) + 1
<1>1. heap' = AppendChild(heap, p, c) /\ p \in Live(heap) /\ c \in Live(heap)
  BY DEF AppendNode, live
<1>2. Lists(heap', Moved(L, c, p, i))
  BY <1>1, AppendLists
<1>3. live' = live
  BY <1>1, RelinkedTypes DEF live, Live, WellFormed
<1>4. i \in 1 .. Len(Cut(L, c)[p]) + 1 /\ c \in Node /\ p \in Node
  <2>1. c \in Node /\ p \in Node
    BY <1>1 DEF Live
  <2>2. Len(Cut(L, c)[p]) \in Nat
    BY <1>1, <2>1, LeavesLists DEF Lists
  <2> QED
    BY <2>1, <2>2
<1>5. SafetyChecks => c \notin AncestorsOrSelf(heap, p)
  BY DEF AppendNode, CanContain
<1>6. Abstract!Without(c) = Cut(L, c)
  BY ChildListsFound, AbstractWithout
<1> HIDE DEF i
<1>7. SafetyChecks => Abstract!Place(c, p, i)
  BY <1>2, <1>3, <1>4, <1>5, MovedIsPlace
<1> QED
  BY <1>2, <1>6, <1>7 DEF i

\* What the insertions need to know of the node they insert beside.
LEMMA Beside ==
  ASSUME WellFormed(heap), NEW L, Lists(heap, L), NEW n \in live, NEW s \in live,
         MayInsertBeside(heap, n, s)
  PROVE  /\ n \in Live(heap) /\ s \in Live(heap) /\ s \in Node
         /\ heap.parent[n] # NULL /\ heap.parent[n] \in live
         /\ heap.parent[n] \in Node
         /\ CanContainType(heap.type[heap.parent[n]], heap.type[s])
         /\ SafetyChecks => s \notin AncestorsOrSelf(heap, heap.parent[n])
<1>1. heap.parent[n] # NULL /\ n \in Live(heap) /\ s \in Live(heap) /\ n \in Node /\ s \in Node
  BY DEF MayInsertBeside, live, Live
<1>2. heap.parent[n] \in Live(heap)
  BY <1>1, ParentsLive
<1> QED
  BY <1>1, <1>2 DEF MayInsertBeside, CanContain, live, Live

\* The place of n is the index that NodeForest names.
LEMMA PlaceIsIndex ==
  ASSUME WellFormed(heap), NEW L, Lists(heap, L), NEW n \in live, NEW s \in Live(heap),
         NEW g, AtPlace(heap, L, n, s, g), heap.parent[n] \in Node
  PROVE  /\ IndexAmong(n, s) = g
         /\ Len(Cut(L, s)[heap.parent[n]]) \in Nat
         /\ g \in 1 .. Len(Cut(L, s)[heap.parent[n]])
<1> DEFINE u == Cut(L, s)[heap.parent[n]]
<1>1. Abstract!Without(s) = Cut(L, s)
  BY ChildListsFound, AbstractWithout
<1>2. Others(n, s) = u
  BY <1>1 DEF Others
<1>3. IsList(Unlink(heap, s), heap.parent[n], u)
  BY LeavesLists DEF Lists
<1>4. g \in 1 .. Len(u) /\ u[g] = n
  BY DEF AtPlace
<1> HIDE DEF u
<1>5. Len(u) \in Nat /\ DOMAIN u = 1 .. Len(u) /\ \A i, j \in 1 .. Len(u) : u[i] = u[j] => i = j
  BY <1>3 DEF IsList
<1>6. IndexAmong(n, s) = g
  BY <1>2, <1>4, <1>5 DEF IndexAmong
<1> QED
  BY <1>4, <1>5, <1>6 DEF u

\* cmark_node_insert_before puts the node where the other is.
LEMMA InsertBeforeStep ==
  ASSUME SelfSibling = FALSE, WellFormed(heap), NEW L, Lists(heap, L),
         NEW n \in live, NEW s \in live, InsertNodeBefore(n, s)
  PROVE  /\ \E K : Lists(heap', K)
         /\ SafetyChecks => /\ IndexAmong(n, s) \in 1 .. Len(Cut(L, s)[heap.parent[n]]) + 1
                            /\ Abstract!Place(s, heap.parent[n], IndexAmong(n, s))
<1>1. heap' = InsertBefore(heap, n, s) /\ n # s /\ MayInsertBeside(heap, n, s)
  BY DEF InsertNodeBefore
<1>2. /\ n \in Live(heap) /\ s \in Live(heap) /\ s \in Node
      /\ heap.parent[n] # NULL /\ heap.parent[n] \in Node
      /\ SafetyChecks => s \notin AncestorsOrSelf(heap, heap.parent[n])
  BY <1>1, Beside
<1>3. PICK g : AtPlace(heap, L, n, s, g) /\ Lists(heap', Moved(L, s, heap.parent[n], g))
  BY <1>1, <1>2, InsertBeforeLists
<1>4. live' = live
  BY <1>1, RelinkedTypes DEF live, Live, WellFormed
<1>5. IndexAmong(n, s) = g /\ g \in 1 .. Len(Cut(L, s)[heap.parent[n]]) + 1
  BY <1>2, <1>3, PlaceIsIndex
<1>6. SafetyChecks => Abstract!Place(s, heap.parent[n], g)
  BY <1>2, <1>3, <1>4, <1>5, MovedIsPlace
<1> QED
  BY <1>3, <1>5, <1>6

\* cmark_node_insert_after puts the node behind the other.
LEMMA InsertAfterStep ==
  ASSUME SelfSibling = FALSE, WellFormed(heap), NEW L, Lists(heap, L),
         NEW n \in live, NEW s \in live, InsertNodeAfter(n, s)
  PROVE  /\ \E K : Lists(heap', K)
         /\ SafetyChecks => /\ IndexAmong(n, s) + 1 \in 1 .. Len(Cut(L, s)[heap.parent[n]]) + 1
                            /\ Abstract!Place(s, heap.parent[n], IndexAmong(n, s) + 1)
<1>1. heap' = InsertAfter(heap, n, s) /\ n # s /\ MayInsertBeside(heap, n, s)
  BY DEF InsertNodeAfter
<1>2. /\ n \in Live(heap) /\ s \in Live(heap) /\ s \in Node
      /\ heap.parent[n] # NULL /\ heap.parent[n] \in Node
      /\ SafetyChecks => s \notin AncestorsOrSelf(heap, heap.parent[n])
  BY <1>1, Beside
<1>3. PICK g : AtPlace(heap, L, n, s, g) /\ Lists(heap', Moved(L, s, heap.parent[n], g + 1))
  BY <1>1, <1>2, InsertAfterLists
<1>4. live' = live
  BY <1>1, RelinkedTypes DEF live, Live, WellFormed
<1>5. IndexAmong(n, s) = g /\ g + 1 \in 1 .. Len(Cut(L, s)[heap.parent[n]]) + 1
  BY <1>2, <1>3, PlaceIsIndex
<1>6. SafetyChecks => Abstract!Place(s, heap.parent[n], g + 1)
  BY <1>2, <1>3, <1>4, <1>5, MovedIsPlace
<1> QED
  BY <1>3, <1>5, <1>6

\* cmark_node_replace exchanges the two nodes.
LEMMA ReplaceStep ==
  ASSUME SelfSibling = FALSE, WellFormed(heap), NEW L, Lists(heap, L),
         NEW n \in live, NEW s \in live, Replace(n, s)
  PROVE  /\ \E K : Lists(heap', K)
         /\ SafetyChecks => Abstract!Exchange(n, s)
<1> DEFINE p == heap.parent[n]
<1>1. heap' = ReplaceNode(heap, n, s) /\ n # s /\ MayInsertBeside(heap, n, s)
  BY DEF Replace
<1>2. /\ n \in Live(heap) /\ s \in Live(heap) /\ s \in Node
      /\ p # NULL /\ p \in Node /\ CanContainType(heap.type[p], heap.type[s])
      /\ SafetyChecks => s \notin AncestorsOrSelf(heap, p)
  BY <1>1, Beside
<1>3. Lists(heap', Exchanged(L, n, s, p))
  BY <1>1, <1>2, ReplaceLists
<1>4. live' = live
  BY <1>1, RelinkedTypes DEF live, Live, WellFormed
<1>5. ChildLists = L /\ ChildLists' = Exchanged(L, n, s, p)
  BY <1>3, ChildListsFound, ChildListsFoundNext
<1>6. Abstract!Without(s) = Cut(L, s) /\ p \in DOMAIN Cut(L, s)
  BY <1>2, <1>5, AbstractWithout DEF Cut
<1>7. n \in Abstract!ToSet(L[p])
  <2>1. IsList(heap, p, L[p])
    BY <1>2 DEF Lists
  <2>2. \E i \in 1 .. Len(L[p]) : L[p][i] = n
    BY <1>2, <2>1 DEF IsList, Live
  <2>3. DOMAIN L[p] = 1 .. Len(L[p])
    BY <2>1 DEF IsList
  <2> QED
    BY <2>2, <2>3 DEF Abstract!ToSet
<1>8. SafetyChecks => p \notin Abstract!Below(s)
  BY <1>2, AbstractBelow, NotUnder
<1> HIDE DEF p
<1>9. SafetyChecks => Abstract!Exchange(n, s)
  BY <1>2, <1>4, <1>5, <1>6, <1>7, <1>8 DEF Abstract!Exchange, Exchanged
<1> QED
  BY <1>3, <1>9

\* cmark_node_free discards the node with all that is under it.
LEMMA FreeStep ==
  ASSUME WellFormed(heap), NEW L, Lists(heap, L), NEW n \in live, Free(n)
  PROVE  /\ \E K : Lists(heap', K)
         /\ Abstract!Discard(n)
<1> DEFINE v == Unlink(heap, n)
           T == Freed(heap, n)
           K == [p \in Node |-> IF p \in T THEN <<>> ELSE Cut(L, n)[p]]
<1>1. heap' = FreeNode(heap, n) /\ n \in Live(heap) /\ n \in Node /\ heap \in Heap
  BY DEF Free, live, Live, WellFormed
<1>2. /\ WellFormed(v) /\ v.parent[n] = NULL /\ Descendants(v, T, n) /\ T = Subtree(v, n)
      /\ Released(v, heap', T)
  BY <1>1, FreeReleases
<1>3. Lists(v, Cut(L, n))
  BY <1>1, LeavesLists
<1>4. v.type = heap.type
  BY <1>1, RelinkedTypes
<1>5. T = Under(heap, n)
  <2>1. T = Under(v, n)
    <3> HIDE DEF v, T
    <3> QED
      BY <1>1, <1>2, SubtreeIsUnder
  <2> QED
    BY <1>1, <2>1, UnderUnlinked
<1> HIDE DEF v, T
<1>6. Lists(heap', K)
  BY <1>1, <1>2, <1>3, ReleasedLists
<1>7. live' = live \ T
  BY <1>2, <1>4 DEF live, Live, Released
<1>8. ChildLists = L /\ ChildLists' = K
  BY <1>6, ChildListsFound, ChildListsFoundNext
<1>9. Abstract!Without(n) = Cut(L, n) /\ Abstract!Below(n) = T
  BY <1>5, <1>8, AbstractWithout, AbstractBelow
<1>10. Abstract!Discard(n)
  BY <1>7, <1>8, <1>9 DEF Abstract!Discard
<1> QED
  BY <1>6, <1>10

\* cmark_node_clone copies what is under the node.
LEMMA CloneStep ==
  ASSUME WellFormed(heap), NEW L, Lists(heap, L), NEW n \in live,
         NEW g \in CloneTargets(n), Clone(n, g)
  PROVE  /\ \E K : Lists(heap', K)
         /\ g \in Abstract!Copies(n) /\ Abstract!Copy(n, g)
<1> DEFINE T == Subtree(heap, n)
<1>1. /\ heap' = CloneNode(heap, n, g) /\ n \in Live(heap) /\ n \in Node /\ heap \in Heap
      /\ n \notin AncestorsOrSelf(heap, heap.parent[n])
  BY DEF Clone, live, Live, WellFormed
<1>2. Descendants(heap, T, n) /\ T = Under(heap, n)
  BY <1>1, SubtreeDescendants, SubtreeIsUnder
<1>3. /\ g \in [T -> Node \ Live(heap)] /\ \A x, y \in T : x # y => g[x] # g[y]
  BY DEF CloneTargets, live
<1>4. T \in SUBSET Node /\ n \in T
  BY <1>2 DEF Descendants, Live
<1>5. heap' \in Heap /\ Copied(heap, heap', T, n, g)
  <2>1. g \in [T -> Node]
    BY <1>3
  <2> HIDE DEF T
  <2> QED
    BY <1>1, <1>3, <1>4, <2>1, CloneFields
<1> HIDE DEF T
<1>6. Lists(heap', Doubled(L, T, g))
  BY <1>1, <1>2, <1>3, <1>5, CopiedLists
<1>7. ChildLists = L /\ ChildLists' = Doubled(L, T, g)
  BY <1>6, ChildListsFound, ChildListsFoundNext
<1>8. Abstract!Below(n) = T
  BY <1>2, AbstractBelow
<1>9. live' = live \cup {g[x] : x \in T}
  <2>1. \A x \in T : heap'.type[g[x]] = heap.type[x] /\ heap.type[x] # "none"
    BY <1>2, <1>5 DEF Copied, Descendants, Live
  <2>2. \A m \in Node : (\A x \in T : g[x] # m) => heap'.type[m] = heap.type[m]
    BY <1>5 DEF Copied
  <2>3. \A x \in T : g[x] \in Node
    BY <1>3
  <2> QED
    BY <1>3, <2>1, <2>2, <2>3 DEF live, Live
<1>10. g \in Abstract!Copies(n)
  BY <1>3, <1>8 DEF Abstract!Copies, live
<1>11. Abstract!Copy(n, g)
  BY <1>3, <1>7, <1>8, <1>9 DEF Abstract!Copy, Doubled
<1> QED
  BY <1>6, <1>10, <1>11

\* A new node has no children and is on no list.
LEMMA NewStep ==
  ASSUME WellFormed(heap), NEW L, Lists(heap, L), NEW n \in Node, NEW t \in CallTypes,
         New(n, t)
  PROVE  /\ Lists(heap', L)
         /\ Abstract!Create(n)
<1>1. heap' = Fresh(heap, n, t) /\ n \notin Live(heap) /\ heap \in Heap
  BY DEF New, live, WellFormed
<1>2. Targets(heap, n) = {NULL}
  BY <1>1 DEF WellFormed, Closed
<1>3. SameLinks(heap, heap')
  BY <1>1, <1>2 DEF SameLinks, Fresh, Store, Targets
<1>4. Lists(heap', L)
  BY <1>3, SameLists
<1>5. ChildLists' = ChildLists
  BY <1>4, ChildListsFound, ChildListsFoundNext
<1>6. live' = live \cup {n}
  <2>1. t \in NodeTypes \ {"none"}
    BY CallTypesAssumption
  <2> QED
    BY <1>1, <2>1, FreshFields DEF live
<1> QED
  BY <1>1, <1>4, <1>5, <1>6 DEF Abstract!Create, live

\* A node that changes its type keeps its place.
LEMMA SetTypeStep ==
  ASSUME WellFormed(heap), NEW L, Lists(heap, L), NEW n \in live, NEW t \in CallTypes,
         SetType(n, t)
  PROVE  /\ Lists(heap', L)
         /\ live' = live /\ ChildLists' = ChildLists
<1>1. heap' = [heap EXCEPT !.type = Store(heap.type, n, t)] /\ heap \in Heap
  BY DEF SetType, WellFormed
<1>2. SameLinks(heap, heap')
  BY <1>1 DEF SameLinks, Heap
<1>3. Lists(heap', L)
  BY <1>2, SameLists
<1>4. ChildLists' = ChildLists
  BY <1>3, ChildListsFound, ChildListsFoundNext
<1>5. live' = live
  <2>1. t # "none" /\ n \in Live(heap)
    BY CallTypesAssumption DEF live
  <2>2. \A m \in Node : heap'.type[m] = IF m = n THEN t ELSE heap.type[m]
    BY <1>1 DEF Heap, Store
  <2> QED
    BY <2>1, <2>2 DEF live, Live
<1> QED
  BY <1>3, <1>4, <1>5

-----------------------------------------------------------------------------
(***************************************************************************)
(* The theorems.                                                           *)
(***************************************************************************)

\* The empty heap has empty lists.
LEMMA InitLists == Init => IInv /\ Abstract!Init
<1> SUFFICES ASSUME Init
             PROVE  IInv /\ Abstract!Init
  OBVIOUS
<1> DEFINE L == [p \in Node |-> <<>>]
<1>1. L \in [Node -> Seq(Node)]
  OBVIOUS
<1>2. \A p \in Node : IsList(heap, p, <<>>)
  <2> TAKE p \in Node
  <2>1. <<>> \in Seq(Node) /\ Len(<<>>) = 0 /\ 1 .. 0 = {}
    OBVIOUS
  <2>2. /\ heap.first_child[p] = NULL /\ heap.last_child[p] = NULL
        /\ \A m \in Node : heap.parent[m] # p
    BY NullAssumption DEF Init
  <2> QED
    BY <2>1, <2>2 DEF IsList
<1>3. Lists(heap, L)
  BY <1>1, <1>2 DEF Lists
<1>4. ChildLists = L
  BY <1>3, ChildListsFound
<1>5. live = {}
  BY DEF Init, live, Live
<1>6. IInv
  BY <1>1, <1>3, InitWellFormed DEF IInv
<1> QED
  BY <1>4, <1>5, <1>6 DEF Abstract!Init

\* Every call leaves lists that the pointers agree with.
LEMMA NextLists ==
  ASSUME SelfSibling = FALSE, IInv, [Next]_vars
  PROVE  IInv'
<1>1. WellFormed(heap) /\ WellFormed(heap')
  BY NextWellFormed DEF IInv
<1>2. PICK L : Lists(heap, L)
  BY DEF IInv
<1>3. \E K : Lists(heap', K)
  <2>1. ASSUME NEW n \in Node, NEW t \in CallTypes, New(n, t)
        PROVE  \E K : Lists(heap', K)
    BY <1>1, <1>2, <2>1, NewStep
  <2>2. ASSUME NEW n \in live, UnlinkNode(n)
        PROVE  \E K : Lists(heap', K)
    BY <1>1, <1>2, <2>2, UnlinkStep
  <2>3. ASSUME NEW n \in live, NEW s \in live, InsertNodeBefore(n, s)
        PROVE  \E K : Lists(heap', K)
    BY <1>1, <1>2, <2>3, InsertBeforeStep
  <2>4. ASSUME NEW n \in live, NEW s \in live, InsertNodeAfter(n, s)
        PROVE  \E K : Lists(heap', K)
    BY <1>1, <1>2, <2>4, InsertAfterStep
  <2>5. ASSUME NEW n \in live, NEW s \in live, Replace(n, s)
        PROVE  \E K : Lists(heap', K)
    BY <1>1, <1>2, <2>5, ReplaceStep
  <2>6. ASSUME NEW p \in live, NEW c \in live, PrependNode(p, c)
        PROVE  \E K : Lists(heap', K)
    BY <1>1, <1>2, <2>6, PrependStep
  <2>7. ASSUME NEW p \in live, NEW c \in live, AppendNode(p, c)
        PROVE  \E K : Lists(heap', K)
    BY <1>1, <1>2, <2>7, AppendStep
  <2>8. ASSUME NEW n \in live, Free(n)
        PROVE  \E K : Lists(heap', K)
    BY <1>1, <1>2, <2>8, FreeStep
  <2>9. ASSUME NEW n \in live, NEW t \in CallTypes, SetType(n, t)
        PROVE  \E K : Lists(heap', K)
    BY <1>1, <1>2, <2>9, SetTypeStep
  <2>10. ASSUME NEW n \in live, NEW g \in CloneTargets(n), Clone(n, g)
         PROVE  \E K : Lists(heap', K)
    BY <1>1, <1>2, <2>10, CloneStep
  <2>11. CASE UNCHANGED vars
    BY <1>2, <2>11 DEF vars
  <2> QED
    BY <2>1, <2>2, <2>3, <2>4, <2>5, <2>6, <2>7, <2>8, <2>9, <2>10, <2>11 DEF Next
<1>4. \E K \in [Node -> Seq(Node)] : Lists(heap', K)
  BY <1>3 DEF Lists
<1> QED
  BY <1>1, <1>4 DEF IInv

\* The pointers of every node always agree, in both directions, with one finite
\* sequence of children without repetition: no sequence of node.c calls splits a
\* list, ties it into a ring or puts a node on two of them.
THEOREM ChildrenAreLists ==
  ASSUME SelfSibling = FALSE
  PROVE  Spec => []IInv
<1>1. IInv /\ [Next]_vars => IInv'
  BY NextLists
<1> QED
  BY <1>1, InitLists, PTL DEF Spec

\* A child that has left is off its list, which is no longer than before.
LEMMA CutShortens ==
  ASSUME NEW L, Lists(heap, L), NEW c, NEW p \in Node,
         NEW i \in 1 .. Len(Cut(L, c)[p]) + 1
  PROVE  i \in 1 .. Len(L[p]) + 1
<1> DEFINE s == L[p]
<1>1. IsList(heap, p, s) /\ Cut(L, c)[p] = RemoveFirst(s, c)
  BY DEF Lists, Cut
<1> HIDE DEF s
<1>2. s \in Seq(Node) /\ Len(s) \in Nat /\ \A k, j \in 1 .. Len(s) : s[k] = s[j] => k = j
  BY <1>1 DEF IsList
<1>3. CASE \E g \in 1 .. Len(s) : s[g] = c
  <2>1. PICK g \in 1 .. Len(s) : s[g] = c
    BY <1>3
  <2>2. LacksPlace(Node, s, g, RemoveFirst(s, c))
    BY <1>2, <2>1, RemovedFirst
  <2>3. Len(RemoveFirst(s, c)) = Len(s) - 1
    BY <2>2 DEF LacksPlace
  <2> QED
    BY <1>1, <1>2, <2>3 DEF s
<1>4. CASE ~ \E g \in 1 .. Len(s) : s[g] = c
  BY <1>1, <1>4, RemovedNone DEF s
<1> QED
  BY <1>3, <1>4

\* Each call is the step of Forest it is named for.
LEMMA NextImplements ==
  ASSUME SelfSibling = FALSE, SafetyChecks = TRUE, IInv, [Next]_vars
  PROVE  [Abstract!Next]_(Abstract!fvars)
<1>1. WellFormed(heap) /\ live \subseteq Node
  BY DEF IInv, live, Live
<1>2. PICK L : Lists(heap, L)
  BY DEF IInv
<1>3. ChildLists = L
  BY <1>2, ChildListsFound
<1>4. ASSUME NEW n \in Node, NEW t \in CallTypes, New(n, t)
      PROVE  Abstract!Next
  BY <1>1, <1>2, <1>4, NewStep DEF Abstract!Next
<1>5. ASSUME NEW n \in live, UnlinkNode(n)
      PROVE  Abstract!Next
  BY <1>1, <1>2, <1>5, UnlinkStep DEF Abstract!Next
<1>6. ASSUME NEW c \in live, NEW p \in live, NEW i \in 1 .. Len(Cut(L, c)[p]) + 1,
             Abstract!Place(c, p, i)
      PROVE  Abstract!Next
  <2>1. i \in 1 .. Len(ChildLists[p]) + 1
    BY <1>1, <1>2, <1>3, CutShortens
  <2> QED
    BY <1>6, <2>1 DEF Abstract!Next
<1>7. ASSUME NEW n \in live, NEW s \in live, InsertNodeBefore(n, s)
      PROVE  Abstract!Next
  <2>1. heap.parent[n] \in live
    BY <1>1, <1>2, <1>7, Beside DEF InsertNodeBefore
  <2> QED
    BY <1>1, <1>2, <1>6, <1>7, <2>1, InsertBeforeStep
<1>8. ASSUME NEW n \in live, NEW s \in live, InsertNodeAfter(n, s)
      PROVE  Abstract!Next
  <2>1. heap.parent[n] \in live
    BY <1>1, <1>2, <1>8, Beside DEF InsertNodeAfter
  <2> QED
    BY <1>1, <1>2, <1>6, <1>8, <2>1, InsertAfterStep
<1>9. ASSUME NEW n \in live, NEW s \in live, Replace(n, s)
      PROVE  Abstract!Next
  BY <1>1, <1>2, <1>9, ReplaceStep DEF Abstract!Next
<1>10. ASSUME NEW p \in live, NEW c \in live
       PROVE  /\ Len(Cut(L, c)[p]) \in Nat
              /\ Abstract!Without(c) = Cut(L, c)
  <2>1. Lists(Unlink(heap, c), Cut(L, c)) /\ p \in Node
    BY <1>1, <1>2, LeavesLists DEF live
  <2> QED
    BY <1>3, <2>1, AbstractWithout DEF Lists
<1>11. ASSUME NEW p \in live, NEW c \in live, PrependNode(p, c)
       PROVE  Abstract!Next
  <2>1. Abstract!Place(c, p, 1) /\ 1 \in 1 .. Len(Cut(L, c)[p]) + 1
    BY <1>1, <1>2, <1>10, <1>11, PrependStep
  <2> QED
    BY <1>6, <2>1
<1>12. ASSUME NEW p \in live, NEW c \in live, AppendNode(p, c)
       PROVE  Abstract!Next
  <2> DEFINE i == Len(Cut(L, c)[p]) + 1
  <2>1. Abstract!Place(c, p, i) /\ i \in 1 .. Len(Cut(L, c)[p]) + 1
    BY <1>1, <1>2, <1>10, <1>12, AppendStep
  <2> HIDE DEF i
  <2> QED
    BY <1>6, <2>1
<1>13. ASSUME NEW n \in live, Free(n)
       PROVE  Abstract!Next
  BY <1>1, <1>2, <1>13, FreeStep DEF Abstract!Next
<1>14. ASSUME NEW n \in live, NEW t \in CallTypes, SetType(n, t)
       PROVE  UNCHANGED Abstract!fvars
  BY <1>1, <1>2, <1>14, SetTypeStep DEF Abstract!fvars
<1>15. ASSUME NEW n \in live, NEW g \in CloneTargets(n), Clone(n, g)
       PROVE  Abstract!Next
  BY <1>1, <1>2, <1>15, CloneStep DEF Abstract!Next
<1>16. ASSUME UNCHANGED vars
       PROVE  UNCHANGED Abstract!fvars
  BY <1>16 DEF vars, Abstract!fvars, live, Live, ChildLists, Walk
<1> QED
  BY <1>4, <1>5, <1>7, <1>8, <1>9, <1>11, <1>12, <1>13, <1>14, <1>15, <1>16 DEF Next

\* With safety checks on, every behaviour of the pointer structure is one of the
\* ordered forest, for any number of nodes and whatever the calls: each moves
\* the node it names to the place it names and disturbs no other order.
THEOREM PointersImplementForest ==
  ASSUME SelfSibling = FALSE, SafetyChecks = TRUE
  PROVE  Spec => ImplementsForest
<1>1. Init => Abstract!Init
  BY InitLists
<1>2. IInv /\ [Next]_vars => [Abstract!Next]_(Abstract!fvars)
  BY NextImplements
<1> QED
  BY <1>1, <1>2, ChildrenAreLists, PTL DEF Spec, ImplementsForest, Abstract!Spec

\* The parts of EachCall.
LEMMA NextEachCall ==
  ASSUME SelfSibling = FALSE, SafetyChecks = TRUE, IInv
  PROVE  /\ \A n \in live : UnlinkNode(n) => Abstract!Detach(n)
         /\ \A n \in live : Free(n) => Abstract!Discard(n)
         /\ \A p, c \in live : PrependNode(p, c) => Abstract!Place(c, p, 1)
         /\ \A p, c \in live :
              AppendNode(p, c) => Abstract!Place(c, p, Len(Abstract!Without(c)[p]) + 1)
         /\ \A n, s \in live :
              InsertNodeBefore(n, s) =>
                Abstract!Place(s, heap.parent[n], IndexAmong(n, s))
         /\ \A n, s \in live :
              InsertNodeAfter(n, s) =>
                Abstract!Place(s, heap.parent[n], IndexAmong(n, s) + 1)
         /\ \A n, s \in live : Replace(n, s) => Abstract!Exchange(n, s)
<1>1. WellFormed(heap)
  BY DEF IInv
<1>2. PICK L : Lists(heap, L)
  BY DEF IInv
<1>3. \A n \in live : UnlinkNode(n) => Abstract!Detach(n)
  BY <1>1, <1>2, UnlinkStep
<1>4. \A n \in live : Free(n) => Abstract!Discard(n)
  BY <1>1, <1>2, FreeStep
<1>5. \A p, c \in live : PrependNode(p, c) => Abstract!Place(c, p, 1)
  BY <1>1, <1>2, PrependStep
<1>6. \A p, c \in live :
        AppendNode(p, c) => Abstract!Place(c, p, Len(Abstract!Without(c)[p]) + 1)
  BY <1>1, <1>2, AppendStep
<1>7. \A n, s \in live :
        InsertNodeBefore(n, s) => Abstract!Place(s, heap.parent[n], IndexAmong(n, s))
  BY <1>1, <1>2, InsertBeforeStep
<1>8. \A n, s \in live :
        InsertNodeAfter(n, s) => Abstract!Place(s, heap.parent[n], IndexAmong(n, s) + 1)
  BY <1>1, <1>2, InsertAfterStep
<1>9. \A n, s \in live : Replace(n, s) => Abstract!Exchange(n, s)
  BY <1>1, <1>2, ReplaceStep
<1> QED
  BY <1>3, <1>4, <1>5, <1>6, <1>7, <1>8, <1>9

\* Each call does what it is named for, also when the node it moves is already
\* there or beside the place it goes to.
THEOREM CallsAsNamed ==
  ASSUME SelfSibling = FALSE, SafetyChecks = TRUE
  PROVE  Spec => EachCall
<1>1. IInv /\ [Next]_vars =>
        [/\ \A n \in live : UnlinkNode(n) => Abstract!Detach(n)
         /\ \A n \in live : Free(n) => Abstract!Discard(n)
         /\ \A p, c \in live : PrependNode(p, c) => Abstract!Place(c, p, 1)
         /\ \A p, c \in live :
              AppendNode(p, c) => Abstract!Place(c, p, Len(Abstract!Without(c)[p]) + 1)
         /\ \A n, s \in live :
              InsertNodeBefore(n, s) =>
                Abstract!Place(s, heap.parent[n], IndexAmong(n, s))
         /\ \A n, s \in live :
              InsertNodeAfter(n, s) =>
                Abstract!Place(s, heap.parent[n], IndexAmong(n, s) + 1)
         /\ \A n, s \in live : Replace(n, s) => Abstract!Exchange(n, s)]_vars
  BY NextEachCall
<1> QED
  BY <1>1, ChildrenAreLists, PTL DEF Spec, EachCall
=============================================================================
