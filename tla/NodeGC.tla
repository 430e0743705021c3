------------------------------- MODULE NodeGC -------------------------------
(***************************************************************************)
(* The Ruby binding's ownership of nodes (markly.c).  A node has at most   *)
(* one Ruby object, cached in its user_data; the object's data pointer     *)
(* leads back to the node.  Ruby marks, sweeps and finalises objects; a    *)
(* finaliser frees the tree of a parentless node.  The program navigates   *)
(* and edits trees through the objects it references.                      *)
(*                                                                         *)
(* The collector is Ruby's: marking takes the set of unreachable objects   *)
(* at once, sweeping finalises them one at a time and in any order while   *)
(* the program runs on, and either may happen inside the allocation that   *)
(* Markly_Node_wrap makes between reading a node and caching its object.   *)
(***************************************************************************)
EXTENDS NodeLinks

CONSTANTS
  Object,      \* the object slots of the Ruby heap
  NONE,        \* no object
  STALE,       \* what a pointer into a freed node leads to
  CallTypes,   \* the node types the program creates
  Footnotes,   \* whether the parsed documents use footnotes
  SelfSibling  \* whether the program may insert a node beside itself

ASSUME ObjectAssumption == NONE \notin Object
ASSUME StaleAssumption == STALE \notin Node \cup {NULL}
ASSUME CallTypesAssumption == CallTypes \subseteq NodeTypes \ {"none"}
ASSUME FootnotesAssumption == Footnotes \in BOOLEAN
ASSUME SelfSiblingAssumption == SelfSibling \in BOOLEAN

VARIABLES
  heap,                 \* the nodes and their links
  parent_footnote_def,  \* the definition each footnote reference leads to
  lender,               \* the node whose content buffer holds a node's literal
  user_data,            \* the object cached by each node
  data,                 \* the node each object wraps
  slot,                 \* each object slot: "free", "live" or "dead" (unswept)
  held,                 \* the objects the program references
  wrapping              \* the node Markly_Node_wrap is allocating an object for

treevars == <<heap, parent_footnote_def, lender>>
rubyvars == <<user_data, data, slot>>
vars == <<heap, parent_footnote_def, lender, user_data, data, slot, held, wrapping>>

Init ==
  /\ heap = [type        |-> [n \in Node |-> "none"],
             next        |-> [n \in Node |-> NULL],
             prev        |-> [n \in Node |-> NULL],
             parent      |-> [n \in Node |-> NULL],
             first_child |-> [n \in Node |-> NULL],
             last_child  |-> [n \in Node |-> NULL]]
  /\ parent_footnote_def = [n \in Node |-> NULL]
  /\ lender = [n \in Node |-> NULL]
  /\ user_data = [n \in Node |-> NONE]
  /\ data = [w \in Object |-> NULL]
  /\ slot = [w \in Object |-> "free"]
  /\ held = {}
  /\ wrapping = NULL

live == Live(heap)

\* The program's next call starts when the last one has returned.
Idle == wrapping = NULL

-----------------------------------------------------------------------------
(***************************************************************************)
(* Calls that return a node.  A cached object is returned at once;         *)
(* otherwise Wrap allocates one, and the collector may run before it.      *)
(***************************************************************************)
Return(n) ==
  IF user_data'[n] # NONE
  THEN held' = held \cup {user_data'[n]} /\ wrapping' = NULL
  ELSE wrapping' = n /\ UNCHANGED held

\* TypedData_Wrap_Struct and the rest of Markly_Node_wrap.
Wrap(w) ==
  /\ wrapping # NULL
  /\ slot[w] = "free"
  /\ slot' = [slot EXCEPT ![w] = "live"]
  /\ data' = [data EXCEPT ![w] = wrapping]
  /\ user_data' = [user_data EXCEPT ![wrapping] = w]
  /\ held' = held \cup {w}
  /\ wrapping' = NULL
  /\ UNCHANGED treevars

\* Markly::Node.new
NewNode(n, t) ==
  /\ Idle
  /\ n \notin live
  /\ heap' = Fresh(heap, n, t)
  /\ UNCHANGED <<parent_footnote_def, lender, rubyvars>>
  /\ Return(n)

\* Markly::Parser#parse, for a document r with one paragraph p that holds a
\* text t, or a reference t to the footnote definition d.  The literal of a
\* text is a slice of the content buffer of the paragraph it was parsed from.
Parse(r, p, t) ==
  LET h == Fresh(Fresh(Fresh(heap, r, "document"), p, "paragraph"), t, "text")
  IN  /\ Idle
      /\ {r, p, t} \cap live = {}
      /\ r \notin {p, t} /\ p # t
      /\ heap' = AppendChild(AppendChild(h, r, p), p, t)
      /\ lender' = [lender EXCEPT ![t] = p]
      /\ UNCHANGED <<parent_footnote_def, rubyvars>>
      /\ Return(r)

ParseFootnote(r, p, f, d) ==
  LET h == Fresh(Fresh(Fresh(Fresh(heap, r, "document"), p, "paragraph"),
                       f, "footnote_reference"), d, "footnote_definition")
  IN  /\ Idle
      /\ Footnotes
      /\ {r, p, f, d} \cap live = {}
      /\ r \notin {p, f, d} /\ p \notin {f, d} /\ f # d
      /\ heap' = AppendChild(AppendChild(AppendChild(h, r, p), p, f), r, d)
      /\ parent_footnote_def' = [parent_footnote_def EXCEPT ![f] = d]
      /\ UNCHANGED <<lender, rubyvars>>
      /\ Return(r)

\* Markly::Node#dup.  The literals of the copy are its own.  A reference in the
\* copy leads to the copy of its definition, or nowhere when the definition is
\* not part of the subtree.
Duplicate(w, g) ==
  LET n == data[w] IN
  /\ Idle
  /\ n \notin AncestorsOrSelf(heap, heap.parent[n])
  /\ Clonable(heap, n)
  /\ heap' = CloneNode(heap, n, g)
  /\ parent_footnote_def' =
       [m \in Node |->
          IF \E x \in DOMAIN g : g[x] = m
          THEN LET d == parent_footnote_def[CHOOSE x \in DOMAIN g : g[x] = m]
               IN  IF d \in DOMAIN g THEN g[d] ELSE NULL
          ELSE parent_footnote_def[m]]
  /\ UNCHANGED <<lender, rubyvars>>
  /\ Return(g[n])

\* parent, first_child, last_child, next, previous, parent_footnote_def
Navigate(w) ==
  LET n == data[w] IN
  /\ Idle
  /\ \E m \in {heap.parent[n], heap.first_child[n], heap.last_child[n],
               heap.next[n], heap.prev[n], parent_footnote_def[n]} \ {NULL, STALE} :
       /\ UNCHANGED <<treevars, rubyvars>>
       /\ Return(m)

\* The tree operations on two nodes whose objects the program holds.
Edit(v, w) ==
  LET n == data[v]
      m == data[w]
  IN  /\ Idle
      /\ \/ /\ CanContain(heap, n, m)
            /\ \/ heap' = AppendChild(heap, n, m)
               \/ heap' = PrependChild(heap, n, m)
         \/ /\ SelfSibling \/ n # m
            /\ MayInsertBeside(heap, n, m)
            /\ \/ heap' = InsertBefore(heap, n, m)
               \/ heap' = InsertAfter(heap, n, m)
               \/ heap' = ReplaceNode(heap, n, m)
         \/ heap' = Unlink(heap, n)
      /\ UNCHANGED <<parent_footnote_def, lender, rubyvars, held, wrapping>>

\* Markly::Node#string_content: cmark_chunk_to_cstr turns a borrowed literal
\* into one the node owns.
StringContent(w) ==
  /\ Idle
  /\ lender[data[w]] \in Node
  /\ lender' = [lender EXCEPT ![data[w]] = NULL]
  /\ UNCHANGED <<heap, parent_footnote_def, rubyvars, held, wrapping>>

\* The last Ruby reference to w goes away.
Drop(w) ==
  /\ Idle
  /\ held' = held \ {w}
  /\ UNCHANGED <<treevars, rubyvars, wrapping>>

-----------------------------------------------------------------------------
(***************************************************************************)
(* The collector.                                                          *)
(***************************************************************************)

\* The nodes on n's child list.
ChildList(n) ==
  {m \in Node : \A S \in SUBSET Node :
     (/\ heap.first_child[n] \in S \cup {NULL}
      /\ \A x \in S : heap.next[x] \in S \cup {NULL}) => m \in S}

\* Mutants: the mark function forgets the parent, or the children.
MarksNoParent(w) ==
  IF data[w] = NULL THEN {}
  ELSE {user_data[m] : m \in ChildList(data[w])} \ {NONE}

MarksNoChildren(w) ==
  IF data[w] = NULL \/ heap.parent[data[w]] = NULL THEN {}
  ELSE {user_data[heap.parent[data[w]]]} \ {NONE}

\* Markly_Node_Type_mark: an object keeps alive the objects of its node's
\* parent and children.
Marks(w) ==
  IF data[w] = NULL THEN {}
  ELSE {user_data[m] : m \in ChildList(data[w]) \cup
                             ({heap.parent[data[w]]} \ {NULL})} \ {NONE}

\* Mutant: the cached objects are strong references.
ReachableFromCache ==
  {w \in Object : w \in held \/ \E n \in live : user_data[n] = w}

\* The objects rb_gc_mark reaches from those the program references.
Reachable ==
  {w \in Object : \A S \in SUBSET Object :
     (held \subseteq S /\ \A v \in S : Marks(v) \subseteq S) => w \in S}

\* A collection starts when the last one has been swept.
Mark ==
  /\ \A w \in Object : slot[w] # "dead"
  /\ \E w \in Object \ Reachable : slot[w] = "live"
  /\ slot' = [w \in Object |->
                IF slot[w] = "live" /\ w \notin Reachable THEN "dead" ELSE slot[w]]
  /\ UNCHANGED <<treevars, user_data, data, held, wrapping>>

\* A pointer field once the nodes of F are freed.
Severed(f, F) ==
  [m \in Node |-> IF m \in F THEN NULL ELSE IF f[m] \in F THEN STALE ELSE f[m]]

\* Mutant: Markly_Node_wrap does not register Markly_Node_freed.
ClearedNone(F) == data

\* Markly_Node_freed: freeing a node clears the data pointer of its object.
Cleared(F) ==
  [v \in Object |-> IF \E m \in F : user_data[m] = v THEN NULL ELSE data[v]]

\* The object of a parentless node owns the tree.
OwnsTree(n) == heap.parent[n] = NULL

\* Markly_Node_Type_free, on the dead object w.
Sweep(w) ==
  LET n == data[w] IN
  /\ slot[w] = "dead"
  /\ slot' = [slot EXCEPT ![w] = "free"]
  /\ IF n = NULL
     THEN UNCHANGED <<treevars, user_data, data>>
     ELSE IF OwnsTree(n)
     THEN LET F == Freed(heap, n) IN
          /\ heap' = FreeNode(heap, n)
          /\ data' = Cleared(F)
          /\ user_data' = [m \in Node |-> IF m \in F THEN NONE ELSE user_data[m]]
          /\ parent_footnote_def' = Severed(parent_footnote_def, F)
          /\ lender' = Severed(lender, F)
     ELSE /\ user_data' = [user_data EXCEPT ![n] = NONE]
          /\ data' = [data EXCEPT ![w] = NULL]
          /\ UNCHANGED treevars
  /\ UNCHANGED <<held, wrapping>>

-----------------------------------------------------------------------------
\* The object a method is called on: its data pointer must not be NULL.
Receivers == {w \in held : data[w] # NULL}

CloneTargets(n) ==
  {g \in [Subtree(heap, n) -> Node \ live] :
     \A x, y \in Subtree(heap, n) : x # y => g[x] # g[y]}

Program ==
  \/ \E n \in Node, t \in CallTypes : NewNode(n, t)
  \/ \E r, p, t \in Node : Parse(r, p, t)
  \/ \E r, p, f, d \in Node : ParseFootnote(r, p, f, d)
  \/ \E w \in Receivers : \E g \in CloneTargets(data[w]) : Duplicate(w, g)
  \/ \E w \in Receivers : Navigate(w)
  \/ \E v, w \in Receivers : Edit(v, w)
  \/ \E w \in Receivers : StringContent(w)
  \/ \E w \in held : Drop(w)

Next ==
  \/ Program
  \/ \E w \in Object : Wrap(w)
  \/ Mark
  \/ \E w \in Object : Sweep(w)

Spec == Init /\ [][Next]_vars

\* Ruby's allocation returns, and its collector runs again and again.
Fairness ==
  /\ WF_vars(\E w \in Object : Wrap(w))
  /\ WF_vars(Mark)
  /\ WF_vars(\E w \in Object : Sweep(w))

FairSpec == Spec /\ Fairness

-----------------------------------------------------------------------------
TypeOK ==
  /\ heap \in Heap
  /\ parent_footnote_def \in [Node -> Pointer \cup {STALE}]
  /\ lender \in [Node -> Pointer \cup {STALE}]
  /\ user_data \in [Node -> Object \cup {NONE}]
  /\ data \in [Object -> Pointer]
  /\ slot \in [Object -> {"free", "live", "dead"}]
  /\ held \subseteq Object
  /\ wrapping \in Pointer

\* An object the program holds is alive and wraps an allocated node that
\* leads back to it: neither a collection, nor a finaliser that frees a whole
\* tree, nor an edit takes a node away from a reference to it
\* (test_drop_parent_reference and test_drop_child_reference).
HeldIntact ==
  \A w \in held :
    /\ slot[w] = "live"
    /\ data[w] \in live
    /\ user_data[data[w]] = w

\* Objects and nodes point at each other: a cached object is never a slot
\* that has been swept (and perhaps reused), and an object awaiting its
\* finaliser never points at a node that is already freed, which would be
\* freed twice.
Paired ==
  /\ \A n \in live : user_data[n] # NONE =>
       slot[user_data[n]] # "free" /\ data[user_data[n]] = n
  /\ \A w \in Object : data[w] # NULL =>
       slot[w] # "free" /\ data[w] \in live /\ user_data[data[w]] = w

\* The collector sees trees whole: while dead objects wait to be swept, no
\* node of a live object is a neighbour of a node of a dead one, so the
\* program cannot navigate to an object about to be finalised, nor lose the
\* tree it holds to the finaliser of another of its nodes.
TreesDieWhole ==
  \A w \in Object : slot[w] = "dead" /\ data[w] # NULL =>
    \A v \in Marks(w) : slot[v] = "dead"

\* What a node the program holds takes from another, its text or the definition
\* of a footnote reference, is still allocated ("Ensures a node and all its
\* children own their own chunk memory.", cmark-gfm.h:565).
BorrowedIntact ==
  \A w \in held : STALE \notin {lender[data[w]], parent_footnote_def[data[w]]}

\* Once the program has dropped its references and makes no more, every node
\* is freed (the TODO of test_remove_parent).
Collected ==
  (<>[](held = {} /\ wrapping = NULL)) => <>[](live = {})
=============================================================================
