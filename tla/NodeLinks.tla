------------------------------ MODULE NodeLinks ------------------------------
(***************************************************************************)
(* The pointer structure of a Markly document: struct cmark_node of        *)
(* node.h and the functions of node.c that read and relink it, as          *)
(* operators on a heap value.                                              *)
(*                                                                         *)
(* A heap is a record of functions, one per pointer field of the struct    *)
(* plus the node type.  Every operator takes the heap before the call and  *)
(* yields the heap after it, so a function that calls two others (such as  *)
(* cmark_node_replace) is the composition of their operators.  The         *)
(* content, user data, source position and the type-specific union of a    *)
(* node are left out: no operator here reads them.                         *)
(***************************************************************************)
CONSTANTS
  Node,          \* the addresses at which a cmark_node may be allocated
  NULL,          \* the null pointer
  SafetyChecks   \* the flag set by cmark_enable_safety_checks (FALSE as shipped)

ASSUME NullAssumption == NULL \notin Node
ASSUME FlagAssumption == SafetyChecks \in BOOLEAN

(***************************************************************************)
(* Node types.  The three table types and strikethrough are not in the     *)
(* enumeration of cmark-gfm.h: the extensions add them at run time.        *)
(* "none" is CMARK_NODE_NONE, the type of no allocated node; it marks the  *)
(* addresses that hold no node.                                            *)
(***************************************************************************)
BlockTypes ==
  {"document", "block_quote", "list", "item", "code_block", "html_block",
   "custom_block", "paragraph", "heading", "thematic_break",
   "footnote_definition", "front_matter", "table", "table_row", "table_cell"}

InlineTypes ==
  {"text", "softbreak", "linebreak", "code", "html_inline", "custom_inline",
   "emph", "strong", "link", "image", "footnote_reference", "strikethrough"}

NodeTypes == BlockTypes \cup InlineTypes \cup {"none"}

\* can_contain of the table extension: which types a cell may hold.
CellTypes ==
  {"text", "code", "emph", "strong", "link", "image", "strikethrough",
   "html_inline", "footnote_reference"}

\* cmark_node_can_contain_type, with the can_contain functions of the
\* extensions that own the node types they add.
CanContainType(t, child) ==
  /\ child # "document"
  /\ \/ /\ t \in {"document", "block_quote", "footnote_definition", "item"}
        /\ child \in BlockTypes \ {"item"}
     \/ t = "list" /\ child = "item"
     \/ t = "custom_block"
     \/ /\ t \in {"paragraph", "heading", "emph", "strong", "link", "image",
                  "custom_inline", "strikethrough"}
        /\ child \in InlineTypes
     \/ t = "table" /\ child = "table_row"
     \/ t = "table_row" /\ child = "table_cell"
     \/ t = "table_cell" /\ child \in CellTypes

-----------------------------------------------------------------------------
Pointer == Node \cup {NULL}

Heap ==
  [type : [Node -> NodeTypes],
   next : [Node -> Pointer], prev : [Node -> Pointer],
   parent : [Node -> Pointer],
   first_child : [Node -> Pointer], last_child : [Node -> Pointer]]

\* The addresses that hold a node.
Live(h) == {n \in Node : h.type[n] # "none"}

\* if (x) x->field = v;
Store(f, x, v) == [m \in Node |-> IF m = x THEN v ELSE f[m]]

\* A node as calloc leaves it, with its type set.
Fresh(h, n, t) ==
  [type        |-> Store(h.type, n, t),
   next        |-> Store(h.next, n, NULL),
   prev        |-> Store(h.prev, n, NULL),
   parent      |-> Store(h.parent, n, NULL),
   first_child |-> Store(h.first_child, n, NULL),
   last_child  |-> Store(h.last_child, n, NULL)]

\* The nodes met by walking parent pointers from n, n included: those in
\* every set that holds n and is closed under parent.  None if n is NULL.
AncestorsOrSelf(h, n) ==
  {a \in Node : \A S \in SUBSET Node :
     (/\ n \in S \cup {NULL}
      /\ \A m \in S : h.parent[m] \in S \cup {NULL}) => a \in S}

\* Mutant: the walk from the parent upwards only compares its first node.
CanContainNoWalk(h, p, c) ==
  /\ p # NULL
  /\ c # NULL
  /\ SafetyChecks => c # p
  /\ CanContainType(h.type[p], h.type[c])

\* S_can_contain: may node p take c as a child?
CanContain(h, p, c) ==
  /\ p # NULL
  /\ c # NULL
  /\ SafetyChecks => c \notin AncestorsOrSelf(h, p)
  /\ CanContainType(h.type[p], h.type[c])

-----------------------------------------------------------------------------
(***************************************************************************)
(* Relinking.                                                              *)
(***************************************************************************)

\* S_node_unlink: detach n from its neighbours; n's own pointers are kept.
NodeUnlink(h, n) ==
  [h EXCEPT
     !.next        = Store(h.next, h.prev[n], h.next[n]),
     !.prev        = Store(h.prev, h.next[n], h.prev[n]),
     !.first_child = [p \in Node |-> IF p = h.parent[n] /\ h.first_child[p] = n
                                     THEN h.next[n] ELSE h.first_child[p]],
     !.last_child  = [p \in Node |-> IF p = h.parent[n] /\ h.last_child[p] = n
                                     THEN h.prev[n] ELSE h.last_child[p]]]

\* cmark_node_unlink
Unlink(h, n) ==
  LET u == NodeUnlink(h, n)
  IN  [u EXCEPT !.next   = Store(u.next, n, NULL),
                !.prev   = Store(u.prev, n, NULL),
                !.parent = Store(u.parent, n, NULL)]

\* cmark_node_insert_before, past its checks
InsertBefore(h, n, s) ==
  LET u == NodeUnlink(h, s)
      old_prev == u.prev[n]
  IN  [u EXCEPT
         !.next   = Store(Store(u.next, old_prev, s), s, n),
         !.prev   = Store(Store(u.prev, s, old_prev), n, s),
         !.parent = Store(u.parent, s, u.parent[n]),
         !.first_child = IF old_prev = NULL
                         THEN Store(u.first_child, u.parent[n], s)
                         ELSE u.first_child]

\* Mutant: old_next is read before the sibling is unlinked.
InsertAfterStale(h, n, s) ==
  LET u == NodeUnlink(h, s)
      old_next == h.next[n]
  IN  [u EXCEPT
         !.prev   = Store(Store(u.prev, old_next, s), s, n),
         !.next   = Store(Store(u.next, s, old_next), n, s),
         !.parent = Store(u.parent, s, u.parent[n]),
         !.last_child = IF old_next = NULL
                        THEN Store(u.last_child, u.parent[n], s)
                        ELSE u.last_child]

\* cmark_node_insert_after, past its checks
InsertAfter(h, n, s) ==
  LET u == NodeUnlink(h, s)
      old_next == u.next[n]
  IN  [u EXCEPT
         !.prev   = Store(Store(u.prev, old_next, s), s, n),
         !.next   = Store(Store(u.next, s, old_next), n, s),
         !.parent = Store(u.parent, s, u.parent[n]),
         !.last_child = IF old_next = NULL
                        THEN Store(u.last_child, u.parent[n], s)
                        ELSE u.last_child]

\* The check shared by the two insertions: the parent accepts the sibling.
MayInsertBeside(h, n, s) ==
  h.parent[n] # NULL /\ CanContain(h, h.parent[n], s)

\* cmark_node_replace, past its checks
ReplaceNode(h, old, new) == Unlink(InsertBefore(h, old, new), old)

\* cmark_node_prepend_child, past its checks
PrependChild(h, p, c) ==
  LET u == NodeUnlink(h, c)
      old_first == u.first_child[p]
  IN  [u EXCEPT
         !.next   = Store(u.next, c, old_first),
         !.prev   = Store(Store(u.prev, c, NULL), old_first, c),
         !.parent = Store(u.parent, c, p),
         !.first_child = Store(u.first_child, p, c),
         !.last_child  = IF old_first = NULL THEN Store(u.last_child, p, c)
                         ELSE u.last_child]

\* Mutant: the child goes to the front.
AppendChildInFront(h, p, c) == PrependChild(h, p, c)

\* cmark_node_append_child, past its checks
AppendChild(h, p, c) ==
  LET u == NodeUnlink(h, c)
      old_last == u.last_child[p]
  IN  [u EXCEPT
         !.next   = Store(Store(u.next, c, NULL), old_last, c),
         !.prev   = Store(u.prev, c, old_last),
         !.parent = Store(u.parent, c, p),
         !.last_child  = Store(u.last_child, p, c),
         !.first_child = IF old_last = NULL THEN Store(u.first_child, p, c)
                         ELSE u.first_child]

-----------------------------------------------------------------------------
(***************************************************************************)
(* Releasing.  S_free_nodes walks the child lists below e, splicing each   *)
(* list into the one it is freeing: it frees e and all that first_child    *)
(* and next reach from there, and never follows e's own next.              *)
(***************************************************************************)
Subtree(h, e) ==
  {m \in Node : \A S \in SUBSET Node :
     (/\ e \in S
      /\ \A x \in S : h.first_child[x] \in S \cup {NULL}
      /\ \A x \in S \ {e} : h.next[x] \in S \cup {NULL}) => m \in S}

\* Mutant: the children are not walked.
FreedRootOnly(h, n) == {n}

\* The set of nodes cmark_node_free releases, and the heap it leaves.  A
\* released node is blank, so that equal heaps are equal values.
Freed(h, n) == Subtree(NodeUnlink(h, n), n)

Release(h, F) ==
  LET Blank(f) == [m \in Node |-> IF m \in F THEN NULL ELSE f[m]]
  IN  [h EXCEPT !.type = [m \in Node |-> IF m \in F THEN "none" ELSE h.type[m]],
                !.next = Blank(h.next), !.prev = Blank(h.prev),
                !.parent = Blank(h.parent),
                !.first_child = Blank(h.first_child),
                !.last_child = Blank(h.last_child)]

\* Mutant: the node is freed where it hangs.
FreeNodeLinked(h, n) == Release(h, Subtree(h, n))

\* cmark_node_free
FreeNode(h, n) == Release(NodeUnlink(h, n), Freed(h, n))

-----------------------------------------------------------------------------
(***************************************************************************)
(* cmark_node_clone.  Each node of the subtree gets a fresh node (g maps   *)
(* it there), appended to the clone of its parent in the source's order.   *)
(* It fails, and leaves no trace, when some parent in the subtree may not  *)
(* contain its child (cmark_node_append_child refuses it).                 *)
(***************************************************************************)
Clonable(h, n) ==
  \A m \in Subtree(h, n) \ {n} :
    CanContainType(h.type[h.parent[m]], h.type[m])

CloneNode(h, n, g) ==
  LET Img(x) == IF x \in DOMAIN g THEN g[x] ELSE NULL
      \* f on the copies, the root's copy having v
      Copied(f, v) ==
        [m \in Node |->
           IF \E x \in DOMAIN g : g[x] = m
           THEN LET x == CHOOSE y \in DOMAIN g : g[y] = m
                IN  IF x = n THEN v ELSE Img(f[x])
           ELSE f[m]]
  IN  [type        |-> [m \in Node |->
                          IF \E x \in DOMAIN g : g[x] = m
                          THEN h.type[CHOOSE x \in DOMAIN g : g[x] = m]
                          ELSE h.type[m]],
       next        |-> Copied(h.next, NULL),
       prev        |-> Copied(h.prev, NULL),
       parent      |-> Copied(h.parent, NULL),
       first_child |-> Copied(h.first_child, Img(h.first_child[n])),
       last_child  |-> Copied(h.last_child, Img(h.last_child[n]))]

-----------------------------------------------------------------------------
(***************************************************************************)
(* What the heap of a correct document looks like.                         *)
(***************************************************************************)

\* next and prev are inverse and lead to siblings; first_child and last_child
\* are the two ends of the list of a node's children; a root has no siblings.
NextLinked(h, n) ==
  h.next[n] # NULL => h.prev[h.next[n]] = n /\ h.parent[h.next[n]] = h.parent[n]

PrevLinked(h, n) ==
  h.prev[n] # NULL => h.next[h.prev[n]] = n /\ h.parent[h.prev[n]] = h.parent[n]

FirstLinked(h, n) ==
  h.first_child[n] # NULL =>
    h.prev[h.first_child[n]] = NULL /\ h.parent[h.first_child[n]] = n

LastLinked(h, n) ==
  h.last_child[n] # NULL =>
    h.next[h.last_child[n]] = NULL /\ h.parent[h.last_child[n]] = n

EndsLinked(h, n) == h.first_child[n] = NULL <=> h.last_child[n] = NULL

ParentLinked(h, n) ==
  IF h.parent[n] = NULL
  THEN h.next[n] = NULL /\ h.prev[n] = NULL
  ELSE /\ h.prev[n] = NULL => h.first_child[h.parent[n]] = n
       /\ h.next[n] = NULL => h.last_child[h.parent[n]] = n

Linked(h) ==
  \A n \in Node :
    /\ NextLinked(h, n)
    /\ PrevLinked(h, n)
    /\ FirstLinked(h, n)
    /\ LastLinked(h, n)
    /\ EndsLinked(h, n)
    /\ ParentLinked(h, n)

\* Following f from any node ends: no set of nodes is closed under it.
Founded(f) ==
  \A S \in SUBSET Node : S # {} => \E n \in S : f[n] \notin S

\* The nodes n points to.
Targets(h, n) ==
  {h.next[n], h.prev[n], h.parent[n], h.first_child[n], h.last_child[n]}

-----------------------------------------------------------------------------
(***************************************************************************)
(* cmark_node_check: the node below root (root included) whose field does  *)
(* not agree with its neighbours, as the pairs the checker would report.   *)
(***************************************************************************)
CheckErrors(h, root) ==
  LET T == Subtree(h, root)
      Below == T \ {root}
  IN  {<<h.first_child[c], "prev">> : c \in {x \in T :
          h.first_child[x] # NULL /\ h.prev[h.first_child[x]] # NULL}}
      \cup {<<h.first_child[c], "parent">> : c \in {x \in T :
          h.first_child[x] # NULL /\ h.parent[h.first_child[x]] # x}}
      \cup {<<h.next[c], "prev">> : c \in {x \in Below :
          h.next[x] # NULL /\ h.prev[h.next[x]] # x}}
      \cup {<<h.next[c], "parent">> : c \in {x \in Below :
          h.next[x] # NULL /\ h.parent[h.next[x]] # h.parent[x]}}
      \cup {<<h.parent[c], "last_child">> : c \in {x \in Below :
          h.next[x] = NULL /\ h.parent[x] # NULL
          /\ h.last_child[h.parent[x]] # x}}
=============================================================================
