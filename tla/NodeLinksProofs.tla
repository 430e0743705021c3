-------------------------- MODULE NodeLinksProofs --------------------------
(***************************************************************************)
(* Lemmas about the operators of NodeLinks: each function of node.c leaves *)
(* a well-formed heap well formed, for any set of nodes.  The proofs about *)
(* the state machines that use these operators, NodeForestProofs,          *)
(* NodeGCProofs and FootnotesProofs, cite them.                            *)
(*                                                                         *)
(* WellFormed adds to the checked properties of a heap that sibling lists  *)
(* end (Founded(h.prev)), without which a child could hang from a parent   *)
(* that no walk along next reaches, and that an address which holds no     *)
(* node holds no pointers either.  All operations but four (allocation,    *)
(* release, cloning and retyping) are an unlinking followed by the         *)
(* insertion of an isolated node into a gap between neighbours, so the     *)
(* argument is made once for unlinking and once for insertion.             *)
(***************************************************************************)
EXTENDS NodeLinks, TLAPS

\* Every pointer leads to a node, and an address without a node is blank.
Closed(h) ==
  /\ \A n \in Live(h) : Targets(h, n) \subseteq Live(h) \cup {NULL}
  /\ \A n \in Node \ Live(h) : Targets(h, n) = {NULL}

\* Parents may contain their children.
Contained(h) ==
  \A n \in Node : h.parent[n] # NULL =>
    CanContainType(h.type[h.parent[n]], h.type[n])

WellFormed(h) ==
  /\ h \in Heap
  /\ Linked(h)
  /\ Founded(h.prev)
  /\ Closed(h)
  /\ Contained(h)

-----------------------------------------------------------------------------
(***************************************************************************)
(* Fields.                                                                 *)
(***************************************************************************)

\* A pointer field of a well-typed heap leads to a node or is NULL.
LEMMA Pointers ==
  ASSUME NEW h \in Heap, NEW m \in Node
  PROVE  /\ h.next[m] \in Node \cup {NULL}
         /\ h.prev[m] \in Node \cup {NULL}
         /\ h.parent[m] \in Node \cup {NULL}
         /\ h.first_child[m] \in Node \cup {NULL}
         /\ h.last_child[m] \in Node \cup {NULL}
         /\ h.type[m] \in NodeTypes
  BY DEF Heap, Pointer

\* v is h with n taken out of its list.
Unlinked(h, v, n) ==
  /\ v \in Heap
  /\ v.type = h.type
  /\ \A m \in Node :
       /\ v.next[m] = IF m = n THEN NULL
                      ELSE IF m = h.prev[n] THEN h.next[n] ELSE h.next[m]
       /\ v.prev[m] = IF m = n THEN NULL
                      ELSE IF m = h.next[n] THEN h.prev[n] ELSE h.prev[m]
       /\ v.parent[m] = IF m = n THEN NULL ELSE h.parent[m]
       /\ v.first_child[m] = IF m = h.parent[n] /\ h.first_child[m] = n
                             THEN h.next[n] ELSE h.first_child[m]
       /\ v.last_child[m] = IF m = h.parent[n] /\ h.last_child[m] = n
                            THEN h.prev[n] ELSE h.last_child[m]

\* S_node_unlink followed by clearing: every field, node by node.
LEMMA UnlinkFields ==
  ASSUME NEW h \in Heap, NEW n \in Node
  PROVE  Unlinked(h, Unlink(h, n), n)
  BY NullAssumption DEF Unlinked, Unlink, NodeUnlink, Store, Heap, Pointer

\* w is v with c put among p's children, between a and b.
Inserted(v, w, c, p, a, b) ==
  /\ w \in Heap
  /\ w.type = v.type
  /\ \A m \in Node :
       /\ w.next[m] = IF m = c THEN b ELSE IF m = a THEN c ELSE v.next[m]
       /\ w.prev[m] = IF m = c THEN a ELSE IF m = b THEN c ELSE v.prev[m]
       /\ w.parent[m] = IF m = c THEN p ELSE v.parent[m]
       /\ w.first_child[m] = IF m = p /\ a = NULL THEN c ELSE v.first_child[m]
       /\ w.last_child[m] = IF m = p /\ b = NULL THEN c ELSE v.last_child[m]

\* a and b are neighbours in p's list of children, NULL standing for its ends.
Gap(v, p, a, b) ==
  /\ a \in Node \cup {NULL}
  /\ b \in Node \cup {NULL}
  /\ IF a = NULL THEN v.first_child[p] = b ELSE v.next[a] = b /\ v.parent[a] = p
  /\ IF b = NULL THEN v.last_child[p] = a ELSE v.prev[b] = a /\ v.parent[b] = p

-----------------------------------------------------------------------------
(***************************************************************************)
(* Unlinking.                                                              *)
(***************************************************************************)

\* cmark_node_unlink leaves the links of every tree consistent.
LEMMA UnlinkLinked ==
  ASSUME NEW h \in Heap, NEW v, NEW n \in Node, Linked(h), Unlinked(h, v, n)
  PROVE  Linked(v)
<1> USE NullAssumption
<1>1. \A m \in Node :
        /\ NextLinked(h, m) /\ PrevLinked(h, m) /\ FirstLinked(h, m)
        /\ LastLinked(h, m) /\ EndsLinked(h, m) /\ ParentLinked(h, m)
  BY DEF Linked
<1>2. SUFFICES ASSUME NEW m \in Node
               PROVE  /\ NextLinked(v, m) /\ PrevLinked(v, m) /\ FirstLinked(v, m)
                      /\ LastLinked(v, m) /\ EndsLinked(v, m) /\ ParentLinked(v, m)
  BY DEF Linked
<1> USE DEF Unlinked, NextLinked, PrevLinked, FirstLinked, LastLinked, EndsLinked,
            ParentLinked
<1>3. NextLinked(v, m)
  BY <1>1, Pointers
<1>4. PrevLinked(v, m)
  BY <1>1, Pointers
<1>5. FirstLinked(v, m)
  BY <1>1, Pointers
<1>6. LastLinked(v, m)
  BY <1>1, Pointers
<1>7. EndsLinked(v, m)
  <2>1. CASE m # h.parent[n]
    BY <1>1, <2>1
  <2>2. CASE m = h.parent[n]
    <3>1. h.first_child[m] = n => h.prev[n] = NULL /\ h.last_child[m] # NULL
      BY <1>1
    <3>2. h.last_child[m] = n => h.next[n] = NULL /\ h.first_child[m] # NULL
      BY <1>1
    <3>3. h.prev[n] = NULL => h.first_child[m] = n
      BY <1>1, <2>2
    <3>4. h.next[n] = NULL => h.last_child[m] = n
      BY <1>1, <2>2
    <3> QED
      BY <1>1, <2>2, <3>1, <3>2, <3>3, <3>4
  <2> QED
    BY <2>1, <2>2
<1>8. ParentLinked(v, m)
  BY <1>1, Pointers
<1> QED
  BY <1>3, <1>4, <1>5, <1>6, <1>7, <1>8

\* Clearing a parent creates no ancestor cycle.
LEMMA UnlinkFounded ==
  ASSUME NEW h \in Heap, NEW v, NEW n \in Node, Linked(h), Unlinked(h, v, n),
         Founded(h.prev)
  PROVE  Founded(v.prev)
<1>1. SUFFICES ASSUME NEW S \in SUBSET Node, S # {}, \A m \in S : v.prev[m] \in S
               PROVE  FALSE
  BY DEF Founded
<1> DEFINE Z == IF h.next[n] \in S THEN S \cup {n} ELSE S
<1>2. n \notin S
  BY <1>1, NullAssumption DEF Unlinked
<1>3. ASSUME NEW m \in Z
      PROVE  h.prev[m] \in Z
  BY <1>1, <1>2, <1>3, NullAssumption, Pointers DEF Unlinked, Linked, NextLinked
<1>4. Z \in SUBSET Node /\ Z # {}
  BY <1>1
<1> QED
  BY <1>3, <1>4 DEF Founded

\* cmark_node_unlink keeps a heap well-formed.
LEMMA UnlinkWellFormed ==
  ASSUME NEW h, NEW n \in Live(h), WellFormed(h)
  PROVE  WellFormed(Unlink(h, n))
<1> DEFINE v == Unlink(h, n)
<1>1. h \in Heap /\ n \in Node
  BY DEF WellFormed, Live
<1>2. Unlinked(h, v, n)
  BY <1>1, UnlinkFields
<1> HIDE DEF v
<1>3. Linked(v)
  BY <1>1, <1>2, UnlinkLinked DEF WellFormed
<1>4. Founded(v.prev)
  BY <1>1, <1>2, UnlinkFounded DEF WellFormed
<1>5. Closed(v)
  <2>1. Live(v) = Live(h)
    BY <1>2 DEF Unlinked, Live
  <2>2. ASSUME NEW m \in Live(v)
        PROVE  Targets(v, m) \subseteq Live(v) \cup {NULL}
    <3>1. \A x \in Live(h) : Targets(h, x) \subseteq Live(h) \cup {NULL}
      BY DEF WellFormed, Closed
    <3>2. m \in Live(h) /\ m \in Node
      BY <2>1, <2>2 DEF Live
    <3>3. Targets(v, m) \subseteq Targets(h, m) \cup Targets(h, n) \cup {NULL}
      BY <1>2, <3>2 DEF Unlinked, Targets
    <3> QED
      BY <2>1, <3>1, <3>2, <3>3
  <2>3. ASSUME NEW m \in Node \ Live(v)
        PROVE  Targets(v, m) = {NULL}
    <3>1. /\ h.next[m] = NULL /\ h.prev[m] = NULL /\ h.parent[m] = NULL
          /\ h.first_child[m] = NULL /\ h.last_child[m] = NULL
      <4>1. Targets(h, m) = {NULL}
        BY <2>1, <2>3 DEF WellFormed, Closed
      <4> QED
        BY <4>1 DEF Targets
    <3>2. m # h.prev[n] /\ m # h.next[n] /\ m # n
      BY <1>1, <2>1, <2>3, NullAssumption DEF WellFormed, Closed, Targets, Live
    <3> QED
      BY <1>1, <1>2, <3>1, <3>2, NullAssumption DEF Unlinked, Targets
  <2> QED
    BY <2>2, <2>3 DEF Closed
<1>6. Contained(v)
  BY <1>1, <1>2 DEF WellFormed, Contained, Unlinked
<1> QED
  BY <1>2, <1>3, <1>4, <1>5, <1>6 DEF WellFormed, Unlinked, v

-----------------------------------------------------------------------------
(***************************************************************************)
(* Insertion of an isolated node.                                          *)
(***************************************************************************)
Isolated(v, c) ==
  /\ c \in Node
  /\ v.next[c] = NULL /\ v.prev[c] = NULL /\ v.parent[c] = NULL

\* Linking a detached node between two neighbouring siblings, or at an end of
\* a list of children, leaves all links consistent.
LEMMA InsertLinked ==
  ASSUME NEW v \in Heap, NEW w, NEW c, NEW p \in Node, NEW a, NEW b,
         Linked(v), Isolated(v, c), Gap(v, p, a, b), Inserted(v, w, c, p, a, b)
  PROVE  Linked(w)
<1> USE NullAssumption
<1>1. \A m \in Node :
        /\ NextLinked(v, m) /\ PrevLinked(v, m) /\ FirstLinked(v, m)
        /\ LastLinked(v, m) /\ EndsLinked(v, m) /\ ParentLinked(v, m)
  BY DEF Linked
<1>2. SUFFICES ASSUME NEW m \in Node
               PROVE  /\ NextLinked(w, m) /\ PrevLinked(w, m) /\ FirstLinked(w, m)
                      /\ LastLinked(w, m) /\ EndsLinked(w, m) /\ ParentLinked(w, m)
  BY DEF Linked
<1> USE DEF Isolated, Gap, Inserted, NextLinked, PrevLinked, FirstLinked,
            LastLinked, EndsLinked, ParentLinked
<1>3. NextLinked(w, m)
  BY <1>1, Pointers
<1>4. PrevLinked(w, m)
  BY <1>1, Pointers
<1>5. FirstLinked(w, m)
  BY <1>1, Pointers
<1>6. LastLinked(w, m)
  BY <1>1, Pointers
<1>7. EndsLinked(w, m)
  BY <1>1, Pointers
<1>8. ParentLinked(w, m)
  BY <1>1, Pointers
<1> QED
  BY <1>3, <1>4, <1>5, <1>6, <1>7, <1>8

\* It creates no ancestor cycle if the node is no ancestor of its new parent.
LEMMA InsertFounded ==
  ASSUME NEW v \in Heap, NEW w, NEW c, NEW p \in Node, NEW a, NEW b,
         Linked(v), Isolated(v, c), Gap(v, p, a, b), Inserted(v, w, c, p, a, b),
         Founded(v.prev)
  PROVE  Founded(w.prev)
<1>1. SUFFICES ASSUME NEW S \in SUBSET Node, S # {}, \A m \in S : w.prev[m] \in S
               PROVE  FALSE
  BY DEF Founded
<1>2. a # c
  BY NullAssumption DEF Gap, Isolated
<1>3. ASSUME NEW m \in S \ {c}
      PROVE  v.prev[m] \in S \ {c}
  <2>1. v.prev[m] # c
    BY NullAssumption DEF Linked, PrevLinked, Isolated
  <2>2. CASE m = b
    BY <1>1, <1>2, <2>2, NullAssumption DEF Inserted, Gap, Isolated
  <2>3. CASE m # b
    BY <1>1, <2>1, <2>3 DEF Inserted
  <2> QED
    BY <2>2, <2>3
<1>4. S \ {c} # {}
  BY <1>1, <1>2 DEF Inserted, Isolated
<1> QED
  BY <1>3, <1>4 DEF Founded

\* It keeps a heap well-formed if the parent may contain the node.
LEMMA InsertWellFormed ==
  ASSUME NEW v, NEW w, NEW c \in Live(v), NEW p \in Live(v), NEW a, NEW b,
         WellFormed(v), Isolated(v, c), Gap(v, p, a, b),
         Inserted(v, w, c, p, a, b), CanContainType(v.type[p], v.type[c])
  PROVE  WellFormed(w)
<1>1. v \in Heap /\ p \in Node /\ c \in Node
  BY DEF WellFormed, Live
<1>2. Linked(w)
  BY <1>1, InsertLinked DEF WellFormed
<1>3. Founded(w.prev)
  BY <1>1, InsertFounded DEF WellFormed
<1>4. Closed(w)
  <2>1. Live(w) = Live(v)
    BY DEF Inserted, Live
  <2>2. a \in Live(v) \cup {NULL} /\ b \in Live(v) \cup {NULL}
    BY <1>1, NullAssumption DEF WellFormed, Closed, Gap, Targets, Live
  <2>3. ASSUME NEW m \in Live(w)
        PROVE  Targets(w, m) \subseteq Live(w) \cup {NULL}
    <3>1. m \in Node /\ Targets(v, m) \subseteq Live(v) \cup {NULL}
      BY <2>1, <2>3 DEF WellFormed, Closed, Live
    <3>2. Targets(w, m) \subseteq Targets(v, m) \cup {a, b, c, p}
      BY <3>1 DEF Inserted, Targets
    <3> QED
      BY <2>1, <2>2, <3>1, <3>2
  <2>4. ASSUME NEW m \in Node \ Live(w)
        PROVE  Targets(w, m) = {NULL}
    <3>1. /\ v.next[m] = NULL /\ v.prev[m] = NULL /\ v.parent[m] = NULL
          /\ v.first_child[m] = NULL /\ v.last_child[m] = NULL
      <4>1. Targets(v, m) = {NULL}
        BY <2>1, <2>4 DEF WellFormed, Closed
      <4> QED
        BY <4>1 DEF Targets
    <3>2. m # c /\ m # a /\ m # b /\ m # p
      BY <2>1, <2>2, <2>4, NullAssumption
    <3> QED
      BY <3>1, <3>2 DEF Inserted, Targets
  <2> QED
    BY <2>3, <2>4 DEF Closed
<1>5. Contained(w)
  BY <1>1 DEF WellFormed, Contained, Inserted
<1> QED
  BY <1>2, <1>3, <1>4, <1>5 DEF WellFormed, Inserted

-----------------------------------------------------------------------------
(***************************************************************************)
(* The four insertions.                                                    *)
(***************************************************************************)
\* v is u with c's own pointers to its neighbours cleared.
OwnCleared(u, v, c) ==
  /\ u \in Heap
  /\ v = [u EXCEPT !.next   = Store(u.next, c, NULL),
                   !.prev   = Store(u.prev, c, NULL),
                   !.parent = Store(u.parent, c, NULL)]

\* What cmark_node_unlink adds to S_node_unlink is the node's own pointers.
LEMMA UnlinkClears ==
  ASSUME NEW h \in Heap, NEW c \in Node
  PROVE  OwnCleared(NodeUnlink(h, c), Unlink(h, c), c)
<1>1. NodeUnlink(h, c) \in Heap
  BY NullAssumption DEF NodeUnlink, Store, Heap, Pointer
<1> QED
  BY <1>1 DEF OwnCleared, Unlink

\* An unlinked node has no siblings and no parent.
LEMMA UnlinkIsolates ==
  ASSUME NEW h \in Heap, NEW c \in Node
  PROVE  Isolated(Unlink(h, c), c)
  BY UnlinkFields DEF Unlinked, Isolated

\* v is the well-formed heap h once c has left its place.
Detached(h, v, c) ==
  WellFormed(v) /\ v.type = h.type /\ Live(v) = Live(h) /\ Isolated(v, c)

\* That is what cmark_node_unlink makes.
LEMMA UnlinkDetaches ==
  ASSUME NEW h, WellFormed(h), NEW c \in Live(h)
  PROVE  Detached(h, Unlink(h, c), c)
<1>1. h \in Heap /\ c \in Node
  BY DEF WellFormed, Live
<1>2. WellFormed(Unlink(h, c))
  BY UnlinkWellFormed
<1>3. Isolated(Unlink(h, c), c)
  BY <1>1, UnlinkIsolates
<1>4. Unlink(h, c).type = h.type
  BY <1>1, UnlinkFields DEF Unlinked
<1> QED
  BY <1>2, <1>3, <1>4 DEF Detached, Live

\* cmark_node_prepend_child unlinks the child and inserts it before the first.
LEMMA PrependInserts ==
  ASSUME NEW h, NEW p \in Live(h), NEW c \in Live(h), WellFormed(h)
  PROVE  LET v == Unlink(h, c)
         IN  /\ Detached(h, v, c) /\ Gap(v, p, NULL, v.first_child[p])
             /\ Inserted(v, PrependChild(h, p, c), c, p, NULL, v.first_child[p])
<1> DEFINE v == Unlink(h, c)
           w == PrependChild(h, p, c)
           b == v.first_child[p]
<1>1. h \in Heap /\ p \in Node /\ c \in Node
  BY DEF WellFormed, Live
<1>2. Detached(h, v, c)
  BY UnlinkDetaches
<1>3. b \in Node \cup {NULL} /\ b # c
  BY <1>1, <1>2, Pointers, NullAssumption
     DEF Detached, WellFormed, Linked, FirstLinked, Isolated
<1>4. Gap(v, p, NULL, b)
  BY <1>1, <1>2, <1>3 DEF Detached, WellFormed, Linked, FirstLinked, EndsLinked, Gap
<1>5. Inserted(v, w, c, p, NULL, b)
  <2> DEFINE u == NodeUnlink(h, c)
  <2>1. OwnCleared(u, v, c)
    BY <1>1, UnlinkClears
  <2>2. w = [u EXCEPT !.next   = Store(u.next, c, b),
                     !.prev   = Store(Store(u.prev, c, NULL), b, c),
                     !.parent = Store(u.parent, c, p),
                     !.first_child = Store(u.first_child, p, c),
                     !.last_child  = IF b = NULL THEN Store(u.last_child, p, c)
                                     ELSE u.last_child]
    BY <2>1 DEF PrependChild, OwnCleared, Heap
  <2> HIDE DEF u, v, w
  <2>3. w \in Heap
    BY <1>1, <1>3, <2>1, <2>2 DEF OwnCleared, Store, Heap, Pointer
  <2>4. w.type = v.type
    BY <2>1, <2>2 DEF OwnCleared, Heap
  <2> SUFFICES ASSUME NEW m \in Node
               PROVE  /\ w.next[m] = IF m = c THEN b ELSE IF m = NULL THEN c ELSE v.next[m]
                      /\ w.prev[m] = IF m = c THEN NULL ELSE IF m = b THEN c ELSE v.prev[m]
                      /\ w.parent[m] = IF m = c THEN p ELSE v.parent[m]
                      /\ w.first_child[m] = IF m = p /\ NULL = NULL THEN c ELSE v.first_child[m]
                      /\ w.last_child[m] = IF m = p /\ b = NULL THEN c ELSE v.last_child[m]
    BY <2>3, <2>4 DEF Inserted
  <2> USE <1>1, <1>3, <2>1, <2>2, NullAssumption DEF OwnCleared, Store, Heap, Pointer
  <2>5. w.next[m] = IF m = c THEN b ELSE IF m = NULL THEN c ELSE v.next[m]
    OBVIOUS
  <2>6. w.prev[m] = IF m = c THEN NULL ELSE IF m = b THEN c ELSE v.prev[m]
    OBVIOUS
  <2>7. w.parent[m] = IF m = c THEN p ELSE v.parent[m]
    OBVIOUS
  <2>8. w.first_child[m] = IF m = p /\ NULL = NULL THEN c ELSE v.first_child[m]
    OBVIOUS
  <2>9. w.last_child[m] = IF m = p /\ b = NULL THEN c ELSE v.last_child[m]
    OBVIOUS
  <2> QED
    BY <2>5, <2>6, <2>7, <2>8, <2>9
<1> QED
  BY <1>2, <1>4, <1>5

\* So it keeps a heap well-formed, if the parent may contain the child.
LEMMA PrependWellFormed ==
  ASSUME NEW h, NEW p \in Live(h), NEW c \in Live(h), WellFormed(h),
         CanContainType(h.type[p], h.type[c])
  PROVE  WellFormed(PrependChild(h, p, c))
<1> DEFINE v == Unlink(h, c)
<1>1. /\ Detached(h, v, c) /\ Gap(v, p, NULL, v.first_child[p])
      /\ Inserted(v, PrependChild(h, p, c), c, p, NULL, v.first_child[p])
  BY PrependInserts
<1> HIDE DEF v
<1> QED
  BY <1>1, InsertWellFormed DEF Detached

\* cmark_node_append_child inserts it after the last.
LEMMA AppendInserts ==
  ASSUME NEW h, NEW p \in Live(h), NEW c \in Live(h), WellFormed(h)
  PROVE  LET v == Unlink(h, c)
         IN  /\ Detached(h, v, c) /\ Gap(v, p, v.last_child[p], NULL)
             /\ Inserted(v, AppendChild(h, p, c), c, p, v.last_child[p], NULL)
<1> DEFINE v == Unlink(h, c)
           w == AppendChild(h, p, c)
           a == v.last_child[p]
<1>1. h \in Heap /\ p \in Node /\ c \in Node
  BY DEF WellFormed, Live
<1>2. Detached(h, v, c)
  BY UnlinkDetaches
<1>3. a \in Node \cup {NULL} /\ a # c
  BY <1>1, <1>2, Pointers, NullAssumption
     DEF Detached, WellFormed, Linked, LastLinked, Isolated
<1>4. Gap(v, p, a, NULL)
  BY <1>1, <1>2, <1>3 DEF Detached, WellFormed, Linked, LastLinked, EndsLinked, Gap
<1>5. Inserted(v, w, c, p, a, NULL)
  <2> DEFINE u == NodeUnlink(h, c)
  <2>1. OwnCleared(u, v, c)
    BY <1>1, UnlinkClears
  <2>2. w = [u EXCEPT !.next   = Store(Store(u.next, c, NULL), a, c),
                     !.prev   = Store(u.prev, c, a),
                     !.parent = Store(u.parent, c, p),
                     !.last_child  = Store(u.last_child, p, c),
                     !.first_child = IF a = NULL THEN Store(u.first_child, p, c)
                                     ELSE u.first_child]
    BY <2>1 DEF AppendChild, OwnCleared, Heap
  <2> HIDE DEF u, v, w
  <2>3. w \in Heap
    BY <1>1, <1>3, <2>1, <2>2 DEF OwnCleared, Store, Heap, Pointer
  <2>4. w.type = v.type
    BY <2>1, <2>2 DEF OwnCleared, Heap
  <2> SUFFICES ASSUME NEW m \in Node
               PROVE  /\ w.next[m] = IF m = c THEN NULL ELSE IF m = a THEN c ELSE v.next[m]
                      /\ w.prev[m] = IF m = c THEN a ELSE IF m = NULL THEN c ELSE v.prev[m]
                      /\ w.parent[m] = IF m = c THEN p ELSE v.parent[m]
                      /\ w.first_child[m] = IF m = p /\ a = NULL THEN c ELSE v.first_child[m]
                      /\ w.last_child[m] = IF m = p /\ NULL = NULL THEN c ELSE v.last_child[m]
    BY <2>3, <2>4 DEF Inserted
  <2> USE <1>1, <1>3, <2>1, <2>2, NullAssumption DEF OwnCleared, Store, Heap, Pointer
  <2>5. w.next[m] = IF m = c THEN NULL ELSE IF m = a THEN c ELSE v.next[m]
    OBVIOUS
  <2>6. w.prev[m] = IF m = c THEN a ELSE IF m = NULL THEN c ELSE v.prev[m]
    OBVIOUS
  <2>7. w.parent[m] = IF m = c THEN p ELSE v.parent[m]
    OBVIOUS
  <2>8. w.first_child[m] = IF m = p /\ a = NULL THEN c ELSE v.first_child[m]
    OBVIOUS
  <2>9. w.last_child[m] = IF m = p /\ NULL = NULL THEN c ELSE v.last_child[m]
    OBVIOUS
  <2> QED
    BY <2>5, <2>6, <2>7, <2>8, <2>9
<1> QED
  BY <1>2, <1>4, <1>5

\* It keeps a heap well-formed too.
LEMMA AppendWellFormed ==
  ASSUME NEW h, NEW p \in Live(h), NEW c \in Live(h), WellFormed(h),
         CanContainType(h.type[p], h.type[c])
  PROVE  WellFormed(AppendChild(h, p, c))
<1> DEFINE v == Unlink(h, c)
<1>1. /\ Detached(h, v, c) /\ Gap(v, p, v.last_child[p], NULL)
      /\ Inserted(v, AppendChild(h, p, c), c, p, v.last_child[p], NULL)
  BY AppendInserts
<1> HIDE DEF v
<1> QED
  BY <1>1, InsertWellFormed DEF Detached

\* cmark_node_insert_before inserts a node between another and its predecessor,
\* unless it is put beside itself.
LEMMA InsertBeforeInserts ==
  ASSUME NEW h, NEW n \in Live(h), NEW c \in Live(h), WellFormed(h), n # c,
         h.parent[n] # NULL
  PROVE  LET v == Unlink(h, c)
         IN  /\ Detached(h, v, c) /\ h.parent[n] \in Live(h)
             /\ Gap(v, h.parent[n], v.prev[n], n)
             /\ Inserted(v, InsertBefore(h, n, c), c, h.parent[n], v.prev[n], n)
<1> DEFINE v == Unlink(h, c)
           w == InsertBefore(h, n, c)
           p == h.parent[n]
           a == v.prev[n]
<1>1. h \in Heap /\ n \in Node /\ c \in Node /\ p \in Node /\ p \in Live(h)
  <2>1. h \in Heap /\ n \in Node /\ c \in Node
    BY DEF WellFormed, Live
  <2>2. p \in Live(h)
    BY DEF WellFormed, Closed, Targets
  <2> QED
    BY <2>1, <2>2 DEF Live
<1>2. Detached(h, v, c)
  BY UnlinkDetaches
<1>3. v.parent[n] = p
  BY <1>1, UnlinkFields DEF Unlinked
<1>4. a \in Node \cup {NULL} /\ a # c
  BY <1>1, <1>2, Pointers, NullAssumption
     DEF Detached, WellFormed, Linked, PrevLinked, Isolated
<1>5. Gap(v, p, a, n)
  BY <1>1, <1>2, <1>3, <1>4, NullAssumption
     DEF Detached, WellFormed, Linked, PrevLinked, ParentLinked, Gap
<1>6. Inserted(v, w, c, p, a, n)
  <2> DEFINE u == NodeUnlink(h, c)
  <2>1. OwnCleared(u, v, c)
    BY <1>1, UnlinkClears
  <2>2. u.prev[n] = a /\ u.parent[n] = p
    <3>1. u.parent = h.parent
      BY <1>1 DEF NodeUnlink, Heap
    <3> HIDE DEF u, v
    <3>2. u.prev[n] = v.prev[n]
      BY <1>1, <2>1 DEF OwnCleared, Store, Heap
    <3> QED
      BY <3>1, <3>2
  <2>3. w = [u EXCEPT !.next   = Store(Store(u.next, a, c), c, n),
                     !.prev   = Store(Store(u.prev, c, a), n, c),
                     !.parent = Store(u.parent, c, p),
                     !.first_child = IF a = NULL THEN Store(u.first_child, p, c)
                                     ELSE u.first_child]
    BY <2>2 DEF InsertBefore
  <2> HIDE DEF u, v, w, p
  <2>4. w \in Heap
    BY <1>1, <1>4, <2>1, <2>3 DEF OwnCleared, Store, Heap, Pointer
  <2>5. w.type = v.type
    BY <2>1, <2>3 DEF OwnCleared, Heap
  <2> SUFFICES ASSUME NEW m \in Node
               PROVE  /\ w.next[m] = IF m = c THEN n ELSE IF m = a THEN c ELSE v.next[m]
                      /\ w.prev[m] = IF m = c THEN a ELSE IF m = n THEN c ELSE v.prev[m]
                      /\ w.parent[m] = IF m = c THEN p ELSE v.parent[m]
                      /\ w.first_child[m] = IF m = p /\ a = NULL THEN c ELSE v.first_child[m]
                      /\ w.last_child[m] = IF m = p /\ n = NULL THEN c ELSE v.last_child[m]
    BY <2>4, <2>5 DEF Inserted
  <2> USE <1>1, <1>4, <2>1, <2>3, NullAssumption DEF OwnCleared, Store, Heap, Pointer
  <2>6. w.next[m] = IF m = c THEN n ELSE IF m = a THEN c ELSE v.next[m]
    OBVIOUS
  <2>7. w.prev[m] = IF m = c THEN a ELSE IF m = n THEN c ELSE v.prev[m]
    OBVIOUS
  <2>8. w.parent[m] = IF m = c THEN p ELSE v.parent[m]
    OBVIOUS
  <2>9. w.first_child[m] = IF m = p /\ a = NULL THEN c ELSE v.first_child[m]
    OBVIOUS
  <2>10. w.last_child[m] = IF m = p /\ n = NULL THEN c ELSE v.last_child[m]
    OBVIOUS
  <2> QED
    BY <2>6, <2>7, <2>8, <2>9, <2>10
<1> QED
  BY <1>1, <1>2, <1>5, <1>6

\* It keeps a heap well-formed.
LEMMA InsertBeforeWellFormed ==
  ASSUME NEW h, NEW n \in Live(h), NEW c \in Live(h), WellFormed(h), n # c,
         h.parent[n] # NULL, CanContainType(h.type[h.parent[n]], h.type[c])
  PROVE  WellFormed(InsertBefore(h, n, c))
<1> DEFINE v == Unlink(h, c)
<1>1. /\ Detached(h, v, c) /\ h.parent[n] \in Live(h)
      /\ Gap(v, h.parent[n], v.prev[n], n)
      /\ Inserted(v, InsertBefore(h, n, c), c, h.parent[n], v.prev[n], n)
  BY InsertBeforeInserts
<1> HIDE DEF v
<1> QED
  BY <1>1, InsertWellFormed DEF Detached

\* cmark_node_insert_after inserts it between the other and its successor.
LEMMA InsertAfterInserts ==
  ASSUME NEW h, NEW n \in Live(h), NEW c \in Live(h), WellFormed(h), n # c,
         h.parent[n] # NULL
  PROVE  LET v == Unlink(h, c)
         IN  /\ Detached(h, v, c) /\ h.parent[n] \in Live(h)
             /\ Gap(v, h.parent[n], n, v.next[n])
             /\ Inserted(v, InsertAfter(h, n, c), c, h.parent[n], n, v.next[n])
<1> DEFINE v == Unlink(h, c)
           w == InsertAfter(h, n, c)
           p == h.parent[n]
           b == v.next[n]
<1>1. h \in Heap /\ n \in Node /\ c \in Node /\ p \in Node /\ p \in Live(h)
  <2>1. h \in Heap /\ n \in Node /\ c \in Node
    BY DEF WellFormed, Live
  <2>2. p \in Live(h)
    BY DEF WellFormed, Closed, Targets
  <2> QED
    BY <2>1, <2>2 DEF Live
<1>2. Detached(h, v, c)
  BY UnlinkDetaches
<1>3. v.parent[n] = p
  BY <1>1, UnlinkFields DEF Unlinked
<1>4. b \in Node \cup {NULL} /\ b # c
  BY <1>1, <1>2, Pointers, NullAssumption
     DEF Detached, WellFormed, Linked, NextLinked, Isolated
<1>5. Gap(v, p, n, b)
  BY <1>1, <1>2, <1>3, <1>4, NullAssumption
     DEF Detached, WellFormed, Linked, NextLinked, ParentLinked, Gap
<1>6. Inserted(v, w, c, p, n, b)
  <2> DEFINE u == NodeUnlink(h, c)
  <2>1. OwnCleared(u, v, c)
    BY <1>1, UnlinkClears
  <2>2. u.next[n] = b /\ u.parent[n] = p
    <3>1. u.parent = h.parent
      BY <1>1 DEF NodeUnlink, Heap
    <3> HIDE DEF u, v
    <3>2. u.next[n] = v.next[n]
      BY <1>1, <2>1 DEF OwnCleared, Store, Heap
    <3> QED
      BY <3>1, <3>2
  <2>3. w = [u EXCEPT !.prev   = Store(Store(u.prev, b, c), c, n),
                     !.next   = Store(Store(u.next, c, b), n, c),
                     !.parent = Store(u.parent, c, p),
                     !.last_child = IF b = NULL THEN Store(u.last_child, p, c)
                                    ELSE u.last_child]
    BY <2>2 DEF InsertAfter
  <2> HIDE DEF u, v, w, p
  <2>4. w \in Heap
    BY <1>1, <1>4, <2>1, <2>3 DEF OwnCleared, Store, Heap, Pointer
  <2>5. w.type = v.type
    BY <2>1, <2>3 DEF OwnCleared, Heap
  <2> SUFFICES ASSUME NEW m \in Node
               PROVE  /\ w.next[m] = IF m = c THEN b ELSE IF m = n THEN c ELSE v.next[m]
                      /\ w.prev[m] = IF m = c THEN n ELSE IF m = b THEN c ELSE v.prev[m]
                      /\ w.parent[m] = IF m = c THEN p ELSE v.parent[m]
                      /\ w.first_child[m] = IF m = p /\ n = NULL THEN c ELSE v.first_child[m]
                      /\ w.last_child[m] = IF m = p /\ b = NULL THEN c ELSE v.last_child[m]
    BY <2>4, <2>5 DEF Inserted
  <2> USE <1>1, <1>4, <2>1, <2>3, NullAssumption DEF OwnCleared, Store, Heap, Pointer
  <2>6. w.next[m] = IF m = c THEN b ELSE IF m = n THEN c ELSE v.next[m]
    OBVIOUS
  <2>7. w.prev[m] = IF m = c THEN n ELSE IF m = b THEN c ELSE v.prev[m]
    OBVIOUS
  <2>8. w.parent[m] = IF m = c THEN p ELSE v.parent[m]
    OBVIOUS
  <2>9. w.first_child[m] = IF m = p /\ n = NULL THEN c ELSE v.first_child[m]
    OBVIOUS
  <2>10. w.last_child[m] = IF m = p /\ b = NULL THEN c ELSE v.last_child[m]
    OBVIOUS
  <2> QED
    BY <2>6, <2>7, <2>8, <2>9, <2>10
<1> QED
  BY <1>1, <1>2, <1>5, <1>6

\* It keeps a heap well-formed.
LEMMA InsertAfterWellFormed ==
  ASSUME NEW h, NEW n \in Live(h), NEW c \in Live(h), WellFormed(h), n # c,
         h.parent[n] # NULL, CanContainType(h.type[h.parent[n]], h.type[c])
  PROVE  WellFormed(InsertAfter(h, n, c))
<1> DEFINE v == Unlink(h, c)
<1>1. /\ Detached(h, v, c) /\ h.parent[n] \in Live(h)
      /\ Gap(v, h.parent[n], n, v.next[n])
      /\ Inserted(v, InsertAfter(h, n, c), c, h.parent[n], n, v.next[n])
  BY InsertAfterInserts
<1> HIDE DEF v
<1> QED
  BY <1>1, InsertWellFormed DEF Detached

\* cmark_node_replace keeps a heap well-formed.
LEMMA ReplaceWellFormed ==
  ASSUME NEW h, NEW n \in Live(h), NEW c \in Live(h), WellFormed(h), n # c,
         h.parent[n] # NULL, CanContainType(h.type[h.parent[n]], h.type[c])
  PROVE  WellFormed(ReplaceNode(h, n, c))
<1>1. WellFormed(InsertBefore(h, n, c))
  BY InsertBeforeWellFormed
<1>2. n \in Live(InsertBefore(h, n, c))
  <2>1. InsertBefore(h, n, c).type = h.type
    BY DEF InsertBefore, NodeUnlink, WellFormed, Heap
  <2> QED
    BY <2>1 DEF Live
<1> QED
  BY <1>1, <1>2, UnlinkWellFormed DEF ReplaceNode

-----------------------------------------------------------------------------
(***************************************************************************)
(* Allocation and retyping: only the type of a childless node changes.     *)
(***************************************************************************)

\* A node without a first child is the parent of no node.
LEMMA NoChildren ==
  ASSUME NEW h \in Heap, Linked(h), Founded(h.prev),
         NEW n \in Node, h.first_child[n] = NULL, NEW m \in Node
  PROVE  h.parent[m] # n
<1>1. SUFFICES ASSUME h.parent[m] = n
               PROVE  FALSE
  OBVIOUS
<1> DEFINE S == {x \in Node : h.parent[x] = n}
<1>2. PICK x \in S : h.prev[x] \notin S
  BY <1>1 DEF Founded
<1>3. h.prev[x] = NULL
  BY <1>2, Pointers DEF Linked, PrevLinked
<1> QED
  BY <1>2, <1>3, NullAssumption DEF Linked, ParentLinked

\* cmark_node_set_type keeps a heap well-formed.
LEMMA RetypedWellFormed ==
  ASSUME NEW h, WellFormed(h), NEW n \in Node, NEW t \in NodeTypes \ {"none"},
         NEW w, w = [h EXCEPT !.type = Store(h.type, n, t)],
         h.first_child[n] = NULL,
         h.parent[n] # NULL => CanContainType(w.type[h.parent[n]], t)
  PROVE  WellFormed(w)
<1>1. h \in Heap
  BY DEF WellFormed
<1>2. /\ w \in Heap
      /\ w.next = h.next /\ w.prev = h.prev /\ w.parent = h.parent
      /\ w.first_child = h.first_child /\ w.last_child = h.last_child
      /\ \A m \in Node : w.type[m] = IF m = n THEN t ELSE h.type[m]
  BY <1>1 DEF Heap, Store
<1>3. Linked(w)
  BY <1>2 DEF WellFormed, Linked, NextLinked, PrevLinked, FirstLinked, LastLinked,
              EndsLinked, ParentLinked
<1>4. Founded(w.prev)
  BY <1>2 DEF WellFormed
<1>5. Closed(w)
  <2>1. Live(w) = Live(h) \cup {n}
    BY <1>2 DEF Live
  <2>2. \A m \in Node : Targets(w, m) = Targets(h, m)
    BY <1>2 DEF Targets
  <2> QED
    BY <2>1, <2>2 DEF WellFormed, Closed, Live
<1>6. Contained(w)
  <2>1. ASSUME NEW m \in Node, w.parent[m] # NULL
        PROVE  CanContainType(w.type[w.parent[m]], w.type[m])
    <3>1. w.parent[m] \in Node /\ w.parent[m] # n
      BY <1>1, <1>2, <2>1, NoChildren, Pointers DEF WellFormed
    <3>2. CASE m = n
      BY <1>2, <2>1, <3>2
    <3>3. CASE m # n
      BY <1>2, <2>1, <3>1, <3>3 DEF WellFormed, Contained
    <3> QED
      BY <3>2, <3>3
  <2> QED
    BY <2>1 DEF Contained
<1> QED
  BY <1>2, <1>3, <1>4, <1>5, <1>6 DEF WellFormed

\* cmark_node_new keeps a heap well-formed.
LEMMA FreshWellFormed ==
  ASSUME NEW h, WellFormed(h), NEW n \in Node \ Live(h),
         NEW t \in NodeTypes \ {"none"}
  PROVE  WellFormed(Fresh(h, n, t))
<1>1. h \in Heap
  BY DEF WellFormed
<1>2. /\ h.next[n] = NULL /\ h.prev[n] = NULL /\ h.parent[n] = NULL
      /\ h.first_child[n] = NULL /\ h.last_child[n] = NULL
  BY DEF WellFormed, Closed, Targets
<1>3. /\ Store(h.next, n, NULL) = h.next
      /\ Store(h.prev, n, NULL) = h.prev
      /\ Store(h.parent, n, NULL) = h.parent
      /\ Store(h.first_child, n, NULL) = h.first_child
      /\ Store(h.last_child, n, NULL) = h.last_child
  BY <1>1, <1>2 DEF Heap, Store
<1>4. Fresh(h, n, t) = [h EXCEPT !.type = Store(h.type, n, t)]
  BY <1>1, <1>3 DEF Fresh, Heap
<1> QED
  BY <1>2, <1>4, RetypedWellFormed

-----------------------------------------------------------------------------
(***************************************************************************)
(* Subtrees.  In a well-formed heap, what the walk of S_free_nodes reaches *)
(* from n is exactly closed: the parents of its nodes other than n are in  *)
(* it, and every child of one of its nodes is.                             *)
(***************************************************************************)

\* The walk of S_free_nodes is closed under first_child and next.
LEMMA SubtreeWalk ==
  ASSUME NEW h \in Heap, NEW n \in Node
  PROVE  /\ Subtree(h, n) \subseteq Node
         /\ n \in Subtree(h, n)
         /\ \A x \in Subtree(h, n) : h.first_child[x] \in Subtree(h, n) \cup {NULL}
         /\ \A x \in Subtree(h, n) \ {n} : h.next[x] \in Subtree(h, n) \cup {NULL}
<1>1. /\ Subtree(h, n) \subseteq Node
      /\ n \in Subtree(h, n)
  BY DEF Subtree
<1>2. ASSUME NEW x \in Subtree(h, n), h.first_child[x] # NULL
      PROVE  h.first_child[x] \in Subtree(h, n)
  BY <1>1, <1>2, Pointers DEF Subtree
<1>3. ASSUME NEW x \in Subtree(h, n) \ {n}, h.next[x] # NULL
      PROVE  h.next[x] \in Subtree(h, n)
  BY <1>1, <1>3, Pointers DEF Subtree
<1> QED
  BY <1>1, <1>2, <1>3

\* It reaches nothing that such a closed set does not contain.
LEMMA SubtreeLeast ==
  ASSUME NEW h, NEW n, NEW S \in SUBSET Node, n \in S,
         \A x \in S : h.first_child[x] \in S \cup {NULL},
         \A x \in S \ {n} : h.next[x] \in S \cup {NULL}
  PROVE  Subtree(h, n) \subseteq S
  BY DEF Subtree

\* T is the set of n and its descendants.
Descendants(h, T, n) ==
  /\ T \in SUBSET Live(h)
  /\ n \in T
  /\ h.parent[n] \notin T
  /\ \A x \in T \ {n} : h.parent[x] \in T
  /\ \A x \in Node : h.parent[x] \in T => x \in T

\* In a well-formed heap it reaches exactly the descendants.
LEMMA SubtreeDescendants ==
  ASSUME NEW h, WellFormed(h), NEW n \in Live(h),
         n \notin AncestorsOrSelf(h, h.parent[n])
  PROVE  Descendants(h, Subtree(h, n), n)
<1> DEFINE T == Subtree(h, n)
<1>1. h \in Heap /\ n \in Node /\ Linked(h)
  BY DEF WellFormed, Live
<1>2. PICK A \in SUBSET Node : /\ h.parent[n] \in A \cup {NULL}
                               /\ \A x \in A : h.parent[x] \in A \cup {NULL}
                               /\ n \notin A
  BY <1>1 DEF AncestorsOrSelf
<1>3. /\ T \subseteq Node /\ n \in T
      /\ \A x \in T : h.first_child[x] \in T \cup {NULL}
      /\ \A x \in T \ {n} : h.next[x] \in T \cup {NULL}
  BY <1>1, SubtreeWalk
<1>4. T \subseteq Live(h)
  <2>1. /\ Live(h) \in SUBSET Node
        /\ \A x \in Live(h) : h.first_child[x] \in Live(h) \cup {NULL}
        /\ \A x \in Live(h) : h.next[x] \in Live(h) \cup {NULL}
    BY DEF WellFormed, Closed, Targets, Live
  <2> QED
    BY <2>1, SubtreeLeast
<1>5. \A x \in T \ {n} : h.parent[x] \in T \ A
  <2> DEFINE G == {n} \cup {x \in T \ A : h.parent[x] \in T \ A}
  <2>1. G \in SUBSET Node /\ n \in G /\ G \subseteq T /\ G \cap A = {}
    BY <1>2, <1>3
  <2>2. ASSUME NEW x \in G, h.first_child[x] # NULL
        PROVE  h.first_child[x] \in G
    <3>1. h.first_child[x] \in T /\ h.parent[h.first_child[x]] = x
      BY <1>1, <1>3, <2>1, <2>2 DEF Linked, FirstLinked
    <3>2. h.first_child[x] \notin A
      BY <1>2, <2>1, <3>1, NullAssumption
    <3> QED
      BY <2>1, <3>1, <3>2
  <2>3. ASSUME NEW x \in G \ {n}, h.next[x] # NULL
        PROVE  h.next[x] \in G
    <3>1. h.next[x] \in T /\ h.parent[h.next[x]] = h.parent[x]
      BY <1>1, <1>3, <2>1, <2>3 DEF Linked, NextLinked
    <3>2. h.parent[x] \in T \ A
      BY <2>3
    <3>3. h.next[x] \notin A
      BY <1>2, <1>3, <3>1, <3>2, NullAssumption
    <3> QED
      BY <3>1, <3>2, <3>3
  <2>4. T \subseteq G
    <3> HIDE DEF G
    <3> QED
      BY <2>1, <2>2, <2>3, SubtreeLeast
  <2> QED
    BY <2>4
<1>6. h.parent[n] \notin T
  BY <1>2, <1>3, <1>5, NullAssumption
<1>7. ASSUME NEW y \in Node, h.parent[y] \in T, y \notin T
      PROVE  FALSE
  <2> DEFINE C == {x \in Node \ T : h.parent[x] = h.parent[y]}
  <2>1. PICK x \in C : h.prev[x] \notin C
    <3>1. C \in SUBSET Node /\ C # {}
      BY <1>7
    <3> QED
      BY <3>1 DEF WellFormed, Founded
  <2>2. h.parent[x] # NULL
    BY <1>3, <1>7, NullAssumption
  <2>3. h.prev[x] # NULL
    BY <1>1, <1>3, <1>7, <2>1, <2>2 DEF Linked, ParentLinked
  <2>4. /\ h.prev[x] \in Node
        /\ h.next[h.prev[x]] = x
        /\ h.parent[h.prev[x]] = h.parent[y]
    BY <1>1, <2>1, <2>3, Pointers DEF Linked, PrevLinked
  <2>5. h.prev[x] \in T \ {n}
    BY <1>6, <1>7, <2>1, <2>4
  <2> QED
    BY <1>3, <2>1, <2>4, <2>5, NullAssumption
<1> QED
  BY <1>3, <1>4, <1>5, <1>6, <1>7 DEF Descendants

\* No pointer crosses the boundary of a detached subtree.
LEMMA DetachedSubtree ==
  ASSUME NEW h, WellFormed(h), NEW T, NEW n \in Node, Descendants(h, T, n),
         h.parent[n] = NULL, NEW m \in Node \ T
  PROVE  Targets(h, m) \cap T = {}
<1>1. h \in Heap /\ Linked(h) /\ T \subseteq Node
  BY DEF WellFormed, Descendants, Live
<1>2. h.next[n] = NULL /\ h.prev[n] = NULL
  BY <1>1 DEF Linked, ParentLinked
<1>3. h.parent[m] \notin T
  BY DEF Descendants
<1>4. \A x \in T : h.parent[x] # h.parent[m] \/ x = n
  BY <1>3 DEF Descendants
<1>5. h.next[m] \notin T
  BY <1>1, <1>2, <1>4, NullAssumption DEF Linked, NextLinked
<1>6. h.prev[m] \notin T
  BY <1>1, <1>2, <1>4, NullAssumption DEF Linked, PrevLinked
<1>7. h.first_child[m] \notin T
  BY <1>1, NullAssumption DEF Linked, FirstLinked, Descendants
<1>8. h.last_child[m] \notin T
  BY <1>1, NullAssumption DEF Linked, LastLinked, Descendants
<1> QED
  BY <1>3, <1>5, <1>6, <1>7, <1>8 DEF Targets

-----------------------------------------------------------------------------
(***************************************************************************)
(* Releasing a detached subtree.                                           *)
(***************************************************************************)

\* w is v with the nodes of T blank.
Released(v, w, T) ==
  /\ w \in Heap
  /\ \A m \in Node :
       IF m \in T
       THEN w.type[m] = "none" /\ Targets(w, m) = {NULL}
       ELSE /\ w.type[m] = v.type[m]
            /\ w.next[m] = v.next[m]
            /\ w.prev[m] = v.prev[m]
            /\ w.parent[m] = v.parent[m]
            /\ w.first_child[m] = v.first_child[m]
            /\ w.last_child[m] = v.last_child[m]

\* Releasing blanks the released nodes and leaves the others alone.
LEMMA ReleaseFields ==
  ASSUME NEW v \in Heap, NEW T
  PROVE  Released(v, Release(v, T), T)
<1> DEFINE w == Release(v, T)
<1>1. w \in Heap
  BY DEF Release, Heap, Pointer, NodeTypes
<1>2. \A m \in Node :
        /\ w.type[m] = IF m \in T THEN "none" ELSE v.type[m]
        /\ w.next[m] = IF m \in T THEN NULL ELSE v.next[m]
        /\ w.prev[m] = IF m \in T THEN NULL ELSE v.prev[m]
        /\ w.parent[m] = IF m \in T THEN NULL ELSE v.parent[m]
        /\ w.first_child[m] = IF m \in T THEN NULL ELSE v.first_child[m]
        /\ w.last_child[m] = IF m \in T THEN NULL ELSE v.last_child[m]
  BY DEF Release, Heap
<1> HIDE DEF w
<1>3. \A m \in Node : m \in T => w.type[m] = "none" /\ Targets(w, m) = {NULL}
  BY <1>2 DEF Targets
<1> QED
  BY <1>1, <1>2, <1>3 DEF Released, w

\* Releasing a detached subtree keeps a heap well-formed.
LEMMA ReleasedWellFormed ==
  ASSUME NEW v, NEW w, NEW T, NEW n \in Node, WellFormed(v),
         Descendants(v, T, n), v.parent[n] = NULL, Released(v, w, T)
  PROVE  WellFormed(w)
<1> USE NullAssumption
<1>1. v \in Heap /\ w \in Heap /\ T \subseteq Node
  BY DEF WellFormed, Released, Descendants, Live
<1>2. ASSUME NEW m \in T
      PROVE  /\ w.next[m] = NULL /\ w.prev[m] = NULL /\ w.parent[m] = NULL
             /\ w.first_child[m] = NULL /\ w.last_child[m] = NULL
  <2>1. Targets(w, m) = {NULL}
    BY <1>1 DEF Released
  <2> QED
    BY <2>1 DEF Targets
<1>3. ASSUME NEW m \in Node \ T
      PROVE  /\ w.type[m] = v.type[m]
             /\ w.next[m] = v.next[m] /\ w.next[m] \notin T
             /\ w.prev[m] = v.prev[m] /\ w.prev[m] \notin T
             /\ w.parent[m] = v.parent[m] /\ w.parent[m] \notin T
             /\ w.first_child[m] = v.first_child[m] /\ w.first_child[m] \notin T
             /\ w.last_child[m] = v.last_child[m] /\ w.last_child[m] \notin T
  BY DetachedSubtree DEF Released, Targets
<1>4. Linked(w)
  <2>1. \A m \in Node :
          /\ NextLinked(v, m) /\ PrevLinked(v, m) /\ FirstLinked(v, m)
          /\ LastLinked(v, m) /\ EndsLinked(v, m) /\ ParentLinked(v, m)
    BY DEF WellFormed, Linked
  <2>2. ASSUME NEW m \in T
        PROVE  /\ NextLinked(w, m) /\ PrevLinked(w, m) /\ FirstLinked(w, m)
               /\ LastLinked(w, m) /\ EndsLinked(w, m) /\ ParentLinked(w, m)
    BY <1>2 DEF NextLinked, PrevLinked, FirstLinked, LastLinked, EndsLinked,
                ParentLinked
  <2>3. ASSUME NEW m \in Node \ T
        PROVE  /\ NextLinked(w, m) /\ PrevLinked(w, m) /\ FirstLinked(w, m)
               /\ LastLinked(w, m) /\ EndsLinked(w, m) /\ ParentLinked(w, m)
    <3> USE <1>1, <1>3, <2>1, Pointers
    <3>1. NextLinked(w, m) /\ PrevLinked(w, m)
      BY DEF NextLinked, PrevLinked
    <3>2. FirstLinked(w, m) /\ LastLinked(w, m)
      BY DEF FirstLinked, LastLinked
    <3>3. EndsLinked(w, m)
      BY DEF EndsLinked
    <3>4. ParentLinked(w, m)
      BY DEF ParentLinked
    <3> QED
      BY <3>1, <3>2, <3>3, <3>4
  <2> QED
    BY <2>2, <2>3 DEF Linked
<1>5. Founded(w.prev)
  <2>1. SUFFICES ASSUME NEW S \in SUBSET Node, S # {}, \A m \in S : w.prev[m] \in S
                 PROVE  FALSE
    BY DEF Founded
  <2>2. \A m \in S : v.prev[m] \in S
    BY <1>2, <1>3, <2>1
  <2> QED
    BY <2>1, <2>2 DEF WellFormed, Founded
<1>6. Closed(w)
  <2>1. Live(w) = Live(v) \ T
    BY DEF Live, Released
  <2>2. ASSUME NEW m \in Live(w)
        PROVE  Targets(w, m) \subseteq Live(w) \cup {NULL}
    BY <1>3, <2>1 DEF WellFormed, Closed, Targets, Live
  <2>3. ASSUME NEW m \in Node \ Live(w)
        PROVE  Targets(w, m) = {NULL}
    BY <1>2, <1>3, <2>1 DEF WellFormed, Closed, Targets
  <2> QED
    BY <2>2, <2>3 DEF Closed
<1>7. Contained(w)
  <2>1. ASSUME NEW m \in Node, w.parent[m] # NULL
        PROVE  CanContainType(w.type[w.parent[m]], w.type[m])
    <3>1. m \notin T
      BY <1>2, <2>1
    <3>2. w.parent[m] \in Node \ T
      BY <1>1, <1>3, <2>1, <3>1, Pointers
    <3> QED
      BY <1>3, <2>1, <3>1, <3>2 DEF WellFormed, Contained
  <2> QED
    BY <2>1 DEF Contained
<1> QED
  BY <1>1, <1>4, <1>5, <1>6, <1>7 DEF WellFormed

\* cmark_node_free releases the subtree of the node, which it has unlinked.
LEMMA FreeReleases ==
  ASSUME NEW h, WellFormed(h), NEW n \in Live(h)
  PROVE  LET v == Unlink(h, n)
         IN  /\ WellFormed(v) /\ v.parent[n] = NULL
             /\ Descendants(v, Freed(h, n), n) /\ Freed(h, n) = Subtree(v, n)
             /\ Released(v, FreeNode(h, n), Freed(h, n))
<1> DEFINE u == NodeUnlink(h, n)
           v == Unlink(h, n)
           T == Subtree(v, n)
<1>1. h \in Heap /\ n \in Node
  BY DEF WellFormed, Live
<1>2. WellFormed(v) /\ OwnCleared(u, v, n) /\ Isolated(v, n) /\ n \in Live(v)
  <2>1. WellFormed(v)
    BY UnlinkWellFormed
  <2>2. OwnCleared(u, v, n)
    BY <1>1, UnlinkClears
  <2>3. Isolated(v, n)
    BY <1>1, UnlinkIsolates
  <2>4. v.type = h.type
    BY <1>1, UnlinkFields DEF Unlinked
  <2> QED
    BY <2>1, <2>2, <2>3, <2>4 DEF Live
<1> HIDE DEF u, v
<1>3. Subtree(u, n) = T
  <2>1. /\ v.first_child = u.first_child
        /\ \A m \in Node \ {n} : v.next[m] = u.next[m]
    BY <1>2 DEF OwnCleared, Heap, Store
  <2>2. u \in Heap /\ v \in Heap
    BY <1>2 DEF OwnCleared, WellFormed
  <2>3. T \subseteq Subtree(u, n)
    BY <1>1, <2>1, <2>2, SubtreeWalk, SubtreeLeast
  <2>4. Subtree(u, n) \subseteq T
    BY <1>1, <2>1, <2>2, SubtreeWalk, SubtreeLeast
  <2> QED
    BY <2>3, <2>4
<1>4. Descendants(v, T, n)
  <2>1. n \notin AncestorsOrSelf(v, v.parent[n])
    <3>1. {} \in SUBSET Node
      OBVIOUS
    <3>2. ASSUME n \in AncestorsOrSelf(v, NULL)
          PROVE  n \in {}
      BY <3>1, <3>2 DEF AncestorsOrSelf
    <3> QED
      BY <1>2, <3>2 DEF Isolated
  <2> QED
    BY <1>2, <2>1, SubtreeDescendants
<1>5. Released(v, Release(u, T), T)
  <2>1. Released(u, Release(u, T), T)
    BY <1>2, ReleaseFields DEF OwnCleared
  <2>2. n \in T
    BY <1>4 DEF Descendants
  <2>3. ASSUME NEW m \in Node \ {n}
        PROVE  /\ v.type[m] = u.type[m]
               /\ v.next[m] = u.next[m] /\ v.prev[m] = u.prev[m]
               /\ v.parent[m] = u.parent[m]
               /\ v.first_child[m] = u.first_child[m]
               /\ v.last_child[m] = u.last_child[m]
    BY <1>2 DEF OwnCleared, Heap, Store
  <2> QED
    BY <2>1, <2>2, <2>3 DEF Released
<1>6. Freed(h, n) = T /\ FreeNode(h, n) = Release(u, T)
  BY <1>3 DEF FreeNode, Freed, u
<1>7. v.parent[n] = NULL
  BY <1>2 DEF Isolated
<1> HIDE DEF T
<1>8. /\ WellFormed(v) /\ v.parent[n] = NULL
      /\ Descendants(v, Freed(h, n), n) /\ Freed(h, n) = T
      /\ Released(v, FreeNode(h, n), Freed(h, n))
  BY <1>2, <1>4, <1>5, <1>6, <1>7
<1> QED
  BY <1>8, Zenon DEF T, v

\* cmark_node_free keeps a heap well-formed.
LEMMA FreeWellFormed ==
  ASSUME NEW h, WellFormed(h), NEW n \in Live(h)
  PROVE  WellFormed(FreeNode(h, n))
<1>1. n \in Node
  BY DEF Live
<1> QED
  BY <1>1, FreeReleases, ReleasedWellFormed

-----------------------------------------------------------------------------
(***************************************************************************)
(* Cloning.                                                                *)
(***************************************************************************)
Image(g, y) == IF y \in DOMAIN g THEN g[y] ELSE NULL

\* w is h with a copy of T, whose root is n, at the addresses g gives.
Copied(h, w, T, n, g) ==
  /\ \A m \in Node : (\A x \in T : g[x] # m) =>
       /\ w.type[m] = h.type[m]
       /\ w.next[m] = h.next[m] /\ w.prev[m] = h.prev[m]
       /\ w.parent[m] = h.parent[m]
       /\ w.first_child[m] = h.first_child[m]
       /\ w.last_child[m] = h.last_child[m]
  /\ \A x \in T :
       /\ w.type[g[x]] = h.type[x]
       /\ w.next[g[x]] = IF x = n THEN NULL ELSE Image(g, h.next[x])
       /\ w.prev[g[x]] = IF x = n THEN NULL ELSE Image(g, h.prev[x])
       /\ w.parent[g[x]] = IF x = n THEN NULL ELSE Image(g, h.parent[x])
       /\ w.first_child[g[x]] = Image(g, h.first_child[x])
       /\ w.last_child[g[x]] = Image(g, h.last_child[x])

\* cmark_node_clone writes the copies and leaves every other node alone.
LEMMA CloneFields ==
  ASSUME NEW h \in Heap, NEW T \in SUBSET Node, NEW n \in T, NEW g \in [T -> Node],
         \A x, y \in T : x # y => g[x] # g[y]
  PROVE  CloneNode(h, n, g) \in Heap /\ Copied(h, CloneNode(h, n, g), T, n, g)
<1> DEFINE w == CloneNode(h, n, g)
           pre(m) == CHOOSE y \in DOMAIN g : g[y] = m
           hit(m) == \E y \in DOMAIN g : g[y] = m
           C(f, v) == [m \in Node |-> IF hit(m)
                                      THEN IF pre(m) = n THEN v ELSE Image(g, f[pre(m)])
                                      ELSE f[m]]
<1>1. DOMAIN g = T
  OBVIOUS
<1>2. ASSUME NEW x \in T
      PROVE  g[x] \in Node /\ hit(g[x]) /\ pre(g[x]) = x
  <2>1. g[x] \in Node /\ hit(g[x])
    BY <1>1
  <2>2. pre(g[x]) \in T /\ g[pre(g[x])] = g[x]
    BY <1>1
  <2> QED
    BY <2>1, <2>2
<1>3. ASSUME NEW m \in Node, hit(m)
      PROVE  pre(m) \in T /\ g[pre(m)] = m
  BY <1>1, <1>3
<1>4. \A y : Image(g, y) \in Node \cup {NULL}
  BY <1>1 DEF Image
<1>5. w = [type        |-> [m \in Node |-> IF hit(m) THEN h.type[pre(m)]
                                           ELSE h.type[m]],
           next        |-> C(h.next, NULL),
           prev        |-> C(h.prev, NULL),
           parent      |-> C(h.parent, NULL),
           first_child |-> C(h.first_child, Image(g, h.first_child[n])),
           last_child  |-> C(h.last_child, Image(g, h.last_child[n]))]
  BY DEF CloneNode, Image
<1> HIDE DEF w, pre, hit
<1>6. w \in Heap
  <2>1. ASSUME NEW f \in [Node -> Pointer], NEW v \in Pointer
        PROVE  C(f, v) \in [Node -> Pointer]
    BY <1>3, <1>4 DEF Pointer
  <2>2. [m \in Node |-> IF hit(m) THEN h.type[pre(m)] ELSE h.type[m]]
          \in [Node -> NodeTypes]
    BY <1>3 DEF Heap
  <2>3. /\ h.next \in [Node -> Pointer] /\ h.prev \in [Node -> Pointer]
        /\ h.parent \in [Node -> Pointer]
        /\ h.first_child \in [Node -> Pointer]
        /\ h.last_child \in [Node -> Pointer]
    BY DEF Heap
  <2>4. NULL \in Pointer /\ \A y : Image(g, y) \in Pointer
    BY <1>4 DEF Pointer
  <2> HIDE DEF C
  <2> QED
    BY <1>5, <2>1, <2>2, <2>3, <2>4 DEF Heap
<1>7. ASSUME NEW m \in Node, \A x \in T : g[x] # m
      PROVE  /\ w.type[m] = h.type[m]
             /\ w.next[m] = h.next[m] /\ w.prev[m] = h.prev[m]
             /\ w.parent[m] = h.parent[m]
             /\ w.first_child[m] = h.first_child[m]
             /\ w.last_child[m] = h.last_child[m]
  <2>1. ~hit(m)
    BY <1>1, <1>7 DEF hit
  <2> QED
    BY <1>5, <2>1
<1>8. ASSUME NEW x \in T
      PROVE  /\ w.type[g[x]] = h.type[x]
             /\ w.next[g[x]] = IF x = n THEN NULL ELSE Image(g, h.next[x])
             /\ w.prev[g[x]] = IF x = n THEN NULL ELSE Image(g, h.prev[x])
             /\ w.parent[g[x]] = IF x = n THEN NULL ELSE Image(g, h.parent[x])
             /\ w.first_child[g[x]] = Image(g, h.first_child[x])
             /\ w.last_child[g[x]] = Image(g, h.last_child[x])
  BY <1>2, <1>5
<1> QED
  BY <1>6, <1>7, <1>8 DEF Copied, w

\* A pointer from a node of T stays in T, except the root's to its siblings
\* and parent.
LEMMA SubtreePointers ==
  ASSUME NEW h, WellFormed(h), NEW n \in Node, NEW T, Descendants(h, T, n),
         NEW x \in T
  PROVE  /\ h.first_child[x] \in T \cup {NULL} /\ h.last_child[x] \in T \cup {NULL}
         /\ x # n => /\ h.next[x] \in T \cup {NULL} /\ h.prev[x] \in T \cup {NULL}
                     /\ h.parent[x] \in T
         /\ h.first_child[x] # n /\ h.last_child[x] # n
         /\ x # n => h.next[x] # n /\ h.prev[x] # n
<1>1. h \in Heap /\ Linked(h) /\ T \subseteq Node /\ x \in Node
  BY DEF WellFormed, Descendants, Live
<1>2. /\ h.first_child[x] \in T \cup {NULL} /\ h.first_child[x] # n
      /\ h.last_child[x] \in T \cup {NULL} /\ h.last_child[x] # n
  BY <1>1, Pointers, NullAssumption DEF Linked, FirstLinked, LastLinked, Descendants
<1>3. ASSUME x # n
      PROVE  /\ h.next[x] \in T \cup {NULL} /\ h.next[x] # n
             /\ h.prev[x] \in T \cup {NULL} /\ h.prev[x] # n
             /\ h.parent[x] \in T
  BY <1>1, <1>3, Pointers, NullAssumption DEF Linked, NextLinked, PrevLinked, Descendants
<1> QED
  BY <1>2, <1>3

\* Copying a subtree onto fresh nodes keeps a heap well-formed.
LEMMA CopiedWellFormed ==
  ASSUME NEW h, NEW w \in Heap, WellFormed(h), NEW n \in Node, NEW T,
         Descendants(h, T, n), NEW g \in [T -> Node \ Live(h)],
         \A x, y \in T : x # y => g[x] # g[y], Copied(h, w, T, n, g)
  PROVE  WellFormed(w)
<1> USE NullAssumption
<1> DEFINE R == {g[x] : x \in T}
<1>1. /\ h \in Heap /\ T \subseteq Node /\ n \in T
      /\ R \subseteq Node \ Live(h)
      /\ \A x \in T : g[x] \in Node \ Live(h)
  BY DEF WellFormed, Descendants, Live
\* The old nodes are as they were and do not point to the copies.
<1>2. ASSUME NEW m \in Node \ R
      PROVE  /\ w.type[m] = h.type[m]
             /\ w.next[m] = h.next[m] /\ w.next[m] \notin R
             /\ w.prev[m] = h.prev[m] /\ w.prev[m] \notin R
             /\ w.parent[m] = h.parent[m] /\ w.parent[m] \notin R
             /\ w.first_child[m] = h.first_child[m] /\ w.first_child[m] \notin R
             /\ w.last_child[m] = h.last_child[m] /\ w.last_child[m] \notin R
  <2>1. /\ w.type[m] = h.type[m]
        /\ w.next[m] = h.next[m] /\ w.prev[m] = h.prev[m]
        /\ w.parent[m] = h.parent[m]
        /\ w.first_child[m] = h.first_child[m]
        /\ w.last_child[m] = h.last_child[m]
    BY DEF Copied
  <2>2. Targets(h, m) \subseteq Live(h) \cup {NULL}
    BY DEF WellFormed, Closed
  <2>3. Targets(h, m) \cap R = {}
    BY <1>1, <2>2
  <2> QED
    BY <2>1, <2>3 DEF Targets
<1> DEFINE I(y) == IF y = NULL THEN NULL ELSE g[y]
\* The copies point to each other as the nodes of T do.
<1>3. ASSUME NEW x \in T
      PROVE  /\ w.type[g[x]] = h.type[x] /\ h.type[x] # "none"
             /\ w.next[g[x]] = IF x = n THEN NULL ELSE I(h.next[x])
             /\ w.prev[g[x]] = IF x = n THEN NULL ELSE I(h.prev[x])
             /\ w.parent[g[x]] = IF x = n THEN NULL ELSE g[h.parent[x]]
             /\ w.first_child[g[x]] = I(h.first_child[x])
             /\ w.last_child[g[x]] = I(h.last_child[x])
  <2>1. \A y \in T \cup {NULL} : Image(g, y) = I(y)
    BY <1>1 DEF Image
  <2>2. h.type[x] # "none"
    BY DEF Descendants, Live
  <2>3. x # n => I(h.parent[x]) = g[h.parent[x]]
    BY <1>1, SubtreePointers
  <2> HIDE DEF I
  <2> QED
    BY <2>1, <2>2, <2>3, SubtreePointers DEF Copied
<1>4. \A x, y \in T : x # y => g[x] # g[y]
  OBVIOUS
<1> HIDE DEF R
<1>5. \A x \in T : g[x] \in R
  BY DEF R
<1>6. \A m \in R : \E x \in T : m = g[x]
  BY DEF R
<1>7. Linked(w)
  <2>1. \A m \in Node :
          /\ NextLinked(h, m) /\ PrevLinked(h, m) /\ FirstLinked(h, m)
          /\ LastLinked(h, m) /\ EndsLinked(h, m) /\ ParentLinked(h, m)
    BY DEF WellFormed, Linked
  <2>2. ASSUME NEW m \in Node \ R
        PROVE  /\ NextLinked(w, m) /\ PrevLinked(w, m) /\ FirstLinked(w, m)
               /\ LastLinked(w, m) /\ EndsLinked(w, m) /\ ParentLinked(w, m)
    <3> USE <1>1, <1>2, <2>1, Pointers
    <3>1. NextLinked(w, m) /\ PrevLinked(w, m)
      BY DEF NextLinked, PrevLinked
    <3>2. FirstLinked(w, m) /\ LastLinked(w, m)
      BY DEF FirstLinked, LastLinked
    <3>3. EndsLinked(w, m)
      BY DEF EndsLinked
    <3>4. ParentLinked(w, m)
      BY DEF ParentLinked
    <3> QED
      BY <3>1, <3>2, <3>3, <3>4
  <2>3. ASSUME NEW x \in T
        PROVE  /\ NextLinked(w, g[x]) /\ PrevLinked(w, g[x]) /\ FirstLinked(w, g[x])
               /\ LastLinked(w, g[x]) /\ EndsLinked(w, g[x]) /\ ParentLinked(w, g[x])
    <3> USE <1>1, <1>3, <1>4, <2>1
    <3>0. x \in Node
      OBVIOUS
    <3>1. NextLinked(w, g[x])
      BY SubtreePointers DEF NextLinked
    <3>2. PrevLinked(w, g[x])
      BY SubtreePointers DEF PrevLinked
    <3>3. FirstLinked(w, g[x])
      BY SubtreePointers DEF FirstLinked
    <3>4. LastLinked(w, g[x])
      BY SubtreePointers DEF LastLinked
    <3>5. EndsLinked(w, g[x])
      BY SubtreePointers DEF EndsLinked
    <3>6. ParentLinked(w, g[x])
      BY SubtreePointers DEF ParentLinked
    <3> QED
      BY <3>1, <3>2, <3>3, <3>4, <3>5, <3>6
  <2> QED
    BY <1>6, <2>2, <2>3 DEF Linked
<1>8. Founded(w.prev)
  <2>1. SUFFICES ASSUME NEW S \in SUBSET Node, S # {}, \A m \in S : w.prev[m] \in S
                 PROVE  FALSE
    BY DEF Founded
  <2> DEFINE P == {x \in T : g[x] \in S}
  <2>2. ASSUME NEW x \in P
        PROVE  h.prev[x] \in P
    BY <1>3, <2>1, <2>2, SubtreePointers
  <2>3. P = {}
    BY <1>1, <2>2 DEF WellFormed, Founded
  <2>4. S \cap R = {}
    BY <1>6, <2>3
  <2>5. \A m \in S : h.prev[m] \in S
    BY <1>2, <2>1, <2>4
  <2> QED
    BY <2>1, <2>5 DEF WellFormed, Founded
<1>9. Closed(w)
  <2>1. Live(w) = Live(h) \cup R
    BY <1>1, <1>2, <1>3, <1>6 DEF Live
  <2>2. ASSUME NEW m \in Node \ R
        PROVE  Targets(w, m) = Targets(h, m)
    BY <1>2 DEF Targets
  <2>3. ASSUME NEW x \in T
        PROVE  Targets(w, g[x]) \subseteq R \cup {NULL}
    BY <1>3, <1>5, SubtreePointers DEF Targets
  <2>4. ASSUME NEW m \in Live(w)
        PROVE  Targets(w, m) \subseteq Live(w) \cup {NULL}
    <3>1. CASE m \in R
      BY <1>6, <2>1, <2>3, <3>1
    <3>2. CASE m \notin R
      <4>1. m \in Live(h) /\ m \in Node \ R
        BY <2>1, <2>4, <3>2 DEF Live
      <4> QED
        BY <2>1, <2>2, <4>1 DEF WellFormed, Closed
    <3> QED
      BY <3>1, <3>2
  <2>5. ASSUME NEW m \in Node \ Live(w)
        PROVE  Targets(w, m) = {NULL}
    BY <2>1, <2>2 DEF WellFormed, Closed
  <2> QED
    BY <2>4, <2>5 DEF Closed
<1>10. Contained(w)
  <2>1. ASSUME NEW m \in Node \ R, w.parent[m] # NULL
        PROVE  CanContainType(w.type[w.parent[m]], w.type[m])
    BY <1>1, <1>2, <2>1, Pointers DEF WellFormed, Contained
  <2>2. ASSUME NEW x \in T, w.parent[g[x]] # NULL
        PROVE  CanContainType(w.type[w.parent[g[x]]], w.type[g[x]])
    <3>1. x # n /\ h.parent[x] \in T
      BY <1>3, <2>2, SubtreePointers
    <3> QED
      BY <1>1, <1>3, <3>1 DEF WellFormed, Contained
  <2> QED
    BY <1>6, <2>1, <2>2 DEF Contained
<1> QED
  BY <1>7, <1>8, <1>9, <1>10 DEF WellFormed

\* cmark_node_clone keeps a heap well-formed.
LEMMA CloneWellFormed ==
  ASSUME NEW h, WellFormed(h), NEW n \in Live(h),
         n \notin AncestorsOrSelf(h, h.parent[n]),
         NEW g \in [Subtree(h, n) -> Node \ Live(h)],
         \A x, y \in Subtree(h, n) : x # y => g[x] # g[y]
  PROVE  WellFormed(CloneNode(h, n, g))
<1>1. h \in Heap /\ n \in Node
  BY DEF WellFormed, Live
<1>2. Descendants(h, Subtree(h, n), n)
  BY SubtreeDescendants
<1>3. /\ CloneNode(h, n, g) \in Heap
      /\ Copied(h, CloneNode(h, n, g), Subtree(h, n), n, g)
  BY <1>1, SubtreeWalk, CloneFields
<1> QED
  BY <1>1, <1>2, <1>3, CopiedWellFormed

-----------------------------------------------------------------------------
(***************************************************************************)
(* Ancestor cycles.                                                        *)
(***************************************************************************)

\* Parents are at most cleared.
LEMMA FoundedShrinks ==
  ASSUME NEW f, NEW f2, Founded(f), \A m \in Node : f2[m] \in {f[m], NULL}
  PROVE  Founded(f2)
<1>1. SUFFICES ASSUME NEW S \in SUBSET Node, S # {}, \A m \in S : f2[m] \in S
               PROVE  FALSE
  BY DEF Founded
<1>2. \A m \in S : f[m] \in S
  BY <1>1, NullAssumption
<1> QED
  BY <1>1, <1>2 DEF Founded

\* The ancestor walk of S_can_contain is enough: c goes below a node of
\* which it is no ancestor.
LEMMA FoundedInsert ==
  ASSUME NEW h \in Heap, NEW p \in Node, NEW c \in Node, NEW f2,
         Founded(h.parent), c \notin AncestorsOrSelf(h, p),
         \A m \in Node : f2[m] = IF m = c THEN p ELSE h.parent[m]
  PROVE  Founded(f2)
<1>1. SUFFICES ASSUME NEW S \in SUBSET Node, S # {}, \A m \in S : f2[m] \in S
               PROVE  FALSE
  BY DEF Founded
<1>2. PICK A \in SUBSET Node : /\ p \in A
                               /\ \A m \in A : h.parent[m] \in A \cup {NULL}
                               /\ c \notin A
  BY NullAssumption DEF AncestorsOrSelf
<1>3. CASE c \in S
  <2>1. p \in S \cap A
    BY <1>1, <1>2, <1>3
  <2>2. ASSUME NEW m \in S \cap A
        PROVE  h.parent[m] \in S \cap A
    BY <1>1, <1>2, <2>2, NullAssumption
  <2> QED
    BY <2>1, <2>2 DEF Founded
<1>4. CASE c \notin S
  BY <1>1, <1>4 DEF Founded
<1> QED
  BY <1>3, <1>4

\* A copy of a subtree has no ancestor cycle if the subtree has none.
LEMMA FoundedClone ==
  ASSUME NEW h, NEW w, WellFormed(h), NEW n \in Node, NEW T, Descendants(h, T, n),
         NEW g \in [T -> Node \ Live(h)], Copied(h, w, T, n, g), Founded(h.parent)
  PROVE  Founded(w.parent)
<1>1. SUFFICES ASSUME NEW S \in SUBSET Node, S # {}, \A m \in S : w.parent[m] \in S
               PROVE  FALSE
  BY DEF Founded
<1> DEFINE P == {x \in T : g[x] \in S}
<1>2. ASSUME NEW x \in P
      PROVE  h.parent[x] \in P
  <2>1. x # n
    BY <1>1, <1>2, NullAssumption DEF Copied
  <2>2. h.parent[x] \in T
    BY <2>1 DEF Descendants
  <2>3. w.parent[g[x]] = g[h.parent[x]]
    BY <2>1, <2>2 DEF Copied, Image
  <2> QED
    BY <1>1, <1>2, <2>2, <2>3
<1>3. P = {}
  <2>1. P \in SUBSET Node
    BY DEF Descendants, Live
  <2> QED
    BY <1>2, <2>1 DEF Founded
<1>4. \A m \in S : h.parent[m] \in S
  <2>1. ASSUME NEW m \in S
        PROVE  \A x \in T : g[x] # m
    BY <1>3, <2>1
  <2> QED
    BY <1>1, <2>1 DEF Copied
<1> QED
  BY <1>1, <1>4 DEF Founded

\* The parent of every node after each relinking operation.
LEMMA Parents ==
  ASSUME NEW h \in Heap, NEW p \in Node, NEW c \in Node
  PROVE  /\ \A m \in Node :
              PrependChild(h, p, c).parent[m] = IF m = c THEN p ELSE h.parent[m]
         /\ \A m \in Node :
              AppendChild(h, p, c).parent[m] = IF m = c THEN p ELSE h.parent[m]
         /\ \A m \in Node : InsertBefore(h, p, c).parent[m]
                              = IF m = c THEN h.parent[p] ELSE h.parent[m]
         /\ \A m \in Node : InsertAfter(h, p, c).parent[m]
                              = IF m = c THEN h.parent[p] ELSE h.parent[m]
<1> DEFINE u == NodeUnlink(h, c)
<1>1. u \in Heap
  BY UnlinkClears DEF OwnCleared
<1>2. u.parent = h.parent
  BY DEF NodeUnlink, Heap
<1> HIDE DEF u
<1>3. \A m \in Node : PrependChild(h, p, c).parent[m] = IF m = c THEN p ELSE h.parent[m]
  BY <1>1, <1>2 DEF PrependChild, Store, u, Heap
<1>4. \A m \in Node : AppendChild(h, p, c).parent[m] = IF m = c THEN p ELSE h.parent[m]
  BY <1>1, <1>2 DEF AppendChild, Store, u, Heap
<1>5. \A m \in Node : InsertBefore(h, p, c).parent[m]
                        = IF m = c THEN h.parent[p] ELSE h.parent[m]
  BY <1>1, <1>2 DEF InsertBefore, Store, u, Heap
<1>6. \A m \in Node : InsertAfter(h, p, c).parent[m]
                        = IF m = c THEN h.parent[p] ELSE h.parent[m]
  BY <1>1, <1>2 DEF InsertAfter, Store, u, Heap
<1> QED
  BY <1>3, <1>4, <1>5, <1>6

\* Allocation gives an address a type and leaves it without a parent.
LEMMA FreshFields ==
  ASSUME NEW h \in Heap, NEW n \in Node, NEW t \in NodeTypes \ {"none"}
  PROVE  /\ Live(Fresh(h, n, t)) = Live(h) \cup {n}
         /\ \A m \in Node :
              Fresh(h, n, t).type[m] = IF m = n THEN t ELSE h.type[m]
         /\ \A m \in Node :
              Fresh(h, n, t).parent[m] = IF m = n THEN NULL ELSE h.parent[m]
  BY DEF Fresh, Store, Live

\* Relinking changes no type, so that no node comes or goes.
LEMMA RelinkedTypes ==
  ASSUME NEW h \in Heap, NEW n, NEW c
  PROVE  /\ AppendChild(h, n, c).type = h.type
         /\ PrependChild(h, n, c).type = h.type
         /\ InsertBefore(h, n, c).type = h.type
         /\ InsertAfter(h, n, c).type = h.type
         /\ ReplaceNode(h, n, c).type = h.type
         /\ Unlink(h, n).type = h.type
<1>1. AppendChild(h, n, c).type = h.type /\ PrependChild(h, n, c).type = h.type
  BY DEF AppendChild, PrependChild, NodeUnlink, Heap
<1>2. InsertBefore(h, n, c).type = h.type /\ InsertAfter(h, n, c).type = h.type
  BY DEF InsertBefore, InsertAfter, NodeUnlink, Heap
<1>3. Unlink(h, n).type = h.type
  BY DEF Unlink, NodeUnlink, Heap
<1>4. ReplaceNode(h, n, c).type = h.type
  BY SMTT(20) DEF ReplaceNode, InsertBefore, Unlink, NodeUnlink, Heap
<1> QED
  BY <1>1, <1>2, <1>3, <1>4

\* What cmark_node_append_child does to a well-formed heap.
LEMMA Appends ==
  ASSUME NEW h, WellFormed(h), NEW p \in Live(h), NEW c \in Live(h),
         CanContainType(h.type[p], h.type[c])
  PROVE  LET w == AppendChild(h, p, c)
         IN  /\ WellFormed(w) /\ w \in Heap /\ w.type = h.type /\ Live(w) = Live(h)
             /\ \A m \in Node : w.parent[m] = IF m = c THEN p ELSE h.parent[m]
<1> DEFINE w == AppendChild(h, p, c)
<1>1. h \in Heap /\ p \in Node /\ c \in Node
  BY DEF WellFormed, Live
<1>2. WellFormed(w)
  BY AppendWellFormed
<1>3. w.type = h.type
  BY <1>1, RelinkedTypes
<1>4. \A m \in Node : w.parent[m] = IF m = c THEN p ELSE h.parent[m]
  BY <1>1, Parents
<1> HIDE DEF w
<1>5. Live(w) = Live(h)
  BY <1>3 DEF Live
<1>6. w \in Heap
  BY <1>2 DEF WellFormed
<1> QED
  BY <1>2, <1>3, <1>4, <1>5, <1>6 DEF w

\* In a well-formed heap a node with a parent is allocated, and so is the parent.
LEMMA ParentsLive ==
  ASSUME NEW h, WellFormed(h), NEW n \in Node, h.parent[n] # NULL
  PROVE  n \in Live(h) /\ h.parent[n] \in Live(h)
  BY DEF WellFormed, Closed, Targets

-----------------------------------------------------------------------------
(***************************************************************************)
(* Ancestors and whole trees.                                              *)
(***************************************************************************)

\* A set that is closed under parent holds the ancestors of its nodes.
LEMMA AncestorsWithin ==
  ASSUME NEW h, NEW n, NEW S \in SUBSET Node, n \in S \cup {NULL},
         \A m \in S : h.parent[m] \in S \cup {NULL}
  PROVE  AncestorsOrSelf(h, n) \subseteq S
  BY DEF AncestorsOrSelf

\* The walk from a node is the node and the walk from its parent.
LEMMA AncestorsStep ==
  ASSUME NEW h \in Heap, NEW n \in Node
  PROVE  AncestorsOrSelf(h, n) = {n} \cup AncestorsOrSelf(h, h.parent[n])
<1>1. n \in AncestorsOrSelf(h, n)
  BY NullAssumption DEF AncestorsOrSelf
<1>2. ASSUME NEW a \in AncestorsOrSelf(h, h.parent[n])
      PROVE  a \in AncestorsOrSelf(h, n)
  <2>1. SUFFICES ASSUME NEW S \in SUBSET Node, n \in S \cup {NULL},
                        \A m \in S : h.parent[m] \in S \cup {NULL}
                 PROVE  a \in S
    BY DEF AncestorsOrSelf
  <2>2. h.parent[n] \in S \cup {NULL}
    BY <2>1, NullAssumption
  <2> QED
    BY <2>1, <2>2 DEF AncestorsOrSelf
<1>3. ASSUME NEW a \in AncestorsOrSelf(h, n), a # n
      PROVE  a \in AncestorsOrSelf(h, h.parent[n])
  <2>1. SUFFICES ASSUME NEW S \in SUBSET Node, h.parent[n] \in S \cup {NULL},
                        \A m \in S : h.parent[m] \in S \cup {NULL}
                 PROVE  a \in S
    BY DEF AncestorsOrSelf
  <2> DEFINE Z == S \cup {n}
  <2>2. Z \in SUBSET Node /\ n \in Z /\ \A m \in Z : h.parent[m] \in Z \cup {NULL}
    BY <2>1
  <2> HIDE DEF Z
  <2>3. AncestorsOrSelf(h, n) \subseteq Z
    BY <2>2, AncestorsWithin
  <2> QED
    BY <1>3, <2>3 DEF Z
<1> QED
  BY <1>1, <1>2, <1>3

\* D consists of whole trees of the heap h.
WholeTrees(h, D) ==
  /\ D \subseteq Live(h)
  /\ \A n \in Node : h.parent[n] # NULL => (n \in D <=> h.parent[n] \in D)

\* What lies below a set of nodes that is closed under parent is a set of whole
\* trees.
LEMMA BelowIsWhole ==
  ASSUME NEW h, WellFormed(h), NEW X \in SUBSET Node,
         \A x \in X : h.parent[x] \in X \cup {NULL}
  PROVE  WholeTrees(h, {n \in Live(h) : AncestorsOrSelf(h, n) \cap X # {}})
<1> DEFINE Below(n) == AncestorsOrSelf(h, n) \cap X # {}
<1>1. h \in Heap
  BY DEF WellFormed
<1>2. ASSUME NEW n \in Node, h.parent[n] # NULL
      PROVE  Below(n) <=> Below(h.parent[n])
  <2>1. AncestorsOrSelf(h, n) = {n} \cup AncestorsOrSelf(h, h.parent[n])
    BY <1>1, AncestorsStep
  <2>2. ASSUME n \in X
        PROVE  Below(h.parent[n])
    <3>1. h.parent[n] \in X
      BY <1>2, <2>2
    <3>2. h.parent[n] \in AncestorsOrSelf(h, h.parent[n])
      BY <1>1, <3>1, AncestorsStep
    <3> QED
      BY <3>1, <3>2
  <2> QED
    BY <2>1, <2>2
<1> HIDE DEF Below
<1>3. ASSUME NEW n \in Node, h.parent[n] # NULL
      PROVE  n \in {m \in Live(h) : Below(m)} <=> h.parent[n] \in {m \in Live(h) : Below(m)}
  BY <1>2, <1>3, ParentsLive
<1> QED
  BY <1>3 DEF WholeTrees, Below

\* Neighbours are in the same tree.
LEMMA NeighboursTogether ==
  ASSUME NEW h, WellFormed(h), NEW D, WholeTrees(h, D), NEW n \in Node,
         NEW m \in Targets(h, n) \ {NULL}
  PROVE  n \in D <=> m \in D
<1>1. h \in Heap /\ Linked(h) /\ m \in Node
  BY Pointers DEF WellFormed, Targets
<1>2. CASE m = h.parent[n]
  BY <1>2 DEF WholeTrees
<1>3. CASE m = h.first_child[n] \/ m = h.last_child[n]
  BY <1>1, <1>3, NullAssumption DEF WholeTrees, Linked, FirstLinked, LastLinked
<1>4. CASE m = h.next[n] \/ m = h.prev[n]
  <2>1. h.parent[n] # NULL /\ h.parent[m] = h.parent[n]
    BY <1>1, <1>4 DEF Linked, NextLinked, PrevLinked, ParentLinked
  <2> QED
    BY <1>1, <2>1 DEF WholeTrees
<1> QED
  BY <1>2, <1>3, <1>4 DEF Targets

\* Freeing a root takes nodes of its own tree only, its links and types aside it
\* leaves the heap as it was, and no pointer leads to a freed node.
LEMMA FreeRoot ==
  ASSUME NEW h, WellFormed(h), NEW D, WholeTrees(h, D), NEW n \in D,
         h.parent[n] = NULL
  PROVE  /\ Freed(h, n) \subseteq D
         /\ WellFormed(FreeNode(h, n))
         /\ Live(FreeNode(h, n)) = Live(h) \ Freed(h, n)
         /\ \A m \in Node : FreeNode(h, n).parent[m] =
              IF m \in Freed(h, n) THEN NULL ELSE h.parent[m]
<1> DEFINE u == NodeUnlink(h, n)
           F == Freed(h, n)
<1>1. h \in Heap /\ n \in Live(h) /\ n \in Node /\ D \subseteq Node
  BY DEF WellFormed, WholeTrees, Live
<1>2. u \in Heap /\ u.parent = h.parent /\ u.type = h.type
  <2>1. u \in Heap
    BY <1>1, UnlinkClears DEF OwnCleared
  <2> QED
    BY <1>1, <2>1 DEF NodeUnlink, Heap
<1>3. h.next[n] = NULL /\ h.prev[n] = NULL
  BY <1>1 DEF WellFormed, Linked, ParentLinked
<1>4. \A m \in Node : u.first_child[m] = h.first_child[m] /\ u.next[m] = h.next[m]
  BY <1>1, <1>3, NullAssumption DEF NodeUnlink, Store, Heap
<1>5. F \subseteq D
  <2>1. ASSUME NEW x \in D
        PROVE  h.first_child[x] \in D \cup {NULL} /\ h.next[x] \in D \cup {NULL}
    BY <1>1, NeighboursTogether DEF Targets
  <2> HIDE DEF u
  <2> QED
    BY <1>1, <1>4, <2>1, SubtreeLeast DEF Freed, u
<1>6. WellFormed(FreeNode(h, n))
  BY <1>1, FreeWellFormed
<1>7. Released(u, FreeNode(h, n), F)
  BY <1>2, ReleaseFields DEF FreeNode
<1> HIDE DEF u, F
<1>8. Live(FreeNode(h, n)) = Live(h) \ F
  BY <1>1, <1>2, <1>7, SMTT(20) DEF Released, Live
<1>9. \A m \in Node : FreeNode(h, n).parent[m] = IF m \in F THEN NULL ELSE h.parent[m]
  BY <1>1, <1>2, <1>7 DEF Released, Targets
<1> QED
  BY <1>5, <1>6, <1>8, <1>9 DEF F
=============================================================================
