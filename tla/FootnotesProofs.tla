--------------------------- MODULE FootnotesProofs ---------------------------
(***************************************************************************)
(* While process_footnotes edits the document it iterates over, and while  *)
(* texts are joined, the code holds no pointer to a freed node, for any    *)
(* document that can be built.  In the end the definitions that are used   *)
(* stand at its end, the references and the numbers agree with them, and   *)
(* nothing else is left of the others.                                     *)
(*                                                                         *)
(* The proof has two invariants.  IInv is about what is allocated, and     *)
(* where in the document.  SInv needs it, and is about what the loops have *)
(* seen to (Covered), the labels (Named), the entries of the map           *)
(* (Numbers), the counts (Counted), the references (Placed) and the        *)
(* definitions that have been moved (Ordered).                             *)
(*                                                                         *)
(* The loops of the code and the recursion of S_free_nodes are functions   *)
(* with recursive definitions.  That these have values at all, and which,  *)
(* rests on Descends: no nodes of a tree go round.                         *)
(***************************************************************************)
EXTENDS Footnotes, NodeLinksProofs, ListLemmas

-----------------------------------------------------------------------------
(***************************************************************************)
(* Walks through a document end.                                           *)
(***************************************************************************)

\* Of any nodes one is the last: neither its first child nor its next is
\* among them.
LEMMA Descends ==
  ASSUME NEW h, WellFormed(h), Founded(h.parent), NEW S \in SUBSET Node, S # {}
  PROVE  \E m \in S : h.first_child[m] \notin S /\ h.next[m] \notin S
<1> SUFFICES ASSUME \A m \in S : h.first_child[m] \in S \/ h.next[m] \in S
             PROVE  FALSE
  OBVIOUS
<1> DEFINE Down(m) == IF h.first_child[m] \in S THEN h.first_child[m] ELSE h.next[m]
           Back(k) == IF h.prev[k] = NULL THEN h.parent[k] ELSE h.prev[k]
           f == [m \in S |-> Down(m)]
<1>1. \A m \in S : Down(m) \in S /\ Back(Down(m)) = m
  BY NullAssumption DEF WellFormed, Linked, FirstLinked, NextLinked
<1>2. IsFiniteSet(S)
  BY SizeAssumption, FS_Subset
<1>3. f \in Injection(S, S)
  <2>1. f \in [S -> S] /\ \A a, b \in S : f[a] = f[b] => a = b
    BY <1>1
  <2> QED
    BY <2>1, Zenon DEF Injection, IsInjective
<1>4. f \in Surjection(S, S)
  BY <1>2, <1>3, FS_Injection
<1>5. \A k \in S : Back(k) \in S
  <2>1. \A k \in S : \E m \in S : Down(m) = k
    BY <1>4 DEF Surjection
  <2> QED
    BY <1>1, <2>1
<1>6. PICK k \in S : h.parent[k] \notin S
  BY DEF Founded
<1> DEFINE L == {m \in S : h.parent[m] = h.parent[k]}
<1>7. PICK c \in L : h.prev[c] \notin L
  BY DEF WellFormed, Founded
<1>8. Back(c) \in S /\ c \in Node
  BY <1>5
<1>9. h.prev[c] # NULL
  BY <1>6, <1>8
<1>10. h.prev[c] \in S /\ h.parent[h.prev[c]] = h.parent[c]
  BY <1>8, <1>9 DEF WellFormed, Linked, PrevLinked
<1> QED
  BY <1>7, <1>10

\* cmark_iter_next, field by field.
LEMMA IterNextIs ==
  ASSUME NEW h \in Heap, NEW x \in Iterators
  PROVE  LET y == IterNext(h, x)
             leaves == x.next_ev = "exit" \/ (x.next_ev = "enter" /\ h.type[x.next] \in LeafTypes)
         IN  /\ y \in Iterators
             /\ y.ev = x.next_ev /\ y.cur = x.next /\ y.root = x.root
             /\ x.next_ev = "done" => y.next_ev = "done"
             /\ x.next_ev = "enter" /\ h.type[x.next] \notin LeafTypes
                  => IF h.first_child[x.next] = NULL
                     THEN y.next_ev = "exit" /\ y.next = x.next
                     ELSE y.next_ev = "enter" /\ y.next = h.first_child[x.next]
             /\ leaves /\ (x.next = x.root \/ (h.next[x.next] = NULL /\ h.parent[x.next] = NULL))
                  => y.next_ev = "done"
             /\ leaves /\ x.next # x.root /\ h.next[x.next] # NULL
                  => y.next_ev = "enter" /\ y.next = h.next[x.next]
             /\ leaves /\ x.next # x.root /\ h.next[x.next] = NULL /\ h.parent[x.next] # NULL
                  => y.next_ev = "exit" /\ y.next = h.parent[x.next]
<1>1. x.next \in Node \cup {NULL} /\ (x.next = NULL <=> x.next_ev = "done")
  BY DEF Iterators, Pointer
<1>2. x.next_ev # "done" => /\ h.first_child[x.next] \in Node \cup {NULL}
                            /\ h.next[x.next] \in Node \cup {NULL}
                            /\ h.parent[x.next] \in Node \cup {NULL}
  BY <1>1, Pointers
<1> DEFINE y == IterNext(h, x)
<1>3. /\ y.ev = x.next_ev /\ y.cur = x.next /\ y.root = x.root
      /\ (/\ y.next_ev \in {"enter", "exit", "done"} /\ y.next \in Pointer
          /\ (y.next = NULL <=> y.next_ev = "done")) => y \in Iterators
  <2>1. PICK e, m : y = [x EXCEPT !.ev = x.next_ev, !.cur = x.next, !.next_ev = e, !.next = m]
    BY DEF IterNext
  <2> HIDE DEF y
  <2>2. y = [ev |-> x.next_ev, cur |-> x.next, next_ev |-> e, next |-> m, root |-> x.root]
    BY <2>1 DEF Iterators
  <2>3. y.ev = x.next_ev /\ y.cur = x.next /\ y.next_ev = e /\ y.next = m /\ y.root = x.root
    BY <2>2
  <2>4. /\ x.next_ev \in {"none", "enter", "exit", "done"} /\ x.next \in Pointer
        /\ x.root \in Node
    BY DEF Iterators
  <2> QED
    BY <2>2, <2>3, <2>4 DEF Iterators
<1>4. CASE x.next_ev = "done"
  <2>1. y.next_ev = "done" /\ y.next = NULL
    BY <1>4 DEF Iterators, IterNext
  <2> QED
    BY <1>1, <1>3, <1>4, <2>1 DEF Iterators, Pointer
<1>5. CASE x.next_ev = "enter" /\ h.type[x.next] \notin LeafTypes
  <2>1. y.next_ev = Into(h, x).ev /\ y.next = Into(h, x).node
    BY <1>5 DEF Iterators, IterNext
  <2>2. IF h.first_child[x.next] = NULL
        THEN y.next_ev = "exit" /\ y.next = x.next
        ELSE y.next_ev = "enter" /\ y.next = h.first_child[x.next]
    BY <2>1 DEF Into
  <2> QED
    BY <1>1, <1>2, <1>3, <1>5, <2>2, NullAssumption DEF Iterators, Pointer
<1>6. CASE x.next_ev = "exit" \/ (x.next_ev = "enter" /\ h.type[x.next] \in LeafTypes)
  <2>1. y.next_ev = Onward(h, x).ev /\ y.next = Onward(h, x).node
    BY <1>6 DEF Iterators, IterNext
  <2>2. IF x.next = x.root THEN y.next_ev = "done" /\ y.next = NULL
        ELSE IF h.next[x.next] # NULL THEN y.next_ev = "enter" /\ y.next = h.next[x.next]
        ELSE IF h.parent[x.next] # NULL THEN y.next_ev = "exit" /\ y.next = h.parent[x.next]
        ELSE y.next_ev = "done" /\ y.next = NULL
    BY <2>1 DEF Onward
  <2> QED
    BY <1>1, <1>2, <1>3, <1>6, <2>2, NullAssumption DEF Iterators, Pointer
<1> QED
  BY <1>4, <1>5, <1>6 DEF Iterators

\* An iteration comes to its end: no iterators go round.
LEMMA Ends ==
  ASSUME NEW h, WellFormed(h), Founded(h.parent), NEW S \in SUBSET Iterators, S # {},
         \A x \in S : IterNext(h, x) \in S
  PROVE  \E x \in S : x.next_ev = "done"
<1> SUFFICES ASSUME \A x \in S : x.next_ev # "done" PROVE FALSE
  OBVIOUS
<1> DEFINE In(ev, n) == \E x \in S : x.next_ev = ev /\ x.next = n
<1>1. h \in Heap
  BY DEF WellFormed
<1>2. \A x \in S : x.next \in Node /\ x.next_ev \in {"enter", "exit"}
  BY DEF Iterators, Pointer
<1>3. \A n \in Node : In("enter", n) /\ h.type[n] \notin LeafTypes =>
        IF h.first_child[n] = NULL THEN In("exit", n) ELSE In("enter", h.first_child[n])
  BY <1>1, IterNextIs
<1>4. \A n \in Node : In("exit", n) \/ (In("enter", n) /\ h.type[n] \in LeafTypes) =>
        IF h.next[n] # NULL THEN In("enter", h.next[n])
        ELSE h.parent[n] # NULL /\ In("exit", h.parent[n])
  <2> SUFFICES ASSUME NEW n \in Node, In("exit", n) \/ (In("enter", n) /\ h.type[n] \in LeafTypes)
               PROVE  IF h.next[n] # NULL THEN In("enter", h.next[n])
                      ELSE h.parent[n] # NULL /\ In("exit", h.parent[n])
    OBVIOUS
  <2>1. PICK x \in S : /\ x.next = n
                       /\ \/ x.next_ev = "exit"
                          \/ x.next_ev = "enter" /\ h.type[n] \in LeafTypes
    <3>1. CASE In("exit", n)
      BY <3>1
    <3>2. CASE In("enter", n) /\ h.type[n] \in LeafTypes
      BY <3>2
    <3> QED
      BY <3>1, <3>2
  <2>2. IterNext(h, x) \in S /\ IterNext(h, x).next_ev # "done"
    OBVIOUS
  <2>3. x \in Iterators
    OBVIOUS
  <2> HIDE DEF In
  <2>4. PICK y : y = IterNext(h, x)
    OBVIOUS
  <2>5. x.next_ev = "exit" \/ (x.next_ev = "enter" /\ h.type[x.next] \in LeafTypes)
    BY <2>1
  <2>6. /\ (x.next = x.root \/ (h.next[x.next] = NULL /\ h.parent[x.next] = NULL))
             => y.next_ev = "done"
        /\ x.next # x.root /\ h.next[x.next] # NULL
             => y.next_ev = "enter" /\ y.next = h.next[x.next]
        /\ x.next # x.root /\ h.next[x.next] = NULL /\ h.parent[x.next] # NULL
             => y.next_ev = "exit" /\ y.next = h.parent[x.next]
    BY <1>1, <2>3, <2>4, <2>5, IterNextIs
  <2> QED
    BY <2>1, <2>2, <2>4, <2>6 DEF In
<1> DEFINE D == {c \in Node : In("enter", c) /\ ~In("exit", h.parent[c])}
<1>5. D = {}
  <2>1. ASSUME NEW c \in D PROVE h.first_child[c] \in D \/ h.next[c] \in D
    <3>1. c \in Node /\ h.first_child[c] \in Node \cup {NULL} /\ h.next[c] \in Node \cup {NULL}
      BY <1>1, Pointers
    <3> HIDE DEF In
    <3>2. CASE h.type[c] \notin LeafTypes /\ h.first_child[c] # NULL /\ ~In("exit", c)
      <4>1. In("enter", h.first_child[c]) /\ h.parent[h.first_child[c]] = c
        BY <1>3, <3>1, <3>2 DEF WellFormed, Linked, FirstLinked
      <4> QED
        BY <3>1, <3>2, <4>1
    <3>3. CASE h.type[c] \in LeafTypes \/ h.first_child[c] = NULL \/ In("exit", c)
      <4>1. In("exit", c) \/ (In("enter", c) /\ h.type[c] \in LeafTypes)
        BY <1>3, <3>1, <3>3
      <4>2. h.next[c] # NULL /\ In("enter", h.next[c])
        BY <1>4, <3>1, <4>1
      <4>3. h.parent[h.next[c]] = h.parent[c]
        BY <3>1, <4>2 DEF WellFormed, Linked, NextLinked
      <4> QED
        BY <3>1, <4>2, <4>3
    <3> QED
      BY <3>2, <3>3
  <2> QED
    BY <2>1, Descends
<1> DEFINE X == {n \in Node : In("exit", n)}
<1>6. \A c \in Node : In("enter", c) => h.parent[c] \in X
  BY <1>2, <1>5
<1>7. ASSUME NEW n \in X PROVE h.parent[n] \in X
  <2>1. n \in Node /\ h.next[n] \in Node \cup {NULL}
    BY <1>1, Pointers
  <2>2. CASE h.next[n] # NULL
    <3>1. In("enter", h.next[n])
      BY <1>4, <2>1, <2>2
    <3>2. h.parent[h.next[n]] = h.parent[n]
      BY <2>1, <2>2 DEF WellFormed, Linked, NextLinked
    <3> QED
      BY <1>6, <2>1, <2>2, <3>1, <3>2
  <2>3. CASE h.next[n] = NULL
    BY <1>2, <1>4, <2>1, <2>3
  <2> QED
    BY <2>2, <2>3
<1>8. X = {}
  BY <1>7 DEF Founded
<1> QED
  BY <1>2, <1>6, <1>8
-----------------------------------------------------------------------------
(***************************************************************************)
(* The recursive functions of the model have the values they should.       *)
(***************************************************************************)
\* Where such a loop ends.
Stop(x) == Sought(x) \/ x.ev = "done"

\* A loop that goes on to what it seeks ends, at an iterator that follows on
\* one that it had come to; until then it was on its way.
LEMMA ForwardIn ==
  ASSUME WellFormed(heap), Founded(heap.parent), NEW S \in SUBSET Iterators,
         iter \in S, \A x \in S : IterNext(heap, x) \in S,
         NEW T \in SUBSET S, IterNext(heap, iter) \in T,
         \A x \in T : Stop(x) \/ IterNext(heap, x) \in T
  PROVE  \E x \in S : Forward = IterNext(heap, x) /\ Forward \in T /\ Stop(Forward)
<1>1. \A x \in Iterators : IterNext(heap, x) \in Iterators
  BY IterNextIs DEF WellFormed
<1> DEFINE Eq(f) == f = [it \in Iterators |-> IF Sought(it) \/ it.ev = "done" THEN it
                                            ELSE f[IterNext(heap, it)]]
<1>2. \E f : Eq(f)
  <2> DEFINE C == {U \in SUBSET Iterators : \A x \in U : Stop(x) \/ IterNext(heap, x) \in U}
             X(it) == {x \in Iterators : Stop(x) /\ \A U \in C : it \in U => x \in U}
             g == [it \in Iterators |-> CHOOSE x : x \in X(it)]
  <2>1. ASSUME NEW it \in Iterators, Stop(it) PROVE g[it] = it
    <3>1. {it} \in C /\ it \in X(it)
      BY <2>1
    <3>2. X(it) = {it}
      BY <3>1
    <3> QED
      BY <3>2
  <2>2. ASSUME NEW it \in Iterators, ~Stop(it) PROVE g[it] = g[IterNext(heap, it)]
    <3> DEFINE y == IterNext(heap, it)
    <3>1. y \in Iterators
      BY <1>1
    <3>2. ASSUME NEW x \in X(it), NEW U \in C, y \in U PROVE x \in U
      <4>1. U \cup {it} \in C
        BY <3>2
      <4>2. x \in U \cup {it} /\ Stop(x)
        BY <4>1
      <4> QED
        BY <2>2, <4>2
    <3>3. ASSUME NEW x \in X(y), NEW U \in C, it \in U PROVE x \in U
      <4>1. y \in U
        BY <2>2, <3>3
      <4> QED
        BY <4>1
    <3>4. X(it) = X(y)
      BY <3>2, <3>3
    <3> QED
      BY <3>1, <3>4
  <2>3. Eq(g)
    <3> HIDE DEF C, X
    <3>1. g = [it \in Iterators |-> g[it]]
      OBVIOUS
    <3> HIDE DEF g
    <3>2. \A it \in Iterators : g[it] = IF Sought(it) \/ it.ev = "done" THEN it
                                       ELSE g[IterNext(heap, it)]
      BY <2>1, <2>2 DEF Stop
    <3> QED
      BY <3>1, <3>2
  <2> QED
    BY <2>3
<1>3. PICK f : f = CHOOSE e : Eq(e)
  OBVIOUS
<1>4. Eq(f) /\ Forward = f[IterNext(heap, iter)]
  BY <1>2, <1>3 DEF Forward
<1>5. \A it \in Iterators : f[it] = IF Stop(it) THEN it ELSE f[IterNext(heap, it)]
  BY <1>4 DEF Stop
<1> HIDE DEF Eq
<1> DEFINE Good(y) == y \in T /\ Stop(y) /\ \E x \in S : y = IterNext(heap, x)
           B == {x \in T : (\E w \in S : x = IterNext(heap, w)) /\ ~Good(f[x])}
<1>6. ASSUME NEW x \in B PROVE ~Stop(x) /\ IterNext(heap, x) \in B
  BY <1>5
<1>7. B = {}
  <2> SUFFICES ASSUME B # {} PROVE FALSE
    OBVIOUS
  <2>1. PICK x \in B : x.next_ev = "done"
    <3>1. B \in SUBSET Iterators
      OBVIOUS
    <3> HIDE DEF B
    <3> QED
      BY <1>6, <3>1, Ends
  <2>2. IterNext(heap, x).ev = "done"
    BY <2>1, IterNextIs DEF WellFormed
  <2>3. Stop(IterNext(heap, x))
    BY <2>2 DEF Stop
  <2> QED
    BY <1>6, <2>3
<1>8. Good(f[IterNext(heap, iter)])
  BY <1>7
<1> QED
  BY <1>4, <1>8

\* It stays among the iterators it can come to at all.
LEMMA ForwardIs ==
  ASSUME WellFormed(heap), Founded(heap.parent), NEW S \in SUBSET Iterators,
         iter \in S, \A x \in S : IterNext(heap, x) \in S
  PROVE  \E x \in S : Forward = IterNext(heap, x) /\ Forward \in S /\ Stop(Forward)
<1>1. S \in SUBSET S /\ IterNext(heap, iter) \in S
  OBVIOUS
<1> QED
  BY <1>1, ForwardIn

\* m and what first_child and next reach from it.
Reached(h, m) ==
  IF m = NULL THEN {}
  ELSE {x \in Node : \A T \in SUBSET Node :
          (/\ m \in T
           /\ \A y \in T : h.first_child[y] \in T \cup {NULL} /\ h.next[y] \in T \cup {NULL})
          => x \in T}

\* It is what a recursive definition says.
LEMMA ReachedStep ==
  ASSUME NEW h \in Heap
  PROVE  /\ Reached(h, NULL) = {}
         /\ \A m \in Node : Reached(h, m) = {m} \cup Reached(h, h.first_child[m])
                                             \cup Reached(h, h.next[m])
         /\ \A m \in Node : \A y \in Reached(h, m) :
              /\ h.first_child[y] \in Reached(h, m) \cup {NULL}
              /\ h.next[y] \in Reached(h, m) \cup {NULL}
<1> DEFINE C == {T \in SUBSET Node : \A y \in T : h.first_child[y] \in T \cup {NULL}
                                                /\ h.next[y] \in T \cup {NULL}}
<1>1. Reached(h, NULL) = {}
  BY DEF Reached
<1>2. \A m \in Node : Reached(h, m) = {x \in Node : \A T \in C : m \in T => x \in T}
  BY NullAssumption DEF Reached
<1>3. \A m \in Node : Reached(h, m) \in C /\ m \in Reached(h, m)
  <2> SUFFICES ASSUME NEW m \in Node PROVE Reached(h, m) \in C /\ m \in Reached(h, m)
    OBVIOUS
  <2> DEFINE R == {x \in Node : \A T \in C : m \in T => x \in T}
  <2>1. ASSUME NEW y \in R PROVE h.first_child[y] \in R \cup {NULL} /\ h.next[y] \in R \cup {NULL}
    <3>1. h.first_child[y] \in Node \cup {NULL} /\ h.next[y] \in Node \cup {NULL}
      BY Pointers
    <3> QED
      BY <3>1
  <2> QED
    BY <1>2, <2>1
<1>4. ASSUME NEW m \in Node
      PROVE  Reached(h, m) = {m} \cup Reached(h, h.first_child[m]) \cup Reached(h, h.next[m])
  <2> DEFINE a == h.first_child[m]
             b == h.next[m]
             U == {m} \cup Reached(h, a) \cup Reached(h, b)
  <2>1. a \in Node \cup {NULL} /\ b \in Node \cup {NULL}
    BY Pointers
  <2> HIDE DEF a, b
  <2>2. Reached(h, a) \in C /\ Reached(h, b) \in C /\ a \in Reached(h, a) \cup {NULL}
        /\ b \in Reached(h, b) \cup {NULL}
    BY <1>1, <1>3, <2>1
  <2>3. U \in C /\ m \in U
    <3>1. U \in SUBSET Node
      BY <2>2
    <3>2. \A y \in Reached(h, a) : h.first_child[y] \in U \cup {NULL} /\ h.next[y] \in U \cup {NULL}
      BY <2>2
    <3>3. \A y \in Reached(h, b) : h.first_child[y] \in U \cup {NULL} /\ h.next[y] \in U \cup {NULL}
      BY <2>2
    <3>4. h.first_child[m] \in U \cup {NULL} /\ h.next[m] \in U \cup {NULL}
      BY <2>2 DEF a, b
    <3>5. \A y \in U : h.first_child[y] \in U \cup {NULL} /\ h.next[y] \in U \cup {NULL}
      BY <3>2, <3>3, <3>4
    <3>6. m \in U
      OBVIOUS
    <3> HIDE DEF U
    <3> QED
      BY <3>1, <3>5, <3>6
  <2>4. Reached(h, m) \subseteq U
    <3> HIDE DEF C, U
    <3> QED
      BY <1>2, <2>3
  <2>5. a \in Reached(h, m) \cup {NULL} /\ b \in Reached(h, m) \cup {NULL}
    BY <1>3 DEF a, b
  <2>6. Reached(h, a) \subseteq Reached(h, m) /\ Reached(h, b) \subseteq Reached(h, m)
    BY <1>1, <1>2, <1>3, <2>1, <2>5
  <2> QED
    BY <1>3, <2>4, <2>6 DEF a, b
<1> QED
  BY <1>1, <1>3, <1>4

\* The recursion of S_free_nodes finds what is below a node.
LEMMA BelowIs ==
  ASSUME NEW h, WellFormed(h), Founded(h.parent), NEW n \in Node
  PROVE  BelowOf(h, n) = {n} \cup Reached(h, h.first_child[n])
<1> DEFINE Eq(f) == f = [m \in Pointer |-> IF m = NULL THEN {}
                          ELSE {m} \cup f[h.first_child[m]] \cup f[h.next[m]]]
<1>1. h \in Heap
  BY DEF WellFormed
<1>2. \A m \in Node : h.first_child[m] \in Pointer /\ h.next[m] \in Pointer
  BY <1>1 DEF Heap
<1>3. Eq([m \in Pointer |-> Reached(h, m)])
  BY <1>1, <1>2, ReachedStep, NullAssumption DEF Pointer
<1>4. PICK f : f = CHOOSE e : Eq(e)
  OBVIOUS
<1>5. Eq(f) /\ BelowOf(h, n) = {n} \cup f[h.first_child[n]]
  BY <1>3, <1>4 DEF BelowOf
<1> DEFINE Z == {m \in Node : f[m] # Reached(h, m)}
<1>6. f[NULL] = Reached(h, NULL)
  BY <1>1, <1>5, ReachedStep DEF Pointer
<1>7. Z = {}
  <2> SUFFICES ASSUME Z # {} PROVE FALSE
    OBVIOUS
  <2>1. PICK m \in Z : h.first_child[m] \notin Z /\ h.next[m] \notin Z
    BY Descends
  <2>2. f[m] = {m} \cup f[h.first_child[m]] \cup f[h.next[m]]
    BY <1>5, <2>1, NullAssumption DEF Pointer
  <2>3. /\ f[h.first_child[m]] = Reached(h, h.first_child[m])
        /\ f[h.next[m]] = Reached(h, h.next[m])
    BY <1>2, <1>6, <2>1 DEF Pointer
  <2>4. f[m] # Reached(h, m) /\ m \in Node
    OBVIOUS
  <2> HIDE DEF Z
  <2>5. Reached(h, m) = {m} \cup Reached(h, h.first_child[m]) \cup Reached(h, h.next[m])
    BY <1>1, <2>4, ReachedStep
  <2> QED
    BY <2>2, <2>3, <2>4, <2>5
<1> QED
  BY <1>2, <1>5, <1>6, <1>7 DEF Pointer

-----------------------------------------------------------------------------
(***************************************************************************)
(* What the calls on the document do to it.                                *)
(***************************************************************************)
\* A heap that holds a document.
Fine(h) == WellFormed(h) /\ Founded(h.parent) /\ h.type[root] = "document"

\* The document is at the top of its tree.
LEMMA FineRoot ==
  ASSUME NEW h, Fine(h)
  PROVE  /\ h \in Heap /\ root \in Node /\ root \in Live(h) /\ h.parent[root] = NULL
         /\ AncestorsOrSelf(h, root) = {root}
<1>1. h \in Heap /\ root \in Node /\ root \in Live(h)
  BY AddressAssumption DEF Fine, WellFormed, root, Live
<1>2. h.parent[root] = NULL
  BY <1>1 DEF Fine, WellFormed, Contained, CanContainType
<1>3. AncestorsOrSelf(h, NULL) = {}
  <2> DEFINE S == {}
  <2>1. S \in SUBSET Node /\ NULL \in S \cup {NULL} /\ \A m \in S : h.parent[m] \in S \cup {NULL}
    OBVIOUS
  <2> HIDE DEF S
  <2>2. AncestorsOrSelf(h, NULL) \subseteq S
    BY <2>1, AncestorsWithin
  <2> QED
    BY <2>2 DEF S
<1> QED
  BY <1>1, <1>2, <1>3, AncestorsStep

\* References and texts have no children.
LEMMA Barren ==
  ASSUME NEW h, WellFormed(h), NEW n \in Node, h.type[n] \in {"text", "footnote_reference"}
  PROVE  h.first_child[n] = NULL
<1> SUFFICES ASSUME h.first_child[n] # NULL PROVE FALSE
  OBVIOUS
<1> DEFINE c == h.first_child[n]
<1>1. c \in Node /\ h.parent[c] = n
  BY Pointers DEF WellFormed, Linked, FirstLinked
<1> HIDE DEF c
<1>2. CanContainType(h.type[n], h.type[c])
  BY <1>1, NullAssumption DEF WellFormed, Contained
<1> QED
  BY <1>2, Zenon DEF CanContainType, BlockTypes, InlineTypes

\* The recursion of S_free_nodes comes to what is below the node.
LEMMA FreeTreeLinks ==
  ASSUME NEW h, Fine(h), NEW n \in Live(h)
  PROVE  LET v == Unlink(h, n)
             F == BelowOf(h, n)
         IN  /\ Unlinked(h, v, n) /\ Descendants(h, F, n) /\ Released(v, FreeTree(h, n), F)
             /\ FreeTree(h, n) = FreeNode(h, n)
<1> DEFINE v == Unlink(h, n)
           F == Freed(h, n)
           R == Reached(h, h.first_child[n])
<1>1. h \in Heap /\ n \in Node /\ WellFormed(h) /\ Founded(h.parent)
  BY DEF Fine, WellFormed, Live
<1>2. /\ WellFormed(v) /\ v.parent[n] = NULL /\ Descendants(v, F, n)
      /\ F = Subtree(v, n) /\ Released(v, FreeNode(h, n), F)
  BY <1>1, FreeReleases
<1>3. Unlinked(h, v, n)
  BY <1>1, UnlinkFields
<1> HIDE DEF v, F
<1>4. \A m \in Node : m # n => v.parent[m] = h.parent[m]
  BY <1>3 DEF Unlinked
<1>5. h.parent[n] \notin F
  <2>1. F \in SUBSET Node /\ F # {}
    BY <1>2 DEF Descendants, Live
  <2>2. PICK m \in F : h.parent[m] \notin F
    BY <1>1, <2>1 DEF Founded
  <2>3. m = n
    BY <1>2, <1>4, <2>1, <2>2 DEF Descendants
  <2> QED
    BY <2>2, <2>3
<1>6. Descendants(h, F, n)
  <2>1. Live(v) = Live(h)
    BY <1>3 DEF Unlinked, Live
  <2>2. \A x \in Node : h.parent[x] \in F => x \in F
    BY <1>2, <1>4 DEF Descendants
  <2>3. \A x \in F \ {n} : h.parent[x] \in F
    BY <1>2, <1>4 DEF Descendants, Live
  <2> QED
    BY <1>2, <1>5, <2>1, <2>2, <2>3 DEF Descendants
<1>7. F \subseteq Node /\ n \in F
  BY <1>6 DEF Descendants, Live
<1>8. \A x \in F : h.first_child[x] \in (F \ {n}) \cup {NULL}
  <2> SUFFICES ASSUME NEW x \in F, h.first_child[x] # NULL
               PROVE  h.first_child[x] \in F \ {n}
    OBVIOUS
  <2>1. h.first_child[x] \in Node /\ h.parent[h.first_child[x]] = x
    BY <1>1, <1>7, Pointers DEF WellFormed, Linked, FirstLinked
  <2> QED
    BY <1>5, <1>6, <2>1 DEF Descendants
<1>9. \A x \in F \ {n} : h.next[x] \in (F \ {n}) \cup {NULL}
  <2> SUFFICES ASSUME NEW x \in F \ {n}, h.next[x] # NULL
               PROVE  h.next[x] \in F \ {n}
    OBVIOUS
  <2>1. h.next[x] \in Node /\ h.parent[h.next[x]] = h.parent[x]
    BY <1>1, <1>7, Pointers DEF WellFormed, Linked, NextLinked
  <2>2. h.parent[x] \in F
    BY <1>6 DEF Descendants
  <2> QED
    BY <1>5, <1>6, <2>1, <2>2 DEF Descendants
<1>10. R \subseteq F \ {n}
  <2>1. h.first_child[n] \in (F \ {n}) \cup {NULL}
    BY <1>7, <1>8
  <2> QED
    BY <1>7, <1>8, <1>9, <2>1 DEF Reached
<1>11. F \subseteq {n} \cup R
  <2> DEFINE U == {n} \cup R
  <2>1. h.first_child[n] \in R \cup {NULL}
    BY <1>1, ReachedStep, Pointers
  <2>2. \A x \in R : h.first_child[x] \in R \cup {NULL} /\ h.next[x] \in R \cup {NULL}
    BY <1>1, ReachedStep, Pointers
  <2>3. \A x \in U : v.first_child[x] = h.first_child[x]
    BY <1>3, <1>5, <1>7, <1>10 DEF Unlinked
  <2>4. \A x \in R : v.next[x] = h.next[x]
    <3> SUFFICES ASSUME NEW x \in R, x = h.prev[n] PROVE FALSE
      BY <1>3, <1>7, <1>10 DEF Unlinked
    <3>1. h.parent[x] = h.parent[n]
      BY <1>1, <1>7, <1>10, NullAssumption DEF WellFormed, Linked, PrevLinked
    <3> QED
      BY <1>5, <1>6, <1>10, <3>1 DEF Descendants
  <2>5. U \in SUBSET Node /\ n \in U
    BY <1>7, <1>10
  <2> HIDE DEF R
  <2>6. \A x \in U : v.first_child[x] \in U \cup {NULL}
    BY <2>1, <2>2, <2>3
  <2>7. \A x \in U \ {n} : v.next[x] \in U \cup {NULL}
    BY <2>2, <2>4
  <2> HIDE DEF U
  <2>8. Subtree(v, n) \subseteq U
    BY <2>5, <2>6, <2>7, SubtreeLeast
  <2> QED
    BY <1>2, <2>8 DEF U
<1>12. BelowOf(h, n) = F
  <2>1. BelowOf(h, n) = {n} \cup R
    BY <1>1, BelowIs
  <2> HIDE DEF R
  <2> QED
    BY <1>7, <1>10, <1>11, <2>1
<1>13. FreeTree(h, n) = FreeNode(h, n)
  BY <1>12 DEF FreeTree, FreeNode, F
<1> QED
  BY <1>2, <1>3, <1>6, <1>12, <1>13 DEF v

\* cmark_node_free frees a node with all that is below it, and nothing else.
LEMMA FreeTreeIs ==
  ASSUME NEW h, Fine(h), NEW n \in Live(h), n # root
  PROVE  LET w == FreeTree(h, n)
             F == BelowOf(h, n)
         IN  /\ Fine(w) /\ Descendants(h, F, n) /\ Live(w) = Live(h) \ F
             /\ \A m \in Node \ F : w.type[m] = h.type[m] /\ w.parent[m] = h.parent[m]
<1> DEFINE v == Unlink(h, n)
           F == BelowOf(h, n)
<1>1. h \in Heap /\ n \in Node /\ WellFormed(h)
  BY DEF Fine, WellFormed, Live
<1>2. /\ Unlinked(h, v, n) /\ Descendants(h, F, n) /\ Released(v, FreeTree(h, n), F)
      /\ FreeTree(h, n) = FreeNode(h, n) /\ F \subseteq Node /\ n \in F
  BY FreeTreeLinks DEF Descendants, Live
<1> HIDE DEF v, F
<1>3. \A m \in Node : m # n => v.parent[m] = h.parent[m]
  BY <1>2 DEF Unlinked
<1> DEFINE w == FreeNode(h, n)
<1>4. Released(v, w, F)
  BY <1>2
<1>5. WellFormed(w)
  BY <1>1, FreeWellFormed
<1>6. /\ \A m \in F : w.type[m] = "none" /\ w.parent[m] = NULL
      /\ \A m \in Node \ F : w.type[m] = h.type[m] /\ w.parent[m] = h.parent[m]
  <2>1. \A m \in F : w.type[m] = "none" /\ Targets(w, m) = {NULL}
    BY <1>2, <1>4 DEF Released
  <2>2. \A m \in Node \ F : w.type[m] = v.type[m] /\ w.parent[m] = v.parent[m]
    BY <1>2, <1>4 DEF Released
  <2>3. \A m \in F : w.parent[m] = NULL
    BY <2>1 DEF Targets
  <2> HIDE DEF w
  <2>4. v.type = h.type
    BY <1>2 DEF Unlinked
  <2> QED
    BY <1>2, <1>3, <2>1, <2>2, <2>3, <2>4
<1> HIDE DEF w
<1>7. Live(w) = Live(h) \ F
  BY <1>2, <1>6 DEF Live
<1>8. Founded(w.parent)
  <2>1. \A m \in Node : w.parent[m] \in {h.parent[m], NULL}
    BY <1>6
  <2> QED
    BY <2>1, FoundedShrinks DEF Fine
<1>9. root \notin F
  BY <1>2, FineRoot, NullAssumption DEF Descendants, Live
<1>10. Fine(w)
  BY <1>5, <1>6, <1>8, <1>9, FineRoot DEF Fine
<1> QED
  BY <1>2, <1>6, <1>7, <1>10 DEF w, F

\* There is an address for calloc to return.
LEMMA FreeAddressIs ==
  ASSUME NEW h, Cardinality(Live(h)) <= MaxSize
  PROVE  FreeAddress(h) \in Node \ Live(h)
<1> DEFINE S == Node \ Live(h)
<1>1. S # {}
  <2> SUFFICES ASSUME S = {} PROVE FALSE
    OBVIOUS
  <2>1. Live(h) = Node
    BY DEF Live
  <2>2. Cardinality(Node) \in Nat
    BY SizeAssumption, FS_CardinalityType
  <2> QED
    BY <2>1, <2>2, SizeAssumption
<1>2. S \in SUBSET Nat
  BY AddressAssumption
<1>3. \E n \in S : \A m \in S : n <= m
  BY <1>1, <1>2, LeastNumber
<1> QED
  BY <1>3 DEF FreeAddress

\* add_child: a new node below one that may contain it.
Added(h, w, n) ==
  /\ Fine(w) /\ n \in Node \ Live(h) /\ Live(w) = Live(h) \cup {n}
  /\ \A m \in Live(h) : w.type[m] = h.type[m] /\ w.parent[m] = h.parent[m]

\* That is what becomes of the document.
LEMMA AddedIs ==
  ASSUME NEW h, Fine(h), NEW p \in Live(h), NEW n \in Node \ Live(h),
         NEW t \in NodeTypes \ {"none"}, CanContainType(h.type[p], t)
  PROVE  LET w == AppendChild(Fresh(h, n, t), p, n)
         IN  Added(h, w, n) /\ w.type[n] = t /\ w.parent[n] = p
<1> DEFINE v == Fresh(h, n, t)
           w == AppendChild(v, p, n)
<1>1. h \in Heap /\ p \in Node /\ WellFormed(h) /\ Founded(h.parent) /\ p # n
  BY DEF Fine, WellFormed, Live
<1>2. /\ Live(v) = Live(h) \cup {n}
      /\ \A m \in Node : v.type[m] = IF m = n THEN t ELSE h.type[m]
      /\ \A m \in Node : v.parent[m] = IF m = n THEN NULL ELSE h.parent[m]
  BY <1>1, FreshFields
<1>3. WellFormed(v)
  BY <1>1, FreshWellFormed
<1> HIDE DEF v
<1>4. v \in Heap /\ p \in Live(v) /\ n \in Live(v) /\ CanContainType(v.type[p], v.type[n])
  BY <1>1, <1>2, <1>3 DEF WellFormed
<1>5. /\ WellFormed(w) /\ w \in Heap /\ w.type = v.type /\ Live(w) = Live(v)
      /\ \A m \in Node : w.parent[m] = IF m = n THEN p ELSE v.parent[m]
  BY <1>3, <1>4, Appends
<1> HIDE DEF w
<1>6. h.parent[n] = NULL
  BY <1>1, ParentsLive
<1>7. Founded(w.parent)
  <2>1. n \notin AncestorsOrSelf(h, p)
    <3>1. Live(h) \in SUBSET Node /\ p \in Live(h) \cup {NULL}
      BY DEF Live
    <3>2. \A m \in Live(h) : h.parent[m] \in Live(h) \cup {NULL}
      BY <1>1, ParentsLive DEF Live
    <3> QED
      BY <3>1, <3>2, AncestorsWithin
  <2>2. \A m \in Node : w.parent[m] = IF m = n THEN p ELSE h.parent[m]
    BY <1>2, <1>5
  <2> QED
    BY <1>1, <2>1, <2>2, FoundedInsert
<1>8. root \in Live(h) /\ h.type[root] = "document"
  BY FineRoot DEF Fine
<1>9. w.type[root] = "document"
  BY <1>2, <1>5, <1>8 DEF Live
<1>10. \A m \in Live(h) : w.type[m] = h.type[m] /\ w.parent[m] = h.parent[m]
  BY <1>2, <1>5 DEF Live
<1>11. w.parent[n] = p /\ w.type[n] = t
  BY <1>2, <1>5
<1> QED
  BY <1>2, <1>5, <1>7, <1>9, <1>10, <1>11 DEF Added, Fine, w, v

\* All nodes hang below the document.
Whole(h) == \A n \in Live(h) \ {root} : h.parent[n] # NULL

\* So does a branch that is added.
LEMMA GrownIs ==
  ASSUME Fine(heap), Whole(heap), NEW p \in live, NEW shape \in Shapes,
         Cardinality(live) + Len(shape) <= MaxSize, CanContainType(heap.type[p], Head(shape))
  PROVE  LET w == Grown(p, shape)
         IN  /\ Fine(w) /\ Whole(w) /\ live \subseteq Live(w)
             /\ Cardinality(Live(w)) <= MaxSize
             /\ \A m \in live : w.type[m] = heap.type[m]
             /\ \A m \in Live(w) \ live : w.type[m] \in ToSet(shape)
<1> DEFINE K == Len(shape)
           base == [h |-> heap, at |-> p]
           One(s, t) == LET n == FreeAddress(s.h)
                        IN  [h |-> AppendChild(Fresh(s.h, n, t), s.at, n), at |-> n]
           Eq(f, j) == f = [k \in 0 .. j |-> IF k = 0 THEN base ELSE One(f[k - 1], shape[k])]
<1>1. /\ shape \in Seq(NodeTypes \ {"none"}) /\ K \in Nat /\ K >= 1
      /\ \A k \in 1 .. K : shape[k] \in NodeTypes \ {"none"}
      /\ \A k \in 1 .. K - 1 : CanContainType(shape[k], shape[k + 1])
      /\ CanContainType(heap.type[p], shape[1])
  <2>1. shape \in Seq(NodeTypes \ {"none"}) /\ shape # <<>>
    BY ShapesAssumption
  <2>2. K \in Nat /\ K >= 1 /\ \A k \in 1 .. K : shape[k] \in NodeTypes \ {"none"}
    BY <2>1
  <2>3. Head(shape) = shape[1]
    BY <2>1
  <2> QED
    BY <2>1, <2>2, <2>3, ShapesAssumption
<1>2. \E f : Eq(f, K)
  <2> DEFINE Bad == {j \in 0 .. K : ~\E f : Eq(f, j)}
  <2> SUFFICES ASSUME Bad # {} PROVE FALSE
    BY <1>1
  <2>1. PICK j \in Bad : \A k \in Bad : j <= k
    <3>1. Bad \in SUBSET Nat
      BY <1>1
    <3> HIDE DEF Bad
    <3> QED
      BY <3>1, LeastNumber
  <2> HIDE DEF One, base
  <2>2. j # 0
    <3>1. Eq([k \in 0 .. 0 |-> base], 0)
      OBVIOUS
    <3> QED
      BY <3>1
  <2>3. j - 1 \in 0 .. K /\ j - 1 \notin Bad
    <3>1. j \in 0 .. K
      OBVIOUS
    <3> HIDE DEF Bad, Eq
    <3>2. j - 1 \in 0 .. K /\ ~(j <= j - 1)
      BY <1>1, <2>2, <3>1
    <3> QED
      BY <2>1, <3>2
  <2>4. PICK f : Eq(f, j - 1)
    BY <2>3
  <2> DEFINE g == [k \in 0 .. j |-> IF k = j THEN One(f[j - 1], shape[j]) ELSE f[k]]
  <2>5. \A k \in 0 .. j - 1 : g[k] = f[k]
    BY <1>1, <2>2
  <2>6. \A k \in 0 .. j : g[k] = IF k = 0 THEN base ELSE One(g[k - 1], shape[k])
    <3> SUFFICES ASSUME NEW k \in 0 .. j
                 PROVE  g[k] = IF k = 0 THEN base ELSE One(g[k - 1], shape[k])
      OBVIOUS
    <3>1. j \in Nat /\ j >= 1
      BY <1>1, <2>2
    <3>2. CASE k = j
      <4>1. g[k] = One(f[j - 1], shape[j]) /\ g[j - 1] = f[j - 1]
        BY <2>5, <3>1, <3>2
      <4> QED
        BY <3>1, <3>2, <4>1
    <3>3. CASE k # j
      <4>1. k \in 0 .. j - 1 /\ (k # 0 => k - 1 \in 0 .. j - 1)
        BY <3>1, <3>3
      <4> QED
        BY <2>4, <2>5, <4>1
    <3> QED
      BY <3>2, <3>3
  <2>7. g = [k \in 0 .. j |-> g[k]]
    OBVIOUS
  <2> HIDE DEF g
  <2>8. Eq(g, j)
    BY <2>6, <2>7
  <2> QED
    BY <2>8
<1>3. PICK f : f = CHOOSE e : Eq(e, K)
  OBVIOUS
<1>4. Eq(f, K) /\ Grown(p, shape) = f[K].h
  BY <1>2, <1>3 DEF Grown
<1>5. f[0] = base /\ \A k \in 1 .. K : f[k] = One(f[k - 1], shape[k])
  <2>1. f = [k \in 0 .. K |-> IF k = 0 THEN base ELSE One(f[k - 1], shape[k])]
    BY <1>4
  <2> HIDE DEF Eq, One, base
  <2>2. 0 \in 0 .. K /\ \A k \in 1 .. K : k \in 0 .. K /\ k # 0
    BY <1>1
  <2>3. \A k \in 0 .. K : f[k] = IF k = 0 THEN base ELSE One(f[k - 1], shape[k])
    BY <2>1
  <2> QED
    BY <2>2, <2>3
<1> HIDE DEF Eq
<1> DEFINE G(k) == f[k].h
           Right(k) == /\ Fine(G(k)) /\ Whole(G(k)) /\ live \subseteq Live(G(k))
                       /\ Cardinality(Live(G(k))) = Cardinality(live) + k
                       /\ \A m \in live : G(k).type[m] = heap.type[m]
                       /\ \A m \in Live(G(k)) \ live : G(k).type[m] \in ToSet(shape)
                       /\ f[k].at \in Live(G(k))
                       /\ k < K => CanContainType(G(k).type[f[k].at], shape[k + 1])
<1>6. Cardinality(live) \in Nat /\ IsFiniteSet(live)
  BY SizeAssumption, FS_Subset, FS_CardinalityType DEF live, Live
<1>7. Right(0)
  BY <1>1, <1>5, <1>6 DEF live
<1>8. ASSUME NEW k \in 1 .. K, Right(k - 1) PROVE Right(k)
  <2> DEFINE h == G(k - 1)
             q == f[k - 1].at
             n == FreeAddress(h)
             w == G(k)
             t == shape[k]
  <2>1. k - 1 \in 0 .. K - 1 /\ k - 1 + 1 = k
    BY <1>1
  <2>2. /\ Fine(h) /\ Whole(h) /\ live \subseteq Live(h)
        /\ Cardinality(Live(h)) = Cardinality(live) + (k - 1)
        /\ \A m \in live : h.type[m] = heap.type[m]
        /\ \A m \in Live(h) \ live : h.type[m] \in ToSet(shape)
        /\ q \in Live(h) /\ CanContainType(h.type[q], t)
    BY <1>1, <1>8, <2>1
  <2>3. w = AppendChild(Fresh(h, n, t), q, n) /\ f[k].at = n
    <3>1. f[k] = One(f[k - 1], shape[k])
      BY <1>5
    <3> QED
      BY <3>1
  <2>4. t \in NodeTypes \ {"none"}
    BY <1>1
  <2>5. Cardinality(Live(h)) <= MaxSize
    BY <1>1, <1>6, <2>2, SizeAssumption
  <2> HIDE DEF h, q, n, w, t
  <2>6. n \in Node \ Live(h)
    BY <2>5, FreeAddressIs DEF n
  <2>7. Added(h, w, n) /\ w.type[n] = t /\ w.parent[n] = q
    BY <2>2, <2>3, <2>4, <2>6, AddedIs
  <2>8. Cardinality(Live(w)) = Cardinality(Live(h)) + 1
    <3>1. IsFiniteSet(Live(h))
      BY SizeAssumption, FS_Subset DEF Live
    <3> QED
      BY <2>6, <2>7, <3>1, FS_AddElement DEF Added
  <2>9. Whole(w)
    <3>1. q # NULL
      BY <2>2, NullAssumption DEF Live
    <3> QED
      BY <2>2, <2>7, <3>1 DEF Whole, Added
  <2>10. k < K => CanContainType(w.type[n], shape[k + 1])
    BY <1>1, <2>7 DEF t
  <2>11. /\ Fine(w) /\ live \subseteq Live(w) /\ n \in Live(w)
         /\ \A m \in live : w.type[m] = heap.type[m]
    BY <2>2, <2>7 DEF Added
  <2>12. \A m \in Live(w) \ live : w.type[m] \in ToSet(shape)
    <3>1. t \in ToSet(shape)
      BY <1>1 DEF t, ToSet
    <3> QED
      BY <2>2, <2>7, <3>1 DEF Added
  <2>13. Cardinality(Live(w)) = Cardinality(live) + k
    BY <1>1, <1>6, <2>2, <2>8
  <2> QED
    BY <2>3, <2>9, <2>10, <2>11, <2>13, <2>12 DEF w
<1> HIDE DEF Right, One, base
<1>9. Right(K)
  <2> DEFINE Bad == {k \in 0 .. K : ~Right(k)}
  <2> SUFFICES ASSUME Bad # {} PROVE FALSE
    BY <1>1
  <2>1. PICK k \in Bad : \A j \in Bad : k <= j
    <3>1. Bad \in SUBSET Nat
      BY <1>1
    <3> HIDE DEF Bad
    <3> QED
      BY <3>1, LeastNumber
  <2>2. k \in 1 .. K /\ k - 1 \in 0 .. K /\ k - 1 \notin Bad
    BY <1>1, <1>7, <2>1
  <2> QED
    BY <1>8, <2>1, <2>2
<1> QED
  BY <1>4, <1>6, <1>9 DEF Right

\* A used definition becomes the last child of the document.
LEMMA MovedIs ==
  ASSUME NEW h, Fine(h), NEW d \in Live(h), h.type[d] = "footnote_definition"
  PROVE  LET w == AppendChild(h, root, d)
         IN  /\ Fine(w) /\ w.type = h.type /\ Live(w) = Live(h)
             /\ \A m \in Node : w.parent[m] = IF m = d THEN root ELSE h.parent[m]
<1> DEFINE w == AppendChild(h, root, d)
<1>1. h \in Heap /\ d \in Node /\ WellFormed(h) /\ Founded(h.parent) /\ h.type[root] = "document"
  BY DEF Fine, WellFormed, Live
<1>2. root \in Live(h) /\ root \in Node /\ d \notin AncestorsOrSelf(h, root)
  BY <1>1, FineRoot
<1>3. CanContainType(h.type[root], h.type[d])
  BY <1>1 DEF CanContainType, BlockTypes
<1>4. /\ WellFormed(w) /\ w.type = h.type /\ Live(w) = Live(h)
      /\ \A m \in Node : w.parent[m] = IF m = d THEN root ELSE h.parent[m]
  BY <1>1, <1>2, <1>3, Appends
<1> HIDE DEF w
<1>5. Founded(w.parent)
  BY <1>1, <1>2, <1>4, FoundedInsert
<1> QED
  BY <1>1, <1>4, <1>5 DEF Fine, w

\* An unused one becomes a tree of its own.
LEMMA UnlinkedIs ==
  ASSUME NEW h, Fine(h), NEW d \in Live(h)
  PROVE  LET w == Unlink(h, d)
         IN  /\ Fine(w) /\ w.type = h.type /\ Live(w) = Live(h)
             /\ \A m \in Node : w.parent[m] = IF m = d THEN NULL ELSE h.parent[m]
<1> DEFINE w == Unlink(h, d)
<1>1. h \in Heap /\ d \in Node /\ WellFormed(h) /\ Founded(h.parent) /\ h.type[root] = "document"
  BY DEF Fine, WellFormed, Live
<1>2. WellFormed(w) /\ Unlinked(h, w, d)
  BY <1>1, UnlinkFields, UnlinkWellFormed
<1> HIDE DEF w
<1>3. /\ w.type = h.type /\ Live(w) = Live(h)
      /\ \A m \in Node : w.parent[m] = IF m = d THEN NULL ELSE h.parent[m]
  BY <1>2 DEF Unlinked, Live
<1>4. Founded(w.parent)
  <2>1. \A m \in Node : w.parent[m] \in {h.parent[m], NULL}
    BY <1>3
  <2> QED
    BY <1>1, <2>1, FoundedShrinks
<1> QED
  BY <1>1, <1>2, <1>3, <1>4 DEF Fine, w

\* A text takes the place of a reference.
LEMMA RestoredIs ==
  ASSUME NEW h, Fine(h), NEW n \in Live(h), h.type[n] = "footnote_reference",
         h.parent[n] # NULL, NEW t \in Node \ Live(h)
  PROVE  LET w == FreeTree(InsertAfter(Fresh(h, t, "text"), n, t), n)
         IN  /\ Fine(w) /\ Live(w) = (Live(h) \cup {t}) \ {n}
             /\ \A m \in Live(h) \ {n} : w.type[m] = h.type[m] /\ w.parent[m] = h.parent[m]
             /\ w.parent[t] = h.parent[n] /\ w.type[t] = "text"
<1> DEFINE v == Fresh(h, t, "text")
           i == InsertAfter(v, n, t)
           w == FreeTree(i, n)
           p == h.parent[n]
<1>1. h \in Heap /\ n \in Node /\ WellFormed(h) /\ Founded(h.parent) /\ n # t
  BY DEF Fine, WellFormed, Live
<1>2. /\ Live(v) = Live(h) \cup {t}
      /\ \A m \in Node : v.type[m] = IF m = t THEN "text" ELSE h.type[m]
      /\ \A m \in Node : v.parent[m] = IF m = t THEN NULL ELSE h.parent[m]
  BY <1>1, FreshFields DEF NodeTypes, InlineTypes
<1>3. WellFormed(v) /\ v \in Heap
  BY <1>1, FreshWellFormed DEF NodeTypes, InlineTypes, WellFormed
<1> HIDE DEF v
<1>4. p \in Live(h) /\ p \in Node
  BY <1>1, ParentsLive DEF Live
<1>5. CanContainType(h.type[p], "text")
  <2>1. CanContainType(h.type[p], "footnote_reference")
    BY <1>1 DEF WellFormed, Contained
  <2> QED
    BY <2>1 DEF CanContainType, BlockTypes, InlineTypes, CellTypes
<1>6. /\ n \in Live(v) /\ t \in Live(v) /\ v.parent[n] = p /\ v.type[t] = "text"
      /\ v.type[p] = h.type[p]
  BY <1>1, <1>2, <1>4
<1>7. WellFormed(i)
  BY <1>1, <1>3, <1>5, <1>6, InsertAfterWellFormed
<1>8. i.type = v.type /\ \A m \in Node : i.parent[m] = IF m = t THEN p ELSE v.parent[m]
  BY <1>1, <1>3, <1>6, RelinkedTypes, Parents
<1> HIDE DEF i, p
<1>9. Founded(i.parent)
  <2>1. t \notin AncestorsOrSelf(h, p)
    <3>1. Live(h) \in SUBSET Node /\ p \in Live(h) \cup {NULL}
      BY <1>4 DEF Live
    <3>2. \A m \in Live(h) : h.parent[m] \in Live(h) \cup {NULL}
      BY <1>1, ParentsLive DEF Live
    <3> QED
      BY <3>1, <3>2, AncestorsWithin
  <2>2. \A m \in Node : i.parent[m] = IF m = t THEN p ELSE h.parent[m]
    BY <1>2, <1>8
  <2> QED
    BY <1>1, <1>4, <2>1, <2>2, FoundedInsert
<1>10. root \in Live(h) /\ h.type[root] = "document" /\ root \in Node
  BY FineRoot DEF Fine
<1>11. Fine(i)
  BY <1>2, <1>7, <1>8, <1>9, <1>10 DEF Fine
<1>12. Live(i) = Live(h) \cup {t}
  BY <1>2, <1>8 DEF Live
<1>13. BelowOf(i, n) = {n}
  <2>1. i.type[n] = "footnote_reference"
    BY <1>1, <1>2, <1>8
  <2>2. i.first_child[n] = NULL
    BY <1>1, <1>7, <2>1, Barren
  <2> QED
    BY <1>1, <1>7, <1>9, <2>2, BelowIs, ReachedStep DEF WellFormed
<1>14. n # root /\ n \in Live(i)
  BY <1>10, <1>12
<1>15. /\ Fine(w) /\ Live(w) = Live(i) \ {n}
       /\ \A m \in Node \ {n} : w.type[m] = i.type[m] /\ w.parent[m] = i.parent[m]
  <2>1. /\ Fine(w) /\ Live(w) = Live(i) \ BelowOf(i, n)
        /\ \A m \in Node \ BelowOf(i, n) : w.type[m] = i.type[m] /\ w.parent[m] = i.parent[m]
    BY <1>11, <1>14, FreeTreeIs
  <2> QED
    BY <1>13, <2>1
<1> HIDE DEF w
<1>16. \A m \in Live(h) \ {n} : w.type[m] = h.type[m] /\ w.parent[m] = h.parent[m]
  <2>1. \A m \in Live(h) \ {n} : m \in Node \ {n} /\ m # t
    BY DEF Live
  <2>2. \A m \in Live(h) \ {n} : i.type[m] = h.type[m] /\ i.parent[m] = h.parent[m]
    BY <1>2, <1>8, <2>1
  <2> QED
    BY <1>15, <2>1, <2>2
<1>17. w.parent[t] = h.parent[n] /\ w.type[t] = "text"
  BY <1>1, <1>6, <1>8, <1>15 DEF p
<1> QED
  BY <1>12, <1>15, <1>16, <1>17 DEF w, i, v

-----------------------------------------------------------------------------
(***************************************************************************)
(* Sequences of entries.                                                   *)
(***************************************************************************)

\* The loops at the end handle each entry once.
LEMMA TailIs ==
  ASSUME NEW D, NEW s \in Seq(D), s # <<>>, IsInjective(s)
  PROVE  /\ Head(s) \in ToSet(s) /\ Tail(s) \in Seq(D) /\ IsInjective(Tail(s))
         /\ ToSet(Tail(s)) = ToSet(s) \ {Head(s)} /\ ToSet(s) \subseteq D
<1>1. /\ Len(s) \in Nat /\ Len(s) >= 1 /\ DOMAIN s = 1 .. Len(s) /\ Head(s) = s[1]
      /\ Tail(s) \in Seq(D) /\ Len(Tail(s)) = Len(s) - 1
      /\ DOMAIN Tail(s) = 1 .. Len(s) - 1
      /\ \A k \in 1 .. Len(s) - 1 : Tail(s)[k] = s[k + 1]
  OBVIOUS
<1> DEFINE t == Tail(s)
           n == Len(s)
<1> HIDE DEF t, n
<1>2. \A a, b \in 1 .. n : s[a] = s[b] => a = b
  BY <1>1 DEF IsInjective, n
<1>3. IsInjective(t)
  BY <1>1, <1>2 DEF IsInjective, t, n
<1>4. ASSUME NEW x \in ToSet(t) PROVE x \in ToSet(s) \ {Head(s)}
  <2>1. PICK k \in 1 .. n - 1 : x = s[k + 1]
    BY <1>1, <1>4 DEF ToSet, t, n
  <2>2. k + 1 \in 1 .. n /\ 1 \in 1 .. n /\ k + 1 # 1
    BY <1>1 DEF n
  <2> QED
    BY <1>1, <1>2, <2>1, <2>2 DEF ToSet, n
<1>5. ASSUME NEW x \in ToSet(s) \ {Head(s)} PROVE x \in ToSet(t)
  <2>1. PICK k \in 1 .. n : x = s[k]
    BY <1>1, <1>5 DEF ToSet, n
  <2>2. k # 1
    BY <1>1, <1>5, <2>1 DEF n
  <2>3. k - 1 \in 1 .. n - 1 /\ k - 1 + 1 = k
    BY <1>1, <2>2 DEF n
  <2>4. t[k - 1] = x /\ k - 1 \in DOMAIN t
    BY <1>1, <2>1, <2>3 DEF t, n
  <2> QED
    BY <2>4 DEF ToSet
<1>6. Head(s) \in ToSet(s) /\ ToSet(s) \subseteq D
  BY <1>1 DEF ToSet
<1> QED
  BY <1>1, <1>3, <1>4, <1>5, <1>6 DEF t

\* qsort leaves each entry in one place.
LEMMA OrderIs ==
  ASSUME NEW S, IsFiniteSet(S), NEW s \in SetToSeqs(S)
  PROVE  s \in Seq(S) /\ IsInjective(s) /\ ToSet(s) = S
<1> DEFINE n == Cardinality(S)
<1>1. n \in Nat
  BY FS_CardinalityType
<1>2. s \in [1 .. n -> S] /\ \A i, j \in 1 .. n : i # j => s[i] # s[j]
  BY DEF SetToSeqs
<1> HIDE DEF n
<1>3. s \in Seq(S) /\ IsInjective(s)
  BY <1>1, <1>2 DEF IsInjective
<1>4. s \in Injection(1 .. n, S)
  BY <1>2, <1>3, Zenon DEF Injection
<1>5. Cardinality(1 .. n) = n
  BY <1>1, FS_Interval
<1>6. s \in Surjection(1 .. n, S)
  BY <1>4, <1>5, FS_Injection DEF n
<1>7. ToSet(s) = S
  BY <1>2, <1>6 DEF Surjection, ToSet
<1> QED
  BY <1>3, <1>7

\* The map has each entry once.
LEMMA NewestFirstIs ==
  ASSUME NEW R, refs \in Seq(R)
  PROVE  /\ NewestFirst \in Seq(DOMAIN refs) /\ IsInjective(NewestFirst)
         /\ ToSet(NewestFirst) = DOMAIN refs
<1> DEFINE n == Len(refs)
           s == NewestFirst
<1>1. n \in Nat /\ DOMAIN refs = 1 .. n
  OBVIOUS
<1>2. s = [i \in 1 .. n |-> n - i + 1]
  <2> DEFINE t == [i \in DOMAIN refs |-> i]
  <2>1. t \in Seq(Nat) /\ Len(t) = n
    BY <1>1
  <2>2. \A i \in 1 .. n : t[Len(t) - i + 1] = n - i + 1
    BY <1>1, <2>1
  <2> HIDE DEF t
  <2>3. s = [i \in 1 .. n |-> t[Len(t) - i + 1]]
    BY <2>1 DEF NewestFirst, Reverse, t
  <2> QED
    BY <2>2, <2>3
<1> HIDE DEF s, n
<1>3. s \in [1 .. n -> 1 .. n]
  BY <1>1, <1>2
<1>4. s \in Seq(1 .. n) /\ IsInjective(s)
  BY <1>1, <1>2, <1>3 DEF IsInjective
<1>5. \A i \in 1 .. n : i \in ToSet(s)
  <2> SUFFICES ASSUME NEW i \in 1 .. n PROVE i \in ToSet(s)
    OBVIOUS
  <2>1. n - i + 1 \in 1 .. n /\ s[n - i + 1] = i
    BY <1>1, <1>2
  <2>2. DOMAIN s = 1 .. n
    BY <1>2
  <2> QED
    BY <2>1, <2>2 DEF ToSet
<1>6. ToSet(s) \subseteq 1 .. n
  BY <1>3 DEF ToSet
<1> QED
  BY <1>1, <1>4, <1>5, <1>6 DEF s

-----------------------------------------------------------------------------
(***************************************************************************)
(* The inductive invariant.                                                *)
(***************************************************************************)

\* The document, and what has been taken out of it, are trees.
Tree ==
  /\ Fine(heap) /\ Cardinality(live) <= MaxSize
  /\ phase \in {"build", "collect", "number"} => Whole(heap)

\* The iterators, and the text that is freed while one stands on it.
Places ==
  /\ iter \in Iterators /\ iter.root = root
  /\ phase \in {"build", "collect", "number", "consolidate"} => iter.next \in live \cup {NULL}
  /\ tmp # NULL => /\ phase = "consolidate" /\ tmp \in live /\ heap.type[tmp] = "text"
                   /\ iter.next = tmp /\ iter.next_ev = "enter"

\* The entries whose definition the map has yet to move or to free.
held ==
  IF phase \in {"consolidate", "done"} THEN {}
  ELSE {i \in DOMAIN refs : refs[i].node # NULL /\ (phase = "free" => i \in ToSet(todo))}

\* Each has a definition of its own.
Map ==
  /\ refs \in Seq([label : Label \cup {0}, node : Pointer, ix : Nat]) /\ ix \in Nat
  /\ \A i \in held : refs[i].node \in live /\ heap.type[refs[i].node] = "footnote_definition"
  /\ \A i, j \in held : refs[i].node = refs[j].node => i = j
  /\ sorted \in SUBSET DOMAIN refs
  /\ phase \in {"build", "collect", "number"} => \A i \in DOMAIN refs : refs[i].node # NULL
  /\ phase \in {"build", "collect"} => sorted = {}
  /\ phase = "build" => refs = <<>>

\* The loops at the end have these left; a definition is out of the document
\* before any is freed.
Todo ==
  /\ todo \in Seq(DOMAIN refs) /\ IsInjective(todo)
  /\ phase \in {"build", "collect", "number"} => todo = <<>>
  /\ phase = "move" => sorted # {} /\ ToSet(todo) \subseteq held
  /\ phase = "unlink" => \A i \in held \ ToSet(todo) : heap.parent[refs[i].node] = NULL
  /\ phase = "free" => \A i \in held : heap.parent[refs[i].node] = NULL

\* A definition that stays.
Home(d) ==
  /\ d \in live /\ heap.parent[d] = root /\ heap.type[d] = "footnote_definition"
  /\ \A i \in held : refs[i].node # d

\* One that is going to be moved where it stays.
Waiting(d) ==
  /\ phase \in {"number", "move"}
  /\ \E i \in sorted : /\ i \in held /\ refs[i].node = d /\ refs[i].ix # 0
                       /\ phase = "move" => i \in ToSet(todo)

Fields ==
  [label : [Node -> Label \cup {0}], number : [Node -> Nat],
   parent_footnote_def : [Node -> Pointer], ref_ix : [Node -> Nat],
   def_count : [Node -> Nat], tight : [Node -> BOOLEAN], is_header : [Node -> BOOLEAN]]

\* References point to such definitions only.
Pointed ==
  /\ as \in Fields
  /\ phase \in {"build", "collect"} => \A n \in Node : as.parent_footnote_def[n] = NULL
  /\ \A n, d \in Node : as.parent_footnote_def[n] = d => n \in live /\ (Home(d) \/ Waiting(d))

\* The first loop does not come back to a definition it has left: it stays
\* within iterators that are not about to leave it.
Past ==
  phase = "collect" => \A i \in DOMAIN refs : \E S \in SUBSET Iterators :
    /\ iter \in S /\ \A x \in S : IterNext(heap, x) \in S
    /\ \A x \in S : ~(x.next_ev = "exit" /\ x.next = refs[i].node)

IInv == Tree /\ Places /\ Map /\ Todo /\ Pointed /\ Past

\* It implies that nothing is stale.
LEMMA InvNothingStale == IInv => NothingStale
<1> SUFFICES ASSUME IInv PROVE NothingStale
  OBVIOUS
<1>1. phase \in {"collect", "number", "consolidate"} => iter.next \in live \cup {NULL}
  BY DEF IInv, Places
<1>2. tmp \in live \cup {NULL}
  BY DEF IInv, Places
<1>3. \A i \in IF phase = "free" THEN ToSet(todo)
            ELSE IF phase \in {"consolidate", "done"} THEN {} ELSE DOMAIN refs :
         refs[i].node \in live \cup {NULL}
  <2>1. ToSet(todo) \subseteq DOMAIN refs
    BY DEF IInv, Todo, ToSet
  <2>2. \A i \in held : refs[i].node \in live
    BY DEF IInv, Map
  <2> QED
    BY <2>1, <2>2 DEF held
<1>4. \A n \in live : as.parent_footnote_def[n] \in live \cup {NULL}
  <2>1. \A n \in live : n \in Node /\ as.parent_footnote_def[n] \in Node \cup {NULL}
    BY DEF IInv, Pointed, Fields, Pointer, live, Live
  <2>2. \A d \in Node : Home(d) \/ Waiting(d) => d \in live
    BY DEF IInv, Map, Home, Waiting
  <2> QED
    BY <2>1, <2>2 DEF IInv, Pointed
<1>5. \A n \in live : Targets(heap, n) \subseteq live \cup {NULL}
  BY DEF IInv, Tree, Fine, WellFormed, Closed, live
<1> QED
  BY <1>1, <1>2, <1>3, <1>4, <1>5 DEF NothingStale

-----------------------------------------------------------------------------
(***************************************************************************)
(* The iterators.                                                          *)
(***************************************************************************)

\* Iterators over the document that are going to visit nodes that are there.
Walking == {x \in Iterators : x.root = root /\ x.next \in live \cup {NULL}}

\* They stay such.
LEMMA WalkingStep ==
  ASSUME Fine(heap), NEW x \in Walking
  PROVE  IterNext(heap, x) \in Walking
<1>1. heap \in Heap /\ x \in Iterators /\ WellFormed(heap) /\ x.root = root
  BY DEF Walking, Fine, WellFormed
<1>2. PICK y : y = IterNext(heap, x)
  OBVIOUS
<1>3. y \in Iterators /\ y.root = root
  BY <1>1, <1>2, IterNextIs
<1>4. y.next \in live \cup {NULL}
  <2>1. CASE x.next_ev = "done"
    BY <1>1, <1>2, <1>3, <2>1, IterNextIs DEF Iterators
  <2>2. CASE x.next_ev # "done"
    <3> DEFINE n == x.next
    <3>1. n \in live /\ n \in Node
      BY <1>1, <2>2 DEF Walking, Iterators, live, Live
    <3>2. {heap.first_child[n], heap.next[n], heap.parent[n]} \subseteq live \cup {NULL}
      BY <1>1, <3>1 DEF WellFormed, Closed, live, Targets
    <3>3. y.next \in {n, heap.first_child[n], heap.next[n], heap.parent[n], NULL}
      BY <1>2 DEF IterNext, Into, Onward, Walking, Iterators
    <3> QED
      BY <3>1, <3>2, <3>3
  <2> QED
    BY <2>1, <2>2
<1> QED
  BY <1>2, <1>3, <1>4 DEF Walking

\* So is the iterator that a loop of the code comes to.
LEMMA ForwardLive ==
  ASSUME IInv, phase \in {"collect", "number", "consolidate"}, NEW it, it = Forward
  PROVE  /\ it \in Walking /\ Stop(it)
         /\ it.ev # "done" => it.cur \in live
         /\ \E x \in Walking : it = IterNext(heap, x)
<1>1. Fine(heap) /\ WellFormed(heap) /\ Founded(heap.parent) /\ heap \in Heap
  BY DEF IInv, Tree, Fine, WellFormed
<1>2. iter \in Walking
  BY DEF IInv, Places, Walking
<1>3. Walking \in SUBSET Iterators
  BY DEF Walking
<1>4. PICK x \in Walking : it = IterNext(heap, x) /\ it \in Walking /\ Stop(it)
  BY <1>1, <1>2, <1>3, WalkingStep, ForwardIs
<1>5. it.ev = x.next_ev /\ it.cur = x.next /\ x \in Iterators
  BY <1>1, <1>3, <1>4, IterNextIs
<1>6. it.ev # "done" => it.cur \in live
  BY <1>4, <1>5 DEF Walking, Iterators
<1> QED
  BY <1>4, <1>6

\* Consolidating, the iterator is about to enter the text that is freed.
LEMMA AheadIs ==
  ASSUME IInv, phase = "consolidate", NEW it, it = Forward, AtTexts(it)
  PROVE  it.next = heap.next[it.cur] /\ it.next_ev = "enter"
<1>1. heap \in Heap /\ heap.type[root] = "document"
  BY DEF IInv, Tree, Fine, WellFormed
<1>2. PICK x \in Walking : it = IterNext(heap, x)
  BY ForwardLive
<1>3. x \in Iterators /\ x.root = root
  BY <1>2 DEF Walking
<1>4. it.ev = x.next_ev /\ it.cur = x.next
  BY <1>1, <1>2, <1>3, IterNextIs
<1>5. x.next_ev = "enter" /\ heap.type[x.next] \in LeafTypes /\ heap.next[x.next] # NULL
  BY <1>4 DEF AtTexts, LeafTypes
<1>6. x.next # x.root
  BY <1>1, <1>3, <1>4 DEF AtTexts
<1> QED
  BY <1>1, <1>2, <1>3, <1>4, <1>5, <1>6, IterNextIs

\* No node is its own sibling or parent.
LEMMA NotSelf ==
  ASSUME NEW h, WellFormed(h), Founded(h.parent), NEW n \in Node
  PROVE  h.next[n] # n /\ h.parent[n] # n
<1>1. h.parent[n] # n
  <2>1. {n} \in SUBSET Node /\ {n} # {}
    OBVIOUS
  <2>2. \E m \in {n} : h.parent[m] \notin {n}
    BY <2>1, Zenon DEF Founded
  <2> QED
    BY <2>2
<1>2. h.next[n] # n
  <2>1. {n} \in SUBSET Node /\ {n} # {}
    OBVIOUS
  <2>2. \E m \in {n} : h.prev[m] \notin {n}
    BY <2>1, Zenon DEF Founded, WellFormed
  <2>3. h.prev[n] # n
    BY <2>2
  <2>4. h.next[n] = n => h.prev[n] = n
    BY NullAssumption DEF WellFormed, Linked, NextLinked
  <2> QED
    BY <2>3, <2>4
<1> QED
  BY <1>1, <1>2

\* An iterator that leaves a node does not come back to leave it again.
LEMMA NoReturn ==
  ASSUME NEW h, WellFormed(h), Founded(h.parent), NEW x \in Iterators, x.next_ev = "exit"
  PROVE  \E S \in SUBSET Iterators :
           /\ IterNext(h, x) \in S /\ \A y \in S : IterNext(h, y) \in S
           /\ \A y \in S : ~(y.next_ev = "exit" /\ y.next = x.next)
<1>1. h \in Heap /\ \A y \in Iterators : IterNext(h, y) \in Iterators
  BY IterNextIs DEF WellFormed
<1> DEFINE C == {T \in SUBSET Iterators : \A y \in T : IterNext(h, y) \in T}
           R(z) == {y \in Iterators : \A T \in C : z \in T => y \in T}
           c == IterNext(h, x)
<1>2. ASSUME NEW z \in Iterators PROVE R(z) \in C /\ z \in R(z)
  BY <1>1
<1>3. c \in Iterators
  BY <1>1
<1>4. \A z \in Iterators : \A T \in C : z \in T => R(z) \subseteq T
  OBVIOUS
<1> HIDE DEF R
<1>5. \A y \in R(c) : ~(y.next_ev = "exit" /\ y.next = x.next)
  <2> SUFFICES ASSUME NEW y \in R(c), y.next_ev = "exit", y.next = x.next
               PROVE  FALSE
    OBVIOUS
  <2>1. y \in Iterators
    BY <1>2, <1>3
  \* All iterators on the way have the same root.
  <2>2. y.root = x.root
    <3> DEFINE T == {z \in Iterators : z.root = x.root}
    <3>1. T \in C /\ c \in T
      BY <1>1, IterNextIs
    <3>2. R(c) \subseteq T
      BY <1>3, <1>4, <3>1
    <3> QED
      BY <3>2
  <2>3. IterNext(h, y) = c
    <3> DEFINE d == IterNext(h, y)
    <3>1. d \in Iterators /\ c \in Iterators
      BY <1>1, <2>1
    <3>2. d.ev = c.ev /\ d.cur = c.cur /\ d.root = c.root
      BY <1>1, <2>1, <2>2, IterNextIs
    <3>3. d.next_ev = c.next_ev /\ d.next = c.next
      <4>1. x.next \in Node /\ h.next[x.next] \in Node \cup {NULL}
            /\ h.parent[x.next] \in Node \cup {NULL}
        BY <1>1, Pointers DEF Iterators, Pointer
      <4>2. d.next_ev = "done" <=> c.next_ev = "done"
        BY <1>1, <2>1, <2>2, <4>1, IterNextIs
      <4>3. CASE c.next_ev = "done"
        BY <3>1, <4>2, <4>3 DEF Iterators
      <4>4. CASE c.next_ev # "done"
        BY <1>1, <2>1, <2>2, <4>1, <4>4, IterNextIs
      <4> QED
        BY <4>3, <4>4
    <3> HIDE DEF d, c
    <3> QED
      BY <3>1, <3>2, <3>3 DEF Iterators, d
  \* So from each of them the walk leads to y again, and has no end.
  <2> DEFINE T == {z \in R(c) : y \in R(z)}
  <2>4. c \in T
    BY <1>2, <1>3
  <2>5. T \in SUBSET Iterators
    BY <1>2, <1>3
  <2>6. ASSUME NEW z \in T PROVE IterNext(h, z) \in T
    <3>1. z \in Iterators /\ IterNext(h, z) \in R(c)
      BY <1>2, <1>3, <2>5
    <3>2. y \in R(IterNext(h, z))
      <4>1. CASE z = y
        BY <2>3, <4>1
      <4>2. CASE z # y
        <5> DEFINE U == R(IterNext(h, z)) \cup {z}
        <5>1. IterNext(h, z) \in Iterators
          BY <1>1, <3>1
        <5>2. R(IterNext(h, z)) \in C /\ IterNext(h, z) \in R(IterNext(h, z))
          BY <1>2, <5>1
        <5>3. U \in C /\ z \in U
          BY <3>1, <5>2
        <5>4. y \in R(z)
          BY DEF T
        <5> HIDE DEF C, U, T
        <5>5. R(z) \subseteq U
          BY <1>4, <3>1, <5>3
        <5> QED
          BY <4>2, <5>4, <5>5 DEF U
      <4> QED
        BY <4>1, <4>2
    <3> QED
      BY <3>1, <3>2
  <2>7. \A z \in Iterators : z.next_ev = "done" => IterNext(h, z).next_ev = "done"
    BY <1>1, IterNextIs
  <2> HIDE DEF T
  <2>8. PICK z \in T : z.next_ev = "done"
    BY <2>4, <2>5, <2>6, Ends
  <2> DEFINE D == {w \in Iterators : w.next_ev = "done"}
  <2>9. D \in C /\ z \in D
    BY <1>1, <2>5, <2>7, <2>8
  <2>10. y \in D
    BY <1>4, <2>5, <2>9 DEF T
  <2> QED
    BY <2>10
<1> QED
  BY <1>2, <1>3, <1>5

-----------------------------------------------------------------------------
(***************************************************************************)
(* Each step keeps the invariant.                                          *)
(***************************************************************************)

\* The document that the parser starts with.
LEMMA InitInv == Init => IInv
<1> SUFFICES ASSUME Init PROVE IInv
  OBVIOUS
<1>1. root \in Node
  BY AddressAssumption DEF root
<1>2. heap \in Heap /\ heap.type[root] = "document" /\ live = {root}
  BY <1>1 DEF Init, Heap, Pointer, NodeTypes, BlockTypes, live, Live
<1>3. \A n \in Node : /\ heap.next[n] = NULL /\ heap.prev[n] = NULL /\ heap.parent[n] = NULL
                      /\ heap.first_child[n] = NULL /\ heap.last_child[n] = NULL
  BY DEF Init
<1>4. \A f : (\A n \in Node : f[n] = NULL) => Founded(f)
  BY NullAssumption DEF Founded
<1>5. Linked(heap)
  BY <1>3 DEF Linked, NextLinked, PrevLinked, FirstLinked, LastLinked, EndsLinked, ParentLinked
<1>6. Closed(heap)
  BY <1>2, <1>3 DEF Closed, Targets, live, Live
<1>7. Fine(heap)
  BY <1>2, <1>3, <1>4, <1>5, <1>6 DEF Fine, WellFormed, Contained
<1>8. Cardinality(live) <= MaxSize
  <2>1. Cardinality(live) = 1
    BY <1>2, FS_Singleton
  <2> QED
    BY <2>1, SizeAssumption
<1>9. Tree
  BY <1>2, <1>7, <1>8 DEF Tree, Whole, live
<1>10. Places
  BY <1>1, <1>2, NullAssumption DEF Init, Places, IterNew, Iterators, Pointer
<1>11. Map /\ Todo
  BY DEF Init, Map, Todo, held, IsInjective, ToSet
<1>12. Pointed
  BY NullAssumption DEF Init, Pointed, Fields, Pointer
<1>13. Past
  BY DEF Init, Past
<1> QED
  BY <1>9, <1>10, <1>11, <1>12, <1>13 DEF IInv

\* The parser adds a branch.
LEMMA AddInv ==
  ASSUME IInv, NEW p \in LastPath, NEW shape \in Shapes,
         NEW l \in LabelsOf(shape), NEW t \in TightnessOf(shape), Add(p, shape, l, t)
  PROVE  IInv'
<1>1. /\ phase = "build" /\ phase' = "build" /\ iter' = iter /\ tmp' = tmp /\ refs' = refs
      /\ ix' = ix /\ sorted' = sorted /\ todo' = todo /\ heap' = Grown(p, shape)
  BY DEF Add
<1>2. p \in live
  BY DEF LastPath
<1>3. /\ Fine(heap') /\ Whole(heap') /\ live \subseteq Live(heap')
      /\ Cardinality(Live(heap')) <= MaxSize
  BY <1>1, <1>2, GrownIs DEF Add, IInv, Tree
<1>4. Tree' /\ live' = Live(heap')
  BY <1>3 DEF Tree, live
<1>5. Places'
  BY <1>1, <1>3, <1>4 DEF IInv, Places
<1>6. refs = <<>> /\ sorted = {}
  BY <1>1 DEF IInv, Map
<1>7. held' = {} /\ held = {}
  BY <1>1, <1>6 DEF held
<1>8. Map' /\ Todo'
  BY <1>1, <1>6, <1>7 DEF IInv, Map, Todo
<1>9. Pointed'
  <2>1. as \in Fields /\ l \in Label \cup {0} /\ t \in BOOLEAN
    BY DEF IInv, Pointed, LabelsOf, TightnessOf
  <2>2. as' \in Fields /\ as'.parent_footnote_def = as.parent_footnote_def
    BY <2>1 DEF Add, Fields
  <2>3. \A n \in Node : as.parent_footnote_def[n] = NULL
    BY <1>1 DEF IInv, Pointed
  <2> QED
    BY <2>2, <2>3, NullAssumption DEF Pointed
<1> QED
  BY <1>1, <1>4, <1>5, <1>8, <1>9 DEF IInv, Past

\* The first loop starts.
LEMMA BuiltInv == IInv /\ Built => IInv'
<1> SUFFICES ASSUME IInv, Built PROVE IInv'
  OBVIOUS
<1>1. /\ phase = "build" /\ phase' = "collect" /\ live' = live
      /\ UNCHANGED <<heap, as, iter, refs, sorted, ix, todo, tmp>>
  BY DEF Built, live
<1>2. refs = <<>>
  BY <1>1 DEF IInv, Map
<1>3. held' = {} /\ held = {}
  BY <1>1, <1>2 DEF held
<1>4. Tree' /\ Places'
  BY <1>1 DEF IInv, Tree, Places
<1>5. Map' /\ Todo'
  BY <1>1, <1>2, <1>3 DEF IInv, Map, Todo
<1>6. Pointed'
  <2>1. \A n \in Node : as.parent_footnote_def[n] = NULL
    BY <1>1 DEF IInv, Pointed
  <2> QED
    BY <1>1, <2>1, NullAssumption DEF IInv, Pointed
<1>7. Past'
  <2>1. DOMAIN refs' = {}
    BY <1>1, <1>2
  <2> QED
    BY <2>1 DEF Past
<1> QED
  BY <1>4, <1>5, <1>6, <1>7 DEF IInv

\* It puts the definition it leaves in the map.
LEMMA CollectInv ==
  ASSUME IInv, phase = "collect", NEW it, it = Forward, Collect(it)
  PROVE  IInv'
<1> DEFINE d == it.cur
           e == [label |-> as.label[d], node |-> d, ix |-> 0]
           R == [label : Label \cup {0}, node : Pointer, ix : Nat]
<1>1. /\ AtDefinition(it) /\ refs' = Append(refs, e) /\ iter' = it
      /\ UNCHANGED <<heap, as, phase, sorted, ix, todo, tmp>> /\ live' = live
  BY DEF Collect, live
<1>2. it \in Walking /\ d \in live /\ it.ev = "exit" /\ heap.type[d] = "footnote_definition"
  BY <1>1, ForwardLive DEF AtDefinition
<1>3. d \in Node /\ d # NULL
  BY <1>2, NullAssumption DEF live, Live
<1>4. refs \in Seq(R) /\ e \in R
  BY <1>3 DEF IInv, Map, Pointed, Fields, Pointer
<1> DEFINE n == Len(refs)
<1>5. /\ n \in Nat /\ DOMAIN refs = 1 .. n /\ refs' \in Seq(R) /\ DOMAIN refs' = 1 .. n + 1
      /\ (\A i \in 1 .. n : refs'[i] = refs[i]) /\ refs'[n + 1] = e
  <2> HIDE DEF e, R
  <2> QED
    BY <1>1, <1>4
<1> HIDE DEF n, e
<1>6. refs'[n + 1].node = d
  BY <1>5 DEF e
<1>7. held = 1 .. n /\ held' = 1 .. n + 1
  <2>1. \A i \in 1 .. n : refs[i].node # NULL
    BY <1>5 DEF IInv, Map
  <2>2. \A i \in 1 .. n + 1 : refs'[i].node # NULL
    <3> SUFFICES ASSUME NEW i \in 1 .. n + 1 PROVE refs'[i].node # NULL
      OBVIOUS
    <3>1. i \in 1 .. n \/ i = n + 1
      BY <1>5
    <3> QED
      BY <1>3, <1>5, <1>6, <2>1, <3>1
  <2> QED
    BY <1>1, <1>5, <2>1, <2>2 DEF held
<1>8. Fine(heap) /\ WellFormed(heap) /\ Founded(heap.parent)
  BY DEF IInv, Tree, Fine
\* Each entry of the map has been left behind.
<1>9. ASSUME NEW i \in 1 .. n
      PROVE  /\ refs[i].node # d
             /\ \E S \in SUBSET Iterators :
                  /\ it \in S /\ \A x \in S : IterNext(heap, x) \in S
                  /\ \A x \in S : ~(x.next_ev = "exit" /\ x.next = refs[i].node)
  <2>1. PICK S \in SUBSET Iterators :
          /\ iter \in S /\ \A x \in S : IterNext(heap, x) \in S
          /\ \A x \in S : ~(x.next_ev = "exit" /\ x.next = refs[i].node)
    BY <1>5 DEF IInv, Past
  <2>2. PICK x \in S : it = IterNext(heap, x) /\ it \in S
    BY <1>8, <2>1, ForwardIs
  <2>3. x.next_ev = "exit" /\ x.next = d
    BY <1>2, <1>8, <2>2, IterNextIs DEF WellFormed
  <2> QED
    BY <2>1, <2>2, <2>3
<1>10. \E S \in SUBSET Iterators :
         /\ it \in S /\ \A x \in S : IterNext(heap, x) \in S
         /\ \A x \in S : ~(x.next_ev = "exit" /\ x.next = d)
  <2>1. PICK x \in Walking : it = IterNext(heap, x)
    BY ForwardLive
  <2>2. x \in Iterators /\ x.next_ev = "exit" /\ x.next = d
    BY <1>2, <1>8, <2>1, IterNextIs DEF WellFormed, Walking
  <2> QED
    BY <1>8, <2>1, <2>2, NoReturn
<1>11. Tree'
  BY <1>1 DEF IInv, Tree
<1>12. Places'
  BY <1>1, <1>2 DEF IInv, Places, Walking
<1>13. Map'
  <2>1. \A i \in held' : /\ refs'[i].node \in live'
                         /\ heap'.type[refs'[i].node] = "footnote_definition"
    <3> SUFFICES ASSUME NEW i \in 1 .. n + 1
                 PROVE  refs'[i].node \in live /\ heap.type[refs'[i].node] = "footnote_definition"
      BY <1>1, <1>7
    <3>1. i \in 1 .. n \/ i = n + 1
      BY <1>5
    <3> QED
      BY <1>2, <1>5, <1>6, <1>7, <3>1 DEF IInv, Map
  <2>2. \A i, j \in held' : refs'[i].node = refs'[j].node => i = j
    <3> SUFFICES ASSUME NEW i \in 1 .. n + 1, NEW j \in 1 .. n + 1,
                        refs'[i].node = refs'[j].node
                 PROVE  i = j
      BY <1>7
    <3>1. (i \in 1 .. n \/ i = n + 1) /\ (j \in 1 .. n \/ j = n + 1)
      BY <1>5
    <3> QED
      BY <1>5, <1>6, <1>7, <1>9, <3>1 DEF IInv, Map
  <2>3. \A i \in DOMAIN refs' : refs'[i].node # NULL
    BY <1>5, <1>7 DEF held
  <2>4. sorted = {} /\ ix \in Nat
    BY DEF IInv, Map
  <2> QED
    BY <1>1, <1>5, <2>1, <2>2, <2>3, <2>4 DEF Map
<1>14. Todo'
  <2>1. todo = <<>>
    BY DEF IInv, Todo
  <2> QED
    BY <1>1, <2>1 DEF IInv, Todo
<1>15. Pointed'
  <2>1. \A m \in Node : as.parent_footnote_def[m] = NULL
    BY <1>1 DEF IInv, Pointed
  <2> QED
    BY <1>1, <2>1, NullAssumption DEF IInv, Pointed
<1>16. Past'
  <2> SUFFICES ASSUME NEW i \in 1 .. n + 1
               PROVE  \E S \in SUBSET Iterators :
                        /\ it \in S /\ \A x \in S : IterNext(heap, x) \in S
                        /\ \A x \in S : ~(x.next_ev = "exit" /\ x.next = refs'[i].node)
    BY <1>1, <1>5 DEF Past
  <2>1. i \in 1 .. n \/ i = n + 1
    BY <1>5
  <2>2. CASE i \in 1 .. n
    <3>1. refs'[i].node = refs[i].node
      BY <1>5, <2>2
    <3> QED
      BY <1>9, <2>2, <3>1
  <2>3. CASE i = n + 1
    <3>1. refs'[i].node = d
      BY <1>5, <1>6, <2>3
    <3> QED
      BY <1>10, <3>1
  <2> QED
    BY <2>1, <2>2, <2>3
<1> QED
  BY <1>11, <1>12, <1>13, <1>14, <1>15, <1>16 DEF IInv

\* An iterator over the document, before its first step.
LEMMA IterNewIs ==
  ASSUME Fine(heap)
  PROVE  IterNew(root) \in Walking
<1>1. root \in Node /\ root \in live
  BY FineRoot DEF live
<1> QED
  BY <1>1, NullAssumption DEF IterNew, Walking, Iterators, Pointer

\* The first loop ends.
LEMMA CollectedInv ==
  ASSUME IInv, phase = "collect", NEW it, Collected(it)
  PROVE  IInv'
<1>1. /\ phase' = "number" /\ iter' = IterNew(root)
      /\ UNCHANGED <<heap, as, refs, sorted, ix, todo, tmp>> /\ live' = live
  BY DEF Collected, live
<1>2. held' = held
  BY <1>1 DEF held
<1>3. IterNew(root) \in Walking
  BY IterNewIs DEF IInv, Tree
<1>4. Tree' /\ Places'
  BY <1>1, <1>3 DEF IInv, Tree, Places, Walking
<1>5. Map' /\ Todo'
  BY <1>1, <1>2 DEF IInv, Map, Todo
<1>6. Pointed'
  <2>1. \A n \in Node : as.parent_footnote_def[n] = NULL
    BY <1>1 DEF IInv, Pointed
  <2> QED
    BY <1>1, <2>1, NullAssumption DEF IInv, Pointed
<1> QED
  BY <1>1, <1>4, <1>5, <1>6 DEF IInv, Past

\* What a lookup finds are entries of the sorted map.
LEMMA FoundIs ==
  ASSUME IInv, NEW l
  PROVE  /\ Found(l) \subseteq Sorted(l) /\ Sorted(l) \in SUBSET DOMAIN refs
         /\ sorted # {} => Sorted(l) = sorted
<1>1. sorted \in SUBSET DOMAIN refs
  BY DEF IInv, Map
<1>2. SortedRefs \in SUBSET DOMAIN refs
  BY DEF SortedRefs
<1> QED
  BY <1>1, <1>2 DEF Found, Sorted

\* What Number does with the entry i.
Numbering(it, i) ==
  LET n == it.cur
      d == refs[i].node
      number == IF refs[i].ix = 0 THEN ix + 1 ELSE refs[i].ix
  IN  /\ it \in Walking /\ n \in live /\ n \in Node /\ AtReference(it)
      /\ iter' = it /\ live' = live /\ UNCHANGED <<heap, phase, todo, tmp>>
      /\ i \in Found(as.label[n]) /\ i \in sorted' /\ sorted' \in SUBSET DOMAIN refs
      /\ sorted' = Sorted(as.label[n]) /\ (sorted # {} => sorted' = sorted)
      /\ number \in Nat \ {0} /\ ix \in Nat /\ ix' \in Nat
      /\ ix' = IF refs[i].ix = 0 THEN ix + 1 ELSE ix
      /\ refs' \in Seq([label : Label \cup {0}, node : Pointer, ix : Nat])
      /\ DOMAIN refs' = DOMAIN refs
      /\ \A j \in DOMAIN refs : /\ refs'[j].label = refs[j].label
                                /\ refs'[j].node = refs[j].node
                                /\ refs'[j].ix = IF j = i THEN number ELSE refs[j].ix
      /\ held = DOMAIN refs /\ held' = held /\ d \in live /\ d \in Node
      /\ as \in Fields /\ as' \in Fields
      /\ \A m \in Node :
           /\ as'.label[m] = as.label[m]
           /\ as'.parent_footnote_def[m] = IF m = n THEN d ELSE as.parent_footnote_def[m]
           /\ as'.number[m] = IF m = n THEN number ELSE as.number[m]
           /\ as'.ref_ix[m] = IF m = n THEN as.def_count[d] + 1 ELSE as.ref_ix[m]
           /\ as'.def_count[m] = IF m = d THEN as.def_count[d] + 1 ELSE as.def_count[m]

\* A reference is given the number of its definition.
LEMMA NumberDoes ==
  ASSUME IInv, phase = "number", NEW it, it = Forward, Number(it)
  PROVE  \E i \in DOMAIN refs : Numbering(it, i)
<1> DEFINE n == it.cur
           l == as.label[n]
           R == [label : Label \cup {0}, node : Pointer, ix : Nat]
<1>1. PICK i \in Found(l) :
        LET d == refs[i].node
            number == IF refs[i].ix = 0 THEN ix + 1 ELSE refs[i].ix
        IN  /\ refs' = [refs EXCEPT ![i].ix = number]
            /\ ix' = IF refs[i].ix = 0 THEN ix + 1 ELSE ix
            /\ as' = [as EXCEPT !.parent_footnote_def[n] = d, !.def_count[d] = @ + 1,
                                !.ref_ix[n] = as.def_count[d] + 1, !.number[n] = number]
  BY DEF Number
<1> DEFINE d == refs[i].node
           number == IF refs[i].ix = 0 THEN ix + 1 ELSE refs[i].ix
<1>2. /\ AtReference(it) /\ iter' = it /\ sorted' = Sorted(l) /\ live' = live
      /\ UNCHANGED <<heap, phase, todo, tmp>>
  BY DEF Number, live
<1>3. it \in Walking /\ n \in live /\ n \in Node
  <2>1. it \in Walking /\ n \in live
    BY <1>2, ForwardLive DEF AtReference
  <2> QED
    BY <2>1 DEF live, Live
<1>4. i \in sorted' /\ sorted' \in SUBSET DOMAIN refs /\ i \in DOMAIN refs
      /\ (sorted # {} => sorted' = sorted)
  <2> HIDE DEF l
  <2> QED
    BY <1>2, FoundIs
<1>5. refs \in Seq(R) /\ refs[i] \in R /\ ix \in Nat
  <2>1. refs \in Seq(R) /\ ix \in Nat
    BY DEF IInv, Map
  <2> HIDE DEF R
  <2> QED
    BY <1>4, <2>1
<1>6. number \in Nat \ {0} /\ ix' \in Nat
  BY <1>1, <1>5
<1>7. /\ refs' \in Seq(R) /\ DOMAIN refs' = DOMAIN refs
      /\ \A j \in DOMAIN refs : /\ refs'[j].label = refs[j].label
                                /\ refs'[j].node = refs[j].node
                                /\ refs'[j].ix = IF j = i THEN number ELSE refs[j].ix
  <2> DEFINE e == [refs[i] EXCEPT !.ix = number]
  <2>1. refs' = [refs EXCEPT ![i] = e]
    BY <1>1
  <2> HIDE DEF number
  <2>2. e \in R /\ e.label = refs[i].label /\ e.node = refs[i].node /\ e.ix = number
    BY <1>5, <1>6
  <2> HIDE DEF e, R
  <2>3. refs' \in Seq(R) /\ DOMAIN refs' = DOMAIN refs
    BY <1>4, <1>5, <2>1, <2>2
  <2>4. \A j \in DOMAIN refs : refs'[j] = IF j = i THEN e ELSE refs[j]
    BY <1>4, <1>5, <2>1
  <2> QED
    BY <2>2, <2>3, <2>4
<1> HIDE DEF number
<1>8. held = DOMAIN refs /\ held' = held
  <2>1. \A j \in DOMAIN refs : refs[j].node # NULL
    BY DEF IInv, Map
  <2> QED
    BY <1>2, <1>7, <2>1 DEF held
<1>9. d \in live /\ d \in Node
  <2>1. d \in live
    BY <1>4, <1>8 DEF IInv, Map
  <2> QED
    BY <2>1 DEF live, Live
<1> HIDE DEF d
<1>10. as \in Fields
  BY DEF IInv, Pointed
<1>11. /\ as' \in Fields
       /\ \A m \in Node :
            /\ as'.label[m] = as.label[m]
            /\ as'.parent_footnote_def[m] = IF m = n THEN d ELSE as.parent_footnote_def[m]
            /\ as'.number[m] = IF m = n THEN number ELSE as.number[m]
            /\ as'.ref_ix[m] = IF m = n THEN as.def_count[d] + 1 ELSE as.ref_ix[m]
            /\ as'.def_count[m] = IF m = d THEN as.def_count[d] + 1 ELSE as.def_count[m]
  <2> HIDE DEF n
  <2>1. as' = [as EXCEPT !.parent_footnote_def[n] = d, !.def_count[d] = @ + 1,
                         !.ref_ix[n] = as.def_count[d] + 1, !.number[n] = number]
    BY <1>1 DEF n, d, number
  <2>2. as' = [label |-> as.label, number |-> [as.number EXCEPT ![n] = number],
               parent_footnote_def |-> [as.parent_footnote_def EXCEPT ![n] = d],
               ref_ix |-> [as.ref_ix EXCEPT ![n] = as.def_count[d] + 1],
               def_count |-> [as.def_count EXCEPT ![d] = @ + 1],
               tight |-> as.tight, is_header |-> as.is_header]
    BY <1>10, <2>1 DEF Fields
  <2>3. as.def_count[d] \in Nat
    BY <1>9, <1>10 DEF Fields
  <2>4. /\ [as.number EXCEPT ![n] = number] \in [Node -> Nat]
        /\ [as.parent_footnote_def EXCEPT ![n] = d] \in [Node -> Pointer]
        /\ [as.ref_ix EXCEPT ![n] = as.def_count[d] + 1] \in [Node -> Nat]
        /\ [as.def_count EXCEPT ![d] = @ + 1] \in [Node -> Nat]
    <3>1. /\ as.number \in [Node -> Nat] /\ as.ref_ix \in [Node -> Nat]
          /\ as.parent_footnote_def \in [Node -> Pointer] /\ as.def_count \in [Node -> Nat]
      BY <1>10 DEF Fields
    <3>2. d \in Pointer
      BY <1>9 DEF Pointer
    <3>3. as.def_count[d] + 1 \in Nat
      <4>1. \A k \in Nat : k + 1 \in Nat
        OBVIOUS
      <4> QED
        BY <2>3, <4>1, Zenon
    <3>4. number \in Nat
      BY <1>6
    <3> QED
      BY <1>3, <1>9, <3>1, <3>2, <3>3, <3>4
  <2>5. /\ as'.label = as.label /\ as'.number = [as.number EXCEPT ![n] = number]
        /\ as'.parent_footnote_def = [as.parent_footnote_def EXCEPT ![n] = d]
        /\ as'.ref_ix = [as.ref_ix EXCEPT ![n] = as.def_count[d] + 1]
        /\ as'.def_count = [as.def_count EXCEPT ![d] = @ + 1]
    BY <2>2
  <2>6. as' \in Fields
    BY <1>10, <2>2, <2>4 DEF Fields
  <2>7. /\ as.number \in [Node -> Nat] /\ as.ref_ix \in [Node -> Nat]
        /\ as.parent_footnote_def \in [Node -> Pointer] /\ as.def_count \in [Node -> Nat]
    BY <1>10 DEF Fields
  <2>8. \A m \in Node :
          /\ as'.parent_footnote_def[m] = IF m = n THEN d ELSE as.parent_footnote_def[m]
          /\ as'.number[m] = IF m = n THEN number ELSE as.number[m]
          /\ as'.ref_ix[m] = IF m = n THEN as.def_count[d] + 1 ELSE as.ref_ix[m]
          /\ as'.def_count[m] = IF m = d THEN as.def_count[d] + 1 ELSE as.def_count[m]
    BY <2>5, <2>7
  <2> QED
    BY <2>5, <2>6, <2>8
<1>12. ix' = IF refs[i].ix = 0 THEN ix + 1 ELSE ix
  BY <1>1
<1>13. i \in Found(l)
  OBVIOUS
<1> HIDE DEF R
<1> QED
  BY <1>2, <1>3, <1>4, <1>5, <1>6, <1>7, <1>8, <1>9, <1>10, <1>11, <1>12, <1>13
  DEF Numbering, d, number, R

\* The references stay references to definitions that stay.
LEMMA NumberInv ==
  ASSUME IInv, phase = "number", NEW it, it = Forward, Number(it)
  PROVE  IInv'
<1> DEFINE n == it.cur
<1> PICK i \in DOMAIN refs : Numbering(it, i)
  BY NumberDoes
<1> DEFINE d == refs[i].node
           number == IF refs[i].ix = 0 THEN ix + 1 ELSE refs[i].ix
<1>1. /\ it \in Walking /\ n \in live /\ n \in Node
      /\ iter' = it /\ live' = live /\ UNCHANGED <<heap, phase, todo, tmp>>
      /\ i \in sorted' /\ sorted' \in SUBSET DOMAIN refs /\ (sorted # {} => sorted' = sorted)
      /\ number \in Nat \ {0} /\ ix' \in Nat
      /\ refs' \in Seq([label : Label \cup {0}, node : Pointer, ix : Nat])
      /\ DOMAIN refs' = DOMAIN refs
      /\ \A j \in DOMAIN refs : /\ refs'[j].node = refs[j].node
                                /\ refs'[j].ix = IF j = i THEN number ELSE refs[j].ix
      /\ held = DOMAIN refs /\ held' = held /\ as' \in Fields
      /\ \A m \in Node : as'.parent_footnote_def[m]
                            = IF m = n THEN d ELSE as.parent_footnote_def[m]
  BY DEF Numbering
<1> HIDE DEF n, d, number
<1>2. Tree'
  BY <1>1 DEF IInv, Tree
<1>3. Places'
  BY <1>1 DEF IInv, Places, Walking
<1>4. Map'
  <2>1. \A j \in held' : refs'[j].node = refs[j].node /\ j \in held
    BY <1>1
  <2>2. \A j \in held' : /\ refs'[j].node \in live'
                         /\ heap'.type[refs'[j].node] = "footnote_definition"
    BY <1>1, <2>1 DEF IInv, Map
  <2>3. \A j, k \in held' : refs'[j].node = refs'[k].node => j = k
    BY <2>1 DEF IInv, Map
  <2>4. \A j \in DOMAIN refs' : refs'[j].node # NULL
    BY <1>1 DEF held
  <2> QED
    BY <1>1, <2>2, <2>3, <2>4 DEF Map
<1>5. Todo'
  BY <1>1 DEF IInv, Todo
<1>6. Pointed'
  <2> SUFFICES ASSUME NEW m \in Node, NEW c \in Node, as'.parent_footnote_def[m] = c
               PROVE  m \in live' /\ (Home(c)' \/ Waiting(c)')
    BY <1>1 DEF Pointed
  <2>1. CASE m = n
    <3>1. refs'[i].node = d /\ refs'[i].ix # 0 /\ c = d
      BY <1>1, <2>1 DEF d
    <3>2. Waiting(c)'
      BY <1>1, <3>1 DEF Waiting
    <3> QED
      BY <1>1, <2>1, <3>2
  <2>2. CASE m # n
    <3>1. m \in live /\ (Home(c) \/ Waiting(c))
      BY <1>1, <2>2 DEF IInv, Pointed
    <3>2. CASE Home(c)
      <4>1. \A j \in held' : refs'[j].node # c
        BY <1>1, <3>2 DEF Home
      <4> QED
        BY <1>1, <3>1, <3>2, <4>1 DEF Home
    <3>3. CASE Waiting(c)
      <4>1. PICK j \in sorted : j \in held /\ refs[j].node = c /\ refs[j].ix # 0
        BY <3>3 DEF Waiting
      <4>2. j \in sorted' /\ j \in held' /\ refs'[j].node = c /\ refs'[j].ix # 0
        BY <1>1, <4>1
      <4> QED
        BY <1>1, <3>1, <4>2 DEF Waiting
    <3> QED
      BY <3>1, <3>2, <3>3
  <2> QED
    BY <2>1, <2>2
<1> QED
  BY <1>1, <1>2, <1>3, <1>4, <1>5, <1>6 DEF IInv, Past

\* The fields of freed nodes are blank, the others as they were.
LEMMA BlankIs ==
  ASSUME NEW a \in Fields, NEW F
  PROVE  /\ Blank(a, F) \in Fields
         /\ \A m \in Node : Blank(a, F).parent_footnote_def[m]
                              = IF m \in F THEN NULL ELSE a.parent_footnote_def[m]
         /\ \A m \in Node \ F : /\ Blank(a, F).label[m] = a.label[m]
                               /\ Blank(a, F).number[m] = a.number[m]
                               /\ Blank(a, F).ref_ix[m] = a.ref_ix[m]
                               /\ Blank(a, F).def_count[m] = a.def_count[m]
BY DEF Blank, Fields, Pointer

\* A reference without a definition becomes a text.
LEMMA RestoreInv ==
  ASSUME IInv, phase = "number", NEW it, it = Forward, Restore(it)
  PROVE  IInv'
<1> DEFINE n == it.cur
           t == FreeAddress(heap)
<1>1. /\ AtReference(it)
      /\ heap' = FreeTree(InsertAfter(Fresh(heap, t, "text"), n, t), n)
      /\ as' = Blank([as EXCEPT !.label[t] = as.label[n]], {n})
      /\ sorted' = Sorted(as.label[n]) /\ iter' = it /\ UNCHANGED <<phase, refs, ix, todo, tmp>>
  BY DEF Restore
<1>2. /\ it \in Walking /\ n \in live /\ n \in Node
      /\ it.ev = "exit" /\ heap.type[n] = "footnote_reference"
  <2>1. it \in Walking /\ n \in live
    BY <1>1, ForwardLive DEF AtReference
  <2> QED
    BY <1>1, <2>1 DEF live, Live, AtReference
<1>3. /\ Fine(heap) /\ WellFormed(heap) /\ Founded(heap.parent) /\ heap \in Heap /\ Whole(heap)
      /\ heap.type[root] = "document" /\ Cardinality(live) <= MaxSize
  BY DEF IInv, Tree, Fine, WellFormed
<1>4. n # root /\ heap.parent[n] # NULL
  BY <1>2, <1>3 DEF Whole, live
<1>5. t \in Node \ live
  BY <1>3, FreeAddressIs DEF live
<1>6. it.next # n
  <2>1. PICK x \in Walking : it = IterNext(heap, x)
    BY ForwardLive
  <2>2. x \in Iterators /\ x.next_ev = "exit" /\ x.next = n
    BY <1>2, <1>3, <2>1, IterNextIs DEF Walking
  <2>3. it.next \in {heap.next[n], heap.parent[n], NULL}
    <3>1. it.next_ev = "done" => it.next = NULL
      BY <1>2 DEF Walking, Iterators
    <3>2. heap.next[n] \in Node \cup {NULL} /\ heap.parent[n] \in Node \cup {NULL}
      BY <1>2, <1>3, Pointers
    <3> QED
      BY <1>3, <2>1, <2>2, <3>1, <3>2, IterNextIs
  <2>4. heap.next[n] # n /\ heap.parent[n] # n
    BY <1>2, <1>3, NotSelf
  <2> QED
    BY <1>2, <2>3, <2>4, NullAssumption
<1> HIDE DEF t, n
<1>7. /\ Fine(heap') /\ live' = (live \cup {t}) \ {n}
      /\ \A m \in live \ {n} : heap'.type[m] = heap.type[m] /\ heap'.parent[m] = heap.parent[m]
      /\ heap'.parent[t] = heap.parent[n]
  BY <1>1, <1>2, <1>3, <1>4, <1>5, RestoredIs DEF live
<1>8. Tree'
  <2>1. Cardinality(live') <= MaxSize
    <3>1. IsFiniteSet(live) /\ IsFiniteSet(live \cup {t})
          /\ Cardinality(live \cup {t}) = Cardinality(live) + 1
      <4>1. IsFiniteSet(live)
        BY SizeAssumption, FS_Subset DEF live, Live
      <4> QED
        BY <1>5, <4>1, FS_AddElement
    <3>2. Cardinality(live) \in Nat
      BY <3>1, FS_CardinalityType
    <3>3. Cardinality(live') = Cardinality(live) + 1 - 1
      <4>1. n \in live \cup {t}
        BY <1>2
      <4> DEFINE U == live \cup {t}
      <4>2. live' = U \ {n} /\ Cardinality(U) = Cardinality(live) + 1
        BY <1>7, <3>1
      <4>3. n \in U /\ IsFiniteSet(U)
        BY <3>1, <4>1
      <4> HIDE DEF U
      <4>4. Cardinality(U \ {n}) = Cardinality(U) - 1
        BY <4>3, FS_RemoveElement
      <4> QED
        BY <3>2, <4>2, <4>4
    <3> QED
      BY <1>3, <3>2, <3>3
  <2>2. Whole(heap')
    <3> SUFFICES ASSUME NEW m \in Live(heap') \ {root} PROVE heap'.parent[m] # NULL
      BY DEF Whole
    <3>1. m \in live' /\ (m = t \/ m \in live \ {n})
      BY <1>7 DEF live
    <3> QED
      BY <1>3, <1>4, <1>7, <3>1 DEF Whole, live
  <2> QED
    BY <1>7, <2>1, <2>2 DEF Tree
<1>9. Places'
  <2>1. it.next \in live' \cup {NULL}
    BY <1>2, <1>6, <1>7 DEF Walking
  <2>2. tmp = NULL
    BY DEF IInv, Places
  <2> QED
    BY <1>1, <1>2, <2>1, <2>2 DEF Places, Walking
<1>10. held' = held
  BY <1>1 DEF held
<1>11. \A i \in held : /\ refs[i].node \in live \ {n} /\ refs[i].node \in live'
                       /\ heap'.type[refs[i].node] = "footnote_definition"
  <2>1. \A i \in held : refs[i].node \in live /\ heap.type[refs[i].node] = "footnote_definition"
    BY DEF IInv, Map
  <2> QED
    BY <1>2, <1>7, <2>1
<1>12. sorted' \in SUBSET DOMAIN refs /\ (sorted # {} => sorted' = sorted)
  BY <1>1, FoundIs
<1>13. Map' /\ Todo'
  BY <1>1, <1>10, <1>11, <1>12 DEF IInv, Map, Todo
<1>14. Pointed'
  <2> DEFINE a == [as EXCEPT !.label[t] = as.label[n]]
  <2>1. as \in Fields
    BY DEF IInv, Pointed
  <2>2. a \in Fields /\ a.parent_footnote_def = as.parent_footnote_def
    BY <1>2, <2>1 DEF Fields
  <2> HIDE DEF a
  <2>3. as' \in Fields /\ \A m \in Node : as'.parent_footnote_def[m]
                             = IF m \in {n} THEN NULL ELSE as.parent_footnote_def[m]
    <3>1. as' = Blank(a, {n})
      BY <1>1 DEF a
    <3>2. PICK b \in Fields : b = a
      BY <2>2
    <3>3. PICK F : F = {n}
      OBVIOUS
    <3>4. Blank(b, F) \in Fields /\ \A m \in Node : Blank(b, F).parent_footnote_def[m]
                             = IF m \in F THEN NULL ELSE b.parent_footnote_def[m]
      BY BlankIs
    <3> QED
      BY <2>2, <3>1, <3>2, <3>3, <3>4
  <2> SUFFICES ASSUME NEW m \in Node, NEW c \in Node, as'.parent_footnote_def[m] = c
               PROVE  m \in live' /\ (Home(c)' \/ Waiting(c)')
    BY <1>1, <2>3 DEF Pointed
  <2>4. m # n /\ as.parent_footnote_def[m] = c
    BY <2>3, NullAssumption
  <2>5. m \in live /\ (Home(c) \/ Waiting(c))
    BY <2>4 DEF IInv, Pointed
  <2>6. m \in live'
    BY <1>7, <2>4, <2>5
  <2>7. CASE Home(c)
    <3>1. c \in live \ {n} /\ c \in live'
      BY <1>2, <1>7, <2>7 DEF Home
    <3>2. Home(c)'
      BY <1>1, <1>7, <1>10, <2>7, <3>1 DEF Home
    <3> QED
      BY <2>6, <3>2
  <2>8. CASE Waiting(c)
    <3>1. PICK j \in sorted : j \in held /\ refs[j].node = c /\ refs[j].ix # 0
      BY <2>8 DEF Waiting
    <3>2. j \in sorted'
      BY <1>12, <3>1
    <3>3. Waiting(c)'
      BY <1>1, <1>10, <3>1, <3>2 DEF Waiting
    <3> QED
      BY <2>6, <3>3
  <2> QED
    BY <2>5, <2>7, <2>8
<1> QED
  BY <1>1, <1>8, <1>9, <1>13, <1>14 DEF IInv, Past

\* The second loop ends: what is left to do is in the map.
LEMMA NumberedInv ==
  ASSUME IInv, phase = "number", NEW it, it = Forward, Numbered(it)
  PROVE  IInv'
<1>1. /\ phase' = (IF sorted = {} THEN "unlink" ELSE "move") /\ iter' = it
      /\ IF sorted = {} THEN todo' = NewestFirst ELSE todo' \in ByNumber
      /\ UNCHANGED <<heap, as, refs, sorted, ix, tmp>> /\ live' = live
  BY DEF Numbered, live
<1>2. it \in Walking
  BY ForwardLive
<1>3. \A i \in DOMAIN refs : refs[i].node # NULL
  BY DEF IInv, Map
<1>4. held = DOMAIN refs /\ held' = DOMAIN refs
  BY <1>1, <1>3 DEF held
<1>5. Tree' /\ Places'
  <2>1. tmp = NULL
    BY DEF IInv, Places
  <2> QED
    BY <1>1, <1>2, <2>1 DEF IInv, Tree, Places, Walking
<1>6. Map'
  BY <1>1, <1>4 DEF IInv, Map
<1>7. refs \in Seq([label : Label \cup {0}, node : Pointer, ix : Nat])
      /\ sorted \in SUBSET DOMAIN refs
  BY DEF IInv, Map
<1>8. CASE sorted = {}
  <2>1. todo' \in Seq(DOMAIN refs) /\ IsInjective(todo') /\ ToSet(todo') = DOMAIN refs
    BY <1>1, <1>7, <1>8, NewestFirstIs
  <2>2. Todo'
    BY <1>1, <1>4, <1>8, <2>1 DEF Todo
  <2>3. \A c : ~Waiting(c) /\ (Home(c) => Home(c)')
    BY <1>1, <1>4, <1>8 DEF Waiting, Home
  <2>4. Pointed'
    BY <1>1, <1>8, <2>3 DEF IInv, Pointed
  <2> QED
    BY <1>1, <1>5, <1>6, <1>8, <2>2, <2>4 DEF IInv, Past
<1>9. CASE sorted # {}
  <2>1. IsFiniteSet(sorted)
    <3>1. IsFiniteSet(DOMAIN refs)
      <4>1. DOMAIN refs = 1 .. Len(refs) /\ Len(refs) \in Nat
        BY <1>7
      <4> QED
        BY <4>1, FS_Interval
    <3> QED
      BY <1>7, <3>1, FS_Subset
  <2>2. todo' \in SetToSeqs(sorted)
    BY <1>1, <1>9 DEF ByNumber
  <2>3. todo' \in Seq(sorted) /\ IsInjective(todo') /\ ToSet(todo') = sorted
    BY <2>1, <2>2, OrderIs
  <2>4. todo' \in Seq(DOMAIN refs)
    BY <1>7, <2>3, Narrower
  <2>5. Todo'
    BY <1>1, <1>4, <1>7, <1>9, <2>3, <2>4 DEF Todo
  <2>6. \A c : (Waiting(c) => Waiting(c)') /\ (Home(c) => Home(c)')
    BY <1>1, <1>4, <1>9, <2>3 DEF Waiting, Home
  <2>7. Pointed'
    BY <1>1, <1>9, <2>6 DEF IInv, Pointed
  <2> QED
    BY <1>1, <1>5, <1>6, <1>9, <2>5, <2>7 DEF IInv, Past
<1> QED
  BY <1>8, <1>9

\* The entry that a loop at the end handles is not left for later.
LEMMA HeadIs ==
  ASSUME IInv, todo # <<>>
  PROVE  /\ Head(todo) \in ToSet(todo) /\ Head(todo) \in DOMAIN refs
         /\ Tail(todo) \in Seq(DOMAIN refs) /\ IsInjective(Tail(todo))
         /\ ToSet(Tail(todo)) = ToSet(todo) \ {Head(todo)}
<1>1. todo \in Seq(DOMAIN refs) /\ IsInjective(todo)
  BY DEF IInv, Todo
<1> QED
  BY <1>1, TailIs

\* Between the loops over the document its iterator is not used.
LEMMA NoWalk ==
  ASSUME IInv, phase \in {"move", "unlink", "free"}, phase' \in {"move", "unlink", "free"},
         UNCHANGED <<iter, tmp>>
  PROVE  Places' /\ Past'
BY NullAssumption DEF IInv, Places, Past

\* What MoveUsed does with the entry i.
Moving(i) ==
  LET d == refs[i].node
  IN  /\ phase = "move" /\ todo # <<>> /\ i = Head(todo) /\ refs[i].ix # 0
      /\ heap' = AppendChild(heap, root, d) /\ todo' = Tail(todo)
      /\ UNCHANGED <<as, phase, iter, sorted, ix, tmp>>
      /\ i \in ToSet(todo) /\ i \in DOMAIN refs /\ todo' \in Seq(DOMAIN refs)
      /\ IsInjective(todo') /\ ToSet(todo') = ToSet(todo) \ {i}
      /\ d \in live /\ d \in Node /\ heap.type[d] = "footnote_definition"
      /\ Fine(heap') /\ heap'.type = heap.type /\ live' = live
      /\ \A m \in Node : heap'.parent[m] = IF m = d THEN root ELSE heap.parent[m]
      /\ refs' \in Seq([label : Label \cup {0}, node : Pointer, ix : Nat])
      /\ DOMAIN refs' = DOMAIN refs
      /\ \A j \in DOMAIN refs : /\ refs'[j].node = IF j = i THEN NULL ELSE refs[j].node
                                /\ refs'[j].label = refs[j].label /\ refs'[j].ix = refs[j].ix
                                /\ j # i => refs'[j] = refs[j]
      /\ i \in held /\ held' = held \ {i}
      /\ \A j \in held' : refs'[j] = refs[j] /\ j \in held /\ refs[j].node # d

\* A used definition leaves the map.
LEMMA MoveDoes ==
  ASSUME IInv, MoveUsed
  PROVE  Moving(Head(todo))
<1> DEFINE i == Head(todo)
           d == refs[i].node
           R == [label : Label \cup {0}, node : Pointer, ix : Nat]
<1>1. /\ phase = "move" /\ todo # <<>> /\ heap' = AppendChild(heap, root, d) /\ refs[i].ix # 0
      /\ refs' = [refs EXCEPT ![i].node = NULL] /\ todo' = Tail(todo)
      /\ UNCHANGED <<as, phase, iter, sorted, ix, tmp>> /\ i = Head(todo)
  BY DEF MoveUsed, Entry
<1>2. /\ i \in ToSet(todo) /\ i \in DOMAIN refs /\ todo' \in Seq(DOMAIN refs)
      /\ IsInjective(todo') /\ ToSet(todo') = ToSet(todo) \ {i}
  BY <1>1, HeadIs
<1> HIDE DEF i
<1>3. i \in held
  BY <1>1, <1>2 DEF IInv, Todo
<1>4. d \in live /\ d \in Node /\ heap.type[d] = "footnote_definition"
  BY <1>3 DEF IInv, Map, live, Live
<1> HIDE DEF d
<1>5. /\ Fine(heap') /\ heap'.type = heap.type /\ live' = live
      /\ \A m \in Node : heap'.parent[m] = IF m = d THEN root ELSE heap.parent[m]
  <2>1. Fine(heap)
    BY DEF IInv, Tree
  <2> QED
    BY <1>1, <1>4, <2>1, MovedIs DEF live
<1>6. /\ refs' \in Seq(R) /\ DOMAIN refs' = DOMAIN refs
      /\ \A j \in DOMAIN refs : /\ refs'[j].node = IF j = i THEN NULL ELSE refs[j].node
                                /\ refs'[j].label = refs[j].label /\ refs'[j].ix = refs[j].ix
                                /\ j # i => refs'[j] = refs[j]
  <2> DEFINE e == [refs[i] EXCEPT !.node = NULL]
  <2>1. refs' = [refs EXCEPT ![i] = e]
    BY <1>1
  <2>2. refs \in Seq(R)
    BY DEF IInv, Map
  <2>3. refs[i] \in R
    <3> HIDE DEF R
    <3> QED
      BY <1>2, <2>2
  <2>4. e \in R /\ e.node = NULL /\ e.label = refs[i].label /\ e.ix = refs[i].ix
    BY <2>3 DEF Pointer
  <2> HIDE DEF e, R
  <2>5. refs' \in Seq(R) /\ DOMAIN refs' = DOMAIN refs
    BY <1>2, <2>1, <2>2, <2>4
  <2>6. \A j \in DOMAIN refs : refs'[j] = IF j = i THEN e ELSE refs[j]
    BY <1>2, <2>1, <2>2
  <2> QED
    BY <2>4, <2>5, <2>6
<1>7. held' = held \ {i} /\ \A j \in held' : refs'[j] = refs[j]
  BY <1>1, <1>6 DEF held
<1>8. \A j \in held' : j \in held /\ refs[j].node # d
  BY <1>3, <1>7 DEF IInv, Map, d
<1> QED
  BY <1>1, <1>2, <1>3, <1>4, <1>5, <1>6, <1>7, <1>8 DEF Moving, d, i

\* A used definition is moved, and stays from now on.
LEMMA MoveUsedInv == IInv /\ MoveUsed => IInv'
<1> SUFFICES ASSUME IInv, MoveUsed PROVE IInv'
  OBVIOUS
<1> DEFINE R == [label : Label \cup {0}, node : Pointer, ix : Nat]
<1> PICK i : Moving(i)
  BY MoveDoes
<1> DEFINE d == refs[i].node
<1>1. /\ phase = "move" /\ todo # <<>> /\ UNCHANGED <<as, phase, iter, sorted, ix, tmp>>
  BY DEF Moving
<1>2. /\ i \in ToSet(todo) /\ i \in DOMAIN refs /\ todo' \in Seq(DOMAIN refs)
      /\ IsInjective(todo') /\ ToSet(todo') = ToSet(todo) \ {i}
  BY DEF Moving
<1>3. i \in held
  BY DEF Moving
<1>4. d \in live /\ heap.type[d] = "footnote_definition"
  BY DEF Moving
<1>5. /\ Fine(heap') /\ heap'.type = heap.type /\ live' = live
      /\ \A m \in Node : heap'.parent[m] = IF m = d THEN root ELSE heap.parent[m]
  BY DEF Moving
<1>6. refs' \in Seq(R) /\ DOMAIN refs' = DOMAIN refs
  BY DEF Moving
<1>7. held' = held \ {i} /\ \A j \in held' : refs'[j] = refs[j]
  BY DEF Moving
<1>8. \A j \in held' : j \in held /\ refs[j].node # d
  BY DEF Moving
<1> HIDE DEF d
<1>9. Tree'
  BY <1>1, <1>5 DEF IInv, Tree
<1>10. Map'
  <2>1. \A j \in held' : /\ refs'[j].node \in live'
                         /\ heap'.type[refs'[j].node] = "footnote_definition"
    BY <1>5, <1>7, <1>8 DEF IInv, Map
  <2>2. \A j, k \in held' : refs'[j].node = refs'[k].node => j = k
    BY <1>7, <1>8 DEF IInv, Map
  <2>3. sorted' \in SUBSET DOMAIN refs' /\ ix' \in Nat
    BY <1>1, <1>6 DEF IInv, Map
  <2> QED
    BY <1>1, <1>6, <2>1, <2>2, <2>3 DEF Map
<1>11. Todo'
  <2>1. sorted # {} /\ ToSet(todo) \subseteq held
    BY <1>1 DEF IInv, Todo
  <2> QED
    BY <1>1, <1>2, <1>6, <1>7, <2>1 DEF Todo
<1>12. Pointed'
  <2> SUFFICES ASSUME NEW m \in Node, NEW c \in Node, as.parent_footnote_def[m] = c
               PROVE  m \in live' /\ (Home(c)' \/ Waiting(c)')
    BY <1>1 DEF IInv, Pointed
  <2>1. m \in live /\ (Home(c) \/ Waiting(c))
    BY DEF IInv, Pointed
  <2>2. CASE Home(c)
    <3>1. \A j \in held' : refs'[j].node # c
      BY <1>7, <1>8, <2>2 DEF Home
    <3>2. c # d
      BY <1>3, <2>2 DEF Home, d
    <3>3. Home(c)'
      BY <1>5, <2>2, <3>1, <3>2 DEF Home
    <3> QED
      BY <1>5, <2>1, <3>3
  <2>3. CASE Waiting(c)
    <3>1. PICK j \in sorted : /\ j \in held /\ refs[j].node = c /\ refs[j].ix # 0
                              /\ j \in ToSet(todo)
      BY <1>1, <2>3 DEF Waiting
    <3>2. CASE j = i
      <4>1. c = d /\ \A k \in held' : refs'[k].node # c
        BY <1>7, <1>8, <3>1, <3>2 DEF d
      <4>2. Home(c)'
        BY <1>4, <1>5, <4>1 DEF Home
      <4> QED
        BY <1>5, <2>1, <4>2
    <3>3. CASE j # i
      <4>1. j \in held' /\ j \in ToSet(todo') /\ refs'[j] = refs[j] /\ j \in sorted'
        BY <1>1, <1>2, <1>7, <3>1, <3>3
      <4>2. Waiting(c)'
        BY <1>1, <3>1, <4>1 DEF Waiting
      <4> QED
        BY <1>5, <2>1, <4>2
    <3> QED
      BY <3>2, <3>3
  <2> QED
    BY <2>1, <2>2, <2>3
<1>13. Places' /\ Past'
  BY <1>1, NoWalk
<1> QED
  BY <1>9, <1>10, <1>11, <1>12, <1>13 DEF IInv

\* What does not move a definition that stays leaves it where it is.
LEMMA UnlinkStep ==
  ASSUME IInv, NEW i \in held, heap' = Unlink(heap, refs[i].node),
         phase \in {"move", "unlink"}, UNCHANGED <<as, phase, iter, refs, sorted, ix, tmp>>
  PROVE  /\ Tree' /\ Map' /\ live' = live /\ held' = held
         /\ heap'.parent[refs[i].node] = NULL
         /\ \A m \in Node : heap.parent[m] = NULL => heap'.parent[m] = NULL
         /\ \A c \in Node : Home(c) => Home(c)'
<1> DEFINE d == refs[i].node
<1>1. d \in live /\ d \in Node
  <2>1. d \in live
    BY DEF IInv, Map
  <2> QED
    BY <2>1 DEF live, Live
<1>2. /\ Fine(heap') /\ heap'.type = heap.type /\ live' = live
      /\ \A m \in Node : heap'.parent[m] = IF m = d THEN NULL ELSE heap.parent[m]
  <2>1. Fine(heap)
    BY DEF IInv, Tree
  <2> QED
    BY <1>1, <2>1, UnlinkedIs DEF live
<1>3. held' = held
  BY DEF held
<1>4. Tree'
  BY <1>2 DEF IInv, Tree
<1>5. Map'
  BY <1>2, <1>3 DEF IInv, Map
<1>6. \A c \in Node : Home(c) => Home(c)'
  <2> SUFFICES ASSUME NEW c \in Node, Home(c) PROVE Home(c)'
    OBVIOUS
  <2>1. c # d
    BY DEF Home
  <2> QED
    BY <1>2, <1>3, <2>1 DEF Home
<1> QED
  BY <1>1, <1>2, <1>3, <1>4, <1>5, <1>6

\* An unused definition is taken out of the document.
LEMMA UnlinkUnusedInv == IInv /\ UnlinkUnused => IInv'
<1> SUFFICES ASSUME IInv, UnlinkUnused PROVE IInv'
  OBVIOUS
<1> DEFINE i == Head(todo)
<1>1. /\ phase = "move" /\ todo # <<>> /\ refs[i].ix = 0 /\ heap' = Unlink(heap, refs[i].node)
      /\ todo' = Tail(todo) /\ UNCHANGED <<as, phase, iter, refs, sorted, ix, tmp>>
  BY DEF UnlinkUnused, Entry
<1>2. /\ i \in ToSet(todo) /\ i \in DOMAIN refs /\ todo' \in Seq(DOMAIN refs)
      /\ IsInjective(todo') /\ ToSet(todo') = ToSet(todo) \ {i}
  BY <1>1, HeadIs
<1> HIDE DEF i
<1>3. i \in held /\ ToSet(todo) \subseteq held /\ sorted # {}
  BY <1>1, <1>2 DEF IInv, Todo
<1>4. /\ Tree' /\ Map' /\ live' = live /\ held' = held
      /\ \A c \in Node : Home(c) => Home(c)'
  BY <1>1, <1>3, UnlinkStep
<1>5. Todo'
  BY <1>1, <1>2, <1>3, <1>4 DEF Todo
<1>6. Pointed'
  <2>1. ASSUME NEW c \in Node, Waiting(c) PROVE Waiting(c)'
    <3>1. PICK j \in sorted : /\ j \in held /\ refs[j].node = c /\ refs[j].ix # 0
                              /\ j \in ToSet(todo)
      BY <1>1, <2>1 DEF Waiting
    <3>2. j \in ToSet(todo')
      BY <1>1, <1>2, <3>1
    <3> QED
      BY <1>1, <1>4, <3>1, <3>2 DEF Waiting
  <2> QED
    BY <1>1, <1>4, <2>1 DEF IInv, Pointed
<1>7. Places' /\ Past'
  BY <1>1, NoWalk
<1> QED
  BY <1>4, <1>5, <1>6, <1>7 DEF IInv

\* cmark_unlink_footnotes_map takes out those that it still holds.
LEMMA UnlinkEntryInv == IInv /\ UnlinkEntry => IInv'
<1> SUFFICES ASSUME IInv, UnlinkEntry PROVE IInv'
  OBVIOUS
<1> DEFINE i == Head(todo)
<1>1. /\ phase = "unlink" /\ todo # <<>> /\ todo' = Tail(todo)
      /\ heap' = IF refs[i].node = NULL THEN heap ELSE Unlink(heap, refs[i].node)
      /\ UNCHANGED <<as, phase, iter, refs, sorted, ix, tmp>>
  BY DEF UnlinkEntry, Entry
<1>2. /\ i \in ToSet(todo) /\ i \in DOMAIN refs /\ todo' \in Seq(DOMAIN refs)
      /\ IsInjective(todo') /\ ToSet(todo') = ToSet(todo) \ {i}
  BY <1>1, HeadIs
<1> HIDE DEF i
<1>3. i \in held <=> refs[i].node # NULL
  BY <1>1, <1>2 DEF held
<1>4. /\ Tree' /\ Map' /\ live' = live /\ held' = held
      /\ i \in held => heap'.parent[refs[i].node] = NULL
      /\ \A m \in Node : heap.parent[m] = NULL => heap'.parent[m] = NULL
      /\ \A c \in Node : Home(c) => Home(c)'
  <2>1. CASE i \in held
    <3>1. heap' = Unlink(heap, refs[i].node)
      BY <1>1, <1>3, <2>1
    <3> QED
      BY <1>1, <2>1, <3>1, UnlinkStep
  <2>2. CASE i \notin held
    <3>1. heap' = heap
      BY <1>1, <1>3, <2>2
    <3>2. held' = held /\ live' = live
      BY <1>1, <3>1 DEF held, live
    <3>3. \A c \in Node : Home(c) => Home(c)'
      BY <1>1, <3>1, <3>2 DEF Home
    <3> QED
      BY <1>1, <2>2, <3>1, <3>2, <3>3 DEF IInv, Tree, Map
  <2> QED
    BY <2>1, <2>2
<1>5. Todo'
  <2>1. \A j \in held' \ ToSet(todo') : heap'.parent[refs'[j].node] = NULL
    <3> SUFFICES ASSUME NEW j \in held \ ToSet(todo')
                 PROVE  heap'.parent[refs[j].node] = NULL
      BY <1>1, <1>4
    <3>1. CASE j = i
      BY <1>4, <3>1
    <3>2. CASE j # i
      <4>1. refs[j].node \in live /\ heap.parent[refs[j].node] = NULL
        BY <1>1, <1>2, <3>2 DEF IInv, Map, Todo
      <4> QED
        BY <1>4, <4>1 DEF live, Live
    <3> QED
      BY <3>1, <3>2
  <2> QED
    BY <1>1, <1>2, <2>1 DEF Todo
<1>6. Pointed'
  <2>1. \A c : ~Waiting(c)
    BY <1>1 DEF Waiting
  <2> QED
    BY <1>1, <1>4, <2>1 DEF IInv, Pointed
<1>7. Places' /\ Past'
  BY <1>1, NoWalk
<1> QED
  BY <1>4, <1>5, <1>6, <1>7 DEF IInv

\* footnote_free frees a definition that is out of the document.
LEMMA FreeEntryInv == IInv /\ FreeEntry => IInv'
<1> SUFFICES ASSUME IInv, FreeEntry PROVE IInv'
  OBVIOUS
<1> DEFINE i == Head(todo)
           d == refs[i].node
           F == BelowOf(heap, d)
<1>1. /\ phase = "free" /\ todo # <<>> /\ todo' = Tail(todo)
      /\ IF d = NULL THEN UNCHANGED <<heap, as>>
         ELSE heap' = FreeTree(heap, d) /\ as' = Blank(as, F)
      /\ UNCHANGED <<phase, iter, refs, sorted, ix, tmp>>
  BY DEF FreeEntry, Entry
<1>2. /\ i \in ToSet(todo) /\ i \in DOMAIN refs /\ todo' \in Seq(DOMAIN refs)
      /\ IsInjective(todo') /\ ToSet(todo') = ToSet(todo) \ {i}
  BY <1>1, HeadIs
<1> HIDE DEF i
<1>3. held' = held \ {i} /\ (i \in held <=> d # NULL)
  BY <1>1, <1>2 DEF held
<1>4. Places' /\ Past'
  BY <1>1, NoWalk
<1>5. \A c : ~Waiting(c)
  BY <1>1 DEF Waiting
<1>6. CASE d = NULL
  <2>1. held' = held /\ UNCHANGED <<heap, as>> /\ live' = live
    BY <1>1, <1>3, <1>6 DEF live
  <2>2. Tree' /\ Map'
    BY <1>1, <2>1 DEF IInv, Tree, Map
  <2>3. Todo'
    BY <1>1, <1>2, <2>1 DEF IInv, Todo
  <2>4. \A c \in Node : Home(c) => Home(c)'
    BY <1>1, <2>1 DEF Home
  <2>5. Pointed'
    BY <1>1, <1>5, <2>1, <2>4 DEF IInv, Pointed
  <2> QED
    BY <1>4, <2>2, <2>3, <2>5 DEF IInv
<1>7. CASE d # NULL
  <2>1. i \in held /\ heap' = FreeTree(heap, d) /\ as' = Blank(as, F)
    BY <1>1, <1>3, <1>7
  <2>2. /\ d \in live /\ heap.type[d] = "footnote_definition" /\ heap.parent[d] = NULL
    BY <1>1, <2>1 DEF IInv, Map, Todo
  <2>3. Fine(heap) /\ d # root /\ root \in Node
    BY <2>2, FineRoot DEF IInv, Tree, Fine
  <2>4. /\ Fine(heap') /\ Descendants(heap, F, d) /\ live' = live \ F
        /\ \A m \in Node \ F : heap'.type[m] = heap.type[m] /\ heap'.parent[m] = heap.parent[m]
    BY <2>1, <2>2, <2>3, FreeTreeIs DEF live
  <2> HIDE DEF d, F
  \* Other trees and the children of the document are not below it.
  <2>5. \A m \in live : m # d /\ heap.parent[m] \in {NULL, root} => m \in Node \ F
    <3>1. NULL \notin F /\ root \notin F
      <4>1. heap.parent[root] = NULL
        BY <2>3, FineRoot
      <4> QED
        BY <2>3, <2>4, <4>1, NullAssumption DEF Descendants, Live
    <3> QED
      BY <2>4, <3>1 DEF Descendants, live, Live
  <2>6. Tree'
    <3>1. IsFiniteSet(live) /\ live' \in SUBSET live
      BY <2>4, SizeAssumption, FS_Subset DEF live, Live
    <3>2. Cardinality(live') <= Cardinality(live)
          /\ Cardinality(live') \in Nat /\ Cardinality(live) \in Nat
      BY <3>1, FS_Subset, FS_CardinalityType
    <3>3. Cardinality(live) <= MaxSize
      BY DEF IInv, Tree
    <3> QED
      BY <1>1, <2>4, <3>2, <3>3, SizeAssumption DEF Tree
  <2>7. \A j \in held' : /\ j \in held /\ refs[j].node \in live' /\ refs[j].node \in Node \ F
                         /\ heap.type[refs[j].node] = "footnote_definition"
                         /\ heap.parent[refs[j].node] = NULL
    <3> SUFFICES ASSUME NEW j \in held'
                 PROVE  /\ j \in held /\ refs[j].node \in live' /\ refs[j].node \in Node \ F
                        /\ heap.type[refs[j].node] = "footnote_definition"
                        /\ heap.parent[refs[j].node] = NULL
      OBVIOUS
    <3>1. j \in held /\ refs[j].node # d
      BY <1>3, <2>1 DEF IInv, Map, d
    <3>2. /\ refs[j].node \in live /\ heap.type[refs[j].node] = "footnote_definition"
          /\ heap.parent[refs[j].node] = NULL
      BY <1>1, <3>1 DEF IInv, Map, Todo
    <3> QED
      BY <2>4, <2>5, <3>1, <3>2
  <2>8. Map'
    <3>1. \A j \in held' : /\ refs'[j].node \in live'
                           /\ heap'.type[refs'[j].node] = "footnote_definition"
      BY <1>1, <2>4, <2>7
    <3>2. \A j, k \in held' : refs'[j].node = refs'[k].node => j = k
      BY <1>1, <2>7 DEF IInv, Map
    <3> QED
      BY <1>1, <3>1, <3>2 DEF IInv, Map
  <2>9. Todo'
    BY <1>1, <1>2, <2>4, <2>7 DEF Todo
  <2>10. as \in Fields
    BY DEF IInv, Pointed
  <2>11. as' \in Fields /\ \A m \in Node : as'.parent_footnote_def[m]
                             = IF m \in F THEN NULL ELSE as.parent_footnote_def[m]
    <3>1. PICK a \in Fields : a = as
      BY <2>10
    <3>2. /\ Blank(a, F) \in Fields
          /\ \A m \in Node : Blank(a, F).parent_footnote_def[m]
                               = IF m \in F THEN NULL ELSE a.parent_footnote_def[m]
      BY BlankIs
    <3> QED
      BY <2>1, <3>1, <3>2
  <2>12. Pointed'
    <3> SUFFICES ASSUME NEW m \in Node, NEW c \in Node, as'.parent_footnote_def[m] = c
                 PROVE  m \in live' /\ (Home(c)' \/ Waiting(c)')
      BY <1>1, <2>11 DEF Pointed
    <3>1. m \notin F /\ as.parent_footnote_def[m] = c
      BY <2>11, NullAssumption
    <3>2. m \in live /\ Home(c)
      BY <1>5, <3>1 DEF IInv, Pointed
    <3>3. c # d /\ c \in live
      BY <2>1, <3>2 DEF Home, d
    <3>4. c \in Node \ F
      BY <2>5, <3>2, <3>3 DEF Home
    <3>5. Home(c)'
      BY <1>1, <1>3, <2>4, <3>2, <3>3, <3>4 DEF Home
    <3> QED
      BY <2>4, <3>1, <3>2, <3>5
  <2> QED
    BY <1>4, <2>6, <2>8, <2>9, <2>12 DEF IInv
<1> QED
  BY <1>6, <1>7

\* Each loop at the end is followed by the next.
LEMMA LoopEndInv == IInv /\ LoopEnd => IInv'
<1> SUFFICES ASSUME IInv, LoopEnd PROVE IInv'
  OBVIOUS
<1>1. /\ phase \in {"move", "unlink"} /\ todo = <<>> /\ todo' = NewestFirst
      /\ phase' = IF phase = "move" THEN "unlink" ELSE "free"
      /\ UNCHANGED <<heap, as, iter, refs, sorted, ix, tmp>> /\ live' = live
  BY DEF LoopEnd, live
<1>2. refs \in Seq([label : Label \cup {0}, node : Pointer, ix : Nat])
  BY DEF IInv, Map
<1>3. /\ todo' \in Seq(DOMAIN refs) /\ IsInjective(todo') /\ ToSet(todo') = DOMAIN refs
      /\ ToSet(todo) = {}
  <2>1. ToSet(todo) = {}
    BY <1>1 DEF ToSet
  <2> QED
    BY <1>1, <1>2, <2>1, NewestFirstIs
<1>4. held' = held /\ held \subseteq DOMAIN refs
  BY <1>1, <1>3 DEF held
<1>5. Tree' /\ Map'
  BY <1>1, <1>4 DEF IInv, Tree, Map
<1>6. Todo'
  <2>1. CASE phase = "move"
    BY <1>1, <1>3, <1>4, <2>1 DEF Todo
  <2>2. CASE phase = "unlink"
    <3>1. \A j \in held : heap.parent[refs[j].node] = NULL
      BY <1>3, <2>2 DEF IInv, Todo
    <3> QED
      BY <1>1, <1>3, <1>4, <2>2, <3>1 DEF Todo
  <2> QED
    BY <1>1, <2>1, <2>2
<1>7. \A c : ~Waiting(c) /\ (Home(c) => Home(c)')
  BY <1>1, <1>3, <1>4 DEF Waiting, Home
<1>8. Pointed'
  BY <1>1, <1>7 DEF IInv, Pointed
<1>9. Places' /\ Past'
  BY <1>1, NoWalk
<1> QED
  BY <1>5, <1>6, <1>8, <1>9 DEF IInv

\* With the map gone, texts are joined.
LEMMA MapFreedInv == IInv /\ MapFreed => IInv'
<1> SUFFICES ASSUME IInv, MapFreed PROVE IInv'
  OBVIOUS
<1>1. /\ phase = "free" /\ phase' = "consolidate" /\ iter' = IterNew(root)
      /\ UNCHANGED <<heap, as, refs, sorted, ix, todo, tmp>> /\ live' = live
  BY DEF MapFreed, live
<1>2. held' = {}
  BY <1>1 DEF held
<1>3. IterNew(root) \in Walking
  BY IterNewIs DEF IInv, Tree
<1>4. Tree' /\ Places'
  BY <1>1, <1>3 DEF IInv, Tree, Places, Walking
<1>5. Map' /\ Todo'
  BY <1>1, <1>2 DEF IInv, Map, Todo
<1>6. \A c : ~Waiting(c) /\ (Home(c) => Home(c)')
  BY <1>1, <1>2 DEF Waiting, Home
<1>7. Pointed' /\ Past'
  BY <1>1, <1>6 DEF IInv, Pointed, Past
<1> QED
  BY <1>4, <1>5, <1>7 DEF IInv

\* Without a map only the document and the iterator matter.
LEMMA Joining ==
  ASSUME IInv, phase = "consolidate", phase' \in {"consolidate", "done"},
         UNCHANGED <<refs, sorted, ix, todo>>
  PROVE  Map' /\ Todo' /\ Past' /\ held' = {} /\ \A c : ~Waiting(c)
<1>1. held' = {}
  BY DEF held
<1>2. \A c : ~Waiting(c)
  BY DEF Waiting
<1> QED
  BY <1>1, <1>2 DEF IInv, Map, Todo, Past

\* The loop comes to texts that follow each other.
LEMMA ConsolidateInv ==
  ASSUME IInv, phase = "consolidate", NEW it, it = Forward, Consolidate(it)
  PROVE  IInv'
<1>1. /\ AtTexts(it) /\ tmp' = heap.next[it.cur] /\ iter' = it
      /\ UNCHANGED <<heap, as, phase, refs, sorted, ix, todo>> /\ live' = live
  BY DEF Consolidate, live
<1>2. it \in Walking /\ it.cur \in live
  BY <1>1, ForwardLive DEF AtTexts
<1>3. it.next = heap.next[it.cur] /\ it.next_ev = "enter"
  BY <1>1, AheadIs
<1>4. heap.next[it.cur] # NULL /\ heap.type[heap.next[it.cur]] = "text"
  BY <1>1 DEF AtTexts
<1>5. Places'
  <2>1. it.next \in live
    BY <1>2, <1>3, <1>4 DEF Walking
  <2> QED
    BY <1>1, <1>2, <1>3, <1>4, <2>1 DEF Places, Walking
<1>6. Map' /\ Todo' /\ Past' /\ held' = {} /\ \A c : ~Waiting(c)
  BY <1>1, Joining
<1>7. Tree'
  BY <1>1 DEF IInv, Tree
<1>8. \A c : Home(c) => Home(c)'
  BY <1>1, <1>6 DEF Home
<1>9. Pointed'
  BY <1>1, <1>6, <1>8 DEF IInv, Pointed
<1> QED
  BY <1>5, <1>6, <1>7, <1>9 DEF IInv

\* One of them is freed; the iterator has gone on.
LEMMA JoinInv == IInv /\ Join => IInv'
<1> SUFFICES ASSUME IInv, Join PROVE IInv'
  OBVIOUS
<1>1. /\ phase = "consolidate" /\ tmp # NULL /\ iter' = IterNext(heap, iter)
      /\ heap' = FreeTree(heap, tmp) /\ as' = Blank(as, {tmp})
      /\ tmp' = IF heap.next[tmp] # NULL /\ heap.type[heap.next[tmp]] = "text"
                THEN heap.next[tmp] ELSE NULL
      /\ UNCHANGED <<phase, refs, sorted, ix, todo>>
  BY DEF Join
<1>2. /\ tmp \in live /\ tmp \in Node /\ heap.type[tmp] = "text" /\ iter.next = tmp
      /\ iter.next_ev = "enter" /\ iter \in Walking /\ iter \in Iterators /\ iter.root = root
  BY <1>1 DEF IInv, Places, Walking, live, Live
<1>3. /\ Fine(heap) /\ WellFormed(heap) /\ Founded(heap.parent) /\ heap \in Heap
      /\ heap.type[root] = "document" /\ Cardinality(live) <= MaxSize
  BY DEF IInv, Tree, Fine, WellFormed
<1>4. tmp # root
  BY <1>2, <1>3
<1>5. BelowOf(heap, tmp) = {tmp}
  <2>1. heap.first_child[tmp] = NULL
    BY <1>2, <1>3, Barren
  <2> QED
    BY <1>2, <1>3, <2>1, BelowIs, ReachedStep
<1>6. /\ Fine(heap') /\ live' = live \ {tmp}
      /\ \A m \in Node \ {tmp} : heap'.type[m] = heap.type[m] /\ heap'.parent[m] = heap.parent[m]
  BY <1>1, <1>2, <1>3, <1>4, <1>5, FreeTreeIs DEF live
<1>7. Tree'
  <2>1. IsFiniteSet(live) /\ live' \in SUBSET live
    BY <1>6, SizeAssumption, FS_Subset DEF live, Live
  <2>2. Cardinality(live') <= Cardinality(live)
        /\ Cardinality(live') \in Nat /\ Cardinality(live) \in Nat
    BY <2>1, FS_Subset, FS_CardinalityType
  <2> QED
    BY <1>1, <1>3, <1>6, <2>2, SizeAssumption DEF Tree
<1>8. iter' \in Walking
  BY <1>1, <1>2, <1>3, WalkingStep
<1>9. /\ heap.next[tmp] # tmp /\ heap.parent[tmp] # tmp
      /\ heap.next[tmp] \in Node \cup {NULL} /\ heap.parent[tmp] \in Node \cup {NULL}
  BY <1>2, <1>3, NotSelf, Pointers
<1>10. /\ heap.next[tmp] # NULL => iter'.next_ev = "enter" /\ iter'.next = heap.next[tmp]
       /\ iter'.next \in {heap.next[tmp], heap.parent[tmp], NULL}
  <2>1. iter.next_ev = "enter" /\ heap.type[iter.next] \in LeafTypes /\ iter.next # iter.root
    BY <1>2, <1>4 DEF LeafTypes
  <2>2. iter' \in Iterators
    BY <1>8 DEF Walking
  <2>3. iter'.next_ev = "done" => iter'.next = NULL
    BY <2>2 DEF Iterators
  <2> QED
    BY <1>1, <1>2, <1>3, <1>9, <2>1, <2>3, IterNextIs
<1>11. iter'.next \in live' \cup {NULL}
  <2>1. iter'.next \in live \cup {NULL} /\ iter'.next # tmp
    BY <1>2, <1>8, <1>9, <1>10, NullAssumption DEF Walking
  <2> QED
    BY <1>6, <2>1
<1>12. Places'
  <2>1. ASSUME tmp' # NULL
        PROVE  /\ tmp' \in live' /\ heap'.type[tmp'] = "text"
               /\ iter'.next = tmp' /\ iter'.next_ev = "enter"
    <3>1. heap.next[tmp] # NULL /\ heap.type[heap.next[tmp]] = "text" /\ tmp' = heap.next[tmp]
      BY <1>1, <2>1
    <3>2. tmp' \in Node \ {tmp} /\ iter'.next = tmp' /\ iter'.next_ev = "enter"
      BY <1>9, <1>10, <3>1
    <3> QED
      BY <1>6, <1>11, <2>1, <3>1, <3>2
  <2> QED
    BY <1>1, <1>8, <1>11, <2>1 DEF Places, Walking
<1>13. Map' /\ Todo' /\ Past' /\ held' = {} /\ \A c : ~Waiting(c)
  BY <1>1, Joining
<1>14. Pointed'
  <2>1. as \in Fields
    BY DEF IInv, Pointed
  <2>2. as' \in Fields /\ \A m \in Node : as'.parent_footnote_def[m]
                             = IF m \in {tmp} THEN NULL ELSE as.parent_footnote_def[m]
    <3>1. PICK a \in Fields : a = as
      BY <2>1
    <3>2. /\ Blank(a, {tmp}) \in Fields
          /\ \A m \in Node : Blank(a, {tmp}).parent_footnote_def[m]
                               = IF m \in {tmp} THEN NULL ELSE a.parent_footnote_def[m]
      BY BlankIs
    <3> QED
      BY <1>1, <3>1, <3>2
  <2> SUFFICES ASSUME NEW m \in Node, NEW c \in Node, as'.parent_footnote_def[m] = c
               PROVE  m \in live' /\ (Home(c)' \/ Waiting(c)')
    BY <1>1, <2>2 DEF Pointed
  <2>3. m # tmp /\ as.parent_footnote_def[m] = c
    BY <2>2, NullAssumption
  <2>4. m \in live /\ Home(c)
    BY <1>13, <2>3 DEF IInv, Pointed
  <2>5. c # tmp /\ c \in live
    BY <1>2, <2>4 DEF Home
  <2>6. Home(c)'
    BY <1>6, <1>13, <2>4, <2>5 DEF Home
  <2> QED
    BY <1>6, <2>3, <2>4, <2>6
<1> QED
  BY <1>7, <1>12, <1>13, <1>14 DEF IInv

\* The loop ends.
LEMMA ConsolidatedInv ==
  ASSUME IInv, phase = "consolidate", tmp = NULL, NEW it, it = Forward, Consolidated(it)
  PROVE  IInv'
<1>1. /\ phase' = "done" /\ iter' = it
      /\ UNCHANGED <<heap, as, refs, sorted, ix, todo, tmp>> /\ live' = live
  BY DEF Consolidated, live
<1>2. it \in Walking
  BY ForwardLive
<1>3. Tree' /\ Places'
  BY <1>1, <1>2 DEF IInv, Tree, Places, Walking
<1>4. Map' /\ Todo' /\ Past' /\ held' = {} /\ \A c : ~Waiting(c)
  BY <1>1, Joining
<1>5. \A c : Home(c) => Home(c)'
  BY <1>1, <1>4 DEF Home
<1>6. Pointed'
  BY <1>1, <1>4, <1>5 DEF IInv, Pointed
<1> QED
  BY <1>3, <1>4, <1>6 DEF IInv

-----------------------------------------------------------------------------
\* The invariant holds of every state.
THEOREM InvHolds == Spec => []IInv
<1>1. ASSUME IInv, [Next]_vars PROVE IInv'
  <2>1. ASSUME NEW p \in LastPath, NEW shape \in Shapes,
               NEW l \in LabelsOf(shape), NEW t \in TightnessOf(shape), Add(p, shape, l, t)
        PROVE  IInv'
    BY <1>1, <2>1, AddInv
  <2>2. CASE Built
    BY <1>1, <2>2, BuiltInv
  <2>3. ASSUME phase = "collect", NEW it, it = Forward, Collect(it) \/ Collected(it)
        PROVE  IInv'
    BY <1>1, <2>3, CollectInv, CollectedInv
  <2>4. ASSUME phase = "number", NEW it, it = Forward,
               Number(it) \/ Restore(it) \/ Numbered(it)
        PROVE  IInv'
    BY <1>1, <2>4, NumberInv, RestoreInv, NumberedInv
  <2>5. CASE MoveUsed \/ UnlinkUnused \/ UnlinkEntry \/ FreeEntry \/ LoopEnd \/ MapFreed
    BY <1>1, <2>5, MoveUsedInv, UnlinkUnusedInv, UnlinkEntryInv, FreeEntryInv, LoopEndInv,
       MapFreedInv
  <2>6. ASSUME phase = "consolidate", tmp = NULL, NEW it, it = Forward,
               Consolidate(it) \/ Consolidated(it)
        PROVE  IInv'
    BY <1>1, <2>6, ConsolidateInv, ConsolidatedInv
  <2>7. CASE Join
    BY <1>1, <2>7, JoinInv
  <2>8. CASE UNCHANGED vars
    <3>1. UNCHANGED <<heap, as, phase, iter, refs, sorted, ix, todo, tmp>> /\ live' = live
      BY <2>8 DEF vars, live
    <3>2. held' = held
      BY <3>1 DEF held
    <3>3. \A c : (Home(c) => Home(c)') /\ (Waiting(c) => Waiting(c)')
      BY <3>1, <3>2 DEF Home, Waiting
    <3>4. Pointed'
      BY <1>1, <3>1, <3>3 DEF IInv, Pointed
    <3> QED
      BY <1>1, <3>1, <3>2, <3>4 DEF IInv, Tree, Places, Map, Todo, Past
  <2> QED
    BY <1>1, <2>1, <2>2, <2>3, <2>4, <2>5, <2>6, <2>7, <2>8 DEF Next, Process
<1> QED
  BY <1>1, InitInv, PTL DEF Spec

\* Whatever the code still holds while it edits the document is allocated.
THEOREM NothingIsStale == Spec => []NothingStale
BY InvHolds, InvNothingStale, PTL

-----------------------------------------------------------------------------
(***************************************************************************)
(* A walk comes to every node of the document.                             *)
(***************************************************************************)

\* The walk that goes on at x has left the nodes of D and is in those of O.
Walked(h, D, O, x) ==
  /\ D \cap O = {}
  /\ \A m \in O : h.type[m] \notin LeafTypes
  /\ \A m \in Node : h.parent[m] \in D => m \in D
  /\ \A m \in D \cup O : h.prev[m] \in D \cup {NULL}
  /\ \A m \in D : m = root \/ h.parent[m] \in D \cup O
  /\ \A m \in O : m = root \/ h.parent[m] \in O
  /\ x.next_ev = "enter" => /\ x.next \notin D \cup O /\ h.prev[x.next] \in D \cup {NULL}
                            /\ (x.next = root \/ h.parent[x.next] \in O)
  /\ x.next_ev = "exit" => /\ x.next \in O /\ \A m \in Node : h.parent[m] = x.next => m \in D
  /\ x.next_ev = "done" => root \in D

\* At first it is in none.
LEMMA WalkStarts ==
  ASSUME NEW h, Fine(h)
  PROVE  Walked(h, {}, {}, IterNew(root))
<1>1. root \in Node /\ root # NULL /\ h.parent[root] = NULL /\ h \in Heap /\ Linked(h)
  BY FineRoot, NullAssumption DEF Fine, WellFormed
<1>2. h.prev[root] = NULL
  BY <1>1 DEF Linked, ParentLinked
<1> QED
  BY <1>2 DEF Walked, IterNew

\* A node without a first child is no parent.
LEMMA BarrenIs ==
  ASSUME NEW h, Fine(h), NEW n \in Node, h.first_child[n] = NULL
  PROVE  \A m \in Node : h.parent[m] # n
<1> DEFINE K == {m \in Node : h.parent[m] = n}
<1>1. h \in Heap /\ WellFormed(h) /\ Linked(h) /\ Founded(h.prev)
  BY DEF Fine, WellFormed
<1> SUFFICES ASSUME K # {} PROVE FALSE
  OBVIOUS
<1>2. PICK m \in K : h.prev[m] \notin K
  BY <1>1 DEF Founded
<1>3. m \in Node /\ h.parent[m] = n /\ m # NULL /\ n # NULL
  BY NullAssumption
<1>4. h.prev[m] = NULL
  BY <1>1, <1>2, <1>3, Pointers DEF Linked, PrevLinked
<1> QED
  BY <1>1, <1>3, <1>4 DEF Linked, ParentLinked

\* From a node that it leaves it goes on to the next, or to the parent when
\* all children of that have been left.
LEMMA WalkLeaves ==
  ASSUME NEW h, Fine(h), Whole(h), NEW D \in SUBSET Live(h), NEW O \in SUBSET Live(h),
         D \cap O = {}, NEW n \in D, \A m \in O : h.type[m] \notin LeafTypes,
         \A m \in Node : h.parent[m] \in D => m \in D,
         \A m \in D \cup O : h.prev[m] \in D \cup {NULL},
         \A m \in D \cup O : h.prev[m] # n,
         \A m \in D : m = root \/ h.parent[m] \in D \cup O,
         \A m \in O : m = root \/ h.parent[m] \in O,
         n = root \/ h.parent[n] \in O,
         NEW x \in Iterators, x.root = root, x.next = n, NEW y, y = IterNext(h, x),
         x.next_ev = "exit" \/ (x.next_ev = "enter" /\ h.type[x.next] \in LeafTypes)
  PROVE  Walked(h, D, O, y)
<1>1. /\ h \in Heap /\ WellFormed(h) /\ Founded(h.parent) /\ Linked(h) /\ n \in Node
      /\ n \in Live(h) /\ n # NULL
  BY NullAssumption DEF Fine, WellFormed, Live
<1>2. h.next[n] \in Node \cup {NULL} /\ h.parent[n] \in Node \cup {NULL}
  BY <1>1, Pointers
<1>3. CASE n = root
  <2>1. y.next_ev = "done"
    BY <1>1, <1>3, IterNextIs
  <2> QED
    BY <1>3, <2>1 DEF Walked
<1>4. CASE n # root /\ h.next[n] # NULL
  <2> DEFINE k == h.next[n]
  <2>1. y.next_ev = "enter" /\ y.next = k
    BY <1>1, <1>4, IterNextIs
  <2>2. h.prev[k] = n /\ h.parent[k] = h.parent[n]
    BY <1>1, <1>4 DEF Linked, NextLinked
  <2> HIDE DEF k
  <2> QED
    BY <1>4, <2>1, <2>2 DEF Walked
<1>5. CASE n # root /\ h.next[n] = NULL
  <2> DEFINE p == h.parent[n]
  <2>1. p # NULL /\ p \in O /\ p \in Node
    BY <1>1, <1>2, <1>5 DEF Whole
  <2>2. y.next_ev = "exit" /\ y.next = p
    BY <1>1, <1>5, <2>1, IterNextIs
  <2> DEFINE K == {m \in Node : h.parent[m] = p /\ m \notin D}
  <2>3. K = {}
    <3> SUFFICES ASSUME K # {} PROVE FALSE
      OBVIOUS
    <3>1. PICK m \in K : h.next[m] \notin K
      <4>1. PICK m \in K : h.first_child[m] \notin K /\ h.next[m] \notin K
        <5>1. K \in SUBSET Node
          OBVIOUS
        <5> HIDE DEF K
        <5> QED
          BY <1>1, <5>1, Descends
      <4> QED
        BY <4>1
    <3>2. m # n /\ h.parent[m] = p /\ m \notin D /\ m \in Node
      OBVIOUS
    <3> HIDE DEF K, p
    <3>3. h.next[m] = NULL
      <4> SUFFICES ASSUME h.next[m] # NULL PROVE FALSE
        OBVIOUS
      <4>1. h.next[m] \in Node /\ h.parent[h.next[m]] = p /\ h.prev[h.next[m]] = m
        BY <1>1, <3>2, Pointers DEF Linked, NextLinked
      <4>2. h.next[m] \in D
        BY <3>1, <4>1 DEF K
      <4> QED
        BY <1>1, <3>2, <4>1, <4>2, NullAssumption
    <3>4. h.last_child[p] = m /\ h.last_child[p] = n
      <4>1. h.parent[n] = p
        BY DEF p
      <4> QED
        BY <1>1, <1>5, <2>1, <3>2, <3>3, <4>1 DEF Linked, ParentLinked
    <3> QED
      BY <3>2, <3>4
  <2> HIDE DEF p
  <2> QED
    BY <2>1, <2>2, <2>3 DEF Walked
<1> QED
  BY <1>3, <1>4, <1>5

\* Each turn of the iterator enters a node or leaves one.
LEMMA WalkGoesOn ==
  ASSUME NEW h, Fine(h), Whole(h), NEW D \in SUBSET Live(h), NEW O \in SUBSET Live(h),
         NEW x \in Iterators, x.root = root, x.next \in Live(h) \cup {NULL}, Walked(h, D, O, x)
  PROVE  LET y == IterNext(h, x)
         IN  \E E, P \in SUBSET Live(h) :
               /\ Walked(h, E, P, y) /\ D \subseteq E
               /\ y.ev = "exit" \/ (y.ev = "enter" /\ h.type[y.cur] \in LeafTypes) => y.cur \in E
               /\ \A m \in E \ D : m = y.cur /\ (y.ev = "exit" <=> h.type[m] \notin LeafTypes)
                                           /\ y.ev # "done"
<1> DEFINE y == IterNext(h, x)
           n == x.next
<1>1. /\ h \in Heap /\ WellFormed(h) /\ Founded(h.parent) /\ Linked(h) /\ Closed(h)
      /\ D \in SUBSET Node /\ O \in SUBSET Node
  BY DEF Fine, WellFormed, Live
<1>2. y.ev = x.next_ev /\ y.cur = n /\ x.next_ev \in {"enter", "exit", "done"}
  BY <1>1, IterNextIs DEF Iterators
<1>3. CASE x.next_ev = "done"
  <2>1. y.next_ev = "done"
    BY <1>1, <1>3, IterNextIs
  <2>2. Walked(h, D, O, y)
    BY <1>3, <2>1 DEF Walked
  <2> QED
    BY <1>2, <1>3, <2>2
<1>4. ASSUME x.next_ev # "done" PROVE n \in Live(h) /\ n \in Node /\ n # NULL
  BY <1>4, NullAssumption DEF Iterators, Live
<1> HIDE DEF y
<1>5. CASE x.next_ev = "exit"
  <2> DEFINE E == D \cup {n}
             P == O \ {n}
  <2>1. /\ n \in O /\ n \notin D /\ h.type[n] \notin LeafTypes
        /\ \A m \in Node : h.parent[m] = n => m \in D
    BY <1>5 DEF Walked
  <2>2. E \in SUBSET Live(h) /\ P \in SUBSET Live(h) /\ E \cap P = {} /\ n \in E
    BY <2>1 DEF Walked
  <2>3. \A m \in Node : h.parent[m] \in E => m \in E
    BY <2>1 DEF Walked
  <2>4. \A m \in E \cup P : h.prev[m] \in D \cup {NULL}
    BY <2>1 DEF Walked
  <2>5. \A m \in E : m = root \/ h.parent[m] \in E \cup P
    BY <2>1 DEF Walked
  <2>6. \A m \in O : m = root \/ (h.parent[m] \in O /\ h.parent[m] # n)
    <3> SUFFICES ASSUME NEW m \in O, m # root, h.parent[m] = n PROVE FALSE
      BY DEF Walked
    <3>1. m \in D
      BY <1>1, <2>1
    <3> QED
      BY <3>1 DEF Walked
  <2> HIDE DEF E, P
  <2>7. Walked(h, E, P, y)
    <3>1. \A m \in P : (m = root \/ h.parent[m] \in P) /\ h.type[m] \notin LeafTypes
      BY <2>6 DEF P, Walked
    <3>2. n = root \/ h.parent[n] \in P
      BY <2>1, <2>6 DEF P
    <3>3. \A m \in E \cup P : h.prev[m] \in E \cup {NULL} /\ h.prev[m] # n
      BY <1>4, <1>5, <2>1, <2>4 DEF E
    <3> QED
      BY <1>5, <2>2, <2>3, <2>5, <3>1, <3>2, <3>3, WalkLeaves DEF y
  <2> QED
    BY <1>2, <1>5, <2>1, <2>2, <2>7 DEF E, y
<1>6. CASE x.next_ev = "enter" /\ h.type[n] \in LeafTypes
  <2> DEFINE E == D \cup {n}
  <2>1. n \notin D \cup O /\ h.prev[n] \in D \cup {NULL} /\ (n = root \/ h.parent[n] \in O)
    BY <1>6 DEF Walked
  <2>2. \A m \in Node : h.parent[m] # n
    <3> SUFFICES ASSUME NEW m \in Node, h.parent[m] = n PROVE FALSE
      OBVIOUS
    <3>1. CanContainType(h.type[n], h.type[m])
      BY <1>4, <1>6 DEF Fine, WellFormed, Contained
    <3> QED
      BY <1>6, <3>1, Zenon DEF CanContainType, BlockTypes, InlineTypes, LeafTypes
  <2>3. E \in SUBSET Live(h) /\ E \cap O = {} /\ n \in E
    BY <1>4, <1>6, <2>1 DEF Walked
  <2>4. \A m \in Node : h.parent[m] \in E => m \in E
    BY <2>2 DEF Walked
  <2>5. \A m \in E \cup O : h.prev[m] \in E \cup {NULL} /\ h.prev[m] # n
    BY <1>4, <1>6, <2>1 DEF Walked
  <2>6. \A m \in E : m = root \/ h.parent[m] \in E \cup O
    BY <2>1 DEF Walked
  <2>7. \A m \in O : (m = root \/ h.parent[m] \in O) /\ h.type[m] \notin LeafTypes
    BY DEF Walked
  <2> HIDE DEF E
  <2>8. Walked(h, E, O, y)
    BY <1>6, <2>1, <2>3, <2>4, <2>5, <2>6, <2>7, WalkLeaves DEF y
  <2> QED
    BY <1>2, <1>6, <2>3, <2>8 DEF E, y
<1>7. CASE x.next_ev = "enter" /\ h.type[n] \notin LeafTypes
  <2> DEFINE P == O \cup {n}
             c == h.first_child[n]
  <2>1. n \notin D \cup O /\ h.prev[n] \in D \cup {NULL} /\ (n = root \/ h.parent[n] \in O)
    BY <1>7 DEF Walked
  <2>2. P \in SUBSET Live(h) /\ D \cap P = {} /\ n \in P
    BY <1>4, <1>7, <2>1 DEF Walked
  <2>3. /\ \A m \in Node : h.parent[m] \in D => m \in D
        /\ \A m \in D \cup P : h.prev[m] \in D \cup {NULL}
        /\ \A m \in D : m = root \/ h.parent[m] \in D \cup P
        /\ \A m \in P : m = root \/ h.parent[m] \in P
        /\ \A m \in P : h.type[m] \notin LeafTypes
    BY <1>7, <2>1 DEF Walked
  <2>4. Walked(h, D, P, y)
    <3>1. CASE c = NULL
      <4>1. y.next_ev = "exit" /\ y.next = n
        BY <1>1, <1>7, <3>1, IterNextIs DEF y
      <4>2. \A m \in Node : h.parent[m] # n
        BY <1>1, <1>4, <1>7, <3>1, BarrenIs
      <4> QED
        BY <2>2, <2>3, <4>1, <4>2 DEF Walked
    <3>2. CASE c # NULL
      <4>1. y.next_ev = "enter" /\ y.next = c
        BY <1>1, <1>7, <3>2, IterNextIs DEF y
      <4>2. c \in Node /\ h.prev[c] = NULL /\ h.parent[c] = n
        BY <1>1, <1>4, <1>7, <3>2, Pointers DEF Linked, FirstLinked
      <4>3. c # n
        BY <1>1, <1>4, <1>7, <4>2, NotSelf
      <4>4. c \notin D \cup P
        <5>1. c # root
          BY <1>4, <1>7, <4>2, FineRoot
        <5> QED
          BY <2>1, <4>2, <4>3, <5>1 DEF Walked
      <4> HIDE DEF c, P
      <4> QED
        BY <2>2, <2>3, <4>1, <4>2, <4>4 DEF Walked
    <3> QED
      BY <3>1, <3>2
  <2> HIDE DEF P
  <2> QED
    BY <1>2, <1>7, <2>2, <2>4 DEF y
<1> QED
  BY <1>2, <1>3, <1>5, <1>6, <1>7 DEF y

\* A text that takes the place of a reference has its neighbours.
LEMMA RestoredLinks ==
  ASSUME NEW h, Fine(h), NEW n \in Live(h), h.type[n] = "footnote_reference",
         h.parent[n] # NULL, NEW t \in Node \ Live(h)
  PROVE  LET w == FreeTree(InsertAfter(Fresh(h, t, "text"), n, t), n)
         IN  /\ \A m \in Live(h) \ {n} : w.prev[m] = IF h.prev[m] = n THEN t ELSE h.prev[m]
             /\ w.prev[t] = h.prev[n]
<1> DEFINE v == Fresh(h, t, "text")
           u == Unlink(v, t)
           i == InsertAfter(v, n, t)
           k == Unlink(i, n)
           w == FreeTree(i, n)
           F == BelowOf(i, n)
<1>1. /\ h \in Heap /\ n \in Node /\ WellFormed(h) /\ Founded(h.parent) /\ n # t /\ Linked(h)
      /\ t \in Node /\ t # NULL /\ n # NULL
  BY NullAssumption DEF Fine, WellFormed, Live
<1>2. /\ v \in Heap /\ WellFormed(v) /\ Live(v) = Live(h) \cup {t}
      /\ \A m \in Node : v.type[m] = IF m = t THEN "text" ELSE h.type[m]
      /\ \A m \in Node : v.parent[m] = IF m = t THEN NULL ELSE h.parent[m]
  BY <1>1, FreshFields, FreshWellFormed DEF NodeTypes, InlineTypes, WellFormed
<1>3. \A m \in Node : /\ v.prev[m] = IF m = t THEN NULL ELSE h.prev[m]
                      /\ v.next[m] = IF m = t THEN NULL ELSE h.next[m]
  BY <1>1 DEF Fresh, Store
<1> HIDE DEF v
<1>4. n \in Live(v) /\ t \in Live(v) /\ v.parent[n] # NULL
  BY <1>1, <1>2
<1>5. CanContainType(h.type[h.parent[n]], "text")
  <2>1. CanContainType(h.type[h.parent[n]], "footnote_reference")
    BY <1>1 DEF WellFormed, Contained
  <2> QED
    BY <2>1 DEF CanContainType, BlockTypes, InlineTypes, CellTypes
<1>6. CanContainType(v.type[v.parent[n]], v.type[t])
  <2>1. h.parent[n] \in Live(h) /\ h.parent[n] # t /\ h.parent[n] \in Node
    BY <1>1, ParentsLive DEF Live
  <2> QED
    BY <1>1, <1>2, <1>5, <2>1
<1>7. Unlinked(v, u, t)
  BY <1>1, <1>2, UnlinkFields
<1>8. Inserted(u, i, t, v.parent[n], n, u.next[n])
  BY <1>1, <1>2, <1>4, <1>6, InsertAfterInserts
<1> HIDE DEF u
<1>9. \A m \in Node \ {t} : u.prev[m] = h.prev[m] /\ u.next[m] = h.next[m]
  <2>1. v.next[t] = NULL /\ v.prev[t] = NULL
    BY <1>1, <1>3
  <2> SUFFICES ASSUME NEW m \in Node, m # t PROVE u.prev[m] = h.prev[m] /\ u.next[m] = h.next[m]
    OBVIOUS
  <2>2. m # NULL /\ v.prev[m] = h.prev[m] /\ v.next[m] = h.next[m]
    BY <1>3, NullAssumption
  <2> QED
    BY <1>7, <2>1, <2>2 DEF Unlinked
<1> HIDE DEF i
<1>10. /\ i.prev[t] = n /\ i.next[n] = t
       /\ \A m \in Node \ {t} : i.prev[m] = IF m = h.next[n] THEN t ELSE h.prev[m]
  BY <1>1, <1>8, <1>9 DEF Inserted
<1>11. WellFormed(i)
  BY <1>1, <1>2, <1>4, <1>6, InsertAfterWellFormed DEF i
<1>12. Fine(i) /\ n \in Live(i)
  <2>1. i.type = v.type
    BY <1>7, <1>8 DEF Inserted, Unlinked
  <2>2. \A m \in Node : i.parent[m] = IF m = t THEN h.parent[n] ELSE h.parent[m]
    <3>1. v.parent[n] = h.parent[n]
      BY <1>1, <1>2
    <3>2. \A m \in Node : i.parent[m] = IF m = t THEN v.parent[n] ELSE u.parent[m]
      BY <1>8 DEF Inserted
    <3>3. \A m \in Node \ {t} : u.parent[m] = v.parent[m]
      BY <1>7 DEF Unlinked
    <3> QED
      BY <1>2, <3>1, <3>2, <3>3
  <2>3. t \notin AncestorsOrSelf(h, h.parent[n])
    <3>1. Live(h) \in SUBSET Node /\ h.parent[n] \in Live(h) \cup {NULL}
      BY <1>1, ParentsLive DEF Live
    <3>2. \A m \in Live(h) : h.parent[m] \in Live(h) \cup {NULL}
      BY <1>1, ParentsLive DEF Live
    <3> QED
      BY <3>1, <3>2, AncestorsWithin
  <2>4. Founded(i.parent)
    BY <1>1, <2>2, <2>3, FoundedInsert, Pointers
  <2>5. i.type[root] = "document"
    BY <1>1, <1>2, <2>1, FineRoot DEF Fine
  <2> QED
    BY <1>4, <1>11, <2>1, <2>4, <2>5 DEF Fine, Live
<1>13. Unlinked(i, k, n) /\ Released(k, w, F)
  BY <1>12, FreeTreeLinks
<1>14. F = {n}
  <2>1. i.type[n] = "footnote_reference"
    <3>1. i.type = v.type
      BY <1>7, <1>8 DEF Inserted, Unlinked
    <3> QED
      BY <1>1, <1>2, <3>1
  <2>2. i.first_child[n] = NULL
    BY <1>1, <1>11, <2>1, Barren
  <2> QED
    BY <1>1, <1>12, <2>2, BelowIs, ReachedStep DEF Fine, WellFormed
<1> HIDE DEF k, w, F
<1>15. \A m \in Node \ {n} : w.prev[m] = IF m = t THEN h.prev[n] ELSE i.prev[m]
  <2>1. i.prev[n] = h.prev[n]
    <3>1. h.next[n] # n
      BY <1>1, NotSelf
    <3> QED
      BY <1>1, <1>10, <3>1
  <2>2. ASSUME NEW m \in Node \ {n}
        PROVE  k.prev[m] = IF m = t THEN h.prev[n] ELSE i.prev[m]
    BY <1>1, <1>10, <1>13, <2>1 DEF Unlinked
  <2> QED
    BY <1>13, <1>14, <2>2 DEF Released
<1>16. ASSUME NEW m \in Live(h) \ {n}
       PROVE  w.prev[m] = IF h.prev[m] = n THEN t ELSE h.prev[m]
  <2>1. m \in Node \ {n} /\ m # t /\ m # NULL
    BY NullAssumption DEF Live
  <2>2. w.prev[m] = IF m = h.next[n] THEN t ELSE h.prev[m]
    BY <1>10, <1>15, <2>1
  <2>3. m = h.next[n] <=> h.prev[m] = n
    BY <1>1, <2>1 DEF Linked, NextLinked, PrevLinked
  <2> QED
    BY <2>2, <2>3
<1> QED
  BY <1>1, <1>15, <1>16 DEF w, i, v

\* A walk that has left the reference has then left the text.
LEMMA WalkReplaces ==
  ASSUME NEW h, Fine(h), NEW n \in Live(h), h.type[n] = "footnote_reference",
         h.parent[n] # NULL, NEW t \in Node \ Live(h),
         NEW D \in SUBSET Live(h), NEW O \in SUBSET Live(h), n \in D,
         NEW x \in Iterators, x.next \in Live(h) \cup {NULL}, Walked(h, D, O, x)
  PROVE  LET w == FreeTree(InsertAfter(Fresh(h, t, "text"), n, t), n)
         IN  Walked(w, (D \ {n}) \cup {t}, O, x)
<1> DEFINE w == FreeTree(InsertAfter(Fresh(h, t, "text"), n, t), n)
           E == (D \ {n}) \cup {t}
<1>1. /\ Fine(w) /\ Live(w) = (Live(h) \cup {t}) \ {n}
      /\ \A m \in Live(h) \ {n} : w.parent[m] = h.parent[m] /\ w.type[m] = h.type[m]
      /\ w.parent[t] = h.parent[n]
  BY RestoredIs
<1>2. /\ \A m \in Live(h) \ {n} : w.prev[m] = IF h.prev[m] = n THEN t ELSE h.prev[m]
      /\ w.prev[t] = h.prev[n]
  BY RestoredLinks
<1> HIDE DEF w
<1>3. /\ n \in Node /\ t \in Node /\ n # t /\ n # NULL /\ t # NULL /\ root \in Live(h) /\ n # root
      /\ h \in Heap /\ WellFormed(h) /\ Founded(h.parent) /\ root # t
  BY FineRoot, NullAssumption DEF Fine, WellFormed, Live
<1>4. \A m \in Node : h.parent[m] # n
  BY <1>3, Barren, BarrenIs
<1>5. n \notin O /\ t \notin D \cup O
  BY DEF Walked
<1>6. \A m \in Live(w) : m = t \/ m \in Live(h) \ {n}
  BY <1>1
<1>7. \A m \in Node \ Live(w) : w.parent[m] = NULL
  BY <1>1, ParentsLive DEF Fine
<1>8. \A m \in Node : w.parent[m] \in E => m \in E
  <2> SUFFICES ASSUME NEW m \in Node, w.parent[m] \in E, m # t PROVE m \in E
    OBVIOUS
  <2>1. w.parent[m] # NULL
    BY <1>3, NullAssumption DEF Live
  <2>2. m \in Live(h) \ {n} /\ w.parent[m] = h.parent[m]
    BY <1>1, <1>6, <1>7, <2>1
  <2>3. h.parent[m] # t
    BY <1>3, <2>2, ParentsLive
  <2>4. h.parent[m] \in D
    BY <2>2, <2>3
  <2> QED
    BY <2>2, <2>4 DEF Walked
<1>9. h.prev[n] \in D \cup {NULL} /\ h.prev[n] # n
  <2>1. h.prev[n] # n
    <3>1. h.next[n] # n
      BY <1>3, NotSelf
    <3> QED
      BY <1>3, <3>1 DEF WellFormed, Linked, PrevLinked
  <2> QED
    BY <2>1 DEF Walked
<1>10. \A m \in E \cup O : w.prev[m] \in E \cup {NULL}
  <2> SUFFICES ASSUME NEW m \in E \cup O PROVE w.prev[m] \in E \cup {NULL}
    OBVIOUS
  <2>1. CASE m = t
    BY <1>2, <1>9, <2>1
  <2>2. CASE m # t
    <3>1. m \in Live(h) \ {n} /\ m \in D \cup O
      BY <1>5, <2>2
    <3>2. h.prev[m] \in D \cup {NULL}
      BY <3>1 DEF Walked
    <3> QED
      BY <1>2, <3>1, <3>2
  <2> QED
    BY <2>1, <2>2
<1>11. \A m \in E : m = root \/ w.parent[m] \in E \cup O
  <2> SUFFICES ASSUME NEW m \in E, m # root PROVE w.parent[m] \in E \cup O
    OBVIOUS
  <2>1. CASE m = t
    <3>1. h.parent[n] \in D \cup O /\ h.parent[n] # n
      BY <1>3, <1>4 DEF Walked
    <3> QED
      BY <1>1, <2>1, <3>1
  <2>2. CASE m # t
    <3>1. m \in Live(h) \ {n} /\ m \in D /\ m \in Node
      BY <2>2 DEF Live
    <3>2. h.parent[m] \in D \cup O /\ h.parent[m] # n
      BY <1>4, <3>1 DEF Walked
    <3> QED
      BY <1>1, <3>1, <3>2
  <2> QED
    BY <2>1, <2>2
<1>12. \A m \in O : (m = root \/ w.parent[m] \in O) /\ w.type[m] \notin LeafTypes
  BY <1>1, <1>5 DEF Walked
<1>13. x.next_ev = "enter" => /\ x.next \notin E \cup O /\ w.prev[x.next] \in E \cup {NULL}
                              /\ (x.next = root \/ w.parent[x.next] \in O)
  <2> SUFFICES ASSUME x.next_ev = "enter"
               PROVE  /\ x.next \notin E \cup O /\ w.prev[x.next] \in E \cup {NULL}
                      /\ (x.next = root \/ w.parent[x.next] \in O)
    OBVIOUS
  <2>1. /\ x.next \notin D \cup O /\ h.prev[x.next] \in D \cup {NULL}
        /\ (x.next = root \/ h.parent[x.next] \in O)
    BY DEF Walked
  <2>2. x.next \in Live(h) \ {n}
    BY <2>1 DEF Iterators
  <2> QED
    BY <1>1, <1>2, <2>1, <2>2
<1>14. x.next_ev = "exit" => /\ x.next \in O
                             /\ \A m \in Node : w.parent[m] = x.next => m \in E
  <2> SUFFICES ASSUME x.next_ev = "exit", NEW m \in Node, w.parent[m] = x.next, m # t
               PROVE  m \in E
    BY DEF Walked
  <2>1. x.next # NULL /\ x.next \in O
    BY DEF Iterators, Walked
  <2>2. m \in Live(h) \ {n} /\ w.parent[m] = h.parent[m]
    BY <1>1, <1>6, <1>7, <2>1
  <2>3. m \in D
    BY <2>1, <2>2 DEF Walked
  <2> QED
    BY <2>2, <2>3
<1>15. x.next_ev = "done" => root \in E
  BY <1>3 DEF Walked
<1>16. E \cap O = {}
  BY <1>5 DEF Walked
<1> HIDE DEF E
<1>17. Walked(w, E, O, x)
  BY <1>8, <1>10, <1>11, <1>12, <1>13, <1>14, <1>15, <1>16 DEF Walked
<1> QED
  BY <1>17 DEF w, E

\* What is left when a text is freed.
LEMMA TextFreed ==
  ASSUME NEW h, Fine(h), NEW n \in Live(h), h.type[n] = "text"
  PROVE  LET w == FreeTree(h, n)
         IN  /\ Fine(w) /\ Live(w) = Live(h) \ {n} /\ n # root
             /\ \A m \in Node : h.parent[m] # n
             /\ \A m \in Node \ {n} :
                  /\ w.type[m] = h.type[m] /\ w.parent[m] = h.parent[m]
                  /\ w.next[m] = IF m = h.prev[n] THEN h.next[n] ELSE h.next[m]
                  /\ w.prev[m] = IF m = h.next[n] THEN h.prev[n] ELSE h.prev[m]
<1> DEFINE w == FreeTree(h, n)
           v == Unlink(h, n)
           F == BelowOf(h, n)
<1>1. n \in Node /\ n # root /\ h \in Heap /\ WellFormed(h) /\ Founded(h.parent)
  BY DEF Fine, WellFormed, Live
<1>2. h.first_child[n] = NULL
  BY <1>1, Barren
<1>3. F = {n}
  BY <1>1, <1>2, BelowIs, ReachedStep
<1>4. /\ Fine(w) /\ Live(w) = Live(h) \ F
      /\ \A m \in Node \ F : w.type[m] = h.type[m] /\ w.parent[m] = h.parent[m]
  BY <1>1, FreeTreeIs
<1>5. Unlinked(h, v, n) /\ Released(v, w, F)
  BY FreeTreeLinks
<1>6. \A m \in Node : h.parent[m] # n
  BY <1>1, <1>2, BarrenIs
<1> HIDE DEF w, v, F
<1>7. ASSUME NEW m \in Node \ {n}
      PROVE  /\ w.next[m] = IF m = h.prev[n] THEN h.next[n] ELSE h.next[m]
             /\ w.prev[m] = IF m = h.next[n] THEN h.prev[n] ELSE h.prev[m]
  <2>1. w.next[m] = v.next[m] /\ w.prev[m] = v.prev[m]
    BY <1>3, <1>5 DEF Released
  <2> QED
    BY <1>5, <2>1 DEF Unlinked
<1> QED
  BY <1>1, <1>3, <1>4, <1>6, <1>7 DEF w

\* A walk that has left the text goes on as before.
LEMMA WalkRemoves ==
  ASSUME NEW h, Fine(h), NEW n \in Live(h), h.type[n] = "text",
         NEW D \in SUBSET Live(h), NEW O \in SUBSET Live(h), n \in D,
         NEW x \in Iterators, x.next \in Live(h) \cup {NULL}, Walked(h, D, O, x)
  PROVE  Walked(FreeTree(h, n), D \ {n}, O, x)
<1> DEFINE w == FreeTree(h, n)
           E == D \ {n}
<1>1. /\ Fine(w) /\ Live(w) = Live(h) \ {n} /\ n # root
      /\ \A m \in Node : h.parent[m] # n
      /\ \A m \in Node \ {n} :
           /\ w.type[m] = h.type[m] /\ w.parent[m] = h.parent[m]
           /\ w.prev[m] = IF m = h.next[n] THEN h.prev[n] ELSE h.prev[m]
  BY TextFreed
<1> HIDE DEF w
<1>2. /\ n \in Node /\ n # NULL /\ n \notin O /\ w.parent[n] = NULL /\ h \in Heap
      /\ WellFormed(h) /\ Founded(h.parent) /\ D \in SUBSET Node /\ O \in SUBSET Node
  BY <1>1, NullAssumption, ParentsLive DEF Walked, Live, Fine, WellFormed
<1>3. h.prev[n] \in E \cup {NULL}
  <2>1. h.prev[n] # n
    <3>1. h.next[n] # n
      BY <1>2, NotSelf
    <3> QED
      BY <1>2, <3>1 DEF WellFormed, Linked, PrevLinked
  <2> QED
    BY <2>1 DEF Walked
<1>4. \A m \in Node \ {n} : h.prev[m] \in D \cup {NULL} => w.prev[m] \in E \cup {NULL}
  <2> SUFFICES ASSUME NEW m \in Node \ {n}, h.prev[m] \in D \cup {NULL}
               PROVE  w.prev[m] \in E \cup {NULL}
    OBVIOUS
  <2>1. CASE m = h.next[n]
    BY <1>1, <1>3, <2>1
  <2>2. CASE m # h.next[n]
    <3>1. h.prev[m] # n
      BY <1>2, <2>2 DEF WellFormed, Linked, PrevLinked
    <3> QED
      BY <1>1, <2>2, <3>1
  <2> QED
    BY <2>1, <2>2
<1>5. \A m \in Node : w.parent[m] \in E => m \in E
  BY <1>1, <1>2, NullAssumption DEF Walked
<1>6. \A m \in E \cup O : w.prev[m] \in E \cup {NULL}
  BY <1>2, <1>4 DEF Walked
<1>7. \A m \in E : m = root \/ w.parent[m] \in E \cup O
  BY <1>1, <1>2 DEF Walked
<1>8. \A m \in O : (m = root \/ w.parent[m] \in O) /\ w.type[m] \notin LeafTypes
  BY <1>1, <1>2 DEF Walked
<1>9. x.next_ev = "enter" => /\ x.next \notin E \cup O /\ w.prev[x.next] \in E \cup {NULL}
                             /\ (x.next = root \/ w.parent[x.next] \in O)
  <2> SUFFICES ASSUME x.next_ev = "enter"
               PROVE  /\ x.next \notin E \cup O /\ w.prev[x.next] \in E \cup {NULL}
                      /\ (x.next = root \/ w.parent[x.next] \in O)
    OBVIOUS
  <2>1. /\ x.next \notin D \cup O /\ h.prev[x.next] \in D \cup {NULL}
        /\ (x.next = root \/ h.parent[x.next] \in O)
    BY DEF Walked
  <2>2. x.next \in Node \ {n}
    BY <2>1 DEF Iterators, Live
  <2> QED
    BY <1>1, <1>4, <2>1, <2>2
<1>10. x.next_ev = "exit" => /\ x.next \in O
                             /\ \A m \in Node : w.parent[m] = x.next => m \in E
  BY <1>1, <1>2, NullAssumption DEF Walked
<1>11. x.next_ev = "done" => root \in E
  BY <1>1 DEF Walked
<1>12. E \cap O = {}
  BY DEF Walked
<1> HIDE DEF E
<1>13. Walked(w, E, O, x)
  BY <1>5, <1>6, <1>7, <1>8, <1>9, <1>10, <1>11, <1>12 DEF Walked
<1> QED
  BY <1>13 DEF w, E

\* A walk that has left the document has been everywhere.
LEMMA WalkEnds ==
  ASSUME NEW h, Fine(h), Whole(h), NEW D \in SUBSET Live(h), root \in D,
         \A m \in Node : h.parent[m] \in D => m \in D
  PROVE  D = Live(h)
<1> DEFINE S == Live(h) \ D
<1>1. WellFormed(h) /\ Founded(h.parent) /\ S \in SUBSET Node
  BY DEF Fine, Live
<1> SUFFICES ASSUME S # {} PROVE FALSE
  OBVIOUS
<1>2. PICK m \in S : h.parent[m] \notin S
  BY <1>1 DEF Founded
<1>3. h.parent[m] # NULL
  BY DEF Whole
<1>4. h.parent[m] \in Live(h)
  BY <1>1, <1>3, ParentsLive
<1> QED
  BY <1>1, <1>2, <1>4

-----------------------------------------------------------------------------
(***************************************************************************)
(* What the order, the labels and the numbers at the end rest on.          *)
(***************************************************************************)
\* A node that the loop would have come to, had it been there before.
Unmet(n) ==
  \/ /\ phase = "collect" /\ heap.type[n] = "footnote_definition"
     /\ \A i \in DOMAIN refs : refs[i].node # n
  \/ /\ phase = "number" /\ heap.type[n] = "footnote_reference"
     /\ as.parent_footnote_def[n] = NULL
  \/ /\ phase = "consolidate" /\ heap.type[n] = "text" /\ heap.next[n] \notin {NULL, tmp}
     /\ heap.type[heap.next[n]] = "text"

\* A loop has handled what it sought among the nodes that it has left.
Covered ==
  /\ phase = "build" => iter = IterNew(root)
  /\ phase \in {"collect", "number", "consolidate"} =>
       \E D, O \in SUBSET live : Walked(heap, D, O, iter) /\ \A n \in D : ~Unmet(n)

\* Which labels there are where.
Named ==
  /\ phase \in {"build", "collect"} => \A n \in Node :
       IF heap.type[n] \in Labelled THEN as.label[n] \in Label ELSE as.label[n] = 0
  /\ \A i \in DOMAIN refs : refs[i].label \in Label
  /\ \A i \in held : refs[i].label = as.label[refs[i].node]
  /\ sorted # {} => sorted = SortedRefs
  /\ \A n \in OfType("text"), i \in DOMAIN refs :
       refs[i].label = as.label[n] => refs[i].label \in LongLabel

\* The used entries are numbered from 1 on, and moved in that order.
Numbers ==
  /\ \A i \in DOMAIN refs :
       /\ refs[i].ix \in 0 .. ix
       /\ refs[i].ix # 0 => i \in sorted
       /\ refs[i].node = NULL => refs[i].ix # 0
  /\ \A i, j \in DOMAIN refs : refs[i].ix = refs[j].ix => i = j \/ refs[i].ix = 0
  /\ \A k \in 1 .. ix : \E i \in DOMAIN refs : refs[i].ix = k
  /\ phase = "move" =>
       /\ \A i \in held : refs[i].ix # 0 => i \in ToSet(todo)
       /\ \A a, b \in DOMAIN todo : a < b => refs[todo[a]].ix <= refs[todo[b]].ix

\* The references to a definition have its label and are counted from 1 on.
Counted ==
  \A r \in Node : as.parent_footnote_def[r] # NULL =>
    /\ as.label[r] = as.label[as.parent_footnote_def[r]]
    /\ as.ref_ix[r] \in 1 .. as.def_count[as.parent_footnote_def[r]]
    /\ \A q \in Node : as.parent_footnote_def[q] # NULL /\ as.label[q] = as.label[r] =>
         /\ as.parent_footnote_def[q] = as.parent_footnote_def[r]
         /\ as.ref_ix[q] = as.ref_ix[r] => q = r

\* After the loops that saw to it all references have a definition and no
\* text follows another; only what the map holds is outside the document.
Placed ==
  /\ phase \notin {"build", "collect", "number"} =>
       \A r \in OfType("footnote_reference") : as.parent_footnote_def[r] # NULL
  /\ \A n \in live \ {root} : heap.parent[n] = NULL => \E i \in held : refs[i].node = n
  /\ phase = "done" => \A n \in OfType("text") :
       heap.next[n] # NULL => heap.type[heap.next[n]] # "text"

\* N are the definitions that have been moved.
InOrder(N) ==
  /\ \A d \in OfType("footnote_definition") : d \in ToSet(N) \/ \E i \in held : refs[i].node = d
  /\ \A k \in 1 .. Len(N) :
       /\ Home(N[k])
       /\ heap.next[N[k]] = IF k = Len(N) THEN NULL ELSE N[k + 1]
       /\ \E i \in DOMAIN refs :
            refs[i].node = NULL /\ refs[i].ix = k /\ refs[i].label = as.label[N[k]]
  /\ \A i \in DOMAIN refs : refs[i].node = NULL => refs[i].ix <= Len(N)
  /\ \A r \in Node : as.parent_footnote_def[r] # NULL =>
       IF as.number[r] \in 1 .. Len(N)
       THEN as.parent_footnote_def[r] = N[as.number[r]]
       ELSE \E i \in held : /\ refs[i].node = as.parent_footnote_def[r]
                            /\ refs[i].ix = as.number[r] /\ refs[i].ix # 0

\* They end the document in the order of their numbers.
Ordered == phase \notin {"build", "collect"} => \E N \in Seq(Node) : InOrder(N)

SInv == Covered /\ Named /\ Numbers /\ Counted /\ Placed /\ Ordered

-----------------------------------------------------------------------------
(***************************************************************************)
(* The loops over the document.                                            *)
(***************************************************************************)
\* During these the document is whole.
LEMMA LoopsWhole ==
  ASSUME IInv, SInv, phase \in {"collect", "number", "consolidate"}
  PROVE  Whole(heap)
<1>1. CASE phase = "consolidate"
  <2>1. held = {}
    BY <1>1 DEF held
  <2> QED
    BY <2>1 DEF SInv, Placed, Whole, live
<1>2. CASE phase # "consolidate"
  BY <1>2 DEF IInv, Tree
<1> QED
  BY <1>1, <1>2

\* What such a loop comes to is the only node that it has left and not seen to.
LEMMA ForwardMet ==
  ASSUME IInv, SInv, phase \in {"collect", "number", "consolidate"}, NEW it, it = Forward
  PROVE  \E D, O \in SUBSET live :
           /\ Walked(heap, D, O, it)
           /\ \A n \in D : Unmet(n) => n = it.cur /\ it.ev # "done"
           /\ it.ev = "exit" => it.cur \in D
           /\ it.ev = "done" => D = live
<1> DEFINE Met(x) == \E D, O \in SUBSET live :
             /\ Walked(heap, D, O, x)
             /\ \A n \in D : Unmet(n) => /\ n = x.cur
                                         /\ x.ev = IF heap.type[n] \in LeafTypes
                                                   THEN "enter" ELSE "exit"
             /\ x.ev = "exit" => x.cur \in D
             /\ x.ev = "done" => root \in D
           T == {x \in Walking : Met(x)}
<1>1. /\ Fine(heap) /\ Whole(heap) /\ WellFormed(heap) /\ Founded(heap.parent) /\ heap \in Heap
      /\ iter \in Walking /\ Walking \in SUBSET Iterators
  BY LoopsWhole DEF IInv, Tree, Fine, WellFormed, Places, Walking
<1>2. \A x \in Walking : IterNext(heap, x) \in Walking
  BY <1>1, WalkingStep
<1>3. ASSUME NEW x \in Walking, NEW D \in SUBSET live, NEW O \in SUBSET live,
             Walked(heap, D, O, x), \A n \in D : ~Unmet(n)
      PROVE  Met(IterNext(heap, x))
  <2> DEFINE y == IterNext(heap, x)
  <2>1. PICK E, P \in SUBSET live :
          /\ Walked(heap, E, P, y) /\ D \subseteq E
          /\ y.ev = "exit" \/ (y.ev = "enter" /\ heap.type[y.cur] \in LeafTypes) => y.cur \in E
          /\ \A m \in E \ D : m = y.cur /\ (y.ev = "exit" <=> heap.type[m] \notin LeafTypes)
                                      /\ y.ev # "done"
    BY <1>1, <1>3, WalkGoesOn DEF Walking, live
  <2>2. y.ev = x.next_ev /\ y.ev \in {"enter", "exit", "done"}
    BY <1>1, IterNextIs DEF Iterators
  <2>3. y.ev = "done" => root \in E
    BY <1>3, <2>1, <2>2 DEF Walked
  <2> HIDE DEF y
  <2>4. \A n \in E : Unmet(n) => n \in E \ D
    BY <1>3
  <2> QED
    BY <2>1, <2>2, <2>3, <2>4 DEF y
<1>4. IterNext(heap, iter) \in T
  <2>1. PICK D, O \in SUBSET live : Walked(heap, D, O, iter) /\ \A n \in D : ~Unmet(n)
    BY DEF SInv, Covered
  <2> QED
    BY <1>1, <1>2, <1>3, <2>1
<1>5. ASSUME NEW x \in T PROVE Stop(x) \/ IterNext(heap, x) \in T
  <2> SUFFICES ASSUME ~Stop(x) PROVE IterNext(heap, x) \in T
    OBVIOUS
  <2>1. PICK D, O \in SUBSET live :
          /\ Walked(heap, D, O, x)
          /\ \A n \in D : Unmet(n) => /\ n = x.cur
                                      /\ x.ev = IF heap.type[n] \in LeafTypes
                                                THEN "enter" ELSE "exit"
    OBVIOUS
  <2>2. ASSUME NEW n \in D, Unmet(n) PROVE FALSE
    <3> QED
      BY <2>1, <2>2
      DEF Unmet, Stop, Sought, AtDefinition, AtReference, AtTexts, LeafTypes
  <2> QED
    BY <1>2, <1>3, <2>1, <2>2
<1> HIDE DEF T
<1>6. it \in T /\ Stop(it)
  BY <1>1, <1>2, <1>4, <1>5, ForwardIn DEF T
<1>7. PICK D, O \in SUBSET live :
        /\ Walked(heap, D, O, it)
        /\ \A n \in D : Unmet(n) => n = it.cur /\ it.ev # "done"
        /\ it.ev = "exit" => it.cur \in D
        /\ it.ev = "done" => root \in D
  BY <1>6 DEF T
<1>8. it.ev = "done" => D = live
  BY <1>1, <1>7, WalkEnds DEF Walked, live
<1> QED
  BY <1>7, <1>8

-----------------------------------------------------------------------------
(***************************************************************************)
(* Each step keeps the second invariant.                                   *)
(***************************************************************************)
\* At first.
LEMMA InitSettled == Init => SInv
<1> SUFFICES ASSUME Init PROVE SInv
  OBVIOUS
<1>1. /\ phase = "build" /\ refs = <<>> /\ sorted = {} /\ ix = 0 /\ todo = <<>>
      /\ iter = IterNew(root) /\ held = {} /\ DOMAIN refs = {} /\ 1 .. ix = {}
  BY DEF Init, held
<1>2. \A n \in Node : /\ as.label[n] = 0 /\ as.parent_footnote_def[n] = NULL
                      /\ heap.type[n] \notin Labelled /\ (n # root => n \notin live)
  BY DEF Init, Labelled, live, Live
<1>3. Covered
  BY <1>1 DEF Covered
<1>4. Named
  BY <1>1, <1>2 DEF Named
<1>5. Numbers
  BY <1>1 DEF Numbers
<1>6. Counted
  BY <1>2 DEF Counted
<1>7. Placed
  BY <1>1, <1>2 DEF Placed, live, Live
<1>8. Ordered
  BY <1>1 DEF Ordered
<1> QED
  BY <1>3, <1>4, <1>5, <1>6, <1>7, <1>8 DEF SInv

\* The parser adds a branch.
LEMMA AddSettled ==
  ASSUME IInv, SInv, NEW p \in LastPath, NEW shape \in Shapes,
         NEW l \in LabelsOf(shape), NEW t \in TightnessOf(shape), Add(p, shape, l, t)
  PROVE  SInv'
<1>1. /\ phase = "build" /\ phase' = "build" /\ iter' = iter /\ tmp' = tmp /\ refs' = refs
      /\ ix' = ix /\ sorted' = sorted /\ todo' = todo /\ heap' = Grown(p, shape)
  BY DEF Add
<1>2. /\ Fine(heap') /\ Whole(heap') /\ live \subseteq Live(heap')
      /\ \A m \in live : heap'.type[m] = heap.type[m]
      /\ \A m \in Live(heap') \ live : heap'.type[m] \in ToSet(shape)
  <2>1. p \in live
    BY DEF LastPath
  <2> QED
    BY <1>1, <2>1, GrownIs DEF Add, IInv, Tree
<1>3. live' = Live(heap')
  BY DEF live
<1>4. refs = <<>> /\ sorted = {} /\ DOMAIN refs = {} /\ held = {} /\ held' = {}
  BY <1>1 DEF IInv, Map, held
<1>5. /\ as'.parent_footnote_def = as.parent_footnote_def
      /\ \A n \in Node : as.parent_footnote_def[n] = NULL
      /\ \A n \in Node : as'.label[n] = IF n \in live' \ live /\ heap'.type[n] \in Labelled
                                        THEN l ELSE as.label[n]
  <2>1. as \in Fields
    BY DEF IInv, Pointed
  <2> QED
    BY <1>1, <1>3, <2>1 DEF Add, IInv, Pointed, Fields, live
<1>6. Covered'
  BY <1>1 DEF SInv, Covered
<1>7. Named'
  <2>1. ASSUME NEW n \in Node
        PROVE  IF heap'.type[n] \in Labelled THEN as'.label[n] \in Label ELSE as'.label[n] = 0
    <3>1. IF heap.type[n] \in Labelled THEN as.label[n] \in Label ELSE as.label[n] = 0
      BY <1>1 DEF SInv, Named
    <3>2. CASE n \in live' \ live
      <4>1. heap.type[n] \notin Labelled
        BY <3>2 DEF live, Live, Labelled
      <4>2. heap'.type[n] \in Labelled => l \in Label
        BY <1>2, <1>3, <3>2 DEF LabelsOf
      <4> QED
        BY <1>5, <3>1, <3>2, <4>1, <4>2
    <3>3. CASE n \notin live' \ live
      <4>1. heap'.type[n] = heap.type[n]
        BY <1>2, <1>3, <3>3 DEF live, Live
      <4> QED
        BY <1>5, <3>1, <3>3, <4>1
    <3> QED
      BY <3>2, <3>3
  <2> QED
    BY <1>1, <1>4, <2>1 DEF Named
<1>8. Numbers'
  BY <1>1 DEF SInv, Numbers
<1>9. Counted'
  BY <1>5 DEF Counted
<1>10. Placed'
  BY <1>1, <1>2, <1>3 DEF Placed, Whole
<1>11. Ordered'
  BY <1>1 DEF Ordered
<1> QED
  BY <1>6, <1>7, <1>8, <1>9, <1>10, <1>11 DEF SInv

\* Steps between the loops.
LEMMA IdleSettled ==
  ASSUME IInv, SInv, UNCHANGED <<heap, as, refs, sorted, ix>>, held' = held,
         phase' \in {"build", "collect"} => phase \in {"build", "collect"}
  PROVE  /\ Named' /\ (phase' # "move" => Numbers') /\ Counted'
         /\ \A n \in live' \ {root} : heap'.parent[n] = NULL => \E i \in held' : refs'[i].node = n
         /\ phase \notin {"build", "collect"} => Ordered'
<1>1. live' = live /\ SortedRefs' = SortedRefs
  BY DEF live, SortedRefs
<1>2. Named'
  BY <1>1 DEF SInv, Named, OfType
<1>3. phase' # "move" => Numbers'
  BY DEF SInv, Numbers
<1>4. Counted'
  BY DEF SInv, Counted
<1>5. phase \notin {"build", "collect"} => Ordered'
  <2>1. \A n : Home(n)' <=> Home(n)
    BY <1>1 DEF Home
  <2>2. /\ OfType("footnote_definition")' = OfType("footnote_definition")
        /\ heap' = heap /\ as' = as /\ refs' = refs /\ held' = held
    BY <1>1 DEF OfType
  <2>3. ASSUME NEW N \in Seq(Node), InOrder(N) PROVE InOrder(N)'
    <3>1. \A c \in OfType("footnote_definition")' :
            c \in ToSet(N) \/ \E i \in held' : refs'[i].node = c
      BY <2>2, <2>3 DEF InOrder
    <3>2. \A k \in 1 .. Len(N) :
            /\ Home(N[k])'
            /\ heap'.next[N[k]] = IF k = Len(N) THEN NULL ELSE N[k + 1]
            /\ \E i \in DOMAIN refs' :
                 refs'[i].node = NULL /\ refs'[i].ix = k /\ refs'[i].label = as'.label[N[k]]
      <4> TAKE k \in 1 .. Len(N)
      <4>1. Home(N[k]) /\ heap.next[N[k]] = IF k = Len(N) THEN NULL ELSE N[k + 1]
        BY <2>3 DEF InOrder
      <4>2. \E i \in DOMAIN refs :
              refs[i].node = NULL /\ refs[i].ix = k /\ refs[i].label = as.label[N[k]]
        BY <2>3 DEF InOrder
      <4>3. Home(N[k])'
        BY <2>1, <4>1
      <4> QED
        BY <2>2, <4>1, <4>2, <4>3
    <3>3. \A i \in DOMAIN refs' : refs'[i].node = NULL => refs'[i].ix <= Len(N)
      BY <2>2, <2>3 DEF InOrder
    <3>4. \A r \in Node : as'.parent_footnote_def[r] # NULL =>
            IF as'.number[r] \in 1 .. Len(N)
            THEN as'.parent_footnote_def[r] = N[as'.number[r]]
            ELSE \E i \in held' : /\ refs'[i].node = as'.parent_footnote_def[r]
                                  /\ refs'[i].ix = as'.number[r] /\ refs'[i].ix # 0
      <4>1. \A r \in Node : as.parent_footnote_def[r] # NULL =>
              IF as.number[r] \in 1 .. Len(N)
              THEN as.parent_footnote_def[r] = N[as.number[r]]
              ELSE \E i \in held : /\ refs[i].node = as.parent_footnote_def[r]
                                   /\ refs[i].ix = as.number[r] /\ refs[i].ix # 0
        BY <2>3 DEF InOrder
      <4> QED
        BY <2>2, <4>1
    <3> QED
      BY <3>1, <3>2, <3>3, <3>4 DEF InOrder
  <2> QED
    BY <2>3 DEF SInv, Ordered
<1> QED
  BY <1>1, <1>2, <1>3, <1>4, <1>5 DEF SInv, Placed

\* The first loop starts.
LEMMA BuiltSettled == IInv /\ SInv /\ Built => SInv'
<1> SUFFICES ASSUME IInv, SInv, Built PROVE SInv'
  OBVIOUS
<1>1. /\ phase = "build" /\ phase' = "collect" /\ live' = live
      /\ UNCHANGED <<heap, as, iter, refs, sorted, ix, todo, tmp>>
  BY DEF Built, live
<1>2. held' = held
  BY <1>1 DEF held
<1>3. Walked(heap, {}, {}, IterNew(root))
  BY WalkStarts DEF IInv, Tree
<1>4. Covered'
  BY <1>1, <1>3 DEF SInv, Covered
<1>5. Placed' /\ Ordered'
  BY <1>1, <1>2, IdleSettled DEF Placed, Ordered
<1> QED
  BY <1>1, <1>2, <1>4, <1>5, IdleSettled DEF SInv

\* It puts the definition it leaves in the map.
LEMMA CollectSettled ==
  ASSUME IInv, SInv, phase = "collect", NEW it, it = Forward, Collect(it)
  PROVE  SInv'
<1> DEFINE d == it.cur
           e == [label |-> as.label[d], node |-> d, ix |-> 0]
           k == Len(refs) + 1
           R == [label : Label \cup {0}, node : Pointer, ix : Nat]
<1>1. /\ phase' = "collect" /\ iter' = it /\ refs' = Append(refs, e)
      /\ UNCHANGED <<heap, as, sorted, ix, todo, tmp>> /\ live' = live
      /\ it.ev = "exit" /\ heap.type[d] = "footnote_definition"
  BY DEF Collect, AtDefinition, live
<1>2. refs \in Seq(R) /\ ix \in Nat
      /\ sorted = {} /\ \A i \in DOMAIN refs : refs[i].node # NULL
  BY DEF IInv, Map
<1>3. d \in live /\ d \in Node /\ d # NULL
  BY <1>1, ForwardLive, NullAssumption DEF live, Live
<1>4. /\ k \in Nat /\ k \notin DOMAIN refs /\ DOMAIN refs' = DOMAIN refs \cup {k} /\ refs'[k] = e
      /\ \A i \in DOMAIN refs : refs'[i] = refs[i]
  <2>1. e \in R /\ refs \in Seq(R)
    BY <1>2, <1>3 DEF IInv, Pointed, Fields, Pointer
  <2> HIDE DEF e, R
  <2>2. /\ Len(refs) \in Nat /\ DOMAIN refs = 1 .. Len(refs) /\ DOMAIN refs' = 1 .. k
        /\ (\A i \in 1 .. Len(refs) : refs'[i] = refs[i]) /\ refs'[k] = e
    BY <1>1, <2>1
  <2>3. \A m \in Nat : m + 1 \in Nat /\ m + 1 \notin 1 .. m /\ 1 .. m + 1 = (1 .. m) \cup {m + 1}
    OBVIOUS
  <2>4. k \in Nat /\ k \notin 1 .. Len(refs) /\ 1 .. k = (1 .. Len(refs)) \cup {k}
    BY <2>2, <2>3
  <2> HIDE DEF k
  <2> QED
    BY <2>2, <2>4
<1>5. as.label[d] \in Label
  BY <1>1, <1>3 DEF SInv, Named, Labelled
<1> HIDE DEF e
<1>6. e.label = as.label[d] /\ e.node = d /\ e.ix = 0
  BY DEF e
<1>7. held = DOMAIN refs /\ held' = DOMAIN refs'
  <2>1. \A i \in DOMAIN refs' : refs'[i].node # NULL
    BY <1>2, <1>3, <1>4, <1>6
  <2> QED
    BY <1>1, <1>2, <2>1 DEF held
<1> HIDE DEF k, d
<1>8. Covered'
  <2>1. PICK D, O \in SUBSET live :
          Walked(heap, D, O, it) /\ \A n \in D : Unmet(n) => n = it.cur /\ it.ev # "done"
    BY ForwardMet
  <2>2. ASSUME NEW n \in D PROVE ~Unmet(n)'
    BY <1>1, <1>4, <1>6, <2>1 DEF Unmet, d
  <2> QED
    BY <1>1, <2>1, <2>2 DEF Covered
<1>9. Named'
  <2>1. \A i \in DOMAIN refs' : refs'[i].label \in Label /\ refs'[i].label = as.label[refs'[i].node]
    BY <1>4, <1>7, <1>5, <1>6 DEF SInv, Named
  <2>2. \A n \in Node : IF heap.type[n] \in Labelled THEN as.label[n] \in Label ELSE as.label[n] = 0
    BY DEF SInv, Named
  <2>3. \A n \in OfType("text") : as.label[n] \notin Label
    BY <2>2, LabelAssumption DEF OfType, live, Live, Labelled
  <2>4. OfType("text")' = OfType("text")
    BY <1>1 DEF OfType
  <2> QED
    BY <1>1, <1>2, <1>7, <2>1, <2>2, <2>3, <2>4 DEF Named
<1>10. Numbers'
  <2>1. \A i \in DOMAIN refs : refs[i].ix = 0
    BY <1>2 DEF SInv, Numbers
  <2>2. ix = 0
    <3>1. ix \in 1 .. ix => \E i \in DOMAIN refs : refs[i].ix = ix
      BY DEF SInv, Numbers
    <3> QED
      BY <1>2, <2>1, <3>1
  <2>3. \A i \in DOMAIN refs' : refs'[i].ix = 0 /\ refs'[i].node # NULL
    BY <1>2, <1>3, <1>4, <1>6, <2>1
  <2> QED
    BY <1>1, <2>2, <2>3 DEF Numbers
<1>11. Counted'
  BY <1>1 DEF SInv, Counted
<1>12. Placed'
  BY <1>1, <1>4, <1>7 DEF SInv, Placed
<1>13. Ordered'
  BY <1>1 DEF Ordered
<1> QED
  BY <1>8, <1>9, <1>10, <1>11, <1>12, <1>13 DEF SInv

\* The first loop ends.
LEMMA CollectedSettled ==
  ASSUME IInv, SInv, phase = "collect", NEW it, it = Forward, Collected(it)
  PROVE  SInv'
<1>1. /\ phase' = "number" /\ iter' = IterNew(root) /\ it.ev = "done"
      /\ UNCHANGED <<heap, as, refs, sorted, ix, todo, tmp>> /\ live' = live
  BY DEF Collected, live
<1>2. held' = held
  BY <1>1 DEF held
<1>3. Walked(heap, {}, {}, IterNew(root))
  BY WalkStarts DEF IInv, Tree
<1>4. Covered'
  BY <1>1, <1>3 DEF Covered
<1>5. \A d \in OfType("footnote_definition") : \E i \in held : refs[i].node = d
  <2>1. \A d \in live : ~Unmet(d)
    BY <1>1, ForwardMet
  <2>2. held = {i \in DOMAIN refs : refs[i].node # NULL}
    BY DEF held
  <2> QED
    BY <2>1, <2>2, NullAssumption DEF Unmet, OfType, live, Live
<1>6. InOrder(<<>>)'
  <2>1. \A r \in Node : as.parent_footnote_def[r] = NULL
    BY DEF IInv, Pointed
  <2>2. \A i \in DOMAIN refs : refs[i].node # NULL
    BY DEF IInv, Map
  <2>3. 1 .. Len(<<>>) = {}
    OBVIOUS
  <2>4. OfType("footnote_definition")' = OfType("footnote_definition")
    BY <1>1 DEF OfType
  <2> QED
    BY <1>1, <1>2, <1>5, <2>1, <2>2, <2>3, <2>4 DEF InOrder
<1>7. Placed' /\ Ordered'
  <2>1. <<>> \in Seq(Node)
    OBVIOUS
  <2> QED
    BY <1>1, <1>2, <1>6, <2>1, IdleSettled DEF Placed, Ordered
<1> QED
  BY <1>1, <1>2, <1>4, <1>7, IdleSettled DEF SInv

\* Every label of the map has one entry in map->sorted.
LEMMA SortedRefsIs ==
  ASSUME IInv, NEW i \in DOMAIN refs
  PROVE  /\ \E j \in SortedRefs : refs[j].label = refs[i].label
         /\ i \in SortedRefs => \A j \in SortedRefs : refs[j].label = refs[i].label => i = j
<1> DEFINE S == {j \in DOMAIN refs : refs[j].label = refs[i].label}
<1>1. DOMAIN refs = 1 .. Len(refs) /\ Len(refs) \in Nat
  BY DEF IInv, Map
<1>2. S \in SUBSET Nat /\ S # {}
  BY <1>1
<1>3. PICK j \in S : \A k \in S : j <= k
  <2> HIDE DEF S
  <2> QED
    BY <1>2, LeastNumber
<1>4. j \in SortedRefs
  BY <1>1, <1>3 DEF SortedRefs
<1>5. ASSUME i \in SortedRefs, NEW k \in SortedRefs, refs[k].label = refs[i].label PROVE i = k
  <2>1. i \in 1 .. Len(refs) /\ k \in 1 .. Len(refs)
    BY <1>1 DEF SortedRefs
  <2>2. i \notin 1 .. k - 1 /\ k \notin 1 .. i - 1
    BY <1>5 DEF SortedRefs
  <2> QED
    BY <1>1, <2>1, <2>2
<1> QED
  BY <1>4, <1>5

\* What a lookup finds.
LEMMA FoundEntry ==
  ASSUME IInv, SInv, NEW l
  PROVE  /\ \A i \in Found(l) : refs[i].label = l
         /\ Found(l) # {} => Sorted(l) = SortedRefs
         /\ Found(l) = {} /\ l \notin LongLabel => \A i \in DOMAIN refs : refs[i].label # l
         /\ Sorted(l) \in {sorted, SortedRefs}
<1>1. sorted # {} => sorted = SortedRefs
  BY DEF SInv, Named
<1>2. Sorted(l) \in {sorted, SortedRefs} /\ (Consults(l) => Sorted(l) = SortedRefs)
  BY <1>1 DEF Sorted
<1>3. ASSUME Found(l) = {}, l \notin LongLabel, NEW i \in DOMAIN refs, refs[i].label = l PROVE FALSE
  <2>1. Consults(l)
    BY <1>3 DEF Consults
  <2>2. PICK j \in SortedRefs : refs[j].label = l
    BY <1>3, SortedRefsIs
  <2> QED
    BY <1>2, <1>3, <2>1, <2>2 DEF Found
<1> QED
  BY <1>2, <1>3 DEF Found

\* While references are numbered no definition has been moved.
LEMMA NoneMoved ==
  ASSUME IInv, SInv, phase = "number"
  PROVE  /\ held = DOMAIN refs
         /\ \A d \in OfType("footnote_definition") : \E j \in held : refs[j].node = d
         /\ \A c : ~Home(c)
         /\ \A r \in Node : as.parent_footnote_def[r] # NULL =>
              \E j \in held : /\ refs[j].node = as.parent_footnote_def[r]
                              /\ refs[j].ix = as.number[r] /\ refs[j].ix # 0
<1>1. held = DOMAIN refs
  BY DEF IInv, Map, held
<1>2. PICK N \in Seq(Node) : InOrder(N)
  BY DEF SInv, Ordered
<1>3. ASSUME NEW k \in 1 .. Len(N) PROVE FALSE
  <2>1. \E j \in DOMAIN refs : refs[j].node = NULL
    BY <1>2, <1>3 DEF InOrder
  <2> QED
    BY <2>1 DEF IInv, Map
<1>4. ToSet(N) = {}
  BY <1>2, <1>3 DEF ToSet
<1>5. \A d \in OfType("footnote_definition") : \E j \in held : refs[j].node = d
  BY <1>2, <1>4 DEF InOrder
<1>6. \A c : ~Home(c)
  BY <1>5 DEF Home, OfType
<1>7. \A r \in Node : as.parent_footnote_def[r] # NULL =>
        \E j \in held : /\ refs[j].node = as.parent_footnote_def[r]
                        /\ refs[j].ix = as.number[r] /\ refs[j].ix # 0
  BY <1>2, <1>3 DEF InOrder
<1> QED
  BY <1>1, <1>5, <1>6, <1>7

\* A reference is given the number of its definition.
LEMMA NumberSettled ==
  ASSUME IInv, SInv, phase = "number", NEW it, it = Forward, Number(it), IInv'
  PROVE  SInv'
<1> DEFINE n == it.cur
           l == as.label[n]
<1> PICK i \in DOMAIN refs : Numbering(it, i)
  BY NumberDoes
<1> DEFINE d == refs[i].node
           number == IF refs[i].ix = 0 THEN ix + 1 ELSE refs[i].ix
<1>1. /\ phase' = "number" /\ n \in live /\ n \in Node /\ AtReference(it) /\ iter' = it
      /\ live' = live /\ UNCHANGED <<heap, todo, tmp>> /\ held = DOMAIN refs /\ held' = held
      /\ i \in sorted' /\ sorted' = Sorted(l) /\ (sorted # {} => sorted' = sorted)
      /\ i \in Found(l) /\ DOMAIN refs' = DOMAIN refs /\ d \in live /\ d \in Node
  BY DEF Numbering
<1>2. \A j \in DOMAIN refs : /\ refs'[j].label = refs[j].label /\ refs'[j].node = refs[j].node
                             /\ refs'[j].ix = IF j = i THEN number ELSE refs[j].ix
  BY DEF Numbering
<1>3. /\ number \in Nat \ {0} /\ ix \in Nat /\ ix' \in Nat
      /\ ix' = IF refs[i].ix = 0 THEN ix + 1 ELSE ix
  BY DEF Numbering
<1>4. /\ as \in Fields /\ as' \in Fields
      /\ \A m \in Node :
           /\ as'.label[m] = as.label[m]
           /\ as'.parent_footnote_def[m] = IF m = n THEN d ELSE as.parent_footnote_def[m]
           /\ as'.number[m] = IF m = n THEN number ELSE as.number[m]
           /\ as'.ref_ix[m] = IF m = n THEN as.def_count[d] + 1 ELSE as.ref_ix[m]
           /\ as'.def_count[m] = IF m = d THEN as.def_count[d] + 1 ELSE as.def_count[m]
  BY DEF Numbering
<1> HIDE DEF n, l
<1>5. /\ refs[i].label = l /\ sorted' = SortedRefs /\ SortedRefs' = SortedRefs
  <2>1. refs[i].label = l /\ sorted' = SortedRefs
    BY <1>1, FoundEntry
  <2>2. \A j \in DOMAIN refs : \A k \in 1 .. j - 1 : k \in DOMAIN refs
    BY DEF IInv, Map
  <2>3. SortedRefs' = SortedRefs
    BY <1>1, <1>2, <2>2 DEF SortedRefs
  <2> QED
    BY <2>1, <2>3
<1>6. as.label[d] = l
  BY <1>1, <1>5 DEF SInv, Named
<1>7. \A r \in Node : as.parent_footnote_def[r] # NULL =>
        \E j \in DOMAIN refs : /\ refs[j].node = as.parent_footnote_def[r]
                               /\ refs[j].ix = as.number[r] /\ refs[j].ix # 0
  BY <1>1, NoneMoved
<1> HIDE DEF d, number
<1>8. Covered'
  <2>1. PICK D, O \in SUBSET live :
          Walked(heap, D, O, it) /\ \A m \in D : Unmet(m) => m = it.cur /\ it.ev # "done"
    BY ForwardMet
  <2>2. ASSUME NEW m \in D PROVE ~Unmet(m)'
    <3>1. m \in Node /\ d # NULL
      BY <1>1, NullAssumption DEF live, Live
    <3>2. heap.type[m] = "footnote_reference" /\ m # n => as.parent_footnote_def[m] # NULL
      BY <2>1 DEF Unmet, n
    <3>3. heap.type[m] = "footnote_reference" => as'.parent_footnote_def[m] # NULL
      BY <1>4, <3>1, <3>2
    <3> QED
      BY <1>1, <3>3 DEF Unmet
  <2> QED
    BY <1>1, <2>1, <2>2 DEF Covered
<1>9. Named'
  <2>1. \A j \in DOMAIN refs' : refs'[j].label \in Label
    BY <1>1, <1>2 DEF SInv, Named
  <2>2. \A j \in held' : refs'[j].label = as'.label[refs'[j].node]
    <3>1. \A j \in held : refs[j].label = as.label[refs[j].node] /\ refs[j].node \in Node
      BY DEF SInv, Named, IInv, Map, live, Live
    <3>2. ASSUME NEW j \in DOMAIN refs, NEW c \in Node, refs[j].node = c,
                 refs[j].label = as.label[c]
          PROVE  refs'[j].label = as'.label[refs'[j].node]
      BY <1>2, <1>4, <3>2
    <3> QED
      BY <1>1, <3>1, <3>2
  <2>3. ASSUME NEW m \in OfType("text")', NEW j \in DOMAIN refs', refs'[j].label = as'.label[m]
        PROVE  refs'[j].label \in LongLabel
    <3>1. m \in OfType("text") /\ m \in Node
      BY <1>1 DEF OfType, live, Live
    <3>2. j \in DOMAIN refs /\ refs[j].label = as.label[m]
      BY <1>1, <1>2, <1>4, <2>3, <3>1
    <3>3. refs[j].label \in LongLabel
      BY <3>1, <3>2 DEF SInv, Named
    <3> QED
      BY <1>2, <3>2, <3>3
  <2> QED
    BY <1>1, <1>5, <2>1, <2>2, <2>3 DEF Named
<1>10. Numbers'
  <2>1. \A j \in DOMAIN refs : /\ refs[j].ix \in 0 .. ix /\ (refs[j].ix # 0 => j \in sorted)
                               /\ refs[j].node # NULL
    BY DEF SInv, Numbers, IInv, Map
  <2>2. \A j \in DOMAIN refs' : refs'[j].ix \in 0 .. ix'
    BY <1>1, <1>2, <1>3, <2>1 DEF number
  <2>3. \A j \in DOMAIN refs' : refs'[j].node # NULL /\ (refs'[j].ix # 0 => j \in sorted')
    BY <1>1, <1>2, <2>1
  <2>4. \A j, k \in DOMAIN refs : refs[j].ix = refs[k].ix => j = k \/ refs[j].ix = 0
    BY DEF SInv, Numbers
  <2>5. \A j, k \in DOMAIN refs' : refs'[j].ix = refs'[k].ix => j = k \/ refs'[j].ix = 0
    BY <1>1, <1>2, <1>3, <2>1, <2>4 DEF number
  <2>6. ASSUME NEW k \in 1 .. ix' PROVE \E j \in DOMAIN refs' : refs'[j].ix = k
    <3>1. CASE k \in 1 .. ix
      <4>1. PICK j \in DOMAIN refs : refs[j].ix = k
        BY <3>1 DEF SInv, Numbers
      <4> QED
        BY <1>1, <1>2, <3>1, <4>1 DEF number
    <3>2. CASE k \notin 1 .. ix
      <4>1. k = ix' /\ refs[i].ix = 0 /\ k = number
        BY <1>3, <3>2 DEF number
      <4> QED
        BY <1>1, <1>2, <4>1
    <3> QED
      BY <3>1, <3>2
  <2> QED
    BY <1>1, <2>2, <2>3, <2>5, <2>6 DEF Numbers
<1>11. Counted'
  <2>1. as.def_count[d] \in Nat /\ \A m \in Node : as.ref_ix[m] \in Nat /\ as.def_count[m] \in Nat
    BY <1>1, <1>4 DEF Fields
  <2>2. \A r \in Node : as.parent_footnote_def[r] # NULL => as.parent_footnote_def[r] \in Node
    BY <1>4 DEF Fields, Pointer
  <2>3. ASSUME NEW r \in Node, as.parent_footnote_def[r] # NULL
        PROVE  /\ as.label[r] = as.label[as.parent_footnote_def[r]]
               /\ as.ref_ix[r] \in 1 .. as.def_count[as.parent_footnote_def[r]]
               /\ as.label[r] = l => as.parent_footnote_def[r] = d
    <3>1. /\ as.label[r] = as.label[as.parent_footnote_def[r]]
          /\ as.ref_ix[r] \in 1 .. as.def_count[as.parent_footnote_def[r]]
      BY <2>3 DEF SInv, Counted
    <3>2. ASSUME as.label[r] = l PROVE as.parent_footnote_def[r] = d
      <4>1. PICK j \in DOMAIN refs : refs[j].node = as.parent_footnote_def[r] /\ refs[j].ix # 0
        BY <1>7, <2>3
      <4>2. refs[j].label = l
        BY <1>1, <3>1, <3>2, <4>1 DEF SInv, Named
      <4>3. j \in sorted
        BY <4>1 DEF SInv, Numbers
      <4>4. j = i
        BY <1>1, <1>5, <4>2, <4>3, SortedRefsIs
      <4> QED
        BY <4>1, <4>4 DEF d
    <3> QED
      BY <3>1, <3>2
  <2>4. \A k \in Nat : /\ k + 1 \in 1 .. k + 1 /\ ~(k + 1 <= k)
                       /\ \A j \in 1 .. k : j <= k /\ j \in 1 .. k + 1
    OBVIOUS
  <2>5. ASSUME NEW r \in Node, as'.parent_footnote_def[r] # NULL
        PROVE  /\ as'.label[r] = as'.label[as'.parent_footnote_def[r]]
               /\ as'.ref_ix[r] \in 1 .. as'.def_count[as'.parent_footnote_def[r]]
               /\ as'.label[r] = l => as'.parent_footnote_def[r] = d
               /\ r # n /\ as'.parent_footnote_def[r] = d => as'.ref_ix[r] <= as.def_count[d]
    <3>1. CASE r = n
      <4>1. /\ as'.parent_footnote_def[r] = d /\ as'.label[r] = l /\ as'.label[d] = l
            /\ as'.ref_ix[r] = as.def_count[d] + 1 /\ as'.def_count[d] = as.def_count[d] + 1
        BY <1>1, <1>4, <1>6, <3>1 DEF l
      <4> QED
        BY <2>1, <2>4, <3>1, <4>1, Zenon
    <3>2. CASE r # n
      <4>1. as.parent_footnote_def[r] # NULL /\ as.parent_footnote_def[r] \in Node
        BY <1>4, <2>2, <2>5, <3>2
      <4>2. /\ as'.parent_footnote_def[r] = as.parent_footnote_def[r]
            /\ as'.label[r] = as.label[r] /\ as'.ref_ix[r] = as.ref_ix[r]
            /\ as'.label[as.parent_footnote_def[r]] = as.label[as.parent_footnote_def[r]]
            /\ as'.def_count[as.parent_footnote_def[r]]
                 = IF as.parent_footnote_def[r] = d THEN as.def_count[d] + 1
                   ELSE as.def_count[as.parent_footnote_def[r]]
        BY <1>4, <3>2, <4>1
      <4>3. /\ as.label[r] = as.label[as.parent_footnote_def[r]]
            /\ as.ref_ix[r] \in 1 .. as.def_count[as.parent_footnote_def[r]]
            /\ as.label[r] = l => as.parent_footnote_def[r] = d
        BY <2>3, <4>1
      <4>4. as.def_count[as.parent_footnote_def[r]] \in Nat
        BY <2>1, <4>1
      <4> QED
        BY <2>1, <2>4, <4>2, <4>3, <4>4
    <3> QED
      BY <3>1, <3>2
  <2>6. ASSUME NEW r \in Node, NEW q \in Node, as'.parent_footnote_def[r] # NULL,
               as'.parent_footnote_def[q] # NULL, as'.label[q] = as'.label[r]
        PROVE  /\ as'.parent_footnote_def[q] = as'.parent_footnote_def[r]
               /\ as'.ref_ix[q] = as'.ref_ix[r] => q = r
    <3>1. CASE q # n /\ r # n
      <4>1. /\ as.parent_footnote_def[r] # NULL /\ as.parent_footnote_def[q] # NULL
            /\ as.label[q] = as.label[r]
        BY <1>4, <2>6, <3>1
      <4>2. /\ as.parent_footnote_def[q] = as.parent_footnote_def[r]
            /\ as.ref_ix[q] = as.ref_ix[r] => q = r
        BY <4>1 DEF SInv, Counted
      <4> QED
        BY <1>4, <3>1, <4>2
    <3>2. CASE q = n \/ r = n
      <4>1. as'.label[q] = l /\ as'.label[r] = l
        BY <1>1, <1>4, <2>6, <3>2 DEF l
      <4>2. as'.parent_footnote_def[q] = d /\ as'.parent_footnote_def[r] = d
        BY <2>5, <2>6, <4>1
      <4>3. /\ q # n => as'.ref_ix[q] <= as.def_count[d]
            /\ r # n => as'.ref_ix[r] <= as.def_count[d]
        BY <2>5, <2>6, <4>2
      <4>4. as'.ref_ix[n] = as.def_count[d] + 1
        BY <1>1, <1>4
      <4>5. ~(as.def_count[d] + 1 <= as.def_count[d])
        BY <2>1, <2>4, Zenon
      <4> QED
        BY <3>2, <4>2, <4>3, <4>4, <4>5
    <3> QED
      BY <3>1, <3>2
  <2> QED
    BY <2>5, <2>6 DEF Counted
<1>12. Placed'
  <2>1. \A j \in DOMAIN refs : refs'[j].node = refs[j].node
    BY <1>2
  <2> QED
    BY <1>1, <2>1 DEF SInv, Placed
<1>13. Ordered'
  <2>1. \A c \in OfType("footnote_definition") : \E j \in held : refs[j].node = c
    BY NoneMoved
  <2>2. OfType("footnote_definition")' = OfType("footnote_definition")
    BY <1>1 DEF OfType
  <2>3. \A c \in OfType("footnote_definition")' : \E j \in held' : refs'[j].node = c
    BY <1>1, <1>2, <2>1, <2>2
  <2>4. \A j \in DOMAIN refs' : refs'[j].node # NULL
    BY <1>1, <1>2 DEF IInv, Map
  <2>5. ASSUME NEW r \in Node, as'.parent_footnote_def[r] # NULL
        PROVE  \E j \in held' : /\ refs'[j].node = as'.parent_footnote_def[r]
                                /\ refs'[j].ix = as'.number[r] /\ refs'[j].ix # 0
    <3>1. CASE r = n
      <4>1. as'.parent_footnote_def[r] = d /\ as'.number[r] = number
        BY <1>1, <1>4, <3>1
      <4>2. refs'[i].node = d /\ refs'[i].ix = number
        BY <1>1, <1>2 DEF d
      <4>3. i \in held' /\ number # 0
        BY <1>1, <1>3
      <4> QED
        BY <4>1, <4>2, <4>3
    <3>2. CASE r # n
      <4>1. PICK j \in DOMAIN refs : /\ refs[j].node = as.parent_footnote_def[r]
                                     /\ refs[j].ix = as.number[r] /\ refs[j].ix # 0
        BY <1>4, <1>7, <2>5, <3>2
      <4>2. /\ as'.parent_footnote_def[r] = as.parent_footnote_def[r]
            /\ as'.number[r] = as.number[r]
        BY <1>4, <3>2
      <4>3. refs'[j].node = refs[j].node /\ refs'[j].ix = refs[j].ix
        BY <1>2, <4>1 DEF number
      <4> QED
        BY <1>1, <4>1, <4>2, <4>3
    <3> QED
      BY <3>1, <3>2
  <2>6. \A k : k \notin 1 .. Len(<<>>)
    OBVIOUS
  <2>7. InOrder(<<>>)'
    BY <2>3, <2>4, <2>5, <2>6 DEF InOrder
  <2>8. <<>> \in Seq(Node)
    OBVIOUS
  <2> QED
    BY <2>7, <2>8 DEF Ordered
<1> QED
  BY <1>8, <1>9, <1>10, <1>11, <1>12, <1>13 DEF SInv

-----------------------------------------------------------------------------
(***************************************************************************)
(* The steps that free, move and join nodes keep it.                       *)
(***************************************************************************)
\* The fields of m are as they were.
Same(m) ==
  /\ m \in live /\ heap'.type[m] = heap.type[m]
  /\ as'.label[m] = as.label[m] /\ as'.number[m] = as.number[m]
  /\ as'.parent_footnote_def[m] = as.parent_footnote_def[m]
  /\ as'.ref_ix[m] = as.ref_ix[m] /\ as'.def_count[m] = as.def_count[m]

\* References point to definitions that are there.
PointsWell ==
  \A r \in Node : as.parent_footnote_def[r] # NULL =>
    /\ r \in live /\ as.parent_footnote_def[r] \in live
    /\ heap.type[as.parent_footnote_def[r]] = "footnote_definition"

\* That is part of the invariant.
LEMMA PointedLive == IInv => PointsWell
<1> SUFFICES ASSUME IInv, NEW r \in Node, as.parent_footnote_def[r] # NULL
             PROVE  /\ r \in live /\ as.parent_footnote_def[r] \in live
                    /\ heap.type[as.parent_footnote_def[r]] = "footnote_definition"
  BY DEF PointsWell
<1> DEFINE d == as.parent_footnote_def[r]
<1>1. d \in Node
  BY DEF IInv, Pointed, Fields, Pointer
<1>2. r \in live /\ (Home(d) \/ Waiting(d))
  BY <1>1 DEF IInv, Pointed
<1>3. Waiting(d) => d \in live /\ heap.type[d] = "footnote_definition"
  BY DEF Waiting, IInv, Map
<1> QED
  BY <1>2, <1>3 DEF Home

\* Where nodes go, and texts come, the rest is counted and ordered as before.
LEMMA Thinned ==
  ASSUME IInv, SInv, IInv', UNCHANGED <<phase, refs>>,
         phase \notin {"build", "collect", "done"}, held' \subseteq held,
         \A m \in live' : Same(m) \/ (/\ heap'.type[m] = "text"
                                      /\ as'.parent_footnote_def[m] = NULL),
         \A i \in held : refs[i].node \in live' => i \in held',
         \A c \in Node : Home(c) =>
           /\ Home(c)'
           /\ heap.next[c] = NULL \/ Home(heap.next[c]) => heap'.next[c] = heap.next[c]
  PROVE  /\ Counted' /\ Ordered'
         /\ \A i \in held' : refs'[i].label = as'.label[refs'[i].node]
         /\ phase' # "number" =>
              \A r \in OfType("footnote_reference")' : as'.parent_footnote_def[r] # NULL
<1>1. PointsWell'
  BY PointedLive, PTL
<1>2. \A r \in Node : as'.parent_footnote_def[r] # NULL =>
        /\ Same(r) /\ Same(as'.parent_footnote_def[r])
        /\ as'.parent_footnote_def[r] = as.parent_footnote_def[r]
  <2> SUFFICES ASSUME NEW r \in Node, as'.parent_footnote_def[r] # NULL
               PROVE  Same(r) /\ Same(as'.parent_footnote_def[r])
    BY DEF Same
  <2>1. /\ r \in live' /\ as'.parent_footnote_def[r] \in live'
        /\ heap'.type[as'.parent_footnote_def[r]] = "footnote_definition"
    BY <1>1 DEF PointsWell
  <2> QED
    BY <2>1
<1>3. Counted'
  <2> SUFFICES ASSUME NEW r \in Node, as'.parent_footnote_def[r] # NULL
               PROVE
                 /\ as'.label[r] = as'.label[as'.parent_footnote_def[r]]
                 /\ as'.ref_ix[r] \in 1 .. as'.def_count[as'.parent_footnote_def[r]]
                 /\ \A q \in Node :
                      as'.parent_footnote_def[q] # NULL /\ as'.label[q] = as'.label[r] =>
                      /\ as'.parent_footnote_def[q] = as'.parent_footnote_def[r]
                      /\ as'.ref_ix[q] = as'.ref_ix[r] => q = r
    BY DEF Counted
  <2>1. /\ as.parent_footnote_def[r] # NULL
        /\ Same(r) /\ Same(as.parent_footnote_def[r])
        /\ as'.parent_footnote_def[r] = as.parent_footnote_def[r]
    BY <1>2
  <2>2. /\ as'.label[r] = as'.label[as'.parent_footnote_def[r]]
        /\ as'.ref_ix[r] \in 1 .. as'.def_count[as'.parent_footnote_def[r]]
    BY <2>1 DEF SInv, Counted, Same
  <2>3. ASSUME NEW q \in Node, as'.parent_footnote_def[q] # NULL, as'.label[q] = as'.label[r]
        PROVE  /\ as'.parent_footnote_def[q] = as'.parent_footnote_def[r]
               /\ as'.ref_ix[q] = as'.ref_ix[r] => q = r
    <3>1. /\ as.parent_footnote_def[q] # NULL /\ Same(q)
          /\ as'.parent_footnote_def[q] = as.parent_footnote_def[q]
      BY <1>2, <2>3
    <3>2. as.label[q] = as.label[r]
      BY <2>1, <2>3, <3>1 DEF Same
    <3>3. /\ as.parent_footnote_def[q] = as.parent_footnote_def[r]
          /\ as.ref_ix[q] = as.ref_ix[r] => q = r
      BY <2>1, <3>1, <3>2 DEF SInv, Counted
    <3> QED
      BY <2>1, <3>1, <3>3 DEF Same
  <2> QED
    BY <2>2, <2>3
<1>4. ASSUME NEW i \in held' PROVE refs'[i].label = as'.label[refs'[i].node]
  <2>1. /\ refs'[i].node \in live' /\ i \in held /\ refs' = refs
        /\ heap'.type[refs'[i].node] = "footnote_definition"
    BY DEF IInv, Map
  <2>2. as'.label[refs[i].node] = as.label[refs[i].node]
    BY <2>1 DEF Same
  <2>3. refs[i].label = as.label[refs[i].node]
    BY <2>1 DEF SInv, Named
  <2> QED
    BY <2>1, <2>2, <2>3
<1>5. ASSUME phase # "number", NEW r \in OfType("footnote_reference")'
      PROVE  as'.parent_footnote_def[r] # NULL
  <2>1. r \in live' /\ heap'.type[r] = "footnote_reference"
    BY DEF OfType
  <2>2. Same(r)
    BY <2>1
  <2> QED
    BY <1>5, <2>1, <2>2 DEF Same, SInv, Placed, OfType
<1>6. PICK N \in Seq(Node) : InOrder(N)
  BY DEF SInv, Ordered
<1>7. \A c \in OfType("footnote_definition")' : c \in ToSet(N) \/ \E i \in held' : refs'[i].node = c
  <2> SUFFICES ASSUME NEW c \in OfType("footnote_definition")', c \notin ToSet(N)
               PROVE  \E i \in held' : refs'[i].node = c
    OBVIOUS
  <2>1. c \in live' /\ heap'.type[c] = "footnote_definition"
    BY DEF OfType
  <2>2. c \in OfType("footnote_definition")
    BY <2>1 DEF Same, OfType
  <2> QED
    BY <1>6, <2>1, <2>2 DEF InOrder
<1>8. ASSUME NEW k \in 1 .. Len(N)
      PROVE  /\ Home(N[k])'
             /\ heap'.next[N[k]] = IF k = Len(N) THEN NULL ELSE N[k + 1]
             /\ \E i \in DOMAIN refs' :
                  refs'[i].node = NULL /\ refs'[i].ix = k /\ refs'[i].label = as'.label[N[k]]
  <2>1. /\ Home(N[k]) /\ heap.next[N[k]] = IF k = Len(N) THEN NULL ELSE N[k + 1]
        /\ \E i \in DOMAIN refs :
             refs[i].node = NULL /\ refs[i].ix = k /\ refs[i].label = as.label[N[k]]
    BY <1>6 DEF InOrder
  <2>2. k # Len(N) => Home(N[k + 1])
    <3>1. k # Len(N) => k + 1 \in 1 .. Len(N)
      BY <1>6
    <3> QED
      BY <1>6, <3>1 DEF InOrder
  <2>3. N[k] \in Node
    BY <1>6
  <2>4. Home(N[k])' /\ heap'.next[N[k]] = heap.next[N[k]]
    BY <2>1, <2>2, <2>3
  <2>5. N[k] \in live' /\ heap'.type[N[k]] = "footnote_definition"
    BY <2>4 DEF Home
  <2>6. Same(N[k])
    BY <2>5
  <2> QED
    BY <2>1, <2>4, <2>6 DEF Same
<1>9. ASSUME NEW r \in Node, as'.parent_footnote_def[r] # NULL
      PROVE  IF as'.number[r] \in 1 .. Len(N)
             THEN as'.parent_footnote_def[r] = N[as'.number[r]]
             ELSE \E i \in held' : /\ refs'[i].node = as'.parent_footnote_def[r]
                                   /\ refs'[i].ix = as'.number[r] /\ refs'[i].ix # 0
  <2>1. /\ as.parent_footnote_def[r] # NULL
        /\ Same(r) /\ as'.parent_footnote_def[r] = as.parent_footnote_def[r]
        /\ as'.number[r] = as.number[r]
    BY <1>2, <1>9 DEF Same
  <2>2. as.parent_footnote_def[r] \in live'
    BY <1>1, <1>9, <2>1 DEF PointsWell
  <2>3. CASE as.number[r] \in 1 .. Len(N)
    BY <1>6, <2>1, <2>3 DEF InOrder
  <2>4. CASE as.number[r] \notin 1 .. Len(N)
    <3>1. PICK i \in held : /\ refs[i].node = as.parent_footnote_def[r]
                            /\ refs[i].ix = as.number[r] /\ refs[i].ix # 0
      BY <1>6, <2>1, <2>4 DEF InOrder
    <3>2. i \in held'
      BY <2>2, <3>1
    <3> QED
      BY <2>1, <2>4, <3>1, <3>2
  <2> QED
    BY <2>3, <2>4
<1>10. \A i \in DOMAIN refs' : refs'[i].node = NULL => refs'[i].ix <= Len(N)
  BY <1>6 DEF InOrder
<1>11. InOrder(N)'
  BY <1>7, <1>8, <1>9, <1>10 DEF InOrder
<1> QED
  BY <1>3, <1>4, <1>5, <1>6, <1>11 DEF Ordered

\* The same, when no text comes.
LEMMA ThinnedNamed ==
  ASSUME SInv, UNCHANGED <<refs, sorted, ix, phase>>, phase \notin {"build", "collect", "done"},
         \A i \in held' : refs'[i].label = as'.label[refs'[i].node],
         \A m \in live' : Same(m)
  PROVE  Named' /\ (phase # "move" => Numbers')
<1>1. SortedRefs' = SortedRefs
  BY DEF SortedRefs
<1>2. ASSUME NEW n \in OfType("text")', NEW i \in DOMAIN refs', refs'[i].label = as'.label[n]
      PROVE  refs'[i].label \in LongLabel
  <2>1. n \in OfType("text") /\ as'.label[n] = as.label[n]
    BY DEF OfType, Same
  <2> QED
    BY <1>2, <2>1 DEF SInv, Named
<1> QED
  BY <1>1, <1>2 DEF SInv, Named, Numbers

\* Unlinking a definition that the map holds changes little else.
LEMMA UnlinkSettled ==
  ASSUME IInv, SInv, IInv', NEW i \in held, heap' = Unlink(heap, refs[i].node),
         phase \in {"move", "unlink"}, UNCHANGED <<as, phase, iter, refs, sorted, ix, tmp>>
  PROVE  /\ Named' /\ (phase # "move" => Numbers') /\ Counted' /\ Placed' /\ Ordered'
         /\ held' = held
<1> DEFINE d == refs[i].node
<1>1. d \in live /\ d \in Node /\ heap.type[d] = "footnote_definition" /\ Fine(heap)
  <2>1. d \in live /\ heap.type[d] = "footnote_definition"
    BY DEF IInv, Map
  <2> QED
    BY <2>1 DEF live, Live, IInv, Tree
<1>2. Unlinked(heap, heap', d)
  BY <1>1, UnlinkFields DEF Fine, WellFormed
<1>3. /\ live' = live /\ held' = held /\ heap'.type = heap.type
      /\ \A c \in Node : Home(c) => Home(c)'
  <2>1. heap'.type = heap.type
    BY <1>2 DEF Unlinked
  <2> QED
    BY <2>1, UnlinkStep
<1>4. \A m \in live' : Same(m)
  BY <1>3 DEF Same
<1>5. ASSUME NEW c \in Node, Home(c), heap.next[c] = NULL \/ Home(heap.next[c])
      PROVE  heap'.next[c] = heap.next[c]
  <2>1. c # d /\ heap.next[c] # d
    BY <1>1, <1>5, NullAssumption DEF Home
  <2>2. c # heap.prev[d]
    BY <1>1, <1>5, <2>1, NullAssumption DEF Fine, WellFormed, Linked, PrevLinked
  <2> QED
    BY <1>2, <2>1, <2>2 DEF Unlinked
<1>6. /\ Counted' /\ Ordered'
      /\ \A j \in held' : refs'[j].label = as'.label[refs'[j].node]
      /\ \A r \in OfType("footnote_reference")' : as'.parent_footnote_def[r] # NULL
  BY <1>3, <1>4, <1>5, Thinned
<1>7. Named' /\ (phase # "move" => Numbers')
  BY <1>4, <1>6, ThinnedNamed
<1>8. ASSUME NEW n \in live' \ {root}, heap'.parent[n] = NULL
      PROVE  \E j \in held' : refs'[j].node = n
  <2>1. n \in Node
    BY DEF live, Live
  <2>2. n = d \/ heap.parent[n] = NULL
    BY <1>2, <1>8, <2>1 DEF Unlinked
  <2> QED
    BY <1>3, <2>2 DEF SInv, Placed
<1>9. Placed'
  BY <1>6, <1>8 DEF Placed
<1> QED
  BY <1>3, <1>6, <1>7, <1>9

\* What is left of todo is in order.
LEMMA TodoOrder ==
  ASSUME IInv, SInv, phase = "move", todo # <<>>
  PROVE  /\ \A a \in ToSet(todo) : refs[Head(todo)].ix <= refs[a].ix
         /\ \A a, b \in DOMAIN Tail(todo) :
              a < b => refs[Tail(todo)[a]].ix <= refs[Tail(todo)[b]].ix
<1>1. todo \in Seq(DOMAIN refs) /\ refs \in Seq([label : Label \cup {0}, node : Pointer, ix : Nat])
  BY DEF IInv, Todo, Map
<1>2. \A a, b \in DOMAIN todo : a < b => refs[todo[a]].ix <= refs[todo[b]].ix
  BY DEF SInv, Numbers
<1>3. Len(todo) \in Nat /\ Len(todo) >= 1 /\ DOMAIN todo = 1 .. Len(todo) /\ Head(todo) = todo[1]
  BY <1>1
<1>4. \A a \in ToSet(todo) : refs[Head(todo)].ix <= refs[a].ix
  <2> SUFFICES ASSUME NEW a \in DOMAIN todo PROVE refs[todo[1]].ix <= refs[todo[a]].ix
    BY <1>3 DEF ToSet
  <2>1. CASE a = 1
    <3> DEFINE R == [label : Label \cup {0}, node : Pointer, ix : Nat]
    <3>1. todo[1] \in DOMAIN refs
      BY <1>1, <1>3
    <3>2. refs \in Seq(R)
      BY <1>1
    <3> HIDE DEF R
    <3>3. refs[todo[1]] \in R
      BY <3>1, <3>2
    <3>4. refs[todo[1]].ix \in Nat
      BY <3>3 DEF R
    <3> QED
      BY <2>1, <3>4
  <2>2. CASE a # 1
    BY <1>2, <1>3, <2>2
  <2> QED
    BY <2>1, <2>2
<1>5. /\ DOMAIN Tail(todo) = 1 .. Len(todo) - 1
      /\ \A a \in 1 .. Len(todo) - 1 : Tail(todo)[a] = todo[a + 1]
  BY <1>1, <1>3
<1>6. \A a \in 1 .. Len(todo) - 1 : a + 1 \in 1 .. Len(todo)
  BY <1>3
<1> QED
  BY <1>2, <1>3, <1>4, <1>5, <1>6

\* An unused definition is unlinked.
LEMMA UnlinkUnusedSettled == IInv /\ SInv /\ IInv' /\ UnlinkUnused => SInv'
<1> SUFFICES ASSUME IInv, SInv, IInv', UnlinkUnused PROVE SInv'
  OBVIOUS
<1> DEFINE i == Head(todo)
<1>1. /\ phase = "move" /\ todo # <<>> /\ refs[i].ix = 0 /\ heap' = Unlink(heap, refs[i].node)
      /\ todo' = Tail(todo) /\ UNCHANGED <<as, phase, iter, refs, sorted, ix, tmp>>
  BY DEF UnlinkUnused, Entry
<1>2. i \in ToSet(todo) /\ ToSet(todo') = ToSet(todo) \ {i} /\ i \in held
  <2>1. i \in ToSet(todo) /\ ToSet(todo') = ToSet(todo) \ {i}
    BY <1>1, HeadIs
  <2> QED
    BY <1>1, <2>1 DEF IInv, Todo
<1>3. Named' /\ Counted' /\ Placed' /\ Ordered' /\ held' = held
  BY <1>1, <1>2, UnlinkSettled
<1>4. \A a, b \in DOMAIN todo' : a < b => refs[todo'[a]].ix <= refs[todo'[b]].ix
  BY <1>1, TodoOrder
<1>5. \A j \in held' : refs'[j].ix # 0 => j \in ToSet(todo')
  BY <1>1, <1>2, <1>3 DEF SInv, Numbers
<1>6. Numbers'
  BY <1>1, <1>4, <1>5 DEF SInv, Numbers
<1> QED
  BY <1>1, <1>3, <1>6 DEF SInv, Covered

\* Then every definition that the map holds is.
LEMMA UnlinkEntrySettled == IInv /\ SInv /\ IInv' /\ UnlinkEntry => SInv'
<1> SUFFICES ASSUME IInv, SInv, IInv', UnlinkEntry PROVE SInv'
  OBVIOUS
<1> DEFINE i == Head(todo)
<1>1. /\ phase = "unlink" /\ todo # <<>> /\ UNCHANGED <<as, phase, iter, refs, sorted, ix, tmp>>
      /\ heap' = IF refs[i].node = NULL THEN heap ELSE Unlink(heap, refs[i].node)
  BY DEF UnlinkEntry, Entry
<1>2. i \in DOMAIN refs
  BY <1>1, HeadIs
<1>3. Covered'
  BY <1>1 DEF Covered
<1>4. CASE refs[i].node = NULL
  <2>1. heap' = heap /\ held' = held
    BY <1>1, <1>4 DEF held
  <2>2. Placed'
    BY <1>1, <2>1 DEF SInv, Placed, OfType, live
  <2> QED
    BY <1>1, <1>3, <2>1, <2>2, IdleSettled DEF SInv
<1>5. CASE refs[i].node # NULL
  <2>1. i \in held
    BY <1>1, <1>2, <1>5 DEF held
  <2> QED
    BY <1>1, <1>3, <1>5, <2>1, UnlinkSettled DEF SInv
<1> QED
  BY <1>4, <1>5

\* The map is freed with the definitions that it holds.
LEMMA FreeEntrySettled == IInv /\ SInv /\ IInv' /\ FreeEntry => SInv'
<1> SUFFICES ASSUME IInv, SInv, IInv', FreeEntry PROVE SInv'
  OBVIOUS
<1> DEFINE i == Head(todo)
           d == refs[i].node
           F == BelowOf(heap, d)
<1>1. /\ phase = "free" /\ todo # <<>> /\ todo' = Tail(todo)
      /\ IF d = NULL THEN UNCHANGED <<heap, as>>
         ELSE heap' = FreeTree(heap, d) /\ as' = Blank(as, F)
      /\ UNCHANGED <<phase, iter, refs, sorted, ix, tmp>>
  BY DEF FreeEntry, Entry
<1>2. i \in ToSet(todo) /\ i \in DOMAIN refs /\ ToSet(todo') = ToSet(todo) \ {i}
  BY <1>1, HeadIs
<1> HIDE DEF i
<1>3. held' = held \ {i} /\ (i \in held <=> d # NULL)
  BY <1>1, <1>2 DEF held
<1>4. Covered'
  BY <1>1 DEF Covered
<1>5. CASE d = NULL
  <2>1. held' = held /\ UNCHANGED <<heap, as>>
    BY <1>1, <1>3, <1>5
  <2>2. Placed'
    BY <1>1, <2>1 DEF SInv, Placed, OfType, live
  <2> QED
    BY <1>1, <1>4, <2>1, <2>2, IdleSettled DEF SInv
<1>6. CASE d # NULL
  <2>1. i \in held /\ heap' = FreeTree(heap, d) /\ as' = Blank(as, F)
    BY <1>1, <1>3, <1>6
  <2>2. /\ d \in live /\ heap.type[d] = "footnote_definition" /\ heap.parent[d] = NULL
        /\ d \in Node
    <3>1. /\ d \in live /\ heap.type[d] = "footnote_definition" /\ heap.parent[d] = NULL
      BY <1>1, <2>1 DEF IInv, Map, Todo
    <3> QED
      BY <3>1 DEF live, Live
  <2>3. Fine(heap) /\ d # root /\ root \in Node /\ heap.parent[root] = NULL
    BY <2>2, FineRoot DEF IInv, Tree, Fine
  <2>4. /\ Descendants(heap, F, d) /\ live' = live \ F
        /\ \A m \in Node \ F : heap'.type[m] = heap.type[m] /\ heap'.parent[m] = heap.parent[m]
    BY <2>1, <2>2, <2>3, FreeTreeIs DEF live
  <2>5. Unlinked(heap, Unlink(heap, d), d) /\ Released(Unlink(heap, d), heap', F)
    BY <2>1, <2>2, <2>3, FreeTreeLinks DEF live
  <2>6. as \in Fields
    BY DEF IInv, Pointed
  <2>7. \A m \in Node \ F :
          /\ as'.label[m] = as.label[m] /\ as'.number[m] = as.number[m]
          /\ as'.parent_footnote_def[m] = as.parent_footnote_def[m]
          /\ as'.ref_ix[m] = as.ref_ix[m] /\ as'.def_count[m] = as.def_count[m]
    <3>1. \A m \in Node \ F :
            /\ Blank(as, F).label[m] = as.label[m] /\ Blank(as, F).number[m] = as.number[m]
            /\ Blank(as, F).parent_footnote_def[m] = as.parent_footnote_def[m]
            /\ Blank(as, F).ref_ix[m] = as.ref_ix[m]
            /\ Blank(as, F).def_count[m] = as.def_count[m]
      <4> HIDE DEF F
      <4> QED
        BY <2>6 DEF Blank, Fields, Pointer
    <3> QED
      BY <2>1, <3>1
  <2>8. heap.prev[d] = NULL
    BY <2>2, <2>3 DEF Fine, WellFormed, Linked, ParentLinked
  <2> HIDE DEF d, F
  <2>9. \A m \in live' : Same(m) /\ m \in Node \ F
    BY <2>4, <2>7 DEF Same, live, Live
  <2>10. \A c \in Node : Home(c) => c \in live \ F
    <3>1. root \notin F
      BY <2>3, <2>4, NullAssumption DEF Descendants, Live
    <3>2. \A c \in Node : Home(c) => c # d
      BY <2>1 DEF Home, d
    <3> QED
      BY <2>4, <3>1, <3>2 DEF Home, Descendants
  <2>11. ASSUME NEW c \in Node, Home(c)
         PROVE  Home(c)' /\ heap'.next[c] = heap.next[c]
    <3>1. c \in live' /\ c \in Node \ F /\ c # d
      BY <2>4, <2>10, <2>11 DEF Descendants
    <3>2. Home(c)'
      BY <1>1, <1>3, <2>4, <2>11, <3>1 DEF Home
    <3>3. c # heap.prev[d]
      BY <2>8, NullAssumption
    <3>4. Unlink(heap, d).next[c] = heap.next[c]
      BY <2>5, <3>1, <3>3 DEF Unlinked
    <3>5. heap'.next[c] = Unlink(heap, d).next[c]
      BY <2>5, <3>1 DEF Released
    <3> QED
      BY <3>2, <3>4, <3>5
  <2>12. d \notin live'
    BY <2>4 DEF Descendants
  <2>13. \A j \in held : refs[j].node \in live' => j \in held'
    BY <1>3, <2>12 DEF d
  <2>14. held' \subseteq held
    BY <1>3
  <2>15. /\ Counted' /\ Ordered'
         /\ \A j \in held' : refs'[j].label = as'.label[refs'[j].node]
         /\ \A r \in OfType("footnote_reference")' : as'.parent_footnote_def[r] # NULL
    BY <1>1, <2>9, <2>11, <2>13, <2>14, Thinned
  <2>16. Named' /\ Numbers'
    BY <1>1, <2>9, <2>15, ThinnedNamed
  <2>17. ASSUME NEW n \in live' \ {root}, heap'.parent[n] = NULL
         PROVE  \E j \in held' : refs'[j].node = n
    <3>1. n \in live /\ heap.parent[n] = NULL
      BY <2>4, <2>9, <2>17
    <3> QED
      BY <1>1, <2>13, <3>1 DEF SInv, Placed
  <2>18. Placed'
    BY <1>1, <2>15, <2>17 DEF Placed
  <2> QED
    BY <1>4, <2>15, <2>16, <2>18 DEF SInv
<1> QED
  BY <1>5, <1>6

\* A reference without a definition becomes a text.
LEMMA RestoreSettled ==
  ASSUME IInv, SInv, phase = "number", NEW it, it = Forward, Restore(it), IInv'
  PROVE  SInv'
<1> DEFINE n == it.cur
           t == FreeAddress(heap)
           l == as.label[n]
<1>1. /\ AtReference(it) /\ Found(l) = {} /\ sorted' = Sorted(l)
      /\ heap' = FreeTree(InsertAfter(Fresh(heap, t, "text"), n, t), n)
      /\ as' = Blank([as EXCEPT !.label[t] = l], {n})
      /\ iter' = it /\ UNCHANGED <<phase, refs, ix, todo, tmp>> /\ phase' = "number"
  BY DEF Restore
<1>2. /\ it \in Walking /\ it \in Iterators /\ it.next \in live \cup {NULL}
      /\ n \in live /\ n \in Node /\ it.ev = "exit" /\ heap.type[n] = "footnote_reference"
  <2>1. it \in Walking /\ n \in live
    BY <1>1, ForwardLive DEF AtReference
  <2> QED
    BY <1>1, <2>1 DEF live, Live, AtReference, Walking
<1>3. /\ Fine(heap) /\ Whole(heap) /\ Cardinality(live) <= MaxSize
  BY DEF IInv, Tree
<1>4. n # root /\ heap.parent[n] # NULL
  BY <1>2, <1>3 DEF Whole, live, Fine
<1>5. t \in Node \ live /\ t # n
  BY <1>2, <1>3, FreeAddressIs DEF live
<1> HIDE DEF n, t, l
<1>6. /\ live' = (live \cup {t}) \ {n} /\ heap'.type[t] = "text"
      /\ \A m \in live \ {n} : heap'.type[m] = heap.type[m] /\ heap'.parent[m] = heap.parent[m]
  BY <1>1, <1>2, <1>3, <1>4, <1>5, RestoredIs DEF live
<1>7. /\ as'.label[t] = l /\ as'.parent_footnote_def[t] = as.parent_footnote_def[t]
      /\ \A m \in Node \ {n, t} :
           /\ as'.label[m] = as.label[m] /\ as'.number[m] = as.number[m]
           /\ as'.parent_footnote_def[m] = as.parent_footnote_def[m]
           /\ as'.ref_ix[m] = as.ref_ix[m] /\ as'.def_count[m] = as.def_count[m]
  <2>1. as \in Fields
    BY DEF IInv, Pointed
  <2> QED
    BY <1>1, <1>5, <2>1 DEF Blank, Fields
<1>8. as'.parent_footnote_def[t] = NULL
  BY <1>5, <1>7, PointedLive DEF PointsWell
<1>9. \A m \in live \ {n} : m \in Node \ {n, t} /\ Same(m)
  BY <1>5, <1>6, <1>7 DEF Same, live, Live
<1>10. held' = held /\ \A c : ~Home(c)
  BY <1>1, NoneMoved DEF held
<1>11. /\ Counted' /\ Ordered'
       /\ \A i \in held' : refs'[i].label = as'.label[refs'[i].node]
  BY <1>1, <1>6, <1>8, <1>9, <1>10, Thinned
<1>12. Covered'
  <2>1. PICK D, O \in SUBSET live :
          /\ Walked(heap, D, O, it)
          /\ \A m \in D : Unmet(m) => m = n
          /\ n \in D
    BY <1>2, ForwardMet DEF n
  <2> DEFINE E == (D \ {n}) \cup {t}
  <2>2. Walked(heap', E, O, it)
    BY <1>1, <1>2, <1>3, <1>4, <1>5, <2>1, WalkReplaces DEF live
  <2>3. E \in SUBSET live' /\ O \in SUBSET live'
    BY <1>5, <1>6, <2>1 DEF Walked
  <2>4. ASSUME NEW m \in E PROVE ~Unmet(m)'
    <3>1. m = t \/ (m \in live \ {n} /\ m \in D)
      OBVIOUS
    <3>2. CASE m = t
      BY <1>1, <1>6, <3>2 DEF Unmet
    <3>3. CASE m \in live \ {n} /\ m \in D
      <4>1. ~Unmet(m)
        BY <2>1, <3>3
      <4> QED
        BY <1>1, <1>9, <3>3, <4>1 DEF Unmet, Same
    <3> QED
      BY <3>1, <3>2, <3>3
  <2> HIDE DEF E
  <2> QED
    BY <1>1, <2>2, <2>3, <2>4 DEF Covered
<1>13. /\ Sorted(l) \in {sorted, SortedRefs} /\ (sorted # {} => sorted = SortedRefs)
       /\ l \notin LongLabel => \A i \in DOMAIN refs : refs[i].label # l
       /\ SortedRefs' = SortedRefs
  <2>1. SortedRefs' = SortedRefs
    BY <1>1 DEF SortedRefs
  <2> QED
    BY <1>1, <2>1, FoundEntry DEF SInv, Named
<1>14. Named'
  <2>1. ASSUME NEW m \in OfType("text")', NEW i \in DOMAIN refs', refs'[i].label = as'.label[m]
        PROVE  refs'[i].label \in LongLabel
    <3>1. m = t \/ m \in live \ {n}
      BY <1>6 DEF OfType
    <3>2. CASE m = t
      BY <1>1, <1>7, <1>13, <2>1, <3>2
    <3>3. CASE m \in live \ {n}
      <4>1. m \in OfType("text") /\ as'.label[m] = as.label[m]
        BY <1>9, <3>3 DEF OfType, Same
      <4> QED
        BY <1>1, <2>1, <4>1 DEF SInv, Named
    <3> QED
      BY <3>1, <3>2, <3>3
  <2> QED
    BY <1>1, <1>11, <1>13, <2>1 DEF SInv, Named
<1>15. Numbers'
  <2>1. sorted # {} => sorted' = sorted
    BY <1>1, FoundIs
  <2> QED
    BY <1>1, <2>1 DEF SInv, Numbers
<1>16. Placed'
  <2>1. Whole(heap')
    BY <1>1 DEF IInv, Tree
  <2> QED
    BY <1>1, <2>1 DEF Placed, Whole, live
<1> QED
  BY <1>11, <1>12, <1>14, <1>15, <1>16 DEF SInv

\* The second loop ends: every reference has its definition.
LEMMA NumberedSettled ==
  ASSUME IInv, SInv, phase = "number", NEW it, it = Forward, Numbered(it)
  PROVE  SInv'
<1>1. /\ it.ev = "done" /\ live' = live /\ UNCHANGED <<heap, as, refs, sorted, ix, tmp>>
      /\ phase' = IF sorted = {} THEN "unlink" ELSE "move"
      /\ IF sorted = {} THEN todo' = NewestFirst ELSE todo' \in ByNumber
  BY DEF Numbered, live
<1>2. held' = held
  BY <1>1 DEF held
<1>3. Named' /\ Counted' /\ Ordered' /\ (phase' # "move" => Numbers')
      /\ \A n \in live' \ {root} : heap'.parent[n] = NULL => \E i \in held' : refs'[i].node = n
  BY <1>1, <1>2, IdleSettled
<1>4. Numbers'
  <2>1. CASE sorted = {}
    BY <1>1, <1>3, <2>1
  <2>2. CASE sorted # {}
    <3>1. /\ todo' \in SetToSeqs(sorted)
          /\ \A a, b \in DOMAIN todo' : a < b => refs[todo'[a]].ix <= refs[todo'[b]].ix
      BY <1>1, <2>2 DEF ByNumber
    <3>2. ToSet(todo') = sorted
      <4>1. IsFiniteSet(sorted)
        <5>1. DOMAIN refs = 1 .. Len(refs) /\ Len(refs) \in Nat /\ sorted \in SUBSET DOMAIN refs
          BY DEF IInv, Map
        <5>2. IsFiniteSet(DOMAIN refs)
          BY <5>1, FS_Interval
        <5> QED
          BY <5>1, <5>2, FS_Subset
      <4>2. \A s \in SetToSeqs(sorted) : ToSet(s) = sorted
        BY <4>1, OrderIs
      <4> QED
        BY <3>1, <4>2
    <3> QED
      BY <1>1, <1>2, <3>1, <3>2, NoneMoved DEF SInv, Numbers
  <2> QED
    BY <2>1, <2>2
<1>5. \A r \in OfType("footnote_reference")' : as'.parent_footnote_def[r] # NULL
  <2>1. \A r \in live : ~Unmet(r)
    BY <1>1, ForwardMet
  <2> QED
    BY <1>1, <2>1 DEF Unmet, OfType
<1>6. Covered' /\ Placed'
  BY <1>1, <1>3, <1>5 DEF Covered, Placed
<1> QED
  BY <1>3, <1>4, <1>6 DEF SInv

\* The loops at the end follow each other.
LEMMA LoopEndSettled == IInv /\ SInv /\ LoopEnd => SInv'
<1> SUFFICES ASSUME IInv, SInv, LoopEnd PROVE SInv'
  OBVIOUS
<1>1. /\ phase \in {"move", "unlink"} /\ phase' \in {"unlink", "free"} /\ todo' = NewestFirst
      /\ UNCHANGED <<heap, as, iter, refs, sorted, ix, tmp>> /\ live' = live
  BY DEF LoopEnd, live
<1>2. held' = held
  <2>1. ToSet(NewestFirst) = DOMAIN refs
    BY NewestFirstIs DEF IInv, Map
  <2> QED
    BY <1>1, <2>1 DEF held
<1>3. Named' /\ Counted' /\ Ordered' /\ Numbers'
      /\ \A n \in live' \ {root} : heap'.parent[n] = NULL => \E i \in held' : refs'[i].node = n
  BY <1>1, <1>2, IdleSettled
<1>4. \A r \in OfType("footnote_reference")' : as'.parent_footnote_def[r] # NULL
  BY <1>1 DEF SInv, Placed, OfType
<1>5. Covered' /\ Placed'
  BY <1>1, <1>3, <1>4 DEF Covered, Placed
<1> QED
  BY <1>3, <1>5 DEF SInv

\* The map is gone, and the last loop starts.
LEMMA MapFreedSettled == IInv /\ SInv /\ MapFreed => SInv'
<1> SUFFICES ASSUME IInv, SInv, MapFreed PROVE SInv'
  OBVIOUS
<1>1. /\ phase = "free" /\ todo = <<>> /\ phase' = "consolidate" /\ iter' = IterNew(root)
      /\ UNCHANGED <<heap, as, refs, sorted, ix, todo, tmp>> /\ live' = live
  BY DEF MapFreed, live
<1>2. held' = {} /\ held = {}
  BY <1>1 DEF held, ToSet
<1>3. Named' /\ Counted' /\ Ordered' /\ Numbers'
      /\ \A n \in live' \ {root} : heap'.parent[n] = NULL => \E i \in held' : refs'[i].node = n
  BY <1>1, <1>2, IdleSettled
<1>4. \A r \in OfType("footnote_reference")' : as'.parent_footnote_def[r] # NULL
  BY <1>1 DEF SInv, Placed, OfType
<1>5. Walked(heap, {}, {}, IterNew(root))
  BY WalkStarts DEF IInv, Tree
<1>6. Covered'
  <2>1. {} \in SUBSET live
    OBVIOUS
  <2> QED
    BY <1>1, <1>5, <2>1 DEF Covered
<1>7. Placed'
  BY <1>1, <1>3, <1>4 DEF Placed
<1> QED
  BY <1>3, <1>6, <1>7 DEF SInv

\* That loop comes to texts that follow each other.
LEMMA ConsolidateSettled ==
  ASSUME IInv, SInv, phase = "consolidate", tmp = NULL, NEW it, it = Forward, Consolidate(it)
  PROVE  SInv'
<1>1. /\ tmp' = heap.next[it.cur] /\ iter' = it /\ phase' = "consolidate" /\ live' = live
      /\ UNCHANGED <<heap, as, phase, refs, sorted, ix, todo>>
  BY DEF Consolidate, live
<1>2. held' = held
  BY <1>1 DEF held
<1>3. Named' /\ Counted' /\ Ordered' /\ Numbers'
      /\ \A n \in live' \ {root} : heap'.parent[n] = NULL => \E i \in held' : refs'[i].node = n
  BY <1>1, <1>2, IdleSettled
<1>4. \A r \in OfType("footnote_reference")' : as'.parent_footnote_def[r] # NULL
  BY <1>1 DEF SInv, Placed, OfType
<1>5. Covered'
  <2>1. PICK D, O \in SUBSET live :
          Walked(heap, D, O, it) /\ \A n \in D : Unmet(n) => n = it.cur
    BY ForwardMet
  <2>2. ASSUME NEW n \in D PROVE ~Unmet(n)'
    BY <1>1, <2>1 DEF Unmet
  <2> QED
    BY <1>1, <2>1, <2>2 DEF Covered
<1>6. Placed'
  BY <1>1, <1>3, <1>4 DEF Placed
<1> QED
  BY <1>3, <1>5, <1>6 DEF SInv

\* One of the texts is freed.
LEMMA JoinSettled == IInv /\ SInv /\ IInv' /\ Join => SInv'
<1> SUFFICES ASSUME IInv, SInv, IInv', Join PROVE SInv'
  OBVIOUS
<1> DEFINE y == IterNext(heap, iter)
           k == heap.next[tmp]
<1>1. /\ phase = "consolidate" /\ phase' = phase /\ tmp # NULL /\ iter' = y
      /\ heap' = FreeTree(heap, tmp) /\ as' = Blank(as, {tmp})
      /\ tmp' = IF k # NULL /\ heap.type[k] = "text" THEN k ELSE NULL
      /\ UNCHANGED <<phase, refs, sorted, ix, todo>>
  BY DEF Join
<1>2. /\ Fine(heap) /\ heap \in Heap /\ Linked(heap) /\ WellFormed(heap)
      /\ iter \in Walking /\ iter \in Iterators /\ iter.next \in live \cup {NULL}
      /\ iter.root = root
      /\ tmp \in live /\ tmp \in Node /\ heap.type[tmp] = "text"
      /\ iter.next = tmp /\ iter.next_ev = "enter"
  BY <1>1 DEF IInv, Tree, Places, Fine, WellFormed, Walking, live, Live
<1>3. /\ live' = live \ {tmp}
      /\ \A m \in Node \ {tmp} :
           /\ heap'.type[m] = heap.type[m] /\ heap'.parent[m] = heap.parent[m]
           /\ heap'.next[m] = IF m = heap.prev[tmp] THEN k ELSE heap.next[m]
  BY <1>1, <1>2, TextFreed DEF live
<1>4. \A m \in live' : m \in live /\ m \in Node \ {tmp} /\ Same(m)
  <2>1. as \in Fields
    BY DEF IInv, Pointed
  <2>2. \A m \in Node \ {tmp} :
          /\ as'.label[m] = as.label[m] /\ as'.number[m] = as.number[m]
          /\ as'.parent_footnote_def[m] = as.parent_footnote_def[m]
          /\ as'.ref_ix[m] = as.ref_ix[m] /\ as'.def_count[m] = as.def_count[m]
    BY <1>1, <2>1 DEF Blank, Fields, Pointer
  <2>3. \A m \in live' : m \in live /\ m \in Node \ {tmp}
    BY <1>3 DEF live, Live
  <2> QED
    BY <1>3, <2>2, <2>3 DEF Same
<1>5. held = {} /\ held' = {}
  BY <1>1 DEF held
<1>6. /\ k # tmp /\ (k # NULL => k \in Node)
      /\ \A m \in Node : heap.next[m] = tmp => m = heap.prev[tmp]
  <2>1. k # tmp
    BY <1>2, NotSelf DEF Fine
  <2>2. k \in Node \cup {NULL}
    BY <1>2, Pointers
  <2>3. \A m \in Node : heap.next[m] = tmp => m = heap.prev[tmp]
    BY <1>1, <1>2 DEF Linked, NextLinked
  <2> QED
    BY <2>1, <2>2, <2>3
<1> HIDE DEF k, y
<1>7. ASSUME NEW c \in Node, Home(c)
      PROVE  /\ Home(c)'
             /\ heap.next[c] = NULL \/ Home(heap.next[c]) => heap'.next[c] = heap.next[c]
  <2>1. c # tmp /\ heap.type[c] = "footnote_definition" /\ c \in live /\ heap.parent[c] = root
    BY <1>2, <1>7 DEF Home
  <2>2. Home(c)'
    BY <1>3, <1>5, <2>1 DEF Home
  <2>3. c = heap.prev[tmp] => heap.next[c] = tmp
    BY <1>2, <2>1, NullAssumption DEF Linked, PrevLinked
  <2>4. tmp # NULL /\ ~Home(tmp)
    BY <1>1, <1>2 DEF Home
  <2> QED
    BY <1>3, <2>1, <2>2, <2>3, <2>4
<1>8. /\ Counted' /\ Ordered'
      /\ \A i \in held' : refs'[i].label = as'.label[refs'[i].node]
      /\ \A r \in OfType("footnote_reference")' : as'.parent_footnote_def[r] # NULL
  BY <1>1, <1>4, <1>5, <1>7, Thinned
<1>9. Named' /\ Numbers'
  BY <1>1, <1>4, <1>8, ThinnedNamed
<1>10. Placed'
  <2>1. \A n \in live' \ {root} : heap'.parent[n] # NULL
    BY <1>1, <1>3, <1>4, <1>5 DEF SInv, Placed
  <2> QED
    BY <1>1, <1>8, <2>1 DEF Placed
<1>11. Covered'
  <2>1. PICK D, O \in SUBSET live : Walked(heap, D, O, iter) /\ \A n \in D : ~Unmet(n)
    BY <1>1 DEF SInv, Covered
  <2>2. y.ev = "enter" /\ y.cur = tmp /\ y \in Iterators
    BY <1>2, IterNextIs DEF y
  <2>3. y.next \in live \cup {NULL}
    BY <1>2, WalkingStep DEF y, Walking
  <2>4. Whole(heap)
    BY <1>1, LoopsWhole
  <2>5. PICK E, P \in SUBSET Live(heap) :
          /\ Walked(heap, E, P, y) /\ D \subseteq E
          /\ y.ev = "exit" \/ (y.ev = "enter" /\ heap.type[y.cur] \in LeafTypes) => y.cur \in E
          /\ \A m \in E \ D : m = y.cur /\ (y.ev = "exit" <=> heap.type[m] \notin LeafTypes)
                                      /\ y.ev # "done"
    BY <1>2, <2>1, <2>4, WalkGoesOn DEF y, live
  <2>6. tmp \in E /\ E \ {tmp} \subseteq D
    BY <1>2, <2>2, <2>5 DEF LeafTypes
  <2>7. Walked(heap', E \ {tmp}, P, y)
    <3>1. E \in SUBSET live /\ P \in SUBSET live
      BY <2>5 DEF live
    <3>2. Walked(FreeTree(heap, tmp), E \ {tmp}, P, y)
      BY <1>2, <2>2, <2>3, <2>5, <2>6, <3>1, WalkRemoves DEF live
    <3> QED
      BY <1>1, <3>2
  <2>8. E \ {tmp} \in SUBSET live' /\ P \in SUBSET live'
    BY <1>3, <2>5, <2>6 DEF Walked, live
  <2>9. ASSUME NEW m \in E \ {tmp}, Unmet(m)' PROVE FALSE
    <3>1. /\ m \in Node \ {tmp} /\ ~Unmet(m) /\ heap.type[m] = "text"
          /\ heap'.next[m] \notin {NULL, tmp'} /\ heap'.type[heap'.next[m]] = "text"
      BY <1>1, <1>3, <1>4, <2>1, <2>6, <2>8, <2>9 DEF Unmet
    <3>2. CASE m = heap.prev[tmp]
      BY <1>1, <1>3, <1>6, <3>1, <3>2
    <3>3. CASE m # heap.prev[tmp]
      <4>1. heap'.next[m] = heap.next[m] /\ heap.next[m] # tmp /\ heap.next[m] # NULL
        BY <1>3, <1>6, <3>1, <3>3
      <4>2. heap.next[m] \in Node \ {tmp}
        BY <1>2, <3>1, <4>1, Pointers
      <4> QED
        BY <1>1, <1>3, <3>1, <4>1, <4>2 DEF Unmet
    <3> QED
      BY <3>2, <3>3
  <2> QED
    BY <1>1, <2>7, <2>8, <2>9 DEF Covered
<1> QED
  BY <1>8, <1>9, <1>10, <1>11 DEF SInv

\* The last loop ends: no text follows another.
LEMMA ConsolidatedSettled ==
  ASSUME IInv, SInv, phase = "consolidate", tmp = NULL, NEW it, it = Forward, Consolidated(it)
  PROVE  SInv'
<1>1. /\ phase' = "done" /\ iter' = it /\ it.ev = "done" /\ live' = live
      /\ UNCHANGED <<heap, as, refs, sorted, ix, todo, tmp>>
  BY DEF Consolidated, live
<1>2. held' = held
  BY <1>1 DEF held
<1>3. Named' /\ Counted' /\ Ordered' /\ Numbers'
      /\ \A n \in live' \ {root} : heap'.parent[n] = NULL => \E i \in held' : refs'[i].node = n
  BY <1>1, <1>2, IdleSettled
<1>4. \A r \in OfType("footnote_reference")' : as'.parent_footnote_def[r] # NULL
  BY <1>1 DEF SInv, Placed, OfType
<1>5. \A n \in OfType("text")' : heap'.next[n] # NULL => heap'.type[heap'.next[n]] # "text"
  <2>1. \A n \in live : ~Unmet(n)
    BY <1>1, ForwardMet
  <2> QED
    BY <1>1, <2>1 DEF Unmet, OfType
<1>6. Covered' /\ Placed'
  BY <1>1, <1>3, <1>4, <1>5 DEF Covered, Placed
<1> QED
  BY <1>3, <1>6 DEF SInv

\* A definition that is moved follows what ended the document.
LEMMA MovedLinks ==
  ASSUME NEW h, Fine(h), NEW d \in Live(h)
  PROVE  LET w == AppendChild(h, root, d)
         IN  /\ w.next[d] = NULL
             /\ \A m \in Node \ {d} : h.next[m] # d =>
                  w.next[m] = IF h.parent[m] = root /\ h.next[m] = NULL THEN d ELSE h.next[m]
<1> DEFINE v == Unlink(h, d)
           w == AppendChild(h, root, d)
           a == v.last_child[root]
<1>1. h \in Heap /\ d \in Node /\ WellFormed(h) /\ root \in Live(h) /\ root \in Node /\ root # NULL
  BY FineRoot, NullAssumption DEF Fine, WellFormed, Live
<1>2. Unlinked(h, v, d) /\ Detached(h, v, d) /\ Gap(v, root, a, NULL)
      /\ Inserted(v, w, d, root, a, NULL)
  BY <1>1, UnlinkFields, AppendInserts
<1> HIDE DEF v, w
<1>3. w.next[d] = NULL
  BY <1>1, <1>2 DEF Inserted
<1>4. ASSUME NEW m \in Node \ {d}, h.next[m] # d
      PROVE  w.next[m] = IF h.parent[m] = root /\ h.next[m] = NULL THEN d ELSE h.next[m]
  <2>1. m # NULL /\ m # h.prev[d]
    BY <1>1, <1>4, NullAssumption DEF WellFormed, Linked, PrevLinked
  <2>2. v.next[m] = h.next[m] /\ v.parent[m] = h.parent[m]
    BY <1>2, <2>1 DEF Unlinked
  <2>3. w.next[m] = IF m = a THEN d ELSE v.next[m]
    BY <1>2, <1>4 DEF Inserted
  <2>4. m = a => v.next[m] = NULL /\ v.parent[m] = root
    BY <1>2, <2>1 DEF Gap
  <2>5. v.next[m] = NULL /\ v.parent[m] = root => m = a
    BY <1>1, <1>2 DEF Detached, WellFormed, Linked, ParentLinked
  <2> HIDE DEF a
  <2> QED
    BY <2>2, <2>3, <2>4, <2>5
<1> QED
  BY <1>3, <1>4 DEF w

\* A used definition is the next of those at the end of the document.
LEMMA MoveUsedSettled == IInv /\ SInv /\ MoveUsed => SInv'
<1> SUFFICES ASSUME IInv, SInv, MoveUsed PROVE SInv'
  OBVIOUS
<1> PICK i : Moving(i)
  BY MoveDoes
<1>1. PICK d, k : d = refs[i].node /\ k = refs[i].ix
  OBVIOUS
<1>2. /\ phase = "move" /\ phase' = "move" /\ todo # <<>> /\ i = Head(todo) /\ k # 0
      /\ heap' = AppendChild(heap, root, d) /\ todo' = Tail(todo)
      /\ UNCHANGED <<as, phase, iter, sorted, ix, tmp>>
  BY <1>1 DEF Moving
<1>3. /\ i \in ToSet(todo) /\ i \in DOMAIN refs /\ ToSet(todo') = ToSet(todo) \ {i} /\ i \in held
      /\ d \in live /\ d \in Node /\ heap.type[d] = "footnote_definition"
  BY <1>1 DEF Moving
<1>4. /\ heap'.type = heap.type /\ live' = live
      /\ \A m \in Node : heap'.parent[m] = IF m = d THEN root ELSE heap.parent[m]
  BY <1>1 DEF Moving
<1>5. /\ DOMAIN refs' = DOMAIN refs
      /\ \A j \in DOMAIN refs : /\ refs'[j].node = IF j = i THEN NULL ELSE refs[j].node
                                /\ refs'[j].label = refs[j].label /\ refs'[j].ix = refs[j].ix
  BY <1>1 DEF Moving
<1>6. /\ held' = held \ {i} /\ \A j \in held' : refs'[j] = refs[j] /\ j \in held /\ refs[j].node # d
  BY <1>1 DEF Moving
<1>7. held = {j \in DOMAIN refs : refs[j].node # NULL} /\ ToSet(todo) \subseteq DOMAIN refs
  BY <1>2 DEF held, IInv, Todo, ToSet
<1>8. \A j \in DOMAIN refs : refs[j].ix \in 0 .. ix /\ refs[j].ix \in Nat
  BY DEF SInv, Numbers, IInv, Map
<1>9. Covered'
  BY <1>2 DEF Covered
<1>10. Named'
  <2>1. SortedRefs' = SortedRefs
    <3>1. \A j \in DOMAIN refs : \A m \in 1 .. j - 1 : m \in DOMAIN refs
      BY DEF IInv, Map
    <3> QED
      BY <1>5, <3>1 DEF SortedRefs
  <2>2. \A j \in held' : refs'[j].label = as'.label[refs'[j].node]
    BY <1>2, <1>6 DEF SInv, Named
  <2>3. \A n \in OfType("text")' : n \in OfType("text")
    BY <1>4 DEF OfType
  <2>4. ASSUME NEW n \in OfType("text")', NEW j \in DOMAIN refs', refs'[j].label = as'.label[n]
        PROVE  refs'[j].label \in LongLabel
    <3>1. n \in OfType("text") /\ j \in DOMAIN refs /\ refs[j].label = as.label[n]
      BY <1>2, <1>5, <2>3, <2>4
    <3>2. refs[j].label \in LongLabel
      BY <3>1 DEF SInv, Named
    <3> QED
      BY <1>5, <3>1, <3>2
  <2>5. /\ \A j \in DOMAIN refs' : refs'[j].label \in Label
        /\ sorted' # {} => sorted' = SortedRefs'
    BY <1>2, <1>5, <2>1 DEF SInv, Named
  <2> QED
    BY <1>2, <2>2, <2>4, <2>5 DEF Named
<1>11. Numbers'
  <2>1. \A a, b \in DOMAIN todo' : a < b => refs'[todo'[a]].ix <= refs'[todo'[b]].ix
    <3>1. \A a, b \in DOMAIN todo' : a < b => refs[todo'[a]].ix <= refs[todo'[b]].ix
      BY <1>2, TodoOrder
    <3>2. \A a \in DOMAIN todo' : todo'[a] \in DOMAIN refs
      BY <1>3, <1>7 DEF ToSet
    <3> QED
      BY <1>5, <3>1, <3>2
  <2>2. \A j \in held' : refs'[j].ix # 0 => j \in ToSet(todo')
    BY <1>2, <1>3, <1>6 DEF SInv, Numbers
  <2>3. \A j \in DOMAIN refs : refs'[j].node = NULL => refs[j].ix # 0
    BY <1>1, <1>2, <1>5 DEF SInv, Numbers
  <2> QED
    BY <1>2, <1>5, <2>1, <2>2, <2>3 DEF SInv, Numbers
<1>12. Counted'
  BY <1>2 DEF SInv, Counted
<1>13. Placed'
  <2>1. ASSUME NEW n \in live' \ {root}, heap'.parent[n] = NULL
        PROVE  \E j \in held' : refs'[j].node = n
    <3>1. n \in Node /\ n \in live
      BY <1>4 DEF live, Live
    <3>2. n # d /\ heap.parent[n] = NULL
      <4>1. root # NULL
        BY NullAssumption, AddressAssumption DEF root
      <4> QED
        BY <1>4, <2>1, <3>1, <4>1
    <3>3. PICK j \in held : refs[j].node = n
      BY <2>1, <3>1, <3>2 DEF SInv, Placed
    <3> QED
      BY <1>1, <1>6, <3>2, <3>3
  <2>2. \A r \in OfType("footnote_reference")' : as'.parent_footnote_def[r] # NULL
    BY <1>2, <1>4 DEF SInv, Placed, OfType
  <2> QED
    BY <1>2, <2>1, <2>2 DEF Placed
<1>14. Ordered'
  <2>1. PICK N \in Seq(Node) : InOrder(N)
    BY <1>2 DEF SInv, Ordered
  <2>2. PICK M \in Seq(Node), p \in Nat :
          /\ p = Len(N) /\ Len(M) = p + 1 /\ M[p + 1] = d
          /\ \A q \in 1 .. p : M[q] = N[q]
    <3>1. Append(N, d) \in Seq(Node)
      BY <1>3, <2>1
    <3>2. /\ Len(N) \in Nat /\ Len(Append(N, d)) = Len(N) + 1
          /\ Append(N, d)[Len(N) + 1] = d
          /\ \A q \in 1 .. Len(N) : Append(N, d)[q] = N[q]
      BY <1>3, <2>1
    <3> QED
      BY <3>1, <3>2
  <2>3. ToSet(M) = ToSet(N) \cup {d}
    <3>1. DOMAIN M = 1 .. p + 1 /\ DOMAIN N = 1 .. p
      BY <2>1, <2>2
    <3>2. 1 .. p + 1 = (1 .. p) \cup {p + 1}
      BY <2>2
    <3> QED
      BY <2>2, <3>1, <3>2 DEF ToSet
  <2>4. \A q \in 1 .. p : /\ N[q] \in Node /\ Home(N[q]) /\ N[q] # d
                          /\ heap.next[N[q]] = IF q = p THEN NULL ELSE N[q + 1]
    <3>1. \A q \in 1 .. p : N[q] \in Node
      BY <2>1, <2>2
    <3>2. \A q \in 1 .. p : /\ Home(N[q])
                            /\ heap.next[N[q]] = IF q = p THEN NULL ELSE N[q + 1]
      BY <2>1, <2>2 DEF InOrder
    <3>3. \A c : Home(c) => c # d
      BY <1>1, <1>3 DEF Home
    <3> QED
      BY <3>1, <3>2, <3>3
  <2>5. k = p + 1
    <3>1. k \in Nat /\ k \in 1 .. ix
      <4>1. k \in Nat /\ k \in 0 .. ix
        BY <1>1, <1>3, <1>8
      <4> QED
        BY <1>2, <4>1
    <3>2. k \notin 1 .. p
      <4> SUFFICES ASSUME k \in 1 .. p PROVE FALSE
        OBVIOUS
      <4>1. PICK j \in DOMAIN refs : refs[j].node = NULL /\ refs[j].ix = k
        BY <2>1, <2>2 DEF InOrder
      <4>2. j = i
        BY <1>1, <1>2, <1>3, <4>1 DEF SInv, Numbers
      <4> QED
        BY <1>3, <1>7, <4>1, <4>2
    <3>3. p + 1 \in 1 .. ix
      <4>1. ix \in Nat
        BY DEF IInv, Map
      <4> QED
        BY <2>2, <3>1, <3>2, <4>1
    <3>4. PICK j \in DOMAIN refs : refs[j].ix = p + 1
      BY <3>3 DEF SInv, Numbers
    <3>5. refs[j].node # NULL
      <4>1. refs[j].node = NULL => refs[j].ix <= p
        BY <2>1, <2>2 DEF InOrder
      <4> QED
        BY <2>2, <3>4, <4>1
    <3>6. j \in ToSet(todo)
      <4>1. j \in held /\ refs[j].ix # 0
        BY <1>7, <2>2, <3>4, <3>5
      <4> QED
        BY <1>2, <4>1 DEF SInv, Numbers
    <3>7. k <= p + 1
      BY <1>1, <1>2, <3>4, <3>6, TodoOrder
    <3> QED
      BY <2>2, <3>1, <3>2, <3>7
  <2>6. \A c \in OfType("footnote_definition")' :
          c \in ToSet(M) \/ \E j \in held' : refs'[j].node = c
    <3> SUFFICES ASSUME NEW c \in OfType("footnote_definition")', c \notin ToSet(M)
                 PROVE  \E j \in held' : refs'[j].node = c
      OBVIOUS
    <3>1. c \in OfType("footnote_definition") /\ c \notin ToSet(N) /\ c # d
      BY <1>4, <2>3 DEF OfType
    <3>2. PICK j \in held : refs[j].node = c
      BY <2>1, <3>1 DEF InOrder
    <3> QED
      BY <1>1, <1>6, <3>1, <3>2
  <2>7. /\ heap'.next[d] = NULL
        /\ \A m \in Node \ {d} : heap.next[m] # d =>
             heap'.next[m] = IF heap.parent[m] = root /\ heap.next[m] = NULL THEN d
                             ELSE heap.next[m]
    BY <1>2, <1>3, MovedLinks DEF IInv, Tree, live
  <2>8. ASSUME NEW q \in 1 .. p
        PROVE  /\ Home(N[q])' /\ heap'.next[N[q]] = M[q + 1]
               /\ \E j \in DOMAIN refs' :
                    refs'[j].node = NULL /\ refs'[j].ix = q /\ refs'[j].label = as'.label[N[q]]
    <3>1. /\ N[q] \in Node /\ Home(N[q]) /\ N[q] # d
          /\ heap.next[N[q]] = IF q = p THEN NULL ELSE N[q + 1]
      BY <2>4
    <3>2. Home(N[q])'
      BY <1>4, <1>6, <3>1 DEF Home
    <3>3. q # p => q + 1 \in 1 .. p
      BY <2>2
    <3>4. heap.next[N[q]] # d
      BY <1>3, <2>4, <3>1, <3>3, NullAssumption
    <3>5. heap.parent[N[q]] = root /\ (q # p => N[q + 1] # NULL)
      BY <2>4, <3>1, <3>3, NullAssumption DEF Home
    <3>6. heap'.next[N[q]] = IF q = p THEN d ELSE N[q + 1]
      BY <2>7, <3>1, <3>4, <3>5
    <3>7. heap'.next[N[q]] = M[q + 1]
      BY <2>2, <3>3, <3>6
    <3>8. PICK j \in DOMAIN refs :
            refs[j].node = NULL /\ refs[j].ix = q /\ refs[j].label = as.label[N[q]]
      BY <2>1, <2>2 DEF InOrder
    <3>9. refs'[j].node = NULL /\ refs'[j].ix = q /\ refs'[j].label = as'.label[N[q]]
      BY <1>2, <1>5, <3>8
    <3> QED
      BY <1>5, <3>2, <3>7, <3>9
  <2>9. Home(d)' /\ refs'[i].node = NULL /\ refs'[i].ix = p + 1 /\ refs'[i].label = as'.label[d]
    <3>1. Home(d)'
      BY <1>1, <1>3, <1>4, <1>6 DEF Home
    <3>2. refs[i].label = as.label[d]
      BY <1>1, <1>3 DEF SInv, Named
    <3> QED
      BY <1>1, <1>2, <1>3, <1>5, <2>5, <3>1, <3>2
  <2>10. ASSUME NEW q \in 1 .. p + 1
         PROVE  /\ Home(M[q])' /\ heap'.next[M[q]] = IF q = p + 1 THEN NULL ELSE M[q + 1]
                /\ \E j \in DOMAIN refs' :
                     refs'[j].node = NULL /\ refs'[j].ix = q /\ refs'[j].label = as'.label[M[q]]
    <3>1. CASE q = p + 1
      BY <1>3, <1>5, <2>2, <2>7, <2>9, <3>1
    <3>2. CASE q # p + 1
      <4>1. q \in 1 .. p
        BY <2>2, <3>2
      <4> QED
        BY <2>2, <2>8, <3>2, <4>1
    <3> QED
      BY <3>1, <3>2
  <2>11. \A j \in DOMAIN refs' : refs'[j].node = NULL => refs'[j].ix <= p + 1
    <3> SUFFICES ASSUME NEW j \in DOMAIN refs, refs'[j].node = NULL PROVE refs[j].ix <= p + 1
      BY <1>5
    <3>1. p + 1 <= p + 1
      OBVIOUS
    <3>2. CASE j = i
      BY <1>1, <2>5, <3>1, <3>2
    <3>3. CASE j # i
      <4>1. refs[j].ix <= p
        BY <1>5, <2>1, <2>2, <3>3 DEF InOrder
      <4> QED
        BY <1>8, <2>2, <4>1
    <3> QED
      BY <3>2, <3>3
  <2>12. ASSUME NEW r \in Node, as'.parent_footnote_def[r] # NULL
         PROVE  IF as'.number[r] \in 1 .. p + 1
                THEN as'.parent_footnote_def[r] = M[as'.number[r]]
                ELSE \E j \in held' : /\ refs'[j].node = as'.parent_footnote_def[r]
                                      /\ refs'[j].ix = as'.number[r] /\ refs'[j].ix # 0
    <3>1. as' = as /\ as.parent_footnote_def[r] # NULL
      BY <1>2, <2>12
    <3>2. IF as.number[r] \in 1 .. p
          THEN as.parent_footnote_def[r] = N[as.number[r]]
          ELSE \E j \in held : /\ refs[j].node = as.parent_footnote_def[r]
                               /\ refs[j].ix = as.number[r] /\ refs[j].ix # 0
      BY <2>1, <2>2, <3>1 DEF InOrder
    <3>3. CASE as.number[r] \in 1 .. p
      <4>1. \A q \in 1 .. p : q \in 1 .. p + 1
        OBVIOUS
      <4>2. as.number[r] \in 1 .. p + 1
        BY <3>3, <4>1
      <4> QED
        BY <2>2, <3>1, <3>2, <3>3, <4>2
    <3>4. CASE as.number[r] \notin 1 .. p
      <4>1. PICK j \in held : /\ refs[j].node = as.parent_footnote_def[r]
                              /\ refs[j].ix = as.number[r] /\ refs[j].ix # 0
        BY <3>2, <3>4
      <4>2. j \in DOMAIN refs
        BY <1>7
      <4>3. CASE j = i
        <5>1. as.number[r] = p + 1 /\ as.parent_footnote_def[r] = d
          BY <1>1, <2>5, <4>1, <4>3
        <5> QED
          BY <2>2, <3>1, <5>1
      <4>4. CASE j # i
        <5>1. j \in held' /\ refs'[j] = refs[j]
          BY <1>6, <4>4
        <5>2. as.number[r] # p + 1
          <6>1. refs[j].ix # refs[i].ix
            BY <1>3, <4>1, <4>2, <4>4 DEF SInv, Numbers
          <6> QED
            BY <1>1, <2>5, <4>1, <6>1
        <5>3. \A q \in 1 .. p + 1 : q \in 1 .. p \/ q = p + 1
          OBVIOUS
        <5>4. as.number[r] \notin 1 .. p + 1
          BY <3>4, <5>2, <5>3
        <5> QED
          BY <3>1, <4>1, <5>1, <5>4
      <4> QED
        BY <4>3, <4>4
    <3> QED
      BY <3>3, <3>4
  <2>13. InOrder(M)'
    BY <2>2, <2>6, <2>10, <2>11, <2>12 DEF InOrder
  <2> QED
    BY <2>2, <2>13 DEF Ordered
<1> QED
  BY <1>9, <1>10, <1>11, <1>12, <1>13, <1>14 DEF SInv

\* A stuttering step.
LEMMA StutterSettled == SInv /\ UNCHANGED vars => SInv'
<1> SUFFICES ASSUME SInv, UNCHANGED vars PROVE SInv'
  OBVIOUS
<1>1. /\ UNCHANGED <<heap, as, phase, iter, refs, sorted, ix, todo, tmp>> /\ live' = live
      /\ SortedRefs' = SortedRefs
  BY DEF vars, live, SortedRefs
<1>2. held' = held
  BY <1>1 DEF held
<1>3. \A c : (Home(c)' <=> Home(c)) /\ (Unmet(c)' <=> Unmet(c))
  BY <1>1, <1>2 DEF Home, Unmet
<1>4. Covered'
  BY <1>1, <1>3 DEF SInv, Covered
<1>5. Named'
  BY <1>1, <1>2 DEF SInv, Named, OfType
<1>6. Numbers'
  BY <1>1, <1>2 DEF SInv, Numbers
<1>7. Counted'
  BY <1>1 DEF SInv, Counted
<1>8. Placed'
  BY <1>1, <1>2 DEF SInv, Placed, OfType
<1>9. Ordered'
  <2>1. ASSUME NEW N \in Seq(Node), InOrder(N) PROVE InOrder(N)'
    BY <1>1, <1>2, <1>3, <2>1 DEF InOrder, OfType
  <2> QED
    BY <1>1, <2>1 DEF SInv, Ordered
<1> QED
  BY <1>4, <1>5, <1>6, <1>7, <1>8, <1>9 DEF SInv

\* Every step.
LEMMA StepSettled == IInv /\ SInv /\ IInv' /\ [Next]_vars => SInv'
<1> SUFFICES ASSUME IInv, SInv, IInv', [Next]_vars PROVE SInv'
  OBVIOUS
<1>1. ASSUME NEW p \in LastPath, NEW shape \in Shapes,
             NEW l \in LabelsOf(shape), NEW t \in TightnessOf(shape), Add(p, shape, l, t)
      PROVE  SInv'
  BY <1>1, AddSettled
<1>2. CASE Built
  BY <1>2, BuiltSettled
<1>3. ASSUME phase = "collect", NEW it, it = Forward, Collect(it) \/ Collected(it)
      PROVE  SInv'
  BY <1>3, CollectSettled, CollectedSettled
<1>4. ASSUME phase = "number", NEW it, it = Forward,
             Number(it) \/ Restore(it) \/ Numbered(it)
      PROVE  SInv'
  BY <1>4, NumberSettled, RestoreSettled, NumberedSettled
<1>5. CASE MoveUsed \/ UnlinkUnused \/ UnlinkEntry \/ FreeEntry \/ LoopEnd \/ MapFreed
  BY <1>5, MoveUsedSettled, UnlinkUnusedSettled, UnlinkEntrySettled, FreeEntrySettled,
     LoopEndSettled, MapFreedSettled
<1>6. ASSUME phase = "consolidate", tmp = NULL, NEW it, it = Forward,
             Consolidate(it) \/ Consolidated(it)
      PROVE  SInv'
  BY <1>6, ConsolidateSettled, ConsolidatedSettled
<1>7. CASE Join
  BY <1>7, JoinSettled
<1>8. CASE UNCHANGED vars
  BY <1>8, StutterSettled
<1> QED
  BY <1>1, <1>2, <1>3, <1>4, <1>5, <1>6, <1>7, <1>8 DEF Next, Process

\* The second invariant holds of every state.
THEOREM SInvHolds == Spec => []SInv
<1>1. Init => SInv
  BY InitSettled
<1>2. IInv /\ SInv /\ IInv' /\ [Next]_vars => SInv'
  BY StepSettled
<1> QED
  BY <1>1, <1>2, InvHolds, PTL DEF Spec

-----------------------------------------------------------------------------
(***************************************************************************)
(* The children of the document.                                           *)
(***************************************************************************)
\* What n adds to a list of the nodes in S.
One(S, n) == IF n \in S THEN <<n>> ELSE <<>>

\* f lists what is in S from each node of T on.
Lists(h, S, T, f) ==
  /\ T \in SUBSET Node /\ \A m \in T : h.next[m] \in T \cup {NULL}
  /\ f \in [T \cup {NULL} -> Seq(Node)]
  /\ f[NULL] = <<>> /\ \A m \in T : f[m] = One(S, m) \o f[h.next[m]]

\* There is one such list at most.
LEMMA ListsAgree ==
  ASSUME NEW h, WellFormed(h), Founded(h.parent), NEW S, NEW T, NEW f, Lists(h, S, T, f),
         NEW U, NEW g, Lists(h, S, U, g), NEW n \in T \cap U
  PROVE  f[n] = g[n]
<1> DEFINE Z == {m \in T \cap U : f[m] # g[m]}
<1> SUFFICES ASSUME Z # {} PROVE FALSE
  OBVIOUS
<1>1. Z \in SUBSET Node
  BY DEF Lists
<1>2. PICK m \in Z : h.next[m] \notin Z
  BY <1>1, Descends
<1>3. /\ m \in T /\ m \in U /\ f[m] # g[m]
      /\ h.next[m] \in T \cup {NULL} /\ h.next[m] \in U \cup {NULL}
  BY DEF Lists
<1>4. f[h.next[m]] = g[h.next[m]]
  <2>1. f[NULL] = g[NULL]
    BY DEF Lists
  <2> QED
    BY <1>2, <1>3, <2>1
<1> QED
  BY <1>3, <1>4 DEF Lists

\* There is one from every node.
LEMMA ListsAll ==
  ASSUME NEW h, WellFormed(h), Founded(h.parent), NEW S, NEW n \in Node
  PROVE  \E T, f : n \in T /\ Lists(h, S, T, f)
<1> DEFINE Z == {m \in Node : ~\E T, f : m \in T /\ Lists(h, S, T, f)}
<1> SUFFICES ASSUME Z # {} PROVE FALSE
  OBVIOUS
<1>1. PICK m \in Z : h.next[m] \notin Z
  <2>1. Z \in SUBSET Node
    OBVIOUS
  <2> HIDE DEF Z
  <2>2. PICK m \in Z : h.first_child[m] \notin Z /\ h.next[m] \notin Z
    BY <2>1, Descends
  <2> QED
    BY <2>2
<1>2. m \in Node /\ ~\E T, f : m \in T /\ Lists(h, S, T, f)
  OBVIOUS
<1>3. h.next[m] = NULL \/ (h.next[m] \in Node /\ h.next[m] \notin Z)
  BY <1>1, <1>2, Pointers DEF WellFormed
<1>4. PICK T, f : h.next[m] \in T \cup {NULL} /\ Lists(h, S, T, f)
  <2>1. CASE h.next[m] = NULL
    <3> DEFINE g == [x \in {NULL} |-> <<>>]
    <3>1. g \in [{} \cup {NULL} -> Seq(Node)] /\ g[NULL] = <<>>
      OBVIOUS
    <3> HIDE DEF g
    <3>2. Lists(h, S, {}, g)
      BY <3>1 DEF Lists
    <3> QED
      BY <2>1, <3>2
  <2>2. CASE h.next[m] \in Node /\ h.next[m] \notin Z
    BY <2>2
  <2> HIDE DEF Z
  <2> QED
    BY <1>3, <2>1, <2>2
<1> HIDE DEF Z
<1>5. m \notin T /\ m # NULL
  BY <1>2, <1>4, NullAssumption
<1> DEFINE v == One(S, m) \o f[h.next[m]]
           U == T \cup {m}
           g == [x \in U \cup {NULL} |-> IF x = m THEN v ELSE f[x]]
<1>6. v \in Seq(Node)
  <2>1. One(S, m) \in Seq(Node)
    BY <1>2 DEF One
  <2>2. f[h.next[m]] \in Seq(Node)
    BY <1>4 DEF Lists
  <2> QED
    BY <2>1, <2>2
<1> HIDE DEF v
<1>7. g \in [U \cup {NULL} -> Seq(Node)]
  BY <1>4, <1>6 DEF Lists
<1>8. g[NULL] = <<>> /\ g[m] = v /\ \A x \in T \cup {NULL} : g[x] = f[x]
  BY <1>4, <1>5 DEF Lists
<1>9. U \in SUBSET Node /\ \A x \in U : h.next[x] \in T \cup {NULL}
  BY <1>2, <1>4 DEF Lists
<1> HIDE DEF g
<1>10. \A x \in U : g[x] = One(S, x) \o g[h.next[x]]
  BY <1>4, <1>8, <1>9 DEF Lists, v
<1>11. Lists(h, S, U, g)
  BY <1>7, <1>8, <1>9, <1>10 DEF Lists
<1> QED
  BY <1>2, <1>11

\* The recursive definition of the list has a value.
LEMMA ChildrenAre ==
  ASSUME WellFormed(heap), Founded(heap.parent), NEW S
  PROVE  \E f : /\ ChildrenIn(S) = f[heap.first_child[root]]
                /\ f \in [Pointer -> Seq(Node)]
                /\ f[NULL] = <<>> /\ \A m \in Node : f[m] = One(S, m) \o f[heap.next[m]]
<1> DEFINE Eq(f) == f = [n \in Pointer |->
                          IF n = NULL THEN <<>>
                          ELSE (IF n \in S THEN <<n>> ELSE <<>>) \o f[heap.next[n]]]
           Value(n, v) == \E T, f : n \in T /\ Lists(heap, S, T, f) /\ v = f[n]
           F == [n \in Pointer |-> IF n = NULL THEN <<>> ELSE CHOOSE v : Value(n, v)]
<1>1. \A n \in Node : heap.next[n] \in Pointer /\ n # NULL
  BY NullAssumption DEF WellFormed, Heap
<1>2. ASSUME NEW n \in Node, NEW T, NEW f, n \in T, Lists(heap, S, T, f)
      PROVE  F[n] = f[n]
  <2>1. Value(n, f[n])
    BY <1>2
  <2>2. PICK v : v = CHOOSE w : Value(n, w)
    OBVIOUS
  <2>3. Value(n, v)
    BY <2>1, <2>2
  <2>4. v = f[n]
    BY <1>2, <2>3, ListsAgree
  <2> HIDE DEF Value
  <2>5. n \in Pointer /\ n # NULL
    BY <1>1 DEF Pointer
  <2> QED
    BY <2>2, <2>4, <2>5
<1>3. F[NULL] = <<>>
  BY DEF Pointer
<1> HIDE DEF F
<1>4. ASSUME NEW n \in Node
      PROVE  F[n] \in Seq(Node) /\ F[n] = One(S, n) \o F[heap.next[n]]
  <2>1. PICK T, f : n \in T /\ Lists(heap, S, T, f)
    BY ListsAll
  <2>2. F[n] = f[n] /\ f[n] \in Seq(Node)
    BY <1>2, <2>1 DEF Lists
  <2>3. F[heap.next[n]] = f[heap.next[n]]
    <3>1. CASE heap.next[n] = NULL
      BY <1>3, <2>1, <3>1 DEF Lists
    <3>2. CASE heap.next[n] # NULL
      <4>1. heap.next[n] \in T /\ heap.next[n] \in Node
        BY <2>1, <3>2 DEF Lists
      <4> QED
        BY <1>2, <2>1, <4>1
    <3> QED
      BY <3>1, <3>2
  <2>4. f[n] = One(S, n) \o f[heap.next[n]]
    BY <2>1 DEF Lists
  <2> QED
    BY <2>2, <2>3, <2>4
<1>5. Eq(F)
  <2>1. F = [n \in Pointer |-> F[n]]
    BY DEF F
  <2>2. \A n \in Pointer : F[n] = IF n = NULL THEN <<>>
                                  ELSE (IF n \in S THEN <<n>> ELSE <<>>) \o F[heap.next[n]]
    BY <1>1, <1>3, <1>4 DEF One, Pointer
  <2> QED
    BY <2>1, <2>2
<1>6. PICK f : f = CHOOSE e : Eq(e)
  OBVIOUS
<1>7. Eq(f) /\ ChildrenIn(S) = f[heap.first_child[root]]
  BY <1>5, <1>6 DEF ChildrenIn
<1>8. f[NULL] = <<>> /\ \A m \in Node : f[m] = One(S, m) \o f[heap.next[m]]
  BY <1>1, <1>7 DEF One, Pointer
<1>9. \A m \in Node : f[m] \in Seq(Node)
  <2> DEFINE Z == {m \in Node : f[m] # F[m]}
  <2>1. Z = {}
    <3> SUFFICES ASSUME Z # {} PROVE FALSE
      OBVIOUS
    <3>1. PICK m \in Z : heap.next[m] \notin Z
      BY Descends
    <3>2. f[heap.next[m]] = F[heap.next[m]]
      BY <1>1, <1>3, <1>8, <3>1 DEF Pointer
    <3> QED
      BY <1>4, <1>8, <3>2
  <2> QED
    BY <1>4, <2>1
<1>10. f \in [Pointer -> Seq(Node)]
  <2>1. \A m \in Pointer : f[m] \in Seq(Node)
    <3>1. <<>> \in Seq(Node)
      OBVIOUS
    <3>2. \A m \in Pointer : m \in Node \/ m = NULL
      BY DEF Pointer
    <3> QED
      BY <1>8, <1>9, <3>1, <3>2
  <2>2. f = [m \in Pointer |-> f[m]]
    BY <1>7
  <2> QED
    BY <2>1, <2>2
<1> QED
  BY <1>7, <1>8, <1>10

\* Everything is in the tree of the document.
LEMMA AllBelow ==
  ASSUME NEW h, Fine(h), Whole(h)
  PROVE  Live(h) = BelowOf(h, root)
<1> DEFINE F == BelowOf(h, root)
           Z == Live(h) \ F
<1>1. Descendants(h, F, root) /\ root \in Node
  BY FineRoot, FreeTreeLinks
<1> HIDE DEF F
<1>2. F \in SUBSET Live(h)
  BY <1>1 DEF Descendants
<1>3. Z = {}
  <2> SUFFICES ASSUME Z # {} PROVE FALSE
    OBVIOUS
  <2>1. PICK m \in Z : h.parent[m] \notin Z
    BY DEF Fine, Founded, Live
  <2>2. m \in Node /\ m # root /\ h.parent[m] # NULL
    BY <1>1 DEF Descendants, Whole, Live
  <2>3. h.parent[m] \in Live(h)
    BY <2>2, ParentsLive DEF Fine
  <2>4. h.parent[m] \in F
    BY <2>1, <2>3
  <2> QED
    BY <1>1, <2>2, <2>4 DEF Descendants
<1> QED
  BY <1>2, <1>3 DEF F

\* N ends a list of children: each is followed by the next, and only they are
\* in S.
Ending(N, S) ==
  /\ \A k \in 1 .. Len(N) :
       /\ N[k] \in Node /\ heap.parent[N[k]] = root
       /\ heap.next[N[k]] = IF k = Len(N) THEN NULL ELSE N[k + 1]
  /\ \A m \in Node : heap.parent[m] = root => (m \in S <=> m \in ToSet(N))

\* From a node of N on there are those that follow it.
LEMMA ListedEnd ==
  ASSUME NEW S, NEW N \in Seq(Node), Ending(N, OfType("footnote_definition")),
         ToSet(N) \subseteq S,
         NEW f \in [Pointer -> Seq(Node)], f[NULL] = <<>>,
         \A m \in Node : f[m] = One(S, m) \o f[heap.next[m]]
  PROVE  Len(N) > 0 => f[N[1]] = N
<1> SUFFICES ASSUME Len(N) > 0 PROVE f[N[1]] = N
  OBVIOUS
<1>1. PICK p \in Nat : p = Len(N) /\ p > 0 /\ DOMAIN N = 1 .. p
  OBVIOUS
<1> DEFINE Z == {k \in 1 .. p : f[N[k]] # SubSeq(N, k, p)}
<1>2. \A k \in 1 .. p : /\ N[k] \in Node /\ N[k] \in S
                        /\ heap.next[N[k]] = IF k = p THEN NULL ELSE N[k + 1]
  <2>1. \A k \in 1 .. p : N[k] \in ToSet(N)
    BY <1>1 DEF ToSet
  <2> QED
    BY <1>1, <2>1 DEF Ending
<1>3. Z = {}
  <2> SUFFICES ASSUME Z # {} PROVE FALSE
    OBVIOUS
  <2>1. PICK k \in Z : \A j \in Z : j <= k
    <3>1. Z \in SUBSET (0 .. p)
      OBVIOUS
    <3> HIDE DEF Z
    <3> QED
      BY <3>1, GreatestNumber
  <2>2. k \in 1 .. p /\ f[N[k]] = <<N[k]>> \o f[heap.next[N[k]]]
    BY <1>2 DEF One
  <2>3. f[heap.next[N[k]]] = SubSeq(N, k + 1, p)
    <3>1. CASE k = p
      <4>1. SubSeq(N, k + 1, p) = <<>>
        BY <3>1, SubSeqEmpty
      <4>2. heap.next[N[k]] = NULL
        BY <1>2, <2>2, <3>1
      <4> QED
        BY <4>1, <4>2
    <3>2. CASE k # p
      <4>1. k + 1 \in 1 .. p /\ ~(k + 1 <= k)
        BY <2>2, <3>2
      <4>2. heap.next[N[k]] = N[k + 1]
        BY <1>2, <2>2, <3>2
      <4> QED
        BY <2>1, <4>1, <4>2
    <3> QED
      BY <3>1, <3>2
  <2>4. SubSeq(N, k, p) = <<N[k]>> \o SubSeq(N, k + 1, p)
    <3>1. k \in 1 .. Len(N) /\ p \in k .. Len(N)
      BY <1>1, <2>2
    <3> QED
      BY <3>1, SubSeqRecursiveFirst
  <2> QED
    BY <2>2, <2>3, <2>4
<1>4. f[N[1]] = SubSeq(N, 1, p)
  <2>1. 1 \in 1 .. p
    BY <1>1
  <2> QED
    BY <1>3, <2>1
<1> QED
  BY <1>1, <1>4, SubSeqFull

\* The definitions end the document, and are all that are there.
LEMMA EndIs ==
  ASSUME Fine(heap), Whole(heap), NEW N \in Seq(Node), Ending(N, OfType("footnote_definition"))
  PROVE  Definitions = N /\ \E P \in Seq(Node) : TopLevel = P \o N
<1> DEFINE D == OfType("footnote_definition")
<1>1. /\ WellFormed(heap) /\ Founded(heap.parent) /\ Linked(heap) /\ heap \in Heap
      /\ root \in Node /\ root # NULL
  BY FineRoot, NullAssumption DEF Fine, WellFormed
<1>2. PICK f : /\ Definitions = f[heap.first_child[root]]
               /\ f \in [Pointer -> Seq(Node)]
               /\ f[NULL] = <<>> /\ \A m \in Node : f[m] = One(D, m) \o f[heap.next[m]]
  BY <1>1, ChildrenAre DEF Definitions
<1>3. PICK g : /\ TopLevel = g[heap.first_child[root]]
               /\ g \in [Pointer -> Seq(Node)]
               /\ g[NULL] = <<>> /\ \A m \in Node : g[m] = One(Node, m) \o g[heap.next[m]]
  BY <1>1, ChildrenAre DEF TopLevel
<1>4. \A m \in Node : heap.parent[m] = root => (m \in D <=> m \in ToSet(N))
  BY DEF Ending
<1>5. PICK p \in Nat : p = Len(N) /\ ToSet(N) = {N[k] : k \in 1 .. p}
  BY DEF ToSet
<1>6. \A k \in 1 .. p : /\ N[k] \in Node /\ heap.parent[N[k]] = root /\ N[k] # NULL
                        /\ heap.next[N[k]] = IF k = p THEN NULL ELSE N[k + 1]
  BY <1>5, NullAssumption DEF Ending
<1>7. ToSet(N) \subseteq D /\ ToSet(N) \subseteq Node
  BY <1>4, <1>5, <1>6
<1>8. Len(N) > 0 => f[N[1]] = N /\ g[N[1]] = N
  BY <1>2, <1>3, <1>7, ListedEnd
<1>9. p = 0 => N = <<>>
  BY <1>5, EmptySeq
<1>10. ASSUME NEW m \in Node, m \notin ToSet(N), NEW k \in 1 .. p, heap.next[m] = N[k]
       PROVE  k = 1
  <2> SUFFICES ASSUME k # 1 PROVE FALSE
    OBVIOUS
  <2> DEFINE j == k - 1
  <2>1. j \in 1 .. p /\ j # p /\ j + 1 = k
    OBVIOUS
  <2> HIDE DEF j
  <2>2. heap.next[N[j]] = N[k] /\ N[j] \in Node /\ N[k] # NULL
    BY <1>6, <2>1
  <2>3. heap.prev[N[k]] = N[j] /\ heap.prev[N[k]] = m
    BY <1>1, <1>10, <2>2 DEF Linked, NextLinked
  <2> QED
    BY <1>5, <1>10, <2>1, <2>3
<1>11. ASSUME NEW m \in Node, heap.parent[m] = root, m \notin ToSet(N), heap.next[m] = NULL
       PROVE  p = 0
  <2> SUFFICES ASSUME p # 0 PROVE FALSE
    OBVIOUS
  <2>1. p \in 1 .. p
    OBVIOUS
  <2>2. heap.next[N[p]] = NULL /\ heap.parent[N[p]] = root /\ N[p] \in Node
    BY <1>6, <2>1
  <2>3. heap.last_child[root] = m /\ heap.last_child[root] = N[p]
    BY <1>1, <1>11, <2>2 DEF Linked, ParentLinked
  <2> QED
    BY <1>5, <1>11, <2>1, <2>3
<1> DEFINE Before(m) == f[m] = N /\ \E P \in Seq(Node) : g[m] = P \o N
           Z == {m \in Node : heap.parent[m] = root /\ m \notin ToSet(N) /\ ~Before(m)}
<1>12. Z = {}
  <2> SUFFICES ASSUME Z # {} PROVE FALSE
    OBVIOUS
  <2>1. PICK m \in Z : heap.next[m] \notin Z
    <3>1. Z \in SUBSET Node
      OBVIOUS
    <3> HIDE DEF Z
    <3>2. PICK m \in Z : heap.first_child[m] \notin Z /\ heap.next[m] \notin Z
      BY <1>1, <3>1, Descends
    <3> QED
      BY <3>2
  <2>2. m \in Node /\ heap.parent[m] = root /\ m \notin ToSet(N) /\ m \notin D
    BY <1>4
  <2> HIDE DEF D
  <2>3. f[m] = <<>> \o f[heap.next[m]] /\ g[m] = <<m>> \o g[heap.next[m]]
    BY <1>2, <1>3, <2>2 DEF One
  <2>4. heap.next[m] = NULL \/ (heap.next[m] \in Node /\ heap.parent[heap.next[m]] = root)
    BY <1>1, <2>2, Pointers DEF Linked, NextLinked
  <2>5. Before(m)
    <3>1. CASE heap.next[m] = NULL
      <4>1. N = <<>>
        BY <1>9, <1>11, <2>2, <3>1
      <4>2. f[m] = <<>> \o <<>> /\ g[m] = <<m>> \o <<>>
        BY <1>2, <1>3, <2>3, <3>1
      <4>3. <<>> \o <<>> = <<>> /\ <<m>> \in Seq(Node)
        BY <2>2
      <4> QED
        BY <4>1, <4>2, <4>3
    <3>2. CASE heap.next[m] \in Node /\ heap.next[m] \in ToSet(N)
      <4>1. PICK k \in 1 .. p : heap.next[m] = N[k]
        BY <1>5, <3>2
      <4>2. k = 1
        BY <1>10, <2>2, <4>1
      <4>3. f[heap.next[m]] = N /\ g[heap.next[m]] = N
        BY <1>5, <1>8, <4>1, <4>2
      <4>4. <<>> \o N = N /\ <<m>> \in Seq(Node)
        BY <2>2
      <4> QED
        BY <2>3, <4>3, <4>4
    <3>3. CASE heap.next[m] \in Node /\ heap.next[m] \notin ToSet(N)
      <4>1. Before(heap.next[m])
        BY <2>1, <2>4, <3>3, NullAssumption
      <4>2. PICK P \in Seq(Node) : g[heap.next[m]] = P \o N
        BY <4>1
      <4>3. f[m] = <<>> \o N /\ g[m] = <<m>> \o (P \o N)
        BY <2>3, <4>1, <4>2
      <4>4. <<m>> \in Seq(Node) /\ <<m>> \o P \in Seq(Node)
        BY <2>2
      <4>5. <<>> \o N = N /\ <<m>> \o (P \o N) = (<<m>> \o P) \o N
        BY <4>4
      <4> QED
        BY <4>3, <4>4, <4>5
    <3> QED
      BY <2>4, <3>1, <3>2, <3>3
  <2> QED
    BY <2>5
<1> DEFINE c == heap.first_child[root]
<1>13. CASE c = NULL
  <2>1. \A m \in Node : heap.parent[m] # root
    BY <1>1, <1>13, BarrenIs
  <2>2. p = 0
    <3> SUFFICES ASSUME p # 0 PROVE FALSE
      OBVIOUS
    <3>1. 1 \in 1 .. p
      OBVIOUS
    <3> QED
      BY <1>6, <2>1, <3>1
  <2>3. N = <<>> /\ <<>> \o <<>> = <<>> /\ <<>> \in Seq(Node)
    BY <1>9, <2>2
  <2> QED
    BY <1>2, <1>3, <1>13, <2>3
<1>14. CASE c # NULL
  <2>1. c \in Node /\ heap.parent[c] = root /\ heap.prev[c] = NULL
    BY <1>1, <1>14, Pointers DEF Linked, FirstLinked
  <2>2. CASE c \in ToSet(N)
    <3>1. PICK k \in 1 .. p : c = N[k]
      BY <1>5, <2>2
    <3>2. k = 1
      <4> SUFFICES ASSUME k # 1 PROVE FALSE
        OBVIOUS
      <4> DEFINE j == k - 1
      <4>1. j \in 1 .. p /\ j # p /\ j + 1 = k
        OBVIOUS
      <4> HIDE DEF j
      <4>2. heap.next[N[j]] = N[k] /\ N[j] \in Node /\ N[k] # NULL /\ N[j] # NULL
        BY <1>6, <4>1
      <4> QED
        BY <1>1, <2>1, <3>1, <4>2 DEF Linked, NextLinked
    <3>3. f[c] = N /\ g[c] = N
      BY <1>5, <1>8, <3>1, <3>2
    <3>4. <<>> \o N = N /\ <<>> \in Seq(Node)
      OBVIOUS
    <3> QED
      BY <1>2, <1>3, <3>3, <3>4
  <2>3. CASE c \notin ToSet(N)
    <3>1. Before(c)
      BY <1>12, <2>1, <2>3
    <3> QED
      BY <1>2, <1>3, <3>1
  <2> QED
    BY <2>2, <2>3
<1> QED
  BY <1>13, <1>14

-----------------------------------------------------------------------------
(***************************************************************************)
(* What the two invariants come to.                                        *)
(***************************************************************************)
\* What ends a list is a suffix of it.
LEMMA SuffixIs ==
  ASSUME NEW T, NEW P \in Seq(T), NEW N \in Seq(T)
  PROVE  IsSuffix(N, P \o N)
<1> DEFINE w == P \o N
           n == Len(N)
           p == Len(P)
<1>1. /\ n \in Nat /\ p \in Nat /\ w \in Seq(T) /\ Len(w) = p + n
      /\ \A i \in 1 .. p + n : w[i] = IF i <= p THEN P[i] ELSE N[i - p]
  BY ConcatProperties
<1> HIDE DEF w, n, p
<1>2. \A i \in 1 .. n : w[p + n - i + 1] = N[n - i + 1] /\ N[n - i + 1] \in T
  <2> SUFFICES ASSUME NEW i \in 1 .. n
               PROVE  w[p + n - i + 1] = N[n - i + 1] /\ N[n - i + 1] \in T
    OBVIOUS
  <2> DEFINE k == n - i + 1
  <2>1. k \in 1 .. n /\ p + k \in 1 .. p + n /\ ~(p + k <= p) /\ (p + k) - p = k
    BY <1>1
  <2>2. p + n - i + 1 = p + k
    BY <1>1
  <2> HIDE DEF k
  <2>3. w[p + k] = N[k] /\ N[k] \in T
    BY <1>1, <2>1, ElementOfSeq DEF n
  <2> QED
    BY <2>2, <2>3 DEF k
<1> DEFINE r == Reverse(N)
           q == Reverse(w)
<1>3. r = [i \in 1 .. n |-> N[n - i + 1]] /\ q = [i \in 1 .. p + n |-> w[p + n - i + 1]]
  BY <1>1 DEF Reverse, n
<1> HIDE DEF r, q
<1>4. /\ r \in Seq(T) /\ Len(r) = n /\ Len(q) = p + n
      /\ \A i \in 1 .. n : r[i] = q[i] /\ q[i] \in T
  <2>1. \A i \in 1 .. n : r[i] = N[n - i + 1] /\ q[i] = w[p + n - i + 1]
    BY <1>1, <1>3
  <2>2. r \in [1 .. n -> T]
    BY <1>2, <1>3
  <2>3. Len(r) = n /\ Len(q) = p + n
    BY <1>1, <1>3
  <2>4. r \in Seq(T)
    <3>1. n \in Nat
      BY <1>1
    <3> QED
      BY <2>2, <3>1
  <2>5. \A i \in 1 .. n : r[i] = q[i] /\ q[i] \in T
    BY <1>2, <2>1, <1>1
  <2> QED
    BY <2>3, <2>4, <2>5
<1>5. SubSeq(q, 1, n) = r
  <2>1. /\ SubSeq(q, 1, n) \in Seq(T) /\ Len(SubSeq(q, 1, n)) = n
        /\ \A i \in 1 .. n : SubSeq(q, 1, n)[i] = q[i]
    <3>1. /\ SubSeq(q, 1, n) \in Seq(T)
          /\ Len(SubSeq(q, 1, n)) = IF 1 <= n THEN n - 1 + 1 ELSE 0
          /\ \A i \in 1 .. n - 1 + 1 : SubSeq(q, 1, n)[i] = q[1 + i - 1]
      BY <1>1, <1>4, SubSeqProperties
    <3>2. \A i \in 1 .. n : i \in 1 .. n - 1 + 1 /\ 1 + i - 1 = i
      BY <1>1
    <3> QED
      BY <1>1, <3>1, <3>2
  <2> QED
    BY <1>4, <2>1, SeqEqual
<1>6. n <= p + n
  BY <1>1
<1>7. IsPrefix(r, q)
  BY <1>4, <1>5, <1>6 DEF IsPrefix
<1> QED
  BY <1>7 DEF IsSuffix, r, q, w

\* The two invariants imply what the document is in the end.
LEMMA InvSettled == IInv /\ SInv => Settled
<1> SUFFICES ASSUME IInv, SInv PROVE Settled
  OBVIOUS
<1>1. phase = "done" => \A n \in OfType("text") :
        heap.next[n] # NULL => heap.type[heap.next[n]] # "text"
  BY DEF SInv, Placed
<1>2. ASSUME phase \in {"consolidate", "done"}
      PROVE  /\ live = BelowOf(heap, root)
             /\ ToSet(Definitions) = OfType("footnote_definition")
             /\ IsSuffix(Definitions, TopLevel)
             /\ \A i, j \in DOMAIN Definitions :
                  as.label[Definitions[i]] = as.label[Definitions[j]] => i = j
             /\ \A r \in OfType("footnote_reference") :
                  /\ as.number[r] \in DOMAIN Definitions
                  /\ as.parent_footnote_def[r] = Definitions[as.number[r]]
                  /\ as.label[r] = as.label[as.parent_footnote_def[r]]
                  /\ as.ref_ix[r] \in 1 .. as.def_count[as.parent_footnote_def[r]]
             /\ \A q, r \in OfType("footnote_reference") :
                  as.label[q] = as.label[r] /\ as.ref_ix[q] = as.ref_ix[r] => q = r
             /\ \A n \in OfType("text"), i \in DOMAIN refs :
                  refs[i].label = as.label[n] => refs[i].label \in LongLabel
             /\ \A i, j \in DOMAIN refs :
                  refs[i].node = NULL /\ refs[i].label = refs[j].label => i <= j
  <2> DEFINE D == OfType("footnote_definition")
             R == OfType("footnote_reference")
  <2>1. held = {} /\ Fine(heap) /\ Whole(heap) /\ D \in SUBSET Node /\ R \in SUBSET Node
    BY <1>2 DEF IInv, Tree, SInv, Placed, Whole, held, OfType, live, Live
  <2>2. PICK N \in Seq(Node) : InOrder(N)
    BY <1>2 DEF SInv, Ordered
  <2>3. PICK p \in Nat : p = Len(N) /\ DOMAIN N = 1 .. p /\ ToSet(N) = {N[k] : k \in 1 .. p}
    BY DEF ToSet
  <2>4. \A k \in 1 .. p : /\ N[k] \in D /\ heap.parent[N[k]] = root
                          /\ heap.next[N[k]] = IF k = p THEN NULL ELSE N[k + 1]
    BY <2>2, <2>3 DEF InOrder, Home, OfType
  <2>5. ToSet(N) = D
    BY <2>1, <2>2, <2>3, <2>4 DEF InOrder
  <2>6. Ending(N, D)
    <3>1. \A k \in 1 .. Len(N) : N[k] \in Node
      BY <2>1, <2>3, <2>4
    <3> QED
      BY <2>3, <2>4, <2>5, <3>1 DEF Ending
  <2>7. Definitions = N /\ \E P \in Seq(Node) : TopLevel = P \o N
    BY <2>1, <2>6, EndIs
  <2>8. IsSuffix(Definitions, TopLevel)
    BY <2>7, SuffixIs
  <2>9. \A a \in DOMAIN refs : refs[a].ix # 0 => a \in SortedRefs
    BY DEF SInv, Numbers, Named
  <2>10. \A i, j \in 1 .. p : as.label[N[i]] = as.label[N[j]] => i = j
    <3> SUFFICES ASSUME NEW i \in 1 .. p, NEW j \in 1 .. p, as.label[N[i]] = as.label[N[j]]
                 PROVE  i = j
      OBVIOUS
    <3>1. PICK a \in DOMAIN refs : refs[a].ix = i /\ refs[a].label = as.label[N[i]]
      BY <2>2, <2>3 DEF InOrder
    <3>2. PICK b \in DOMAIN refs : refs[b].ix = j /\ refs[b].label = as.label[N[j]]
      BY <2>2, <2>3 DEF InOrder
    <3>3. a \in SortedRefs /\ b \in SortedRefs
      BY <2>9, <3>1, <3>2
    <3>4. \A k \in SortedRefs : refs[k].label = refs[a].label => a = k
      BY <3>3, SortedRefsIs
    <3>5. a = b
      BY <3>1, <3>2, <3>3, <3>4
    <3> QED
      BY <3>1, <3>2, <3>5
  <2>11. ASSUME NEW r \in R
         PROVE  /\ as.number[r] \in 1 .. p
                /\ as.parent_footnote_def[r] = N[as.number[r]]
                /\ as.label[r] = as.label[as.parent_footnote_def[r]]
                /\ as.ref_ix[r] \in 1 .. as.def_count[as.parent_footnote_def[r]]
    <3>1. r \in Node /\ as.parent_footnote_def[r] # NULL
      BY <1>2, <2>1 DEF SInv, Placed
    <3>2. as.number[r] \in 1 .. p /\ as.parent_footnote_def[r] = N[as.number[r]]
      BY <2>1, <2>2, <2>3, <3>1 DEF InOrder
    <3> QED
      BY <3>1, <3>2 DEF SInv, Counted
  <2>12. ASSUME NEW q \in R, NEW r \in R,
                as.label[q] = as.label[r], as.ref_ix[q] = as.ref_ix[r]
         PROVE  q = r
    <3>1. /\ q \in Node /\ as.parent_footnote_def[q] # NULL
          /\ r \in Node /\ as.parent_footnote_def[r] # NULL
      BY <1>2, <2>1 DEF SInv, Placed
    <3> QED
      BY <2>12, <3>1 DEF SInv, Counted
  <2>13. \A i, j \in DOMAIN refs :
           refs[i].node = NULL /\ refs[i].label = refs[j].label => i <= j
    <3> SUFFICES ASSUME NEW i \in DOMAIN refs, NEW j \in DOMAIN refs, refs[i].node = NULL,
                        refs[i].label = refs[j].label
                 PROVE  i <= j
      OBVIOUS
    <3>1. i \in SortedRefs
      BY <2>9 DEF SInv, Numbers
    <3>2. i \in Int /\ j \in Int /\ j >= 1
      BY DEF IInv, Map
    <3> QED
      BY <3>1, <3>2 DEF SortedRefs
  <2> QED
    BY <1>2, <2>1, <2>3, <2>5, <2>7, <2>8, <2>10, <2>11, <2>12, <2>13, AllBelow
    DEF SInv, Named, live
<1> QED
  BY <1>1, <1>2 DEF Settled

\* When process_footnotes and cmark_consolidate_text_nodes are through, the
\* definitions, the references and the texts are as they should be.
THEOREM FootnotesSettle == Spec => []Settled
<1>1. IInv /\ SInv => Settled
  BY InvSettled
<1> QED
  BY <1>1, InvHolds, SInvHolds, PTL
=============================================================================
